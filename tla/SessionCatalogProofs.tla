------------------------ MODULE SessionCatalogProofs ------------------------
(***************************************************************************)
(* What holds of the catalogs for every set of names, threads, programs    *)
(* and versions.  Proved with TLAPS.                                       *)
(***************************************************************************)
EXTENDS SessionCatalog, FiniteSetTheorems, TLAPS

(* The versions a call may write were counted when it began, and a program *)
(* that is at a block has that block.                                      *)
CallInBounds ==
  \A t \in Threads :
    /\ pc[t] \in {"register", "set"} => call[t].base + 1 \in Version
    /\ pc[t] \in {"register", "set", "delete", "unregister", "raised"} =>
         t \in Loaders /\ call[t].name \in Names
    /\ pc[t] \in {"register", "set"} => call[t].op \in {"load", "transform"}
    /\ call[t].base + Len(call[t].program) <= version
    /\ pc[t] \in {"resolve", "run"} =>
         call[t].program \in Programs /\ block[t] < Len(call[t].program)
    /\ pc[t] = "parse" => call[t].program \in Programs
    /\ pc[t] \notin {"resolve", "run", "commit", "publish"} => block[t] = 0

TypeInv == TypeOK /\ CallInBounds

LEMMA UpdateType ==
  ASSUME NEW d \in Dict, NEW u \in Dict
  PROVE  Update(d, u) \in Dict
<1>1. IsFiniteSet(Names)
  BY CatalogAssumption
<1>2. \A S \in SUBSET Names : Cardinality(S) \in Nat
  BY <1>1, FS_Subset, FS_CardinalityType
<1>3. Count(d) \in Nat
  BY <1>2 DEF Count
<1>4. \A n \in Names :
        Cardinality({m \in Added(d, u) : u.at[m] <= u.at[n]}) \in Nat
  BY <1>2 DEF Added
<1>5. Update(d, u).data \in [Names -> Entry]
  BY DEF Update, Dict
<1>6. Update(d, u).at \in [Names -> Nat]
  BY <1>3, <1>4 DEF Update, Dict
<1> QED
  BY <1>5, <1>6 DEF Update, Dict

LEMMA AliasType ==
  ASSUME NEW d \in Dict, NEW k \in Keys
  PROVE  ResolveAlias(d, k) \in Entry /\ LastByKey(d, k) \in Entry
<1>1. ASSUME NEW S \in SUBSET Names, S # {}
      PROVE  d.data[CHOOSE n \in S : TRUE] \in Entry
  BY <1>1 DEF Dict
<1>2. None \in Entry
  BY DEF Entry
<1> QED
  BY <1>1, <1>2 DEF ResolveAlias, LastByKey, Spelled

LEMMA KeyType == \A n \in Names : KeyOf(n) \in Keys
BY DEF Names, KeyOf

LEMMA InputType ==
  ASSUME NEW d \in Dict, NEW r \in [Keys -> Entry], NEW n \in Names
  PROVE  ResolveInput(d, r, n) \in Entry
BY AliasType, KeyType DEF ResolveInput

LEMMA OutputsType ==
  ASSUME NEW b, NEW v \in Version
  PROVE  BlockOutputs(b, v) \in Dict
BY DEF BlockOutputs, Dict, Entry

LEMMA NoDictType == NoDict \in Dict
BY DEF NoDict, Dict, Entry

(* the versions a dict holds *)
LEMMA DataType == \A d \in Dict : {d.data[n] : n \in Names} \ {None} \subseteq Version
BY DEF Dict, Entry

-----------------------------------------------------------------------------
(* Types of the catalogs and of the calls in flight, for every instance. *)

LEMMA TypeInit == Init => TypeInv
<1> SUFFICES ASSUME Init PROVE TypeInv
  OBVIOUS
<1>1. TypeOK
  <2>1. None \in Entry
    BY DEF Entry
  <2>2. NoCall \in Call
    BY CatalogAssumption DEF NoCall, CallOf, Call
  <2>3. 0 \in 0..MaxVersion
    BY CatalogAssumption
  <2> QED
    BY <2>1, <2>2, <2>3, NoDictType DEF Init, TypeOK, AllModes, Phases, LastWrite
<1>2. CallInBounds
  BY DEF Init, CallInBounds, NoCall, CallOf
<1> QED
  BY <1>1, <1>2 DEF TypeInv

LEMMA TypeStep == TypeInv /\ [Next]_vars => TypeInv'
<1> SUFFICES ASSUME TypeInv, [Next]_vars PROVE TypeInv'
  OBVIOUS
<1> USE DEF TypeInv, catalogs, submitVars, threadVars, history, Goto
<1>0. None \in Entry /\ NoCall \in Call /\ MaxVersion \in Nat
  BY CatalogAssumption DEF Entry, NoCall, CallOf, Call
<1>a. version \in Nat /\ NoCall.base + Len(NoCall.program) <= version
  <2>1. version \in Nat
    BY <1>0 DEF TypeOK
  <2>2. NoCall.base = 0 /\ NoCall.program = <<>> /\ Len(<<>>) = 0
    BY DEF NoCall, CallOf
  <2> QED
    BY <2>1, <2>2
<1>1. ASSUME NEW t \in Threads, NEW op \in {"load", "transform"},
             NEW n \in LoadNames, BeginWrite(t, op, n)
      PROVE  TypeInv'
  <2>1. version \in Nat /\ version' \in 0..MaxVersion /\ version' \in Version
    BY <1>1, <1>0 DEF BeginWrite, TypeOK, Version
  <2>2. CallOf(op, n, <<>>, None, version, TRUE, FALSE) \in Call
    BY <1>0, <1>1, <2>1, CatalogAssumption DEF Call, CallOf, TypeOK
  <2>3. TypeOK'
    BY <1>1, <2>1, <2>2 DEF BeginWrite, TypeOK, Phases
  <2>4. CallInBounds'
    <3>1. \A s \in Threads \ {t} : call'[s] = call[s] /\ pc'[s] = pc[s]
      BY <1>1 DEF BeginWrite, TypeOK
    <3>2. call'[t] = CallOf(op, n, <<>>, None, version, TRUE, FALSE)
      BY <1>1 DEF BeginWrite, TypeOK
    <3>3. /\ pc[t] = "idle" /\ pc'[t] = "register" /\ block' = block
          /\ version' = version + 1 /\ t \in Loaders /\ n \in Names
      BY <1>1, CatalogAssumption DEF BeginWrite, TypeOK
    <3>4. /\ call'[t].base = version /\ Len(call'[t].program) = 0
          /\ call'[t].op = op /\ call'[t].name = n
      BY <3>2 DEF CallOf
    <3>5. \A s \in Threads : Len(call[s].program) \in Nat /\ call[s].base \in Nat
      BY CatalogAssumption DEF TypeOK, Call
    <3> QED
      BY <1>a, <2>1, <3>1, <3>3, <3>4, <3>5 DEF CallInBounds
  <2> QED
    BY <2>3, <2>4
<1>2. ASSUME NEW t \in Threads, LoadRegister(t)
      PROVE  TypeInv'
  <2>1. call[t].base + 1 \in Entry /\ TheKey(t) \in Keys
    BY <1>2, KeyType DEF LoadRegister, CallInBounds, Entry, TheKey
  <2>2. TypeOK'
    BY <1>2, <2>1 DEF LoadRegister, TypeOK, Phases
  <2>3. CallInBounds'
    BY <1>2 DEF LoadRegister, CallInBounds, TypeOK
  <2> QED
    BY <2>2, <2>3
<1>3. ASSUME NEW t \in Threads, LoadSet(t)
      PROVE  TypeInv'
  <2>1. call[t].base + 1 \in Entry /\ TheKey(t) \in Keys
    BY <1>3, KeyType DEF LoadSet, CallInBounds, Entry, TheKey
  <2>2. [op |-> call[t].op, data |-> call[t].base + 1] \in LastWrite
    BY <1>3, <2>1 DEF LoadSet, CallInBounds, LastWrite
  <2>3. TypeOK'
    BY <1>0, <1>3, <2>1, <2>2 DEF LoadSet, TypeOK, Phases, Return, Wrote
  <2>4. CallInBounds'
    BY <1>3, <1>a DEF LoadSet, CallInBounds, TypeOK, Return
  <2> QED
    BY <2>3, <2>4
<1>4. ASSUME NEW t \in Threads, NEW n \in UnloadNames, NEW ok \in BOOLEAN,
             BeginUnload(t, n, ok)
      PROVE  TypeInv'
  <2>1. CallOf("unload", n, <<>>, None, 0, ok, FALSE) \in Call
    BY <1>0, CatalogAssumption DEF Call, CallOf
  <2>2. TypeOK'
    BY <1>4, <2>1 DEF BeginUnload, TypeOK, Phases
  <2>3. CallInBounds'
    BY <1>4, CatalogAssumption DEF BeginUnload, CallInBounds, TypeOK, NoCall, CallOf
  <2> QED
    BY <2>2, <2>3
<1>5. ASSUME NEW t \in Threads, UnloadDelete(t)
      PROVE  TypeInv'
  <2> DEFINE held == datasets[TheKey(t)] # None
             c == CallOf("unload", call[t].name, <<>>, None, 0,
                         call[t].missingOk, held)
  <2>1. c \in Call
    BY <1>0 DEF TypeOK, Call, CallOf
  <2>2. TypeOK'
    BY <1>0, <1>5, <2>1 DEF UnloadDelete, TypeOK, Phases
  <2>3. CallInBounds'
    BY <1>5 DEF UnloadDelete, CallInBounds, TypeOK, CallOf
  <2> QED
    BY <2>2, <2>3
<1>6. ASSUME NEW t \in Threads, UnloadUnregister(t)
      PROVE  TypeInv'
  <2>1. [op |-> "unload", data |-> None] \in LastWrite
    BY <1>0 DEF LastWrite
  <2>a. registered' \in [Keys -> Entry]
    BY <1>0, <1>6 DEF UnloadUnregister, TypeOK
  <2>b. CASE registered[TheKey(t)] # None \/ call[t].missingOk
    <3>1. Return(t) /\ Wrote(TheKey(t), "unload", None)
      BY <1>6, <2>b DEF UnloadUnregister
    <3>2. last' \in [Keys -> LastWrite]
      BY <2>1, <3>1 DEF Wrote, TypeOK
    <3>3. TypeOK'
      BY <1>0, <1>6, <2>a, <3>1, <3>2 DEF UnloadUnregister, TypeOK, Phases, Return
    <3>4. CallInBounds'
      BY <1>6, <1>a, <3>1 DEF UnloadUnregister, CallInBounds, TypeOK, Return
    <3> QED
      BY <3>3, <3>4
  <2>c. CASE ~(registered[TheKey(t)] # None \/ call[t].missingOk)
    BY <1>6, <2>a, <2>c DEF UnloadUnregister, TypeOK, Phases, CallInBounds
  <2> QED
    BY <2>b, <2>c
<1>7. ASSUME NEW t \in Threads, Raise(t)
      PROVE  TypeInv'
  <2>1. TypeOK'
    BY <1>0, <1>7 DEF Raise, TypeOK, Phases, Return
  <2>2. CallInBounds'
    BY <1>7, <1>a DEF Raise, CallInBounds, TypeOK, Return
  <2> QED
    BY <2>1, <2>2
<1>8. ASSUME NEW t \in Threads, NEW p \in Programs, NEW m \in Modes,
             BeginSubmit(t, p, m)
      PROVE  TypeInv'
  <2>1. Len(p) \in Nat
    BY CatalogAssumption
  <2>2. CallOf("submit", None, p, m, version, TRUE, FALSE) \in Call
    BY <1>0 DEF Call, CallOf, TypeOK
  <2>3. version' \in 0..MaxVersion
    BY <1>0, <1>8, <2>1 DEF BeginSubmit, TypeOK
  <2>4. TypeOK'
    BY <1>8, <2>2, <2>3 DEF BeginSubmit, TypeOK, Phases
  <2>5. CallInBounds'
    <3>1. \A s \in Threads \ {t} : call'[s] = call[s] /\ pc'[s] = pc[s]
      BY <1>8 DEF BeginSubmit, TypeOK
    <3>2. call'[t] = CallOf("submit", None, p, m, version, TRUE, FALSE)
      BY <1>8 DEF BeginSubmit, TypeOK
    <3>3. /\ pc[t] = "idle" /\ pc'[t] = "parse" /\ block' = block
          /\ version' = version + Len(p)
      BY <1>8 DEF BeginSubmit, TypeOK
    <3>4. call'[t].base = version /\ call'[t].program = p
      BY <3>2 DEF CallOf
    <3>5. \A s \in Threads : Len(call[s].program) \in Nat /\ call[s].base \in Nat
      BY CatalogAssumption DEF TypeOK, Call
    <3>6. \A s \in Threads : call'[s].base + Len(call'[s].program) <= version'
      BY <1>a, <2>1, <3>1, <3>3, <3>4, <3>5 DEF CallInBounds
    <3> QED
      BY <3>1, <3>3, <3>4, <3>6 DEF CallInBounds
  <2> QED
    BY <2>4, <2>5
<1>9. ASSUME NEW t \in Threads, ParseStop(t)
      PROVE  TypeInv'
  BY <1>9 DEF ParseStop, TypeOK, Phases, CallInBounds
<1>10. ASSUME NEW t \in Threads, ParseDone(t)
       PROVE  TypeInv'
  <2>1. TypeOK'
    BY <1>10, DataType DEF ParseDone, TypeOK, Phases
  <2>2. call[t].program # <<>> => 0 < Len(call[t].program)
    BY <1>10, CatalogAssumption DEF ParseDone, CallInBounds
  <2>3. CallInBounds'
    BY <1>10, <2>2 DEF ParseDone, CallInBounds, TypeOK
  <2> QED
    BY <2>1, <2>3
<1>11. ASSUME NEW t \in Threads, BlockResolve(t)
       PROVE  TypeInv'
  <2>1. \A n \in Names : ResolveInput(avail[t], registered, n) \in Entry
    BY InputType DEF TypeOK
  <2>2. seen' \in [Threads -> [Names -> Entry]]
    BY <1>0, <1>11, <2>1 DEF BlockResolve, VisibleCatalog, TypeOK
  <2>3. dead' \subseteq Version
    BY <1>11, DataType DEF BlockResolve, Stop, TypeOK
  <2>4. TypeOK'
    BY <1>11, <2>2, <2>3 DEF BlockResolve, Stop, TypeOK, Phases
  <2>5. CallInBounds'
    BY <1>11 DEF BlockResolve, Stop, CallInBounds, TypeOK
  <2> QED
    BY <2>4, <2>5
<1>12. ASSUME NEW t \in Threads, pc[t] = "run"
       PROVE  BlockVersion(t) \in Version
  <2>1. call[t].program \in Seq(DataBlock)
    BY <1>12, CatalogAssumption DEF CallInBounds
  <2>2. Len(call[t].program) \in Nat
    BY <2>1
  <2>3. call[t].base \in Nat /\ block[t] \in Nat /\ version \in 0..MaxVersion
    BY DEF TypeOK, Call
  <2>4. block[t] < Len(call[t].program) /\ call[t].base + Len(call[t].program) <= version
    BY <1>12 DEF CallInBounds
  <2> QED
    BY <1>0, <2>2, <2>3, <2>4 DEF BlockVersion, Version
<1>13. ASSUME NEW t \in Threads, BlockFail(t)
       PROVE  TypeInv'
  <2>1. BlockVersion(t) \in Version
    BY <1>12, <1>13 DEF BlockFail
  <2>2. dead' \subseteq Version
    BY <1>13, DataType DEF BlockFail, Stop, TypeOK
  <2>3. TypeOK'
    BY <1>13, <2>1, <2>2 DEF BlockFail, Stop, TypeOK, Phases
  <2>4. CallInBounds'
    BY <1>13 DEF BlockFail, Stop, CallInBounds, TypeOK
  <2> QED
    BY <2>3, <2>4
<1>14. ASSUME NEW t \in Threads, BlockSucceed(t)
       PROVE  TypeInv'
  <2>1. BlockVersion(t) \in Version
    BY <1>12, <1>14 DEF BlockSucceed
  <2>2. BlockOutputs(CurrentBlock(t), BlockVersion(t)) \in Dict
    BY <2>1, OutputsType
  <2>3. avail' \in [Threads -> Dict] /\ updates' \in [Threads -> Dict]
    BY <1>14, <2>2, UpdateType DEF BlockSucceed, TypeOK
  <2>4. [op |-> "block", data |-> BlockVersion(t)] \in LastWrite
    BY <2>1 DEF LastWrite, Entry
  <2>5. last' \in [Keys -> LastWrite]
    BY <1>14, <2>4 DEF BlockSucceed, TypeOK
  <2>6. TypeOK'
    BY <1>14, <2>3, <2>5 DEF BlockSucceed, TypeOK, Phases
  <2>7. Len(call[t].program) \in Nat
    BY <1>14, CatalogAssumption DEF CallInBounds, BlockSucceed
  <2>8. CallInBounds'
    BY <1>14, <2>7 DEF BlockSucceed, CallInBounds, TypeOK
  <2> QED
    BY <2>6, <2>8
<1>15. ASSUME NEW t \in Threads, Commit(t)
       PROVE  TypeInv'
  <2>1. generated' \in Dict
    BY <1>15, UpdateType DEF Commit, TypeOK
  <2>2. TypeOK'
    BY <1>15, <2>1 DEF Commit, TypeOK, Phases
  <2>3. CallInBounds'
    BY <1>15 DEF Commit, CallInBounds, TypeOK
  <2> QED
    BY <2>2, <2>3
<1>16. ASSUME NEW t \in Threads, Publish(t)
       PROVE  TypeInv'
  <2>1. PublicOutputs(t) \in Dict
    BY NoDictType DEF PublicOutputs, TypeOK
  <2>2. datasets' \in [Keys -> Entry]
    BY <1>16, <2>1, AliasType DEF Publish, TypeOK
  <2>3. TypeOK'
    BY <1>0, <1>16, <2>2, NoDictType DEF Publish, TypeOK, Phases, Return
  <2>4. CallInBounds'
    <3>1. block'[t] = 0 /\ \A s \in Threads \ {t} : block'[s] = block[s]
      BY <1>16 DEF Publish, TypeOK
    <3>2. version' = version /\ pc' = [pc EXCEPT ![t] = "idle"]
          /\ call' = [call EXCEPT ![t] = NoCall]
      BY <1>16 DEF Publish, Return
    <3> QED
      BY <1>a, <3>1, <3>2 DEF CallInBounds, TypeOK
  <2> QED
    BY <2>3, <2>4
<1>17. CASE UNCHANGED vars
  BY <1>17 DEF vars, TypeOK, CallInBounds
<1>18. CASE Next
  BY <1>18, <1>1, <1>2, <1>3, <1>4, <1>5, <1>6, <1>7, <1>8, <1>9, <1>10, <1>11,
     <1>13, <1>14, <1>15, <1>16 DEF Next, BeginLoad, BeginTransform
<1> QED
  BY <1>17, <1>18

(* Types: every catalog entry is absent or a version that was made, and    *)
(* every call in flight is one the actions can take a further step from.   *)
THEOREM TypeCorrect == Spec => []TypeOK
<1>1. TypeInv => TypeOK
  BY DEF TypeInv
<1> QED
  BY <1>1, TypeInit, TypeStep, PTL DEF Spec

-----------------------------------------------------------------------------
(* A listed dataset is resolvable.  The listing alone is not inductive:    *)
(* it is removed before the registration, written after it and after the   *)
(* commit, so what each call in flight has already done must be kept too.  *)

Backed(k) == registered[k] # None \/ Spelled(generated, k) # {}

CallsBacked ==
  \A t \in Threads :
    /\ pc[t] = "set" => registered[TheKey(t)] # None
    /\ pc[t] = "publish" =>
         \A n \in Names : Has(updates[t], n) => Has(generated, n)
    /\ pc[t] = "unregister" =>
         datasets[TheKey(t)] = None \/ Spelled(generated, TheKey(t)) # {}

ListedInv == ListedIsResolvable /\ CallsBacked

(* a committed name is never lost *)
LEMMA UpdateKeeps ==
  ASSUME NEW d, NEW u, NEW n \in Names
  PROVE  Has(Update(d, u), n) <=> Has(d, n) \/ Has(u, n)
BY DEF Update, Has

LEMMA LastByKeyListed ==
  ASSUME NEW d, NEW k, LastByKey(d, k) # None
  PROVE  Spelled(d, k) # {}
BY DEF LastByKey

LEMMA ListedInit == Init => ListedInv
BY DEF Init, ListedInv, ListedIsResolvable, CallsBacked

(* steps that leave the three catalogs and the updates alone *)
LEMMA ListedQuiet ==
  ASSUME TypeInv, ListedInv, NEW t \in Threads,
         UNCHANGED <<datasets, registered, generated>>,
         \A s \in Threads \ {t} :
            pc'[s] = pc[s] /\ call'[s] = call[s] /\ updates'[s] = updates[s],
         pc'[t] \notin {"set", "publish", "unregister"}
  PROVE  ListedInv'
BY DEF ListedInv, ListedIsResolvable, CallsBacked, Spelled, Has, TheKey

LEMMA ListedStep ==
  ASSUME OneLoader
  PROVE  TypeInv /\ ListedInv /\ [Next]_vars => ListedInv'
<1> SUFFICES ASSUME TypeInv, ListedInv, [Next]_vars PROVE ListedInv'
  OBVIOUS
<1> USE DEF catalogs, submitVars, threadVars, history, Goto
<1>1. ASSUME NEW t \in Threads, NEW op, NEW n, BeginWrite(t, op, n)
      PROVE  ListedInv'
  BY <1>1, ListedQuiet DEF BeginWrite, TypeInv, TypeOK
<1>2. ASSUME NEW t \in Threads, LoadRegister(t)
      PROVE  ListedInv'
  <2>1. call[t].base + 1 # None /\ TheKey(t) \in Keys
    BY <1>2, KeyType, CatalogAssumption
    DEF LoadRegister, TypeInv, CallInBounds, Version, TheKey
  <2>2. registered'[TheKey(t)] # None
        /\ \A k \in Keys : registered[k] # None => registered'[k] # None
    BY <1>2, <2>1 DEF LoadRegister, TypeInv, TypeOK
  <2>3. ListedIsResolvable'
    BY <1>2, <2>2 DEF LoadRegister, ListedInv, ListedIsResolvable, Spelled, Has
  <2>4. \A s \in Threads : pc[s] = "set" => TheKey(s) \in Keys
    BY KeyType DEF TypeInv, CallInBounds, TheKey
  <2>5. CallsBacked'
    BY <1>2, <2>2, <2>4
    DEF LoadRegister, ListedInv, CallsBacked, Spelled, Has, TheKey, TypeInv, TypeOK
  <2> QED
    BY <2>3, <2>5 DEF ListedInv
<1>3. ASSUME NEW t \in Threads, LoadSet(t)
      PROVE  ListedInv'
  <2>1. t \in Loaders
    BY <1>3 DEF LoadSet, TypeInv, CallInBounds
  <2>2. \A s \in Threads : pc[s] = "unregister" => s = t
    BY <2>1 DEF TypeInv, CallInBounds, OneLoader
  <2>3. registered[TheKey(t)] # None
    BY <1>3 DEF LoadSet, ListedInv, CallsBacked
  <2>4. ListedIsResolvable'
    BY <1>3, <2>3
    DEF LoadSet, ListedInv, ListedIsResolvable, Spelled, Has, TypeInv, TypeOK
  <2>5. CallsBacked'
    BY <1>3, <2>2
    DEF LoadSet, Return, ListedInv, CallsBacked, Spelled, Has, TheKey, TypeInv, TypeOK
  <2> QED
    BY <2>4, <2>5 DEF ListedInv
<1>4. ASSUME NEW t \in Threads, NEW n, NEW ok, BeginUnload(t, n, ok)
      PROVE  ListedInv'
  BY <1>4, ListedQuiet DEF BeginUnload, TypeInv, TypeOK
<1>5. ASSUME NEW t \in Threads, UnloadDelete(t)
      PROVE  ListedInv'
  <2> DEFINE c == CallOf("unload", call[t].name, <<>>, None, 0,
                         call[t].missingOk, datasets[TheKey(t)] # None)
  <2>1. call' = [call EXCEPT ![t] = c] /\ c.name = call[t].name
    BY <1>5 DEF UnloadDelete, CallOf
  <2>2. call'[t].name = call[t].name /\ \A s \in Threads \ {t} : call'[s] = call[s]
    BY <2>1 DEF TypeInv, TypeOK
  <2>3. TheKey(t) \in Keys
    BY <1>5, KeyType DEF UnloadDelete, TypeInv, CallInBounds, TheKey
  <2>4. datasets'[TheKey(t)] = None
        /\ \A k \in Keys : datasets[k] = None => datasets'[k] = None
    BY <1>5, <2>3 DEF UnloadDelete, TypeInv, TypeOK
  <2>5. ListedIsResolvable'
    BY <1>5 DEF UnloadDelete, ListedInv, ListedIsResolvable, Spelled, Has, TypeInv, TypeOK
  <2>6. pc'[t] # "set" /\ pc'[t] # "publish"
        /\ \A s \in Threads \ {t} : pc'[s] = pc[s]
    BY <1>5 DEF UnloadDelete, TypeInv, TypeOK
  <2>7. \A s \in Threads : pc[s] = "unregister" => TheKey(s) \in Keys
    BY KeyType DEF TypeInv, CallInBounds, TheKey
  <2>8. registered' = registered /\ generated' = generated /\ updates' = updates
    BY <1>5 DEF UnloadDelete
  <2>9. CallsBacked'
    BY <2>2, <2>4, <2>6, <2>7, <2>8
    DEF ListedInv, CallsBacked, Spelled, Has, TheKey
  <2> QED
    BY <2>5, <2>9 DEF ListedInv
<1>6. ASSUME NEW t \in Threads, UnloadUnregister(t)
      PROVE  ListedInv'
  <2>1. \A s \in Threads : pc[s] = "set" => FALSE
    BY <1>6 DEF UnloadUnregister, TypeInv, CallInBounds, OneLoader
  <2>2. datasets[TheKey(t)] = None \/ Spelled(generated, TheKey(t)) # {}
    BY <1>6 DEF UnloadUnregister, ListedInv, CallsBacked
  <2>3. ListedIsResolvable'
    BY <1>6, <2>2
    DEF UnloadUnregister, ListedInv, ListedIsResolvable, Spelled, Has, TypeInv, TypeOK
  <2>4. pc'[t] \in {"idle", "raised"}
        /\ \A s \in Threads \ {t} : pc'[s] = pc[s] /\ call'[s] = call[s]
    BY <1>6 DEF UnloadUnregister, Return, TypeInv, TypeOK
  <2>5. datasets' = datasets /\ generated' = generated /\ updates' = updates
    BY <1>6 DEF UnloadUnregister
  <2>6. CallsBacked'
    BY <2>1, <2>4, <2>5 DEF ListedInv, CallsBacked, Spelled, Has, TheKey
  <2> QED
    BY <2>3, <2>6 DEF ListedInv
<1>7. ASSUME NEW t \in Threads, Raise(t)
      PROVE  ListedInv'
  BY <1>7, ListedQuiet DEF Raise, Return, TypeInv, TypeOK
<1>8. ASSUME NEW t \in Threads, NEW p, NEW m, BeginSubmit(t, p, m)
      PROVE  ListedInv'
  BY <1>8, ListedQuiet DEF BeginSubmit, TypeInv, TypeOK
<1>9. ASSUME NEW t \in Threads, ParseStop(t) \/ ParseDone(t)
      PROVE  ListedInv'
  BY <1>9, ListedQuiet DEF ParseStop, ParseDone, TypeInv, TypeOK
<1>10. ASSUME NEW t \in Threads, BlockResolve(t) \/ BlockFail(t)
       PROVE  ListedInv'
  BY <1>10, ListedQuiet DEF BlockResolve, BlockFail, Stop, TypeInv, TypeOK
<1>11. ASSUME NEW t \in Threads, BlockSucceed(t)
       PROVE  ListedInv'
  BY <1>11, ListedQuiet DEF BlockSucceed, TypeInv, TypeOK
<1>12. ASSUME NEW t \in Threads, Commit(t)
       PROVE  ListedInv'
  <2>1. \A n \in Names : Has(generated', n) <=> Has(generated, n) \/ Has(updates[t], n)
    BY <1>12, UpdateKeeps DEF Commit
  <2>2. /\ datasets' = datasets /\ registered' = registered
        /\ updates' = updates /\ call' = call
        /\ pc' = [pc EXCEPT ![t] = "publish"]
    BY <1>12 DEF Commit
  <2>3. \A k : Spelled(generated, k) # {} => Spelled(generated', k) # {}
    BY <2>1 DEF Spelled
  <2>4. ListedIsResolvable'
    BY <2>2, <2>3 DEF ListedInv, ListedIsResolvable
  <2>5. \A s \in Threads : pc'[s] = "publish" =>
           \A n \in Names : Has(updates'[s], n) => Has(generated', n)
    BY <2>1, <2>2 DEF ListedInv, CallsBacked, TypeInv, TypeOK
  <2>6. \A s \in Threads : pc'[s] \in {"set", "unregister"} => pc[s] = pc'[s]
    BY <2>2 DEF TypeInv, TypeOK
  <2>7. CallsBacked'
    BY <2>2, <2>3, <2>5, <2>6 DEF ListedInv, CallsBacked, TheKey
  <2> QED
    BY <2>4, <2>7 DEF ListedInv
<1>13. ASSUME NEW t \in Threads, Publish(t)
       PROVE  ListedInv'
  <2>1. /\ registered' = registered /\ generated' = generated
        /\ \A s \in Threads \ {t} :
              pc'[s] = pc[s] /\ call'[s] = call[s] /\ updates'[s] = updates[s]
        /\ pc'[t] = "idle"
    BY <1>13 DEF Publish, Return, TypeInv, TypeOK
  <2>2. \A k : Spelled(PublicOutputs(t), k) # {} => Spelled(generated, k) # {}
    BY <1>13 DEF Publish, PublicOutputs, ListedInv, CallsBacked, Spelled, NoDict, Has
  <2>3. \A k \in Keys : datasets'[k] = datasets[k] \/ Spelled(generated, k) # {}
    BY <1>13, <2>2 DEF Publish
  <2>4. ListedIsResolvable'
    BY <2>1, <2>3 DEF ListedInv, ListedIsResolvable
  <2>5. \A s \in Threads : pc[s] = "unregister" => TheKey(s) \in Keys
    BY KeyType DEF TypeInv, CallInBounds, TheKey
  <2>6. CallsBacked'
    BY <2>1, <2>3, <2>5 DEF ListedInv, CallsBacked, TheKey
  <2> QED
    BY <2>4, <2>6 DEF ListedInv
<1>14. CASE UNCHANGED vars
  BY <1>14 DEF vars, ListedInv, ListedIsResolvable, CallsBacked, Spelled, Has, TheKey
<1>15. CASE Next
  BY <1>15, <1>1, <1>2, <1>3, <1>4, <1>5, <1>6, <1>7, <1>8, <1>9, <1>10, <1>11,
     <1>12, <1>13 DEF Next, BeginLoad, BeginTransform
<1> QED
  BY <1>14, <1>15

(* Whatever the calls in flight have done, every dataset the session lists *)
(* can be resolved by the next SET, as long as one thread loads and        *)
(* unloads; any number of threads may submit.                              *)
THEOREM ListedAlwaysResolvable ==
  ASSUME OneLoader
  PROVE  Spec => []ListedIsResolvable
<1>1. Init => TypeInv /\ ListedInv
  BY TypeInit, ListedInit
<1>2. TypeInv /\ ListedInv /\ [Next]_vars => (TypeInv /\ ListedInv)'
  BY TypeStep, ListedStep
<1>3. ListedInv => ListedIsResolvable
  BY DEF ListedInv
<1> QED
  BY <1>1, <1>2, <1>3, PTL DEF Spec
-----------------------------------------------------------------------------
(* What an error or a concurrent submission may not do to the catalogs.    *)
(* All of it rests on a discipline of versions: the tables that a call may *)
(* make were set aside for it when it began, no two calls share one, and a *)
(* table that was not made yet is nowhere.                                 *)
Submitting == {"parse", "resolve", "run", "commit", "publish"}

(* the versions set aside for the call of a thread *)
Owned(t) ==
  IF pc[t] \in {"register", "set"} THEN {call[t].base + 1}
  ELSE IF pc[t] \in Submitting THEN Own(t) ELSE {}

(* those of a submission; of it, those of the blocks that did not end yet  *)
Unpublished(t) == IF pc[t] \in Submitting THEN Own(t) ELSE {}
Fresh(t) ==
  IF pc[t] \in {"parse", "resolve", "run"}
  THEN call[t].base + block[t] + 1 .. call[t].base + Len(call[t].program) ELSE {}

(* those that may still be listed *)
Alive(t) == IF failed[t] THEN {} ELSE Owned(t)

Unlisted(v) == \A k \in Keys : datasets[k] # v
Unseen(v) ==
  /\ \A k \in Keys : datasets[k] # v /\ registered[k] # v
  /\ \A n \in Names : generated.data[n] # v
  /\ \A t \in Threads, n \in Names :
       avail[t].data[n] # v /\ updates[t].data[n] # v /\ seen[t][n] # v

Updated(t) == {updates[t].data[n] : n \in Names} \ {None}

Separate ==
  /\ \A t \in Threads : Owned(t) \subseteq 1..version
  /\ \A s, t \in Threads : s # t => Owned(s) \cap Owned(t) = {}
  /\ \A t \in Threads : Fresh(t) \subseteq Unpublished(t)
  /\ \A t \in Threads : Updated(t) \subseteq Unpublished(t)

Unmade ==
  /\ \A v \in Version : v > version => Unseen(v) /\ v \notin doomed /\ v \notin dead
  /\ \A t \in Threads : \A v \in Fresh(t) : Unseen(v) /\ v \notin doomed
  /\ \A t \in Threads : \A v \in Unpublished(t) : Unlisted(v)

Untainted ==
  /\ \A t \in Threads : Alive(t) \cap dead = {}
  /\ \A t \in Threads : pc[t] \in {"register", "set"} => Owned(t) \cap doomed = {}
  /\ \A t \in Threads : failed[t] => pc[t] \in {"commit", "publish"}

Discipline == Separate /\ Unmade /\ Untainted /\ FailedBlockInvisible /\ FailedPrefixUnlisted

(* what a thread that takes no step owns *)
LEMMA OthersKeep ==
  ASSUME NEW s \in Threads,
         pc'[s] = pc[s], call'[s] = call[s], block'[s] = block[s], failed'[s] = failed[s]
  PROVE  /\ Owned(s)' = Owned(s) /\ Unpublished(s)' = Unpublished(s)
         /\ Fresh(s)' = Fresh(s) /\ Alive(s)' = Alive(s)
BY DEF Owned, Unpublished, Fresh, Alive, Own

LEMMA Nested ==
  ASSUME TypeInv, NEW t \in Threads
  PROVE  /\ Unpublished(t) \subseteq Owned(t) /\ Alive(t) \subseteq Owned(t)
         /\ Len(call[t].program) \in Nat /\ call[t].base \in Nat /\ block[t] \in Nat
<1>1. call[t].program \in Programs \cup {<<>>}
  BY DEF TypeInv, TypeOK, Call
<1>2. Len(call[t].program) \in Nat
  BY <1>1, CatalogAssumption
<1> QED
  BY <1>2 DEF TypeInv, TypeOK, Call, Unpublished, Alive, Owned, Submitting

(* One step of a call that has begun.  gain: versions that appear in a     *)
(* catalog or in a call; listed: versions that enter the listing; lost:    *)
(* versions of a failing block; stuck: those of the prefix before it.      *)
Others(t) ==
  \A s \in Threads \ {t} : /\ pc'[s] = pc[s] /\ call'[s] = call[s] /\ block'[s] = block[s]
                           /\ failed'[s] = failed[s] /\ updates'[s] = updates[s]
Shrinks(t) ==
  /\ Owned(t)' \subseteq Owned(t) /\ Fresh(t)' \subseteq Fresh(t) /\ Alive(t)' \subseteq Alive(t)
  /\ Unpublished(t)' \subseteq Unpublished(t) /\ Fresh(t)' \subseteq Unpublished(t)'
  /\ Updated(t)' \subseteq Unpublished(t)'
  /\ failed'[t] => pc'[t] \in {"commit", "publish"}
  /\ pc'[t] \in {"register", "set"} => pc[t] \in {"register", "set"}
Gains(t, gain, lost) ==
  /\ gain \subseteq Owned(t) /\ gain \cap doomed = {} /\ gain \cap Fresh(t)' = {} /\ gain \cap lost = {}
  /\ \A v \in Version : Unseen(v) /\ v \notin gain => Unseen(v)'
Lists(t, listed, stuck) ==
  /\ listed \subseteq Alive(t) /\ listed \cap Unpublished(t)' = {} /\ listed \cap stuck = {}
  /\ \A v \in Version : Unlisted(v) /\ v \notin listed => Unlisted(v)'
Loses(t, lost, stuck) ==
  /\ doomed' = doomed \cup lost /\ lost \subseteq Fresh(t) /\ lost \cap Fresh(t)' = {}
  /\ dead' = dead \cup stuck /\ stuck \subseteq Unpublished(t) /\ stuck \cap Alive(t)' = {}
Moves(t, gain, listed, lost, stuck) ==
  /\ version' = version /\ Others(t) /\ Shrinks(t)
  /\ Gains(t, gain, lost) /\ Lists(t, listed, stuck) /\ Loses(t, lost, stuck)

LEMMA DisciplineStep ==
  ASSUME TypeInv, TypeInv', Discipline, NEW t \in Threads,
         NEW gain, NEW listed, NEW lost, NEW stuck, Moves(t, gain, listed, lost, stuck)
  PROVE  Discipline'
<1> USE DEF Moves, Others, Shrinks, Gains, Lists, Loses
<1>1. /\ \A s \in Threads : /\ Unpublished(s) \subseteq Owned(s) /\ Alive(s) \subseteq Owned(s)
                             /\ Owned(s) \subseteq 1..version /\ Fresh(s) \subseteq Unpublished(s)
      /\ 1..version \subseteq Version
      /\ doomed' \subseteq Version /\ dead' \subseteq Version
  BY Nested, CatalogAssumption DEF TypeInv, TypeOK, Version, Discipline, Separate
<1>2. \A s \in Threads \ {t} :
        /\ Owned(s)' = Owned(s) /\ Unpublished(s)' = Unpublished(s)
        /\ Fresh(s)' = Fresh(s) /\ Alive(s)' = Alive(s) /\ Updated(s)' = Updated(s)
  BY OthersKeep DEF Updated
<1>3. \A s \in Threads \ {t} : Owned(s) \cap Owned(t) = {}
  BY DEF Discipline, Separate
<1>4. Separate'
  BY <1>1, <1>2, <1>3 DEF Discipline, Separate
<1>5. Unmade'
  <2>1. ASSUME NEW v \in Version, v > version
        PROVE  Unseen(v)' /\ v \notin doomed' /\ v \notin dead'
    <3>1. v \notin 1..version
      BY <2>1, CatalogAssumption DEF TypeInv, TypeOK, Version
    <3>2. v \notin gain /\ v \notin lost /\ v \notin stuck
      BY <1>1, <3>1
    <3> QED
      BY <2>1, <3>2 DEF Discipline, Unmade
  <2>2. ASSUME NEW s \in Threads, NEW v \in Fresh(s)'
        PROVE  Unseen(v)' /\ v \notin doomed'
    BY <1>1, <1>2, <1>3, <2>2 DEF Discipline, Unmade
  <2>3. ASSUME NEW s \in Threads, NEW v \in Unpublished(s)'
        PROVE  Unlisted(v)'
    BY <1>1, <1>2, <1>3, <2>3 DEF Discipline, Unmade
  <2> QED
    BY <2>1, <2>2, <2>3 DEF Unmade
<1>6. Untainted'
  <2>1. \A s \in Threads : (Alive(s) \cap dead = {})'
    BY <1>1, <1>2, <1>3 DEF Discipline, Untainted
  <2>2. ASSUME NEW s \in Threads, pc'[s] \in {"register", "set"}
        PROVE  Owned(s)' \cap doomed' = {}
    <3>1. pc[s] \in {"register", "set"} /\ Owned(s)' \subseteq Owned(s)
      BY <1>2, <2>2
    <3>2. s = t => Fresh(t) = {}
      BY <3>1 DEF Fresh
    <3>3. Owned(s) \cap doomed = {}
      BY <3>1 DEF Discipline, Untainted
    <3> QED
      BY <3>1, <3>2, <3>3, <1>1, <1>3
  <2> QED
    BY <2>1, <2>2 DEF Discipline, Untainted
<1>7. FailedBlockInvisible'
  <2>1. ASSUME NEW v \in doomed' PROVE Unseen(v)'
    <3>1. Unseen(v) /\ v \in Version
      BY <1>1 DEF Discipline, Unmade, FailedBlockInvisible, Unseen
    <3>2. v \notin gain
      BY DEF Discipline
    <3> QED
      BY <3>1, <3>2
  <2> QED
    BY <2>1 DEF FailedBlockInvisible, Unseen
<1>8. FailedPrefixUnlisted'
  <2>1. ASSUME NEW v \in dead' PROVE Unlisted(v)'
    <3>1. Unlisted(v) /\ v \in Version
      BY <1>1 DEF Discipline, Unmade, FailedPrefixUnlisted, Unlisted
    <3>2. v \notin listed
      BY DEF Discipline, Untainted
    <3> QED
      BY <3>1, <3>2
  <2> QED
    BY <2>1 DEF FailedPrefixUnlisted, Unlisted
<1> QED
  BY <1>4, <1>5, <1>6, <1>7, <1>8 DEF Discipline

(* A call begins: its versions are those behind all that were made.        *)
LEMMA DisciplineBegins ==
  ASSUME TypeInv, TypeInv', Discipline, NEW t \in Threads,
         version' >= version,
         \A s \in Threads \ {t} : pc'[s] = pc[s] /\ call'[s] = call[s],
         UNCHANGED <<block, failed, updates, doomed, dead>>,
         \A v \in Version : (Unseen(v) => Unseen(v)') /\ (Unlisted(v) => Unlisted(v)'),
         pc[t] = "idle",
         Owned(t)' \subseteq version + 1 .. version', Fresh(t)' \subseteq Unpublished(t)'
  PROVE  Discipline'
<1>1. \A s \in Threads : Unpublished(s)' \subseteq Owned(s)' /\ Alive(s)' \subseteq Owned(s)'
  BY DEF Unpublished, Alive, Owned, Submitting
<1>2. /\ \A s \in Threads : Owned(s) \subseteq 1..version /\ Alive(s) \subseteq Owned(s)
      /\ version \in Nat /\ version' \in Nat /\ version + 1 .. version' \subseteq Version
      /\ version' <= MaxVersion
  BY Nested, CatalogAssumption DEF TypeInv, TypeOK, Version, Discipline, Separate
<1>3. \A s \in Threads \ {t} :
        /\ Owned(s)' = Owned(s) /\ Unpublished(s)' = Unpublished(s)
        /\ Fresh(s)' = Fresh(s) /\ Alive(s)' = Alive(s)
  BY OthersKeep
<1>4. \A s \in Threads : Updated(s)' = Updated(s)
  BY DEF Updated
<1>5. /\ Owned(t) = {} /\ Updated(t) = {}
      /\ \A v \in Owned(t)' : v \in Version /\ v > version
      /\ (1..version) \cap Owned(t)' = {}
  BY <1>2 DEF Owned, Unpublished, Submitting, Discipline, Separate
<1>6. Separate'
  BY <1>1, <1>2, <1>3, <1>4, <1>5 DEF Discipline, Separate
<1>7. Unmade'
  <2>1. ASSUME NEW v \in Version, v > version'
        PROVE  Unseen(v)' /\ v \notin doomed' /\ v \notin dead'
    <3>1. v > version
      BY <1>2, <2>1 DEF Version
    <3> QED
      BY <3>1 DEF Discipline, Unmade
  <2>2. ASSUME NEW s \in Threads, NEW v \in Fresh(s)'
        PROVE  Unseen(v)' /\ v \notin doomed'
    <3>1. CASE s = t
      BY <1>1, <1>5, <2>2, <3>1 DEF Discipline, Unmade
    <3>2. CASE s # t
      <4>1. v \in Fresh(s) /\ v \in Version
        BY <1>2, <1>3, <2>2, <3>2, Nested, CatalogAssumption DEF Discipline, Separate, Version
      <4> QED
        BY <4>1 DEF Discipline, Unmade
    <3> QED
      BY <3>1, <3>2
  <2>3. ASSUME NEW s \in Threads, NEW v \in Unpublished(s)'
        PROVE  Unlisted(v)'
    <3>1. CASE s = t
      <4>1. v \in Version /\ v > version
        BY <1>1, <1>5, <2>3, <3>1
      <4> QED
        BY <4>1 DEF Discipline, Unmade, Unseen, Unlisted
    <3>2. CASE s # t
      <4>1. v \in Unpublished(s) /\ v \in Version
        BY <1>2, <1>3, <2>3, <3>2, Nested, CatalogAssumption DEF Discipline, Separate, Version
      <4> QED
        BY <4>1 DEF Discipline, Unmade
    <3> QED
      BY <3>1, <3>2
  <2> QED
    BY <2>1, <2>2, <2>3 DEF Unmade
<1>8. Untainted'
  <2>1. \A v \in Owned(t)' : v \notin dead /\ v \notin doomed
    BY <1>5 DEF Discipline, Unmade
  <2>2. \A s \in Threads : (Alive(s) \cap dead = {})'
    BY <1>1, <1>3, <2>1 DEF Discipline, Untainted
  <2>3. ASSUME NEW s \in Threads, pc'[s] \in {"register", "set"}
        PROVE  Owned(s)' \cap doomed' = {}
    BY <1>3, <2>1, <2>3 DEF Discipline, Untainted
  <2>4. ASSUME NEW s \in Threads, failed'[s]
        PROVE  pc'[s] \in {"commit", "publish"}
    BY <2>4 DEF Discipline, Untainted
  <2> QED
    BY <2>2, <2>3, <2>4 DEF Untainted
<1>9. FailedBlockInvisible' /\ FailedPrefixUnlisted'
  <2>1. \A v \in doomed : v \in Version /\ Unseen(v)
    BY DEF TypeInv, TypeOK, Discipline, FailedBlockInvisible, Unseen
  <2>2. \A v \in dead : v \in Version /\ Unlisted(v)
    BY DEF TypeInv, TypeOK, Discipline, FailedPrefixUnlisted, Unlisted
  <2> QED
    BY <2>1, <2>2 DEF FailedBlockInvisible, FailedPrefixUnlisted, Unseen, Unlisted
<1> QED
  BY <1>6, <1>7, <1>8, <1>9 DEF Discipline

-----------------------------------------------------------------------------
(* what a lookup returns was in one of the catalogs it looks into          *)
LEMMA LookupHeld ==
  ASSUME NEW d, NEW k
  PROVE  /\ ResolveAlias(d, k) = None \/ \E n \in Names : ResolveAlias(d, k) = d.data[n]
         /\ LastByKey(d, k) = None \/ \E n \in Names : LastByKey(d, k) = d.data[n] /\ d.data[n] # None
BY DEF ResolveAlias, LastByKey, Spelled, Has

LEMMA InputHeld ==
  ASSUME NEW d, NEW r, NEW m \in Names
  PROVE  \/ ResolveInput(d, r, m) = None
         \/ \E n \in Names : ResolveInput(d, r, m) = d.data[n]
         \/ ResolveInput(d, r, m) = r[KeyOf(m)]
BY LookupHeld DEF ResolveInput

LEMMA UpdateHeld ==
  ASSUME NEW d, NEW u, NEW n \in Names
  PROVE  Update(d, u).data[n] = d.data[n] \/ Update(d, u).data[n] = u.data[n]
BY DEF Update

LEMMA DisciplineInit == Init => Discipline
<1> SUFFICES ASSUME Init PROVE Discipline
  OBVIOUS
<1>1. \A t \in Threads : /\ Owned(t) = {} /\ Unpublished(t) = {} /\ Fresh(t) = {} /\ Updated(t) = {}
                         /\ Alive(t) = {}
  BY DEF Init, Owned, Unpublished, Fresh, Updated, Alive, Submitting, NoDict
<1>2. \A v \in Version : Unseen(v)
  BY CatalogAssumption DEF Init, Unseen, NoDict, Version
<1> QED
  BY <1>1, <1>2 DEF Init, Discipline, Separate, Unmade, Untainted, Unseen, Unlisted,
     FailedBlockInvisible, FailedPrefixUnlisted, Submitting

(* None is no version *)
LEMMA NoneUnmade == None \notin Version
BY CatalogAssumption DEF Version

LEMMA DisciplineNext ==
  ASSUME TypeInv, TypeInv', Discipline, [Next]_vars
  PROVE  Discipline'
<1> USE DEF catalogs, submitVars, threadVars, history, Goto
<1>1. ASSUME NEW t \in Threads, NEW op \in {"load", "transform"}, NEW n \in LoadNames, BeginWrite(t, op, n)
      PROVE  Discipline'
  <2>1. /\ pc[t] = "idle" /\ pc'[t] = "register" /\ version' = version + 1
        /\ call'[t] = CallOf(op, n, <<>>, None, version, TRUE, FALSE)
        /\ \A s \in Threads \ {t} : pc'[s] = pc[s] /\ call'[s] = call[s]
    BY <1>1 DEF BeginWrite, TypeInv, TypeOK
  <2>2. Owned(t)' = {version + 1} /\ Fresh(t)' = {}
    BY <2>1 DEF Owned, Fresh, CallOf
  <2>3. version \in Nat /\ version + 1 \in version + 1 .. version' /\ version' >= version
    BY <2>1, CatalogAssumption DEF TypeInv, TypeOK
  <2>4. \A v \in Version : (Unseen(v) => Unseen(v)') /\ (Unlisted(v) => Unlisted(v)')
    BY <1>1 DEF BeginWrite, Unseen, Unlisted
  <2>5. UNCHANGED <<block, failed, updates, doomed, dead>>
    BY <1>1 DEF BeginWrite
  <2> QED
    BY <2>1, <2>2, <2>3, <2>4, <2>5, DisciplineBegins
<1>2. ASSUME NEW t \in Threads, LoadRegister(t)
      PROVE  Discipline'
  <2> DEFINE gain == {call[t].base + 1}
  <2>1. /\ pc[t] = "register" /\ pc'[t] = "set" /\ call' = call /\ failed' = failed /\ updates' = updates
        /\ block' = block /\ version' = version /\ doomed' = doomed /\ dead' = dead /\ Others(t)
    BY <1>2 DEF LoadRegister, Others, TypeInv, TypeOK
  <2>2. Owned(t) = gain /\ Owned(t)' = gain /\ Fresh(t)' = {} /\ Fresh(t) = {} /\ Unpublished(t)' = {}
        /\ Updated(t)' = {} /\ Alive(t)' = gain /\ Alive(t) = gain
    BY <2>1 DEF Owned, Fresh, Unpublished, Updated, Alive, Submitting, Discipline, Separate, Untainted
  <2>3. Shrinks(t)
    BY <2>1, <2>2 DEF Shrinks, Discipline, Untainted
  <2>4. Gains(t, gain, {})
    BY <1>2, <2>1, <2>2 DEF Gains, LoadRegister, Unseen, Discipline, Untainted, TypeInv, TypeOK
  <2>5. Lists(t, {}, {}) /\ Loses(t, {}, {})
    BY <1>2, <2>1 DEF Lists, Loses, LoadRegister, Unlisted
  <2> QED
    BY <2>1, <2>3, <2>4, <2>5, DisciplineStep DEF Moves
<1>3. ASSUME NEW t \in Threads, LoadSet(t)
      PROVE  Discipline'
  <2> DEFINE gain == {call[t].base + 1}
  <2>1. /\ pc[t] = "set" /\ pc'[t] = "idle" /\ failed' = failed /\ updates' = updates
        /\ block' = block /\ version' = version /\ doomed' = doomed /\ dead' = dead /\ Others(t)
    BY <1>3 DEF LoadSet, Return, Others, TypeInv, TypeOK
  <2>2. Owned(t) = gain /\ Owned(t)' = {} /\ Fresh(t)' = {} /\ Fresh(t) = {} /\ Unpublished(t)' = {}
        /\ Updated(t)' = {} /\ Alive(t)' = {} /\ Alive(t) = gain
    BY <2>1 DEF Owned, Fresh, Unpublished, Updated, Alive, Submitting, Discipline, Separate, Untainted
  <2>3. Shrinks(t)
    BY <2>1, <2>2 DEF Shrinks, Discipline, Untainted
  <2>4. Gains(t, gain, {})
    BY <1>3, <2>1, <2>2 DEF Gains, LoadSet, Unseen, Discipline, Untainted, TypeInv, TypeOK
  <2>5. Lists(t, gain, {}) /\ Loses(t, {}, {})
    BY <1>3, <2>1, <2>2 DEF Lists, Loses, LoadSet, Unlisted, TypeInv, TypeOK
  <2> QED
    BY <2>1, <2>3, <2>4, <2>5, DisciplineStep DEF Moves
<1>4. ASSUME NEW t \in Threads, NEW n \in UnloadNames, NEW ok \in BOOLEAN, BeginUnload(t, n, ok)
      PROVE  Discipline'
  <2>1. /\ pc[t] = "idle" /\ pc'[t] = "delete" /\ version' = version
        /\ \A s \in Threads \ {t} : pc'[s] = pc[s] /\ call'[s] = call[s]
    BY <1>4 DEF BeginUnload, TypeInv, TypeOK
  <2>2. Owned(t)' = {} /\ Fresh(t)' = {}
    BY <2>1 DEF Owned, Fresh, Submitting
  <2>3. version \in Nat /\ version' >= version
    BY <2>1, CatalogAssumption DEF TypeInv, TypeOK
  <2>4. \A v \in Version : (Unseen(v) => Unseen(v)') /\ (Unlisted(v) => Unlisted(v)')
    BY <1>4 DEF BeginUnload, Unseen, Unlisted
  <2>5. UNCHANGED <<block, failed, updates, doomed, dead>>
    BY <1>4 DEF BeginUnload
  <2> QED
    BY <2>1, <2>2, <2>3, <2>4, <2>5, DisciplineBegins
<1>5. ASSUME NEW t \in Threads, UnloadDelete(t) \/ UnloadUnregister(t) \/ Raise(t)
      PROVE  Discipline'
  <2>1. /\ pc[t] \in {"delete", "unregister", "raised"} /\ pc'[t] \in {"unregister", "raised", "idle"}
        /\ failed' = failed /\ updates' = updates /\ block' = block /\ version' = version
        /\ doomed' = doomed /\ dead' = dead /\ Others(t)
    BY <1>5 DEF UnloadDelete, UnloadUnregister, Raise, Return, Others, TypeInv, TypeOK
  <2>2. Owned(t) = {} /\ Owned(t)' = {} /\ Fresh(t)' = {} /\ Unpublished(t)' = {} /\ Unpublished(t) = {}
        /\ Updated(t)' = {} /\ Alive(t)' = {}
    BY <2>1 DEF Owned, Fresh, Unpublished, Updated, Alive, Submitting, Discipline, Separate
  <2>3. Shrinks(t)
    BY <2>1, <2>2 DEF Shrinks, Discipline, Untainted
  <2>4. Gains(t, {}, {})
    BY <1>5, NoneUnmade DEF Gains, UnloadDelete, UnloadUnregister, Raise, Unseen, TypeInv, TypeOK
  <2>5. Lists(t, {}, {}) /\ Loses(t, {}, {})
    BY <1>5, NoneUnmade DEF Lists, Loses, UnloadDelete, UnloadUnregister, Raise, Unlisted, TypeInv, TypeOK
  <2> QED
    BY <2>1, <2>3, <2>4, <2>5, DisciplineStep DEF Moves
<1>6. ASSUME NEW t \in Threads, NEW p \in Programs, NEW m \in Modes, BeginSubmit(t, p, m)
      PROVE  Discipline'
  <2>1. /\ pc[t] = "idle" /\ pc'[t] = "parse" /\ version' = version + Len(p) /\ block' = block
        /\ call'[t] = CallOf("submit", None, p, m, version, TRUE, FALSE)
        /\ \A s \in Threads \ {t} : pc'[s] = pc[s] /\ call'[s] = call[s]
    BY <1>6 DEF BeginSubmit, TypeInv, TypeOK
  <2>2. version \in Nat /\ Len(p) \in Nat /\ block'[t] \in Nat /\ version' >= version
    BY <2>1, CatalogAssumption DEF TypeInv, TypeOK
  <2>3. Owned(t)' = version + 1 .. version' /\ Unpublished(t)' = version + 1 .. version'
        /\ Fresh(t)' = version + block'[t] + 1 .. version'
    BY <2>1 DEF Owned, Fresh, Unpublished, Own, CallOf, Submitting
  <2>4. \A v \in Version : (Unseen(v) => Unseen(v)') /\ (Unlisted(v) => Unlisted(v)')
    BY <1>6 DEF BeginSubmit, Unseen, Unlisted
  <2>5. UNCHANGED <<block, failed, updates, doomed, dead>>
    BY <1>6 DEF BeginSubmit
  <2> QED
    BY <2>1, <2>2, <2>3, <2>4, <2>5, DisciplineBegins
<1>7. ASSUME NEW t \in Threads, ParseStop(t) \/ ParseDone(t)
      PROVE  Discipline'
  <2>1. /\ pc[t] = "parse" /\ pc'[t] \in {"resolve", "commit"} /\ failed'[t] \in BOOLEAN
        /\ (pc'[t] = "resolve" => failed'[t] = failed[t]) /\ (~failed'[t] => ~failed[t])
        /\ updates' = updates /\ block' = block /\ version' = version /\ call' = call
        /\ doomed' = doomed /\ dead' = dead /\ Others(t)
    BY <1>7 DEF ParseStop, ParseDone, Others, TypeInv, TypeOK
  <2>2. Owned(t) = Own(t) /\ Owned(t)' = Own(t) /\ Unpublished(t)' = Own(t) /\ Unpublished(t) = Own(t)
        /\ Fresh(t)' \subseteq Fresh(t) /\ Updated(t)' = Updated(t) /\ Alive(t)' \subseteq Alive(t)
    BY <2>1 DEF Owned, Fresh, Unpublished, Updated, Alive, Submitting, Own
  <2>3. Shrinks(t)
    BY <2>1, <2>2 DEF Shrinks, Discipline, Separate, Untainted
  <2>4. Gains(t, {}, {})
    BY <1>7 DEF Gains, ParseStop, ParseDone, Unseen, TypeInv, TypeOK
  <2>5. Lists(t, {}, {}) /\ Loses(t, {}, {})
    BY <1>7 DEF Lists, Loses, ParseStop, ParseDone, Unlisted
  <2> QED
    BY <2>1, <2>3, <2>4, <2>5, DisciplineStep DEF Moves
<1>8. ASSUME NEW t \in Threads, BlockResolve(t)
      PROVE  Discipline'
  <2> DEFINE stuck == IF failed'[t] THEN Updated(t) ELSE {}
  <2>1. /\ pc[t] = "resolve" /\ (IF failed'[t] THEN pc'[t] = "commit" ELSE pc'[t] = "run")
        /\ ~failed[t] /\ failed'[t] \in BOOLEAN
        /\ updates' = updates /\ block' = block /\ version' = version /\ call' = call
        /\ doomed' = doomed /\ dead' = dead \cup stuck /\ Others(t)
    BY <1>8 DEF BlockResolve, Stop, Others, Updated, TypeInv, TypeOK, Discipline, Untainted
  <2>2. Owned(t) = Own(t) /\ Owned(t)' = Own(t) /\ Unpublished(t)' = Own(t) /\ Unpublished(t) = Own(t)
        /\ Fresh(t)' \subseteq Fresh(t) /\ Updated(t)' = Updated(t) /\ Alive(t)' \subseteq Alive(t)
        /\ Alive(t) = Own(t) /\ stuck \subseteq Own(t) /\ stuck \cap Alive(t)' = {}
    BY <2>1 DEF Owned, Fresh, Unpublished, Updated, Alive, Submitting, Own, Discipline, Separate
  <2>3. Shrinks(t)
    BY <2>1, <2>2 DEF Shrinks, Discipline, Separate, Untainted
  <2>4. Gains(t, {}, {})
    <3>1. ASSUME NEW v \in Version, Unseen(v), NEW n \in Names
          PROVE  seen'[t][n] # v
      <4>1. KeyOf(n) \in Keys /\ v # None
        BY KeyType, NoneUnmade
      <4>2. seen'[t][n] \in {None, ResolveInput(avail[t], registered, n)}
        BY <1>8 DEF BlockResolve, VisibleCatalog, TypeInv, TypeOK
      <4> QED
        BY <3>1, <4>1, <4>2, InputHeld DEF Unseen
    <3>2. \A s \in Threads \ {t} : seen'[s] = seen[s]
      BY <1>8 DEF BlockResolve, TypeInv, TypeOK
    <3>3. UNCHANGED <<datasets, registered, generated, avail, updates>>
      BY <1>8 DEF BlockResolve
    <3>4. ASSUME NEW v \in Version, Unseen(v)
          PROVE  Unseen(v)'
      BY <3>1, <3>2, <3>3, <3>4 DEF Unseen
    <3> QED
      BY <3>4 DEF Gains
  <2>5. Lists(t, {}, stuck) /\ Loses(t, {}, stuck)
    BY <1>8, <2>1, <2>2 DEF Lists, Loses, BlockResolve, Unlisted
  <2> QED
    BY <2>1, <2>3, <2>4, <2>5, DisciplineStep DEF Moves
<1>9. ASSUME NEW t \in Threads, pc[t] = "run"
      PROVE  /\ BlockVersion(t) \in Fresh(t) /\ BlockVersion(t) \in Own(t)
             /\ BlockVersion(t) \in Version /\ block[t] \in Nat /\ call[t].base \in Nat
             /\ Len(call[t].program) \in Nat
  <2>1. block[t] < Len(call[t].program) /\ call[t].base + Len(call[t].program) <= version
    BY <1>9 DEF TypeInv, CallInBounds
  <2>2. version \in Nat /\ version <= MaxVersion
    BY CatalogAssumption DEF TypeInv, TypeOK
  <2> QED
    BY <1>9, <2>1, <2>2, Nested, CatalogAssumption DEF BlockVersion, Fresh, Own, Version
<1>10. ASSUME NEW t \in Threads, BlockFail(t)
       PROVE  Discipline'
  <2> DEFINE lost == {BlockVersion(t)}
             stuck == Updated(t)
  <2>1. /\ pc[t] = "run" /\ pc'[t] = "commit" /\ failed'[t] = TRUE /\ ~failed[t]
        /\ updates' = updates /\ block' = block /\ version' = version /\ call' = call
        /\ doomed' = doomed \cup lost /\ dead' = dead \cup stuck /\ Others(t)
    BY <1>10 DEF BlockFail, Stop, Others, Updated, TypeInv, TypeOK, Discipline, Untainted
  <2>2. Owned(t) = Own(t) /\ Owned(t)' = Own(t) /\ Unpublished(t)' = Own(t) /\ Unpublished(t) = Own(t)
        /\ Fresh(t)' = {} /\ Updated(t)' = Updated(t) /\ Alive(t)' = {}
    BY <2>1 DEF Owned, Fresh, Unpublished, Updated, Alive, Submitting, Own
  <2>a. lost \subseteq Fresh(t) /\ stuck \subseteq Own(t)
    BY <2>1, <2>2, <1>9 DEF Discipline, Separate
  <2>3. Shrinks(t)
    BY <2>1, <2>2, <2>a DEF Shrinks
  <2>4. Gains(t, {}, lost)
    BY <1>10 DEF Gains, BlockFail, Unseen
  <2>5. Lists(t, {}, stuck) /\ Loses(t, lost, stuck)
    BY <1>10, <2>1, <2>2, <2>a DEF Lists, Loses, BlockFail, Unlisted
  <2> QED
    BY <2>1, <2>3, <2>4, <2>5, DisciplineStep DEF Moves
<1>11. ASSUME NEW t \in Threads, BlockSucceed(t)
       PROVE  Discipline'
  <2> DEFINE out == BlockOutputs(CurrentBlock(t), BlockVersion(t))
             gain == {BlockVersion(t)}
  <2>1. /\ pc[t] = "run" /\ pc'[t] \in {"commit", "resolve"} /\ failed' = failed /\ ~failed[t]
        /\ block'[t] = block[t] + 1 /\ version' = version /\ call' = call
        /\ doomed' = doomed /\ dead' = dead
        /\ avail' = [avail EXCEPT ![t] = Update(avail[t], out)]
        /\ updates' = [updates EXCEPT ![t] = Update(updates[t], out)]
        /\ UNCHANGED <<datasets, registered, generated, seen>>
        /\ \A s \in Threads \ {t} : /\ pc'[s] = pc[s] /\ block'[s] = block[s]
                                      /\ updates'[s] = updates[s] /\ avail'[s] = avail[s]
    BY <1>11 DEF BlockSucceed, TypeInv, TypeOK, Discipline, Untainted
  <2>2. Others(t)
    BY <2>1 DEF Others
  <2>3. \A n \in Names : out.data[n] \in {BlockVersion(t), None}
    BY DEF BlockOutputs
  <2>4. \A n \in Names : /\ updates'[t].data[n] \in {updates[t].data[n], BlockVersion(t), None}
                         /\ avail'[t].data[n] \in {avail[t].data[n], BlockVersion(t), None}
    <3>1. updates'[t] = Update(updates[t], out) /\ avail'[t] = Update(avail[t], out)
      BY <2>1 DEF TypeInv, TypeOK
    <3>2. \A d : \A n \in Names :
            Update(d, out).data[n] = d.data[n] \/ Update(d, out).data[n] = out.data[n]
      BY UpdateHeld
    <3> HIDE DEF out
    <3> QED
      BY <2>3, <3>1, <3>2
  <2>5. Updated(t)' \subseteq Updated(t) \cup gain
    BY <2>4 DEF Updated
  <2>6. Owned(t) = Own(t) /\ Owned(t)' = Own(t) /\ Unpublished(t)' = Own(t) /\ Unpublished(t) = Own(t)
        /\ Alive(t) = Own(t) /\ Alive(t)' = Own(t)
    BY <2>1 DEF Owned, Unpublished, Alive, Submitting, Own
  <2>a. gain \subseteq Own(t) /\ gain \subseteq Fresh(t)
    BY <2>1, <1>9
  <2>7. Fresh(t)' \subseteq Fresh(t) /\ gain \cap Fresh(t)' = {}
    <3>1. /\ block[t] \in Nat /\ call[t].base \in Nat /\ Len(call[t].program) \in Nat
          /\ Fresh(t) = call[t].base + block[t] + 1 .. call[t].base + Len(call[t].program)
      BY <2>1, <1>9 DEF Fresh
    <3>2. Fresh(t)' \subseteq call[t].base + (block[t] + 1) + 1 .. call[t].base + Len(call[t].program)
      BY <2>1 DEF Fresh
    <3> QED
      BY <3>1, <3>2 DEF BlockVersion
  <2>8. Shrinks(t)
    BY <2>1, <2>5, <2>6, <2>7, <2>a DEF Shrinks, Discipline, Separate
  <2>9. Gains(t, gain, {})
    <3>1. gain \cap doomed = {}
      BY <2>a DEF Discipline, Unmade
    <3>2. ASSUME NEW v \in Version, Unseen(v), v \notin gain
          PROVE  Unseen(v)'
      BY <2>1, <2>4, <3>2, NoneUnmade DEF Unseen
    <3> QED
      BY <2>6, <2>7, <2>a, <3>1, <3>2 DEF Gains
  <2>10. Lists(t, {}, {}) /\ Loses(t, {}, {})
    BY <2>1 DEF Lists, Loses, Unlisted
  <2> QED
    BY <2>1, <2>2, <2>8, <2>9, <2>10, DisciplineStep DEF Moves
<1>12. ASSUME NEW t \in Threads, Commit(t)
       PROVE  Discipline'
  <2>1. /\ pc[t] = "commit" /\ pc'[t] = "publish" /\ failed' = failed /\ updates' = updates
        /\ block' = block /\ version' = version /\ call' = call
        /\ doomed' = doomed /\ dead' = dead /\ Others(t)
    BY <1>12 DEF Commit, Others, TypeInv, TypeOK
  <2>2. Owned(t)' = Owned(t) /\ Unpublished(t)' = Unpublished(t) /\ Fresh(t)' = {}
        /\ Updated(t)' = Updated(t) /\ Alive(t)' = Alive(t) /\ Owned(t) = Own(t)
    BY <2>1 DEF Owned, Fresh, Unpublished, Updated, Alive, Submitting, Own
  <2>3. Shrinks(t)
    BY <2>1, <2>2 DEF Shrinks, Discipline, Separate
  <2>4. Gains(t, {}, {})
    BY <1>12, UpdateHeld DEF Gains, Commit, Unseen
  <2>5. Lists(t, {}, {}) /\ Loses(t, {}, {})
    BY <1>12, <2>1 DEF Lists, Loses, Commit, Unlisted
  <2> QED
    BY <2>1, <2>3, <2>4, <2>5, DisciplineStep DEF Moves
<1>13. ASSUME NEW t \in Threads, Publish(t)
       PROVE  Discipline'
  <2> DEFINE listed == IF failed[t] THEN {} ELSE Updated(t)
  <2>1. /\ pc[t] = "publish" /\ pc'[t] = "idle" /\ failed'[t] = FALSE /\ updates'[t] = NoDict
        /\ version' = version /\ doomed' = doomed /\ dead' = dead /\ Others(t)
        /\ UNCHANGED <<registered, generated>>
        /\ avail' = [avail EXCEPT ![t] = NoDict]
        /\ updates' = [updates EXCEPT ![t] = NoDict]
        /\ seen' = [seen EXCEPT ![t] = [n \in Names |-> None]]
        /\ datasets' = [k \in Keys |-> IF Spelled(PublicOutputs(t), k) # {}
                                 THEN LastByKey(PublicOutputs(t), k) ELSE datasets[k]]
    BY <1>13 DEF Publish, Return, Others, TypeInv, TypeOK
  <2>2. Owned(t)' = {} /\ Unpublished(t)' = {} /\ Fresh(t)' = {} /\ Updated(t)' = {}
        /\ Alive(t)' = {} /\ Unpublished(t) = Owned(t)
    BY <2>1 DEF Owned, Fresh, Unpublished, Updated, Alive, Submitting, NoDict
  <2>3. Shrinks(t)
    BY <2>1, <2>2 DEF Shrinks
  <2>4. listed \subseteq Updated(t) /\ listed \subseteq Alive(t) /\ Updated(t) \subseteq Unpublished(t)
    BY <2>2 DEF Alive, Discipline, Separate
  <2>5. \A k \in Keys : datasets'[k] \in {datasets[k], None} \cup listed
    <3>1. ASSUME NEW k \in Keys
          PROVE  LastByKey(PublicOutputs(t), k) \in {None} \cup listed
      BY LookupHeld DEF PublicOutputs, NoDict, Updated
    <3> QED
      BY <2>1, <3>1
  <2>6. Lists(t, listed, {}) /\ Loses(t, {}, {})
    BY <2>1, <2>2, <2>4, <2>5, NoneUnmade DEF Lists, Loses, Unlisted
  <2>7. ASSUME NEW v \in Version, Unseen(v)
        PROVE  Unseen(v)'
    <3>1. v \notin Updated(t) /\ v # None
      BY <2>7, NoneUnmade DEF Unseen, Updated
    <3>2. \A k \in Keys : datasets'[k] # v
      BY <2>4, <2>5, <2>7, <3>1 DEF Unseen
    <3>3. \A s \in Threads, n \in Names :
            /\ avail'[s].data[n] \in {avail[s].data[n], None}
            /\ updates'[s].data[n] \in {updates[s].data[n], None}
            /\ seen'[s][n] \in {seen[s][n], None}
      BY <2>1 DEF NoDict, TypeInv, TypeOK
    <3> QED
      BY <2>1, <2>7, <3>1, <3>2, <3>3 DEF Unseen
  <2>8. Gains(t, {}, {})
    BY <2>7 DEF Gains
  <2> QED
    BY <2>1, <2>3, <2>6, <2>8, DisciplineStep DEF Moves
<1>14. CASE UNCHANGED vars
  BY <1>14 DEF vars, Discipline, Separate, Unmade, Untainted, FailedBlockInvisible, FailedPrefixUnlisted,
     Owned, Unpublished, Fresh, Alive, Updated, Unlisted, Unseen, Own
<1>15. CASE Next
  BY <1>15, <1>1, <1>2, <1>3, <1>4, <1>5, <1>6, <1>7, <1>8, <1>10, <1>11, <1>12, <1>13
  DEF Next, BeginLoad, BeginTransform
<1> QED
  BY <1>14, <1>15

(* What a failing block computed never leaves it: not through the listing, *)
(* the registrations or the committed tables, not to a later block of any  *)
(* submission, however many threads submit, load and unload meanwhile.     *)
THEOREM FailedBlockNeverVisible == Spec => []FailedBlockInvisible
<1>1. Init => TypeInv /\ Discipline
  BY TypeInit, DisciplineInit
<1>2. TypeInv /\ Discipline /\ [Next]_vars => (TypeInv /\ Discipline)'
  BY TypeStep, DisciplineNext
<1>3. Discipline => FailedBlockInvisible
  BY DEF Discipline
<1> QED
  BY <1>1, <1>2, <1>3, PTL DEF Spec

(* What the blocks before the error of a failed submission wrote is        *)
(* committed to the executor and never becomes a listing of the session.   *)
THEOREM FailedPrefixNeverListed == Spec => []FailedPrefixUnlisted
<1>1. Init => TypeInv /\ Discipline
  BY TypeInit, DisciplineInit
<1>2. TypeInv /\ Discipline /\ [Next]_vars => (TypeInv /\ Discipline)'
  BY TypeStep, DisciplineNext
<1>3. Discipline => FailedPrefixUnlisted
  BY DEF Discipline
<1> QED
  BY <1>1, <1>2, <1>3, PTL DEF Spec

-----------------------------------------------------------------------------
(* What a program can read: the copy of the committed tables it took when  *)
(* it was parsed, what its own blocks added to the copy, and registrations,*)
(* which only load and the column helpers make.                            *)

Readable(t) == Own(t) \cup snap[t] \cup {None}

Sources ==
  /\ \A k \in Keys : registered[k] # None => registered[k] \in loaded
  /\ \A t \in Threads : pc[t] \in {"register", "set"} => call[t].base + 1 \in loaded
  /\ \A t \in Threads : pc[t] \in {"resolve", "run"} =>
        \A n \in Names : avail[t].data[n] \in Readable(t)

IsolationInv == Sources /\ SubmissionIsolated

LEMMA IsolationInit == Init => IsolationInv
BY DEF Init, IsolationInv, Sources, SubmissionIsolated

(* steps of a thread that end up outside of its program, or do not touch   *)
(* what the program reads                                                  *)
LEMMA IsolationQuiet ==
  ASSUME IsolationInv, NEW t \in Threads,
         \A s \in Threads \ {t} : /\ pc'[s] = pc[s] /\ call'[s] = call[s] /\ avail'[s] = avail[s]
                                  /\ seen'[s] = seen[s] /\ snap'[s] = snap[s],
         loaded \subseteq loaded',
         \A k \in Keys : registered'[k] # None => registered'[k] \in loaded',
         pc'[t] \in {"register", "set"} => call'[t].base + 1 \in loaded',
         pc'[t] \in {"resolve", "run"} =>
           \A n \in Names : avail'[t].data[n] \in Readable(t)',
         pc'[t] = "run" => \A n \in Names :
           seen'[t][n] # None => seen'[t][n] \in Own(t)' \cup snap'[t] \cup loaded'
  PROVE  IsolationInv'
<1>1. \A s \in Threads \ {t} : Readable(s)' = Readable(s) /\ Own(s)' = Own(s)
  BY DEF Readable, Own
<1>2. Sources'
  BY <1>1 DEF IsolationInv, Sources
<1>3. SubmissionIsolated'
  BY <1>1 DEF IsolationInv, SubmissionIsolated
<1> QED
  BY <1>2, <1>3 DEF IsolationInv

LEMMA IsolationNext ==
  ASSUME TypeInv, IsolationInv, [Next]_vars
  PROVE  IsolationInv'
<1> USE DEF catalogs, submitVars, threadVars, history, Goto
<1>1. ASSUME NEW t \in Threads, NEW op \in {"load", "transform"}, NEW n \in LoadNames, BeginWrite(t, op, n)
      PROVE  IsolationInv'
  <2>1. /\ pc'[t] = "register" /\ call'[t].base = version /\ loaded' = loaded \cup {version + 1}
        /\ \A s \in Threads \ {t} : pc'[s] = pc[s] /\ call'[s] = call[s]
        /\ UNCHANGED <<registered, avail, seen, snap>>
    BY <1>1 DEF BeginWrite, CallOf, TypeInv, TypeOK
  <2> QED
    BY <2>1, IsolationQuiet DEF IsolationInv, Sources
<1>2. ASSUME NEW t \in Threads, LoadRegister(t)
      PROVE  IsolationInv'
  <2>1. /\ pc[t] = "register" /\ pc'[t] = "set" /\ UNCHANGED <<call, avail, seen, snap, loaded>>
        /\ \A s \in Threads \ {t} : pc'[s] = pc[s]
        /\ \A k \in Keys : registered'[k] \in {registered[k], call[t].base + 1}
    BY <1>2 DEF LoadRegister, TypeInv, TypeOK
  <2> QED
    BY <2>1, IsolationQuiet DEF IsolationInv, Sources
<1>3. ASSUME NEW t \in Threads,
             \/ LoadSet(t) \/ UnloadDelete(t) \/ UnloadUnregister(t) \/ Raise(t)
             \/ ParseStop(t) \/ BlockFail(t) \/ Commit(t) \/ Publish(t)
             \/ \E n \in UnloadNames, ok \in BOOLEAN : BeginUnload(t, n, ok)
             \/ \E p \in Programs, m \in Modes : BeginSubmit(t, p, m)
      PROVE  IsolationInv'
  <2>1. /\ pc'[t] \notin {"register", "set", "resolve", "run"} /\ loaded' = loaded
        /\ \A s \in Threads \ {t} : /\ pc'[s] = pc[s] /\ call'[s] = call[s] /\ avail'[s] = avail[s]
                                      /\ seen'[s] = seen[s] /\ snap'[s] = snap[s]
        /\ \A k \in Keys : registered'[k] \in {registered[k], None}
    BY <1>3 DEF LoadSet, UnloadDelete, UnloadUnregister, Raise, ParseStop, BlockFail, Stop, Commit, Publish,
       BeginUnload, BeginSubmit, Return, TypeInv, TypeOK
  <2> QED
    BY <2>1, IsolationQuiet DEF IsolationInv, Sources
<1>4. ASSUME NEW t \in Threads, ParseDone(t)
      PROVE  IsolationInv'
  <2>1. /\ pc'[t] \in {"commit", "resolve"} /\ UNCHANGED <<call, seen, loaded, registered>>
        /\ avail'[t] = generated /\ snap'[t] = {generated.data[n] : n \in Names} \ {None}
        /\ \A s \in Threads \ {t} : pc'[s] = pc[s] /\ avail'[s] = avail[s] /\ snap'[s] = snap[s]
    BY <1>4 DEF ParseDone, TypeInv, TypeOK
  <2>2. \A n \in Names : avail'[t].data[n] \in Readable(t)'
    BY <2>1 DEF Readable
  <2> QED
    BY <2>1, <2>2, IsolationQuiet DEF IsolationInv, Sources
<1>5. ASSUME NEW t \in Threads, BlockResolve(t)
      PROVE  IsolationInv'
  <2>1. /\ pc[t] = "resolve" /\ pc'[t] \in {"commit", "run"}
        /\ UNCHANGED <<call, avail, snap, loaded, registered>>
        /\ \A s \in Threads \ {t} : pc'[s] = pc[s] /\ seen'[s] = seen[s]
    BY <1>5 DEF BlockResolve, Stop, TypeInv, TypeOK
  <2>2. Readable(t)' = Readable(t)
    BY <2>1 DEF Readable, Own
  <2>3. ASSUME NEW n \in Names, seen'[t][n] # None
        PROVE  seen'[t][n] \in Own(t)' \cup snap'[t] \cup loaded'
    <3>1. KeyOf(n) \in Keys
      BY KeyType
    <3>2. seen'[t][n] = ResolveInput(avail[t], registered, n)
      BY <1>5, <2>3 DEF BlockResolve, VisibleCatalog, TypeInv, TypeOK
    <3> QED
      BY <2>1, <2>3, <3>1, <3>2, InputHeld DEF IsolationInv, Sources, Readable, Own
  <2> QED
    BY <2>1, <2>2, <2>3, IsolationQuiet DEF IsolationInv, Sources
<1>6. ASSUME NEW t \in Threads, BlockSucceed(t)
      PROVE  IsolationInv'
  <2> DEFINE out == BlockOutputs(CurrentBlock(t), BlockVersion(t))
  <2>1. /\ pc[t] = "run" /\ pc'[t] \in {"commit", "resolve"}
        /\ UNCHANGED <<call, seen, snap, loaded, registered>>
        /\ avail'[t] = Update(avail[t], out)
        /\ \A s \in Threads \ {t} : pc'[s] = pc[s] /\ avail'[s] = avail[s]
    BY <1>6 DEF BlockSucceed, TypeInv, TypeOK
  <2>2. BlockVersion(t) \in Own(t)
    <3>1. block[t] < Len(call[t].program)
      BY <2>1 DEF TypeInv, CallInBounds
    <3> QED
      BY <3>1, Nested DEF BlockVersion, Own
  <2>3. \A n \in Names : out.data[n] \in {BlockVersion(t), None}
    BY DEF BlockOutputs
  <2>4. ASSUME NEW n \in Names
        PROVE  avail'[t].data[n] \in {avail[t].data[n], out.data[n]}
    BY <2>1, UpdateHeld
  <2>5. Readable(t)' = Readable(t) /\ \A n \in Names : avail[t].data[n] \in Readable(t)
    BY <2>1 DEF Readable, Own, IsolationInv, Sources
  <2>6. \A n \in Names : avail'[t].data[n] \in Readable(t)'
    BY <2>2, <2>3, <2>4, <2>5 DEF Readable
  <2> QED
    BY <2>1, <2>6, IsolationQuiet DEF IsolationInv, Sources
<1>7. CASE UNCHANGED vars
  BY <1>7 DEF vars, IsolationInv, Sources, SubmissionIsolated, Readable, Own
<1>8. CASE Next
  BY <1>8, <1>1, <1>2, <1>3, <1>4, <1>5, <1>6 DEF Next, BeginLoad, BeginTransform
<1> QED
  BY <1>7, <1>8

(* The commit of another submission never shows through in the middle of a *)
(* program: whatever a block reads is an output of its own program, an     *)
(* entry of the copy taken when the program was parsed, or a registration. *)
THEOREM SubmissionsIsolated == Spec => []SubmissionIsolated
<1>1. Init => TypeInv /\ IsolationInv
  BY TypeInit, IsolationInit
<1>2. TypeInv /\ IsolationInv /\ [Next]_vars => (TypeInv /\ IsolationInv)'
  BY TypeStep, IsolationNext
<1>3. IsolationInv => SubmissionIsolated
  BY DEF IsolationInv
<1> QED
  BY <1>1, <1>2, <1>3, PTL DEF Spec
=============================================================================
