------------------------ MODULE SessionCommitProofs ------------------------
(***************************************************************************)
(* What a submission leaves in the catalogs, for every set of names,       *)
(* threads, programs and versions: exactly the last write of every name by *)
(* the blocks that succeeded.                                              *)
(***************************************************************************)
EXTENDS SessionCatalogProofs, DataInduction

(* the version of the last successful block that wrote a name *)
Written(t, n) ==
  IF LastWriter(t, n) = {} THEN None
  ELSE call[t].base + (CHOOSE i \in LastWriter(t, n) : \A j \in LastWriter(t, n) : j <= i)

(* The updates of a running submission are those writes, and so is its     *)
(* copy of the catalog under the names they touch.                         *)
UpdatesAreWrites ==
  \A t \in Threads, n \in Names :
    /\ updates[t].data[n] = Written(t, n)
    /\ LastWriter(t, n) # {} => Has(updates[t], n)

CopyHasWrites ==
  \A t \in Threads : pc[t] \in {"resolve", "run"} =>
    \A n \in Names : LastWriter(t, n) # {} => avail[t].data[n] = updates[t].data[n]

BlocksOfProgram == \A t \in Threads : block[t] <= Len(call[t].program)

PrefixInv == UpdatesAreWrites /\ CopyHasWrites /\ BlocksOfProgram

LEMMA LengthType == TypeInv => \A t \in Threads : Len(call[t].program) \in Nat /\ block[t] \in Nat
<1>1. TypeInv => \A t \in Threads : call[t].program \in Programs \cup {<<>>}
  BY DEF TypeInv, TypeOK, Call
<1> QED
  BY <1>1, CatalogAssumption DEF TypeInv, TypeOK

LEMMA NoneWritten ==
  ASSUME NEW t \in Threads, block[t] = 0, NEW n \in Names
  PROVE  LastWriter(t, n) = {} /\ Written(t, n) = None
BY DEF LastWriter, Written

LEMMA WritesKept ==
  ASSUME NEW t \in Threads, NEW n \in Names, call'[t] = call[t], block'[t] = block[t]
  PROVE  LastWriter(t, n)' = LastWriter(t, n) /\ Written(t, n)' = Written(t, n)
BY DEF LastWriter, Written

LEMMA PrefixInit == Init => PrefixInv
BY NoneWritten DEF Init, PrefixInv, UpdatesAreWrites, CopyHasWrites, BlocksOfProgram, NoDict, NoCall, CallOf

(* a program that stays at its block, or that is not at one *)
LEMMA PrefixQuiet ==
  ASSUME TypeInv, TypeInv', PrefixInv, NEW t \in Threads,
         \A s \in Threads \ {t} : /\ pc'[s] = pc[s] /\ call'[s] = call[s] /\ avail'[s] = avail[s]
                                  /\ block'[s] = block[s] /\ updates'[s] = updates[s],
         block'[t] = block[t], updates'[t] = updates[t],
         call'[t] = call[t] \/ block[t] = 0,
         pc'[t] \in {"resolve", "run"} =>
           block[t] = 0 \/ (pc[t] \in {"resolve", "run"} /\ avail'[t] = avail[t])
  PROVE  PrefixInv'
<1>1. \A s \in Threads, n \in Names :
        LastWriter(s, n)' = LastWriter(s, n) /\ Written(s, n)' = Written(s, n)
  <2>2. ASSUME NEW n \in Names, block[t] = 0
        PROVE  LastWriter(t, n)' = LastWriter(t, n) /\ Written(t, n)' = Written(t, n)
    BY <2>2 DEF LastWriter, Written
  <2> QED
    BY <2>2, WritesKept
<1>2. block[t] = 0 => \A n \in Names : LastWriter(t, n) = {}
  BY NoneWritten
<1>3. UpdatesAreWrites'
  BY <1>1 DEF PrefixInv, UpdatesAreWrites, Has
<1>4. CopyHasWrites'
  BY <1>1, <1>2 DEF PrefixInv, CopyHasWrites
<1>5. BlocksOfProgram'
  <2>1. \A s \in Threads : Len(call'[s].program) \in Nat
    BY LengthType DEF TypeInv, TypeOK, Call, CallInBounds
  <2> QED
    BY <2>1, LengthType DEF PrefixInv, BlocksOfProgram
<1> QED
  BY <1>3, <1>4, <1>5 DEF PrefixInv

(* the block that comes last is the largest index *)
LEMMA LastIsLargest ==
  ASSUME NEW b \in Nat, NEW S \in SUBSET (1..b)
  PROVE  (CHOOSE i \in S \cup {b + 1} : \A j \in S \cup {b + 1} : j <= i) = b + 1
<1>1. \A j \in S \cup {b + 1} : j <= b + 1 /\ j \in Nat
  OBVIOUS
<1>2. \A i \in S \cup {b + 1} : (\A j \in S \cup {b + 1} : j <= i) => i = b + 1
  BY <1>1
<1> QED
  BY <1>1, <1>2

LEMMA PrefixNext ==
  ASSUME TypeInv, TypeInv', PrefixInv, [Next]_vars
  PROVE  PrefixInv'
<1> USE DEF catalogs, submitVars, threadVars, history, Goto
<1>1. ASSUME NEW t \in Threads,
             \/ \E op \in {"load", "transform"}, n \in LoadNames : BeginWrite(t, op, n)
             \/ LoadRegister(t) \/ LoadSet(t)
             \/ \E n \in UnloadNames, ok \in BOOLEAN : BeginUnload(t, n, ok)
             \/ UnloadDelete(t) \/ UnloadUnregister(t) \/ Raise(t)
             \/ \E p \in Programs, m \in Modes : BeginSubmit(t, p, m)
             \/ ParseStop(t) \/ ParseDone(t)
      PROVE  PrefixInv'
  <2>1. /\ pc[t] \notin {"resolve", "run", "commit", "publish"} /\ pc'[t] # "run"
        /\ block' = block /\ updates' = updates
        /\ \A s \in Threads \ {t} : pc'[s] = pc[s] /\ call'[s] = call[s] /\ avail'[s] = avail[s]
    BY <1>1 DEF BeginWrite, LoadRegister, LoadSet, BeginUnload, UnloadDelete, UnloadUnregister, Raise,
       BeginSubmit, ParseStop, ParseDone, Return, TypeInv, TypeOK
  <2>2. block[t] = 0
    BY <2>1 DEF TypeInv, CallInBounds
  <2> QED
    BY <2>1, <2>2, PrefixQuiet
<1>2. ASSUME NEW t \in Threads, BlockResolve(t) \/ BlockFail(t) \/ Commit(t)
      PROVE  PrefixInv'
  <2>1. /\ pc[t] \in {"resolve", "run", "commit"} /\ (pc'[t] \in {"resolve", "run"} => pc[t] = "resolve")
        /\ UNCHANGED <<call, block, updates, avail>>
        /\ \A s \in Threads \ {t} : pc'[s] = pc[s]
    BY <1>2 DEF BlockResolve, BlockFail, Stop, Commit, TypeInv, TypeOK
  <2> QED
    BY <2>1, PrefixQuiet
<1>3. ASSUME NEW t \in Threads, BlockSucceed(t)
      PROVE  PrefixInv'
  <2> DEFINE out == BlockOutputs(CurrentBlock(t), BlockVersion(t))
  <2>1. /\ pc[t] = "run" /\ call' = call /\ block'[t] = block[t] + 1
        /\ avail'[t] = Update(avail[t], out) /\ updates'[t] = Update(updates[t], out)
        /\ \A s \in Threads \ {t} : /\ pc'[s] = pc[s] /\ avail'[s] = avail[s]
                                      /\ block'[s] = block[s] /\ updates'[s] = updates[s]
    BY <1>3 DEF BlockSucceed, TypeInv, TypeOK
  <2>2. /\ block[t] \in Nat /\ call[t].base \in Nat /\ block[t] + 1 \in 1..(block[t] + 1)
        /\ BlockVersion(t) # None
    BY CatalogAssumption DEF TypeInv, TypeOK, Call, BlockVersion
  <2>3. \A s \in Threads \ {t}, n \in Names :
          LastWriter(s, n)' = LastWriter(s, n) /\ Written(s, n)' = Written(s, n)
    BY <2>1, WritesKept
  <2>4. ASSUME NEW n \in Names, n \in CurrentBlock(t).writes
        PROVE  /\ LastWriter(t, n)' # {} /\ Written(t, n)' = BlockVersion(t)
               /\ updates'[t].data[n] = BlockVersion(t) /\ avail'[t].data[n] = BlockVersion(t)
    <3>1. LastWriter(t, n)' = LastWriter(t, n) \cup {block[t] + 1}
      BY <2>1, <2>2, <2>4 DEF LastWriter, CurrentBlock
    <3>2. (CHOOSE i \in LastWriter(t, n)' : \A j \in LastWriter(t, n)' : j <= i) = block[t] + 1
      BY <2>2, <3>1, LastIsLargest DEF LastWriter
    <3>3. Written(t, n)' = BlockVersion(t)
      <4>1. Written(t, n)' = call'[t].base
              + (CHOOSE i \in LastWriter(t, n)' : \A j \in LastWriter(t, n)' : j <= i)
        BY <3>1 DEF Written
      <4>2. Written(t, n)' = call[t].base + (block[t] + 1)
        BY <2>1, <3>2, <4>1, Zenon
      <4> QED
        BY <2>2, <4>2 DEF BlockVersion
    <3>4. out.data[n] = BlockVersion(t)
      BY <2>4 DEF BlockOutputs
    <3>5. \A d : Update(d, out).data[n] = out.data[n]
      BY <2>2, <3>4 DEF Update, Has
    <3> QED
      BY <2>1, <3>1, <3>3, <3>4, <3>5
  <2>5. ASSUME NEW n \in Names, n \notin CurrentBlock(t).writes
        PROVE  /\ LastWriter(t, n)' = LastWriter(t, n) /\ Written(t, n)' = Written(t, n)
               /\ updates'[t].data[n] = updates[t].data[n] /\ avail'[t].data[n] = avail[t].data[n]
    <3>1. LastWriter(t, n)' = LastWriter(t, n)
      BY <2>1, <2>2, <2>5 DEF LastWriter, CurrentBlock
    <3>2. Written(t, n)' = Written(t, n)
      BY <2>1, <3>1 DEF Written
    <3>3. \A d : Update(d, out).data[n] = d.data[n]
      BY <2>5 DEF Update, Has, BlockOutputs
    <3> QED
      BY <2>1, <3>1, <3>2, <3>3
  <2>6. UpdatesAreWrites'
    BY <2>1, <2>2, <2>3, <2>4, <2>5 DEF PrefixInv, UpdatesAreWrites, Has
  <2>7. CopyHasWrites'
    BY <2>1, <2>3, <2>4, <2>5 DEF PrefixInv, CopyHasWrites
  <2>8. block[t] < Len(call[t].program)
    BY <2>1 DEF TypeInv, CallInBounds
  <2>9. BlocksOfProgram'
    BY <2>1, <2>8, LengthType DEF PrefixInv, BlocksOfProgram
  <2> QED
    BY <2>6, <2>7, <2>9 DEF PrefixInv
<1>4. ASSUME NEW t \in Threads, Publish(t)
      PROVE  PrefixInv'
  <2>1. /\ pc'[t] = "idle" /\ block'[t] = 0 /\ updates'[t] = NoDict /\ Len(call'[t].program) = 0
        /\ \A s \in Threads \ {t} : /\ pc'[s] = pc[s] /\ call'[s] = call[s] /\ avail'[s] = avail[s]
                                      /\ block'[s] = block[s] /\ updates'[s] = updates[s]
    BY <1>4 DEF Publish, Return, NoCall, CallOf, TypeInv, TypeOK
  <2>2. \A s \in Threads \ {t}, n \in Names :
          LastWriter(s, n)' = LastWriter(s, n) /\ Written(s, n)' = Written(s, n)
    BY <2>1, WritesKept
  <2>3. \A n \in Names : LastWriter(t, n)' = {} /\ Written(t, n)' = None
    BY <2>1 DEF LastWriter, Written
  <2>4. UpdatesAreWrites'
    BY <2>1, <2>2, <2>3 DEF PrefixInv, UpdatesAreWrites, Has, NoDict
  <2>5. CopyHasWrites'
    BY <2>1, <2>2 DEF PrefixInv, CopyHasWrites
  <2>6. BlocksOfProgram'
    BY <2>1 DEF PrefixInv, BlocksOfProgram
  <2> QED
    BY <2>4, <2>5, <2>6 DEF PrefixInv
<1>5. CASE UNCHANGED vars
  <2>1. UNCHANGED <<pc, call, block, avail, updates>>
    BY <1>5 DEF vars
  <2>2. \A s \in Threads, n \in Names :
          LastWriter(s, n)' = LastWriter(s, n) /\ Written(s, n)' = Written(s, n)
    BY <2>1, WritesKept
  <2> QED
    BY <2>1, <2>2 DEF PrefixInv, UpdatesAreWrites, CopyHasWrites, BlocksOfProgram, Has
<1>6. CASE Next
  BY <1>6, <1>1, <1>2, <1>3, <1>4 DEF Next, BeginLoad, BeginTransform
<1> QED
  BY <1>5, <1>6

-----------------------------------------------------------------------------
(* A commit changes the committed tables by exactly what the program's     *)
(* blocks up to the first error wrote, the last write of a name winning,   *)
(* and nothing but a commit changes them.                                  *)
THEOREM CommitsArePrefixes == Spec => CommitIsPrefix
<1>1. Init => TypeInv /\ PrefixInv
  BY TypeInit, PrefixInit
<1>2. TypeInv /\ PrefixInv /\ [Next]_vars => (TypeInv /\ PrefixInv)'
  BY TypeStep, PrefixNext
<1> DEFINE Step ==
      /\ \A t \in Threads : pc[t] = "commit" /\ pc'[t] # "commit" => CommitsPrefix(t)
      /\ (generated' # generated =>
            \E t \in Threads : pc[t] = "commit" /\ pc'[t] = "publish")
<1>3. TypeInv /\ PrefixInv /\ [Next]_vars => [Step]_vars
  <2> SUFFICES ASSUME TypeInv, PrefixInv, Next PROVE Step
    BY DEF vars
  <2> USE DEF catalogs, submitVars, threadVars, history, Goto
  <2>1. ASSUME NEW t \in Threads, Commit(t)
        PROVE  Step
    <3>1. /\ pc[t] = "commit" /\ pc'[t] = "publish" /\ generated' = Update(generated, updates[t])
          /\ \A s \in Threads \ {t} : pc'[s] = pc[s]
      BY <2>1 DEF Commit, TypeInv, TypeOK
    <3>2. \A n \in Names : generated'.data[n] =
            IF Has(updates[t], n) THEN updates[t].data[n] ELSE generated.data[n]
      BY <3>1 DEF Update
    <3>3. \A n \in Names : Has(updates[t], n) <=> LastWriter(t, n) # {}
      BY DEF PrefixInv, UpdatesAreWrites, Written, Has
    <3>4. CommitsPrefix(t)
      BY <3>2, <3>3 DEF CommitsPrefix, PrefixInv, UpdatesAreWrites, Written
    <3> QED
      BY <3>1, <3>4
  <2>2. ASSUME NEW t \in Threads,
               \/ \E op \in {"load", "transform"}, n \in LoadNames : BeginWrite(t, op, n)
               \/ LoadRegister(t) \/ LoadSet(t)
               \/ \E n \in UnloadNames, ok \in BOOLEAN : BeginUnload(t, n, ok)
               \/ UnloadDelete(t) \/ UnloadUnregister(t) \/ Raise(t)
               \/ \E p \in Programs, m \in Modes : BeginSubmit(t, p, m)
               \/ ParseStop(t) \/ ParseDone(t) \/ BlockResolve(t) \/ BlockFail(t)
               \/ BlockSucceed(t) \/ Publish(t)
        PROVE  Step
    <3>1. /\ generated' = generated /\ pc[t] # "commit"
          /\ \A s \in Threads \ {t} : pc'[s] = pc[s]
      BY <2>2 DEF BeginWrite, LoadRegister, LoadSet, BeginUnload, UnloadDelete, UnloadUnregister, Raise,
         BeginSubmit, ParseStop, ParseDone, BlockResolve, BlockFail, Stop, BlockSucceed, Publish, Return,
         TypeInv, TypeOK
    <3> QED
      BY <3>1
  <2> QED
    BY <2>1, <2>2 DEF Next, BeginLoad, BeginTransform
<1> QED
  BY <1>1, <1>2, <1>3, PTL DEF Spec, CommitIsPrefix

-----------------------------------------------------------------------------
(* A key that is written under one spelling only, whatever spellings it is *)
(* read by, has one entry in every dict: the order of insertion no longer  *)
(* matters, and a dict is read by key without ambiguity.                   *)
Outputs == UNION {UNION {p[i].writes : i \in 1..Len(p)} : p \in Programs}

OneWrittenSpelling == \A m, n \in Outputs : KeyOf(m) = KeyOf(n) => m = n

OnlyOutputs(d) == \A n \in Names : Has(d, n) => n \in Outputs

HoldOutputs ==
  /\ OnlyOutputs(generated)
  /\ \A t \in Threads : OnlyOutputs(avail[t]) /\ OnlyOutputs(updates[t])

LEMMA BlockType ==
  ASSUME TypeInv, NEW t \in Threads, NEW i \in 1..Len(call[t].program)
  PROVE  /\ call[t].program[i].writes \subseteq Names /\ call[t].program[i].reads \subseteq Names
         /\ call[t].program[i].writes \subseteq Outputs
<1>1. call[t].program \in Programs \cup {<<>>}
  BY DEF TypeInv, TypeOK, Call
<1>2. call[t].program \in Programs
  <2>1. CASE call[t].program = <<>>
    BY <2>1
  <2> QED
    BY <1>1, <2>1
<1>3. call[t].program[i] \in DataBlock
  BY <1>2, CatalogAssumption
<1> QED
  BY <1>2, <1>3 DEF DataBlock, Outputs

(* the block that a thread is at *)
LEMMA CurrentType ==
  ASSUME TypeInv, NEW t \in Threads, pc[t] \in {"resolve", "run"}
  PROVE  /\ CurrentBlock(t).reads \subseteq Names /\ CurrentBlock(t).writes \subseteq Names
         /\ CurrentBlock(t).writes \subseteq Outputs
<1>1. block[t] < Len(call[t].program)
  BY DEF TypeInv, CallInBounds
<1>2. block[t] + 1 \in 1..Len(call[t].program)
  BY <1>1, LengthType
<1> QED
  BY <1>2, BlockType DEF CurrentBlock

LEMMA OutputsAreNames == Outputs \subseteq Names
<1> SUFFICES ASSUME NEW p \in Programs, NEW i \in 1..Len(p) PROVE p[i].writes \subseteq Names
  BY DEF Outputs
<1>1. p[i] \in DataBlock
  BY CatalogAssumption
<1> QED
  BY <1>1 DEF DataBlock

LEMMA OutputsInit == Init => HoldOutputs
BY DEF Init, HoldOutputs, OnlyOutputs, Has, NoDict

LEMMA OutputsNext ==
  ASSUME TypeInv, HoldOutputs, [Next]_vars
  PROVE  HoldOutputs'
<1> USE DEF catalogs, submitVars, threadVars, history, Goto
<1>1. \A d, u : OnlyOutputs(d) /\ OnlyOutputs(u) => OnlyOutputs(Update(d, u))
  BY DEF OnlyOutputs, Has, Update
<1>2. ASSUME NEW t \in Threads,
             \/ \E op \in {"load", "transform"}, n \in LoadNames : BeginWrite(t, op, n)
             \/ LoadRegister(t) \/ LoadSet(t)
             \/ \E n \in UnloadNames, ok \in BOOLEAN : BeginUnload(t, n, ok)
             \/ UnloadDelete(t) \/ UnloadUnregister(t) \/ Raise(t)
             \/ \E p \in Programs, m \in Modes : BeginSubmit(t, p, m)
             \/ ParseStop(t) \/ BlockResolve(t) \/ BlockFail(t)
      PROVE  HoldOutputs'
  <2>1. UNCHANGED <<generated, avail, updates>>
    BY <1>2 DEF BeginWrite, LoadRegister, LoadSet, BeginUnload, UnloadDelete, UnloadUnregister, Raise,
       BeginSubmit, ParseStop, BlockResolve, BlockFail, Stop, Return
  <2> QED
    BY <2>1 DEF HoldOutputs, OnlyOutputs, Has
<1>3. ASSUME NEW t \in Threads, ParseDone(t) \/ Publish(t)
      PROVE  HoldOutputs'
  <2>1. /\ generated' = generated
        /\ avail'[t] \in {generated, NoDict} /\ updates'[t] \in {updates[t], NoDict}
        /\ \A s \in Threads \ {t} : avail'[s] = avail[s] /\ updates'[s] = updates[s]
    BY <1>3 DEF ParseDone, Publish, TypeInv, TypeOK
  <2>2. OnlyOutputs(NoDict)
    BY DEF OnlyOutputs, NoDict, Has
  <2> QED
    BY <2>1, <2>2 DEF HoldOutputs, OnlyOutputs, Has
<1>4. ASSUME NEW t \in Threads, BlockSucceed(t)
      PROVE  HoldOutputs'
  <2> DEFINE out == BlockOutputs(CurrentBlock(t), BlockVersion(t))
  <2>1. /\ pc[t] = "run" /\ generated' = generated
        /\ avail'[t] = Update(avail[t], out) /\ updates'[t] = Update(updates[t], out)
        /\ \A s \in Threads \ {t} : avail'[s] = avail[s] /\ updates'[s] = updates[s]
    BY <1>4 DEF BlockSucceed, TypeInv, TypeOK
  <2>2. OnlyOutputs(out)
    BY <2>1, CurrentType DEF OnlyOutputs, BlockOutputs, Has
  <2>3. OnlyOutputs(Update(avail[t], out)) /\ OnlyOutputs(Update(updates[t], out))
    BY <1>1, <2>2 DEF HoldOutputs
  <2> QED
    BY <2>1, <2>3 DEF HoldOutputs, OnlyOutputs, Has
<1>5. ASSUME NEW t \in Threads, Commit(t)
      PROVE  HoldOutputs'
  <2>1. generated' = Update(generated, updates[t]) /\ UNCHANGED <<avail, updates>>
    BY <1>5 DEF Commit
  <2>2. OnlyOutputs(Update(generated, updates[t]))
    BY <1>1 DEF HoldOutputs
  <2> QED
    BY <2>1, <2>2 DEF HoldOutputs, OnlyOutputs, Has
<1>6. CASE UNCHANGED vars
  BY <1>6 DEF vars, HoldOutputs, OnlyOutputs, Has
<1>7. CASE Next
  BY <1>7, <1>2, <1>3, <1>4, <1>5 DEF Next, BeginLoad, BeginTransform
<1> QED
  BY <1>6, <1>7

LEMMA OneSpelled ==
  ASSUME OneWrittenSpelling, NEW d \in Dict, OnlyOutputs(d), NEW n \in Names, Has(d, n)
  PROVE  /\ Spelled(d, KeyOf(n)) = {n}
         /\ ResolveAlias(d, KeyOf(n)) = d.data[n] /\ LastByKey(d, KeyOf(n)) = d.data[n]
<1>1. Spelled(d, KeyOf(n)) = {n}
  BY DEF Spelled, OneWrittenSpelling, OnlyOutputs
<1>2. d.at[n] <= d.at[n]
  BY DEF Dict
<1>3. {m \in {n} : \A q \in {n} : d.at[m] <= d.at[q]} = {n}
  BY <1>2
<1>4. {m \in {n} : \A q \in {n} : d.at[q] <= d.at[m]} = {n}
  BY <1>2
<1>5. (CHOOSE m \in {n} : TRUE) = n
  OBVIOUS
<1> QED
  BY <1>1, <1>3, <1>4, <1>5 DEF ResolveAlias, LastByKey

(* under a key a dict has one entry or none *)
LEMMA OneOrNone ==
  ASSUME OneWrittenSpelling, NEW d \in Dict, OnlyOutputs(d), NEW k
  PROVE  \/ Spelled(d, k) = {} /\ ResolveAlias(d, k) = None /\ LastByKey(d, k) = None
         \/ \E n \in Names : /\ KeyOf(n) = k /\ Has(d, n) /\ Spelled(d, k) = {n}
                             /\ ResolveAlias(d, k) = d.data[n] /\ LastByKey(d, k) = d.data[n]
<1>1. CASE Spelled(d, k) = {}
  BY <1>1 DEF ResolveAlias, LastByKey
<1>2. CASE Spelled(d, k) # {}
  <2>1. PICK n \in Names : KeyOf(n) = k /\ Has(d, n)
    BY <1>2 DEF Spelled
  <2> QED
    BY <2>1, OneSpelled
<1> QED
  BY <1>1, <1>2

(* the one spelling under which earlier blocks wrote a key *)
LEMMA WrittenSpelling ==
  ASSUME TypeInv, PrefixInv, NEW t \in Threads, NEW k, EarlierWriters(t, k) # {}
  PROVE  \E n \in Outputs \cap Names : KeyOf(n) = k
<1>1. \A i \in 1..block[t] : i \in 1..Len(call[t].program)
  BY LengthType DEF PrefixInv, BlocksOfProgram
<1> QED
  BY <1>1, BlockType DEF EarlierWriters

LEMMA WritersOfKey ==
  ASSUME OneWrittenSpelling, TypeInv, PrefixInv, NEW t \in Threads, NEW n \in Outputs
  PROVE  EarlierWriters(t, KeyOf(n)) = LastWriter(t, n)
<1>1. \A i \in 1..block[t] : i \in 1..Len(call[t].program)
  BY LengthType DEF PrefixInv, BlocksOfProgram
<1>3. \A i \in 1..block[t] : call[t].program[i].writes \subseteq Outputs
  BY <1>1, BlockType
<1> QED
  BY <1>3 DEF OneWrittenSpelling, EarlierWriters, LastWriter

(* what the writes of a program leave in its updates and its copy *)
LEMMA LastWriteHeld ==
  ASSUME OneWrittenSpelling, TypeInv, PrefixInv, NEW t \in Threads, NEW n \in Outputs \cap Names,
         EarlierWriters(t, KeyOf(n)) # {}
  PROVE  /\ Has(updates[t], n)
         /\ updates[t].data[n] = call[t].base + (CHOOSE i \in EarlierWriters(t, KeyOf(n)) :
                                    \A j \in EarlierWriters(t, KeyOf(n)) : j <= i)
BY WritersOfKey DEF PrefixInv, UpdatesAreWrites, Written

LEMMA VisibleNext ==
  ASSUME OneWrittenSpelling, TypeInv, PrefixInv, HoldOutputs, EarlierBlockVisible, [Next]_vars
  PROVE  EarlierBlockVisible'
<1> USE DEF catalogs, submitVars, threadVars, history, Goto
<1>1. ASSUME NEW t \in Threads, call'[t] = call[t], block'[t] = block[t], NEW k
      PROVE  EarlierWriters(t, k)' = EarlierWriters(t, k)
  BY <1>1 DEF EarlierWriters
<1>2. ASSUME NEW t \in Threads, pc'[t] # "run",
             \A s \in Threads \ {t} : /\ pc'[s] = pc[s] /\ call'[s] = call[s]
                                      /\ block'[s] = block[s] /\ seen'[s] = seen[s]
      PROVE  EarlierBlockVisible'
  BY <1>1, <1>2 DEF EarlierBlockVisible, CurrentBlock
<1>3. ASSUME NEW t \in Threads,
             \/ \E op \in {"load", "transform"}, n \in LoadNames : BeginWrite(t, op, n)
             \/ LoadRegister(t) \/ LoadSet(t)
             \/ \E n \in UnloadNames, ok \in BOOLEAN : BeginUnload(t, n, ok)
             \/ UnloadDelete(t) \/ UnloadUnregister(t) \/ Raise(t)
             \/ \E p \in Programs, m \in Modes : BeginSubmit(t, p, m)
             \/ ParseStop(t) \/ ParseDone(t) \/ BlockFail(t)
             \/ BlockSucceed(t) \/ Commit(t) \/ Publish(t)
      PROVE  EarlierBlockVisible'
  <2>1. /\ pc'[t] # "run"
        /\ \A s \in Threads \ {t} : /\ pc'[s] = pc[s] /\ call'[s] = call[s]
                                      /\ block'[s] = block[s] /\ seen'[s] = seen[s]
    BY <1>3 DEF BeginWrite, LoadRegister, LoadSet, BeginUnload, UnloadDelete, UnloadUnregister, Raise,
       BeginSubmit, ParseStop, ParseDone, BlockFail, Stop, BlockSucceed, Commit, Publish, Return,
       TypeInv, TypeOK
  <2> QED
    BY <2>1, <1>2
<1>4. ASSUME NEW t \in Threads, BlockResolve(t)
      PROVE  EarlierBlockVisible'
  <2>1. /\ pc[t] = "resolve" /\ UNCHANGED <<call, block>> /\ avail[t] \in Dict
        /\ \A s \in Threads \ {t} : pc'[s] = pc[s] /\ seen'[s] = seen[s]
    BY <1>4 DEF BlockResolve, Stop, TypeInv, TypeOK
  <2>2. ASSUME NEW n \in Names, n \in CurrentBlock(t).reads, EarlierWriters(t, KeyOf(n)) # {}
        PROVE  seen'[t][n] = call[t].base + (CHOOSE i \in EarlierWriters(t, KeyOf(n)) :
                                 \A j \in EarlierWriters(t, KeyOf(n)) : j <= i)
    <3>1. PICK m \in Outputs \cap Names : KeyOf(m) = KeyOf(n)
      BY <2>2, WrittenSpelling
    <3>2. /\ Has(updates[t], m)
          /\ updates[t].data[m] = call[t].base + (CHOOSE i \in EarlierWriters(t, KeyOf(n)) :
                                    \A j \in EarlierWriters(t, KeyOf(n)) : j <= i)
      BY <2>2, <3>1, LastWriteHeld
    <3>3. avail[t].data[m] = updates[t].data[m]
      BY <2>1, <2>2, <3>1, WritersOfKey DEF PrefixInv, CopyHasWrites
    <3>4. Has(avail[t], m)
      BY <3>2, <3>3 DEF Has
    <3>5. ResolveInput(avail[t], registered, n) = avail[t].data[m]
      BY <2>1, <3>1, <3>4, OneSpelled DEF ResolveInput, HoldOutputs
    <3> QED
      BY <1>4, <2>2, <3>2, <3>3, <3>5 DEF BlockResolve, VisibleCatalog, TypeInv, TypeOK
  <2>3. \A n \in CurrentBlock(t).reads : n \in Names
    BY <2>1, CurrentType
  <2> QED
    BY <1>1, <2>1, <2>2, <2>3 DEF EarlierBlockVisible, CurrentBlock
<1>5. CASE UNCHANGED vars
  <2>1. UNCHANGED <<pc, call, block, seen>>
    BY <1>5 DEF vars
  <2>2. \A t \in Threads : \A k : EarlierWriters(t, k)' = EarlierWriters(t, k)
    BY <1>1, <2>1
  <2>3. \A t \in Threads : CurrentBlock(t)' = CurrentBlock(t)
    BY <2>1 DEF CurrentBlock
  <2> QED
    BY <2>1, <2>2, <2>3 DEF EarlierBlockVisible
<1>6. CASE Next
  BY <1>6, <1>3, <1>4 DEF Next, BeginLoad, BeginTransform
<1> QED
  BY <1>5, <1>6

(* A block that names the output of an earlier block of its program, in    *)
(* whatever spelling, reads that output, whatever other threads load,      *)
(* unload or commit under the name meanwhile.  Programs that write one key *)
(* under two spellings break it.                                           *)
THEOREM EarlierBlocksAreRead ==
  ASSUME OneWrittenSpelling
  PROVE  Spec => []EarlierBlockVisible
<1>1. Init => TypeInv /\ PrefixInv /\ HoldOutputs /\ EarlierBlockVisible
  BY TypeInit, PrefixInit, OutputsInit DEF Init, EarlierBlockVisible
<1>2. TypeInv /\ PrefixInv /\ HoldOutputs /\ EarlierBlockVisible /\ [Next]_vars
        => (TypeInv /\ PrefixInv /\ HoldOutputs /\ EarlierBlockVisible)'
  BY TypeStep, PrefixNext, OutputsNext, VisibleNext
<1> QED
  BY <1>1, <1>2, PTL DEF Spec

-----------------------------------------------------------------------------
(* The updates of a running submission are in the order in which the       *)
(* program first wrote their names.                                        *)
UpdatesInOrder ==
  \A t \in Threads, n \in Names : LastWriter(t, n) # {} =>
    /\ updates[t].at[n] <= Count(updates[t])
    /\ \A m \in Names :
         LastWriter(t, m) # {} /\ FirstBlock(LastWriter(t, m)) < FirstBlock(LastWriter(t, n)) =>
           updates[t].at[m] < updates[t].at[n]

(* the block that wrote a name first *)
LEMMA FirstIsLeast ==
  ASSUME NEW b \in Nat, NEW S \in SUBSET (1..b), S # {}
  PROVE  FirstBlock(S) \in S /\ \A j \in S : FirstBlock(S) <= j
<1>1. S \subseteq Nat
  OBVIOUS
<1>2. \E i \in S : \A j \in S : i <= j
  BY <1>1, LeastNumber
<1> QED
  BY <1>2 DEF FirstBlock

LEMMA LaterBlockIsNotFirst ==
  ASSUME NEW b \in Nat, NEW S \in SUBSET (1..b), S # {}
  PROVE  FirstBlock(S \cup {b + 1}) = FirstBlock(S)
<1>1. /\ S \cup {b + 1} \in SUBSET (1..(b + 1)) /\ S \cup {b + 1} # {} /\ b + 1 \in Nat
      /\ \A j \in S : j \in Nat /\ j < b + 1
  OBVIOUS
<1>2. FirstBlock(S) \in S /\ \A j \in S : FirstBlock(S) <= j
  BY FirstIsLeast
<1>3. /\ FirstBlock(S \cup {b + 1}) \in S \cup {b + 1}
      /\ \A j \in S \cup {b + 1} : FirstBlock(S \cup {b + 1}) <= j
  BY <1>1, FirstIsLeast
<1>4. FirstBlock(S \cup {b + 1}) <= FirstBlock(S) /\ FirstBlock(S) < b + 1 /\ FirstBlock(S) \in Nat
  BY <1>1, <1>2, <1>3
<1>5. FirstBlock(S \cup {b + 1}) \in S
  BY <1>1, <1>3, <1>4
<1>6. FirstBlock(S) <= FirstBlock(S \cup {b + 1}) /\ FirstBlock(S \cup {b + 1}) \in Nat
  BY <1>1, <1>2, <1>5
<1> QED
  BY <1>4, <1>6

LEMMA OnlyBlockIsFirst ==
  ASSUME NEW b \in Nat
  PROVE  FirstBlock({b + 1}) = b + 1
<1>1. {b + 1} \in SUBSET (1..(b + 1)) /\ b + 1 \in Nat
  OBVIOUS
<1>2. FirstBlock({b + 1}) \in {b + 1}
  BY <1>1, FirstIsLeast
<1> QED
  BY <1>2

(* a dict that takes the outputs of a block: new names go to the end       *)
LEMMA NewNamesLast ==
  ASSUME NEW d \in Dict, NEW b, NEW v \in Nat
  PROVE  LET out == BlockOutputs(b, v) IN
         /\ Count(d) \in Nat /\ Count(Update(d, out)) \in Nat /\ Count(d) <= Count(Update(d, out))
         /\ \A n \in Names : n \in Added(d, out) =>
              Count(d) < Update(d, out).at[n] /\ Update(d, out).at[n] = Count(Update(d, out))
         /\ \A n \in Names : n \notin Added(d, out) => Update(d, out).at[n] = d.at[n]
<1> DEFINE out == BlockOutputs(b, v)
           new == Added(d, out)
           held == {n \in Names : Has(d, n)}
<1>1. /\ \A n \in Names : out.at[n] \in {0, 1} /\ (n \in new => out.at[n] = 1)
      /\ \A n \in new : {m \in new : out.at[m] <= out.at[n]} = new
  <2>1. \A n \in Names : /\ out.at[n] = IF n \in b.writes THEN 1 ELSE 0
                         /\ out.data[n] = IF n \in b.writes THEN v ELSE None
    BY DEF BlockOutputs
  <2>2. \A n \in new : n \in Names /\ out.at[n] = 1
    BY <2>1 DEF Added, Has
  <2>3. \A n \in new : {m \in new : out.at[m] <= out.at[n]} = new
    BY <2>2
  <2> QED
    BY <2>1, <2>2, <2>3
<1>2. /\ new \in SUBSET Names /\ held \in SUBSET Names /\ held \cap new = {}
  BY DEF Added
<1>3. IsFiniteSet(new) /\ IsFiniteSet(held) /\ Cardinality(new) \in Nat /\ Cardinality(held) \in Nat
  BY <1>2, CatalogAssumption, FS_Subset, FS_CardinalityType
<1>4. {n \in Names : Has(Update(d, out), n)} = held \cup new
  BY DEF Update, Added, Has
<1>5. Cardinality(held \cup new) = Cardinality(held) + Cardinality(new)
  <2>1. Cardinality(held \cup new) = Cardinality(held) + Cardinality(new) - Cardinality(held \cap new)
    BY <1>3, FS_Union
  <2>2. Cardinality(held \cap new) = 0
    BY <1>2, FS_EmptySet
  <2> QED
    BY <1>3, <2>1, <2>2
<1>6. Count(d) = Cardinality(held) /\ Count(Update(d, out)) = Cardinality(held) + Cardinality(new)
  BY <1>4, <1>5 DEF Count
<1>7. new # {} => Cardinality(new) > 0
  BY <1>3, FS_EmptySet
<1>8. \A n \in new : Update(d, out).at[n] = Count(d) + Cardinality(new)
  BY <1>1, <1>2 DEF Update
<1>9. \A n \in Names : n \notin new => Update(d, out).at[n] = d.at[n]
  BY DEF Update
<1> HIDE DEF out, new, held
<1>10. /\ Count(d) \in Nat /\ Count(Update(d, out)) \in Nat /\ Count(d) <= Count(Update(d, out))
       /\ \A n \in Names : n \in new =>
            Count(d) < Update(d, out).at[n] /\ Update(d, out).at[n] = Count(Update(d, out))
  BY <1>3, <1>6, <1>7, <1>8
<1> QED
  BY <1>9, <1>10 DEF out, new

LEMMA OrderInit == Init => UpdatesInOrder
BY NoneWritten DEF Init, UpdatesInOrder

LEMMA OrderNext ==
  ASSUME TypeInv, TypeInv', PrefixInv, UpdatesInOrder, [Next]_vars
  PROVE  UpdatesInOrder'
<1> USE DEF catalogs, submitVars, threadVars, history, Goto
<1>1. ASSUME NEW s \in Threads, block'[s] = block[s], updates'[s] = updates[s],
             call'[s] = call[s] \/ block[s] = 0, NEW n \in Names
      PROVE  /\ LastWriter(s, n)' = LastWriter(s, n)
             /\ updates'[s].at = updates[s].at /\ Count(updates[s])' = Count(updates[s])
  <2>1. LastWriter(s, n)' = LastWriter(s, n)
    BY <1>1 DEF LastWriter
  <2> QED
    BY <1>1, <2>1 DEF Count, Has
<1>2. ASSUME \A s \in Threads : /\ block'[s] = block[s] /\ updates'[s] = updates[s]
                                /\ call'[s] = call[s] \/ block[s] = 0
      PROVE  UpdatesInOrder'
  BY <1>1, <1>2 DEF UpdatesInOrder
<1>3. ASSUME NEW t \in Threads,
             \/ \E op \in {"load", "transform"}, n \in LoadNames : BeginWrite(t, op, n)
             \/ LoadRegister(t) \/ LoadSet(t)
             \/ \E n \in UnloadNames, ok \in BOOLEAN : BeginUnload(t, n, ok)
             \/ UnloadDelete(t) \/ UnloadUnregister(t) \/ Raise(t)
             \/ \E p \in Programs, m \in Modes : BeginSubmit(t, p, m)
             \/ ParseStop(t) \/ ParseDone(t)
      PROVE  UpdatesInOrder'
  <2>1. /\ pc[t] \notin {"resolve", "run", "commit", "publish"}
        /\ block' = block /\ updates' = updates
        /\ \A s \in Threads \ {t} : call'[s] = call[s]
    BY <1>3 DEF BeginWrite, LoadRegister, LoadSet, BeginUnload, UnloadDelete, UnloadUnregister, Raise,
       BeginSubmit, ParseStop, ParseDone, Return, TypeInv, TypeOK
  <2>2. block[t] = 0
    BY <2>1 DEF TypeInv, CallInBounds
  <2> QED
    BY <2>1, <2>2, <1>2
<1>4. ASSUME NEW t \in Threads, BlockResolve(t) \/ BlockFail(t) \/ Commit(t)
      PROVE  UpdatesInOrder'
  BY <1>4, <1>2 DEF BlockResolve, BlockFail, Stop, Commit
<1>5. ASSUME NEW t \in Threads, BlockSucceed(t)
      PROVE  UpdatesInOrder'
  <2> DEFINE d == updates[t]
             out == BlockOutputs(CurrentBlock(t), BlockVersion(t))
             new == Added(d, out)
  <2>1. /\ call' = call /\ block'[t] = block[t] + 1 /\ updates'[t] = Update(d, out)
        /\ \A s \in Threads \ {t} : block'[s] = block[s] /\ updates'[s] = updates[s]
    BY <1>5 DEF BlockSucceed, TypeInv, TypeOK
  <2>2. /\ block[t] \in Nat /\ BlockVersion(t) \in Nat /\ d \in Dict /\ BlockVersion(t) # None
        /\ \A n \in Names : LastWriter(t, n) \in SUBSET (1..block[t]) /\ d.at[n] \in Nat
    BY CatalogAssumption DEF TypeInv, TypeOK, Call, BlockVersion, LastWriter, Dict
  <2>3. /\ Count(d) \in Nat /\ Count(Update(d, out)) \in Nat /\ Count(d) <= Count(Update(d, out))
        /\ \A n \in Names : n \in new =>
             Count(d) < Update(d, out).at[n] /\ Update(d, out).at[n] = Count(Update(d, out))
        /\ \A n \in Names : n \notin new => Update(d, out).at[n] = d.at[n]
    BY <2>2, NewNamesLast
  <2>4. \A n \in Names : n \in new <=> LastWriter(t, n) = {} /\ n \in CurrentBlock(t).writes
    BY <2>2 DEF Added, Has, BlockOutputs, PrefixInv, UpdatesAreWrites, Written
  <2>5. \A n \in Names : LastWriter(t, n)' =
          IF n \in CurrentBlock(t).writes THEN LastWriter(t, n) \cup {block[t] + 1}
          ELSE LastWriter(t, n)
    BY <2>1, <2>2 DEF LastWriter, CurrentBlock
  <2>6. \A n \in Names : LastWriter(t, n) # {} =>
          FirstBlock(LastWriter(t, n)') = FirstBlock(LastWriter(t, n))
          /\ FirstBlock(LastWriter(t, n)) \in 1..block[t]
    BY <2>2, <2>5, LaterBlockIsNotFirst, FirstIsLeast
  <2>7. \A n \in new : FirstBlock(LastWriter(t, n)') = block[t] + 1
    <3>1. \A n \in new : n \in Names /\ LastWriter(t, n)' = {block[t] + 1}
      BY <2>4, <2>5 DEF Added
    <3> QED
      BY <2>2, <3>1, OnlyBlockIsFirst
  <2>8. \A n \in Names : LastWriter(t, n)' # {} => n \in new \/ LastWriter(t, n) # {}
    BY <2>4, <2>5
  <2>9. new \subseteq Names
    BY DEF Added
  <2> HIDE DEF d, out, new
  <2>10. ASSUME NEW n \in Names, LastWriter(t, n)' # {}
         PROVE  /\ Update(d, out).at[n] <= Count(Update(d, out))
                /\ \A m \in Names :
                     LastWriter(t, m)' # {} /\ FirstBlock(LastWriter(t, m)') < FirstBlock(LastWriter(t, n)') =>
                       Update(d, out).at[m] < Update(d, out).at[n]
    <3>1. CASE n \in new
      <4>1. ASSUME NEW m \in Names, LastWriter(t, m)' # {},
                   FirstBlock(LastWriter(t, m)') < FirstBlock(LastWriter(t, n)')
            PROVE  Update(d, out).at[m] < Update(d, out).at[n]
        <5>1. m \notin new
          BY <2>2, <2>7, <3>1, <4>1
        <5>2. LastWriter(t, m) # {} /\ Update(d, out).at[m] = d.at[m]
          BY <2>3, <2>8, <4>1, <5>1
        <5>3. d.at[m] <= Count(d)
          BY <5>2 DEF UpdatesInOrder, d
        <5>4. Count(d) < Update(d, out).at[n] /\ Update(d, out).at[n] = Count(Update(d, out))
          BY <2>3, <3>1
        <5> QED
          BY <2>2, <2>3, <5>2, <5>3, <5>4
      <4>2. Update(d, out).at[n] = Count(Update(d, out))
        BY <2>3, <3>1
      <4>3. Count(Update(d, out)) <= Count(Update(d, out))
        BY <2>3
      <4> QED
        BY <4>1, <4>2, <4>3
    <3>2. CASE n \notin new
      <4>1. LastWriter(t, n) # {} /\ Update(d, out).at[n] = d.at[n]
        BY <2>3, <2>8, <2>10, <3>2
      <4>2. d.at[n] <= Count(d)
        BY <4>1 DEF UpdatesInOrder, d
      <4>3. d.at[n] <= Count(Update(d, out))
        BY <2>2, <2>3, <4>2
      <4>4. ASSUME NEW m \in Names, LastWriter(t, m)' # {},
                   FirstBlock(LastWriter(t, m)') < FirstBlock(LastWriter(t, n)')
            PROVE  Update(d, out).at[m] < Update(d, out).at[n]
        <5>1. m \notin new
          BY <2>2, <2>6, <2>7, <4>1, <4>4
        <5>2. LastWriter(t, m) # {} /\ Update(d, out).at[m] = d.at[m]
          BY <2>3, <2>8, <4>4, <5>1
        <5>3. FirstBlock(LastWriter(t, m)) < FirstBlock(LastWriter(t, n))
          BY <2>6, <4>1, <4>4, <5>2
        <5> QED
          BY <4>1, <5>2, <5>3 DEF UpdatesInOrder, d
      <4> QED
        BY <4>1, <4>3, <4>4
    <3> QED
      BY <3>1, <3>2
  <2>11. \A s \in Threads \ {t}, n \in Names :
           /\ LastWriter(s, n)' = LastWriter(s, n)
           /\ updates'[s].at = updates[s].at /\ Count(updates[s])' = Count(updates[s])
    BY <1>1, <2>1
  <2>12. updates'[t] = Update(d, out) /\ Count(updates[t])' = Count(Update(d, out))
    BY <2>1 DEF Count, Has, d, out
  <2> QED
    BY <2>10, <2>11, <2>12 DEF UpdatesInOrder
<1>6. ASSUME NEW t \in Threads, Publish(t)
      PROVE  UpdatesInOrder'
  <2>1. /\ block'[t] = 0
        /\ \A s \in Threads \ {t} : call'[s] = call[s] /\ block'[s] = block[s] /\ updates'[s] = updates[s]
    BY <1>6 DEF Publish, Return, TypeInv, TypeOK
  <2>2. \A n \in Names : LastWriter(t, n)' = {}
    BY <2>1 DEF LastWriter
  <2>3. \A s \in Threads \ {t}, n \in Names :
           /\ LastWriter(s, n)' = LastWriter(s, n)
           /\ updates'[s].at = updates[s].at /\ Count(updates[s])' = Count(updates[s])
    BY <1>1, <2>1
  <2> QED
    BY <2>2, <2>3 DEF UpdatesInOrder
<1>7. CASE UNCHANGED vars
  BY <1>7, <1>2 DEF vars
<1>8. CASE Next
  BY <1>8, <1>3, <1>4, <1>5, <1>6 DEF Next, BeginLoad, BeginTransform
<1> QED
  BY <1>7, <1>8

(* two spellings of a key are first written by different blocks *)
LEMMA SpellingsApart ==
  ASSUME TypeInv, PrefixInv, NEW t \in Threads, NEW m \in Names, NEW n \in Names,
         KeyOf(m) = KeyOf(n), LastWriter(t, m) # {}, LastWriter(t, n) # {},
         FirstBlock(LastWriter(t, m)) = FirstBlock(LastWriter(t, n))
  PROVE  m = n
<1>1. block[t] \in Nat /\ \A q \in Names : LastWriter(t, q) \in SUBSET (1..block[t])
  BY DEF TypeInv, TypeOK, LastWriter
<1>2. /\ FirstBlock(LastWriter(t, m)) \in LastWriter(t, m)
      /\ FirstBlock(LastWriter(t, n)) \in LastWriter(t, n)
  BY <1>1, FirstIsLeast
<1>3. PICK i \in 1..block[t] : m \in call[t].program[i].writes /\ n \in call[t].program[i].writes
  BY <1>2 DEF LastWriter
<1>4. i \in 1..Len(call[t].program)
  BY LengthType DEF PrefixInv, BlocksOfProgram
<1>5. call[t].program \in Programs
  <2>1. call[t].program \in Programs \cup {<<>>}
    BY DEF TypeInv, TypeOK, Call
  <2> QED
    BY <1>4, <2>1
<1> QED
  BY <1>3, <1>4, <1>5, CatalogAssumption

(* A submission that succeeded lists under a key the last table of the     *)
(* spelling that its program came to last, however many spellings it uses  *)
(* and whatever other threads do meanwhile.                                *)
THEOREM NewestSpellingIsListed == Spec => PublishListsNewestSpelling
<1>1. Init => TypeInv /\ PrefixInv /\ UpdatesInOrder
  BY TypeInit, PrefixInit, OrderInit
<1>2. TypeInv /\ PrefixInv /\ UpdatesInOrder /\ [Next]_vars
        => (TypeInv /\ PrefixInv /\ UpdatesInOrder)'
  BY TypeStep, PrefixNext, OrderNext
<1> DEFINE Step ==
      \A t \in Threads :
        pc[t] = "publish" /\ pc'[t] = "idle" /\ ~failed[t] =>
          \A n \in Names : NewestSpelling(t, n) =>
            datasets'[KeyOf(n)] = call[t].base + LastBlock(LastWriter(t, n))
<1>3. TypeInv /\ PrefixInv /\ UpdatesInOrder /\ [Next]_vars => [Step]_vars
  <2> SUFFICES ASSUME TypeInv, PrefixInv, UpdatesInOrder, Next,
                      NEW t \in Threads, pc[t] = "publish", pc'[t] = "idle", ~failed[t],
                      NEW n \in Names, NewestSpelling(t, n)
               PROVE  datasets'[KeyOf(n)] = call[t].base + LastBlock(LastWriter(t, n))
    BY DEF vars
  <2> DEFINE d == updates[t]
             k == KeyOf(n)
  <2>1. Publish(t)
    <3> USE DEF catalogs, submitVars, threadVars, history, Goto
    <3>1. ASSUME NEW s \in Threads,
               \/ \E op \in {"load", "transform"}, m \in LoadNames : BeginWrite(s, op, m)
               \/ LoadRegister(s) \/ LoadSet(s)
               \/ \E m \in UnloadNames, ok \in BOOLEAN : BeginUnload(s, m, ok)
               \/ UnloadDelete(s) \/ UnloadUnregister(s) \/ Raise(s)
               \/ \E p \in Programs, m \in Modes : BeginSubmit(s, p, m)
               \/ ParseStop(s) \/ ParseDone(s) \/ BlockResolve(s) \/ BlockFail(s)
               \/ BlockSucceed(s) \/ Commit(s) \/ (Publish(s) /\ s # t)
          PROVE  FALSE
      <4>1. pc[s] # "publish" \/ s # t
        BY <3>1 DEF BeginWrite, LoadRegister, LoadSet, BeginUnload, UnloadDelete, UnloadUnregister, Raise,
           BeginSubmit, ParseStop, ParseDone, BlockResolve, BlockFail, BlockSucceed, Commit
      <4>2. pc'[t] = pc[t] \/ s = t
        BY <3>1 DEF BeginWrite, LoadRegister, LoadSet, BeginUnload, UnloadDelete, UnloadUnregister, Raise,
           BeginSubmit, ParseStop, ParseDone, BlockResolve, BlockFail, Stop, BlockSucceed, Commit, Publish,
           Return, TypeInv, TypeOK
      <4> QED
        BY <4>1, <4>2
    <3> QED
      BY <3>1 DEF Next, BeginLoad, BeginTransform
  <2>2. \A m \in Names : Has(d, m) <=> LastWriter(t, m) # {}
    BY DEF PrefixInv, UpdatesAreWrites, Written, Has
  <2>3. LastWriter(t, n) # {} /\ n \in Spelled(d, k)
    BY <2>2 DEF NewestSpelling, Spelled
  <2>4. /\ \A m \in Names : d.at[m] \in Nat
        /\ \A m \in Names : LastWriter(t, m) # {} => FirstBlock(LastWriter(t, m)) \in Nat
    <3>1. block[t] \in Nat /\ \A m \in Names : LastWriter(t, m) \in SUBSET (1..block[t])
      BY DEF TypeInv, TypeOK, LastWriter
    <3>2. \A m \in Names : LastWriter(t, m) # {} => FirstBlock(LastWriter(t, m)) \in LastWriter(t, m)
      BY <3>1, FirstIsLeast
    <3> QED
      BY <3>1, <3>2 DEF TypeInv, TypeOK, Dict
  <2>5. ASSUME NEW m \in Spelled(d, k), m # n
        PROVE  d.at[m] < d.at[n]
    <3>1. m \in Names /\ KeyOf(m) = KeyOf(n) /\ LastWriter(t, m) # {}
      BY <2>2, <2>5 DEF Spelled
    <3>2. FirstBlock(LastWriter(t, m)) <= FirstBlock(LastWriter(t, n))
      BY <3>1 DEF NewestSpelling
    <3>3. FirstBlock(LastWriter(t, m)) < FirstBlock(LastWriter(t, n))
      BY <2>3, <2>4, <2>5, <3>1, <3>2, SpellingsApart
    <3> QED
      BY <2>3, <3>1, <3>3 DEF UpdatesInOrder
  <2>6. {q \in Spelled(d, k) : \A m \in Spelled(d, k) : d.at[m] <= d.at[q]} = {n}
    <3>1. \A m \in Spelled(d, k) : m \in Names /\ d.at[m] \in Nat
      BY <2>4 DEF Spelled
    <3> HIDE DEF d, k
    <3> QED
      BY <2>3, <2>5, <3>1
  <2>7. LastByKey(d, k) = d.data[n]
    <3>1. (CHOOSE q \in {n} : TRUE) = n
      OBVIOUS
    <3> HIDE DEF d, k
    <3> QED
      BY <2>6, <3>1 DEF LastByKey
  <2>8. d.data[n] = call[t].base + LastBlock(LastWriter(t, n))
    BY <2>3 DEF PrefixInv, UpdatesAreWrites, Written, LastBlock
  <2>9. k \in Keys
    BY DEF Names, KeyOf
  <2>10. datasets'[k] = LastByKey(d, k)
    BY <2>1, <2>3, <2>9 DEF Publish, PublicOutputs
  <2> QED
    BY <2>7, <2>8, <2>10
<1> QED
  BY <1>1, <1>2, <1>3, PTL DEF Spec, PublishListsNewestSpelling

-----------------------------------------------------------------------------
(* Only load and the column helpers register a table. *)
RegisteredWasLoaded ==
  /\ \A k \in Keys : registered[k] # None => \E n \in LoadNames : KeyOf(n) = k
  /\ \A t \in Threads : pc[t] \in {"register", "set"} => call[t].name \in LoadNames

LEMMA RegisteredInit == Init => RegisteredWasLoaded
BY DEF Init, RegisteredWasLoaded

LEMMA RegisteredNext ==
  ASSUME TypeInv, RegisteredWasLoaded, [Next]_vars
  PROVE  RegisteredWasLoaded'
<1> USE DEF catalogs, submitVars, threadVars, history, Goto
<1>1. ASSUME NEW t \in Threads, NEW op, NEW n \in LoadNames, BeginWrite(t, op, n)
      PROVE  RegisteredWasLoaded'
  BY <1>1 DEF BeginWrite, CallOf, RegisteredWasLoaded, TypeInv, TypeOK
<1>2. ASSUME NEW t \in Threads, LoadRegister(t) \/ UnloadUnregister(t)
      PROVE  RegisteredWasLoaded'
  BY <1>2 DEF LoadRegister, UnloadUnregister, Return, TheKey, RegisteredWasLoaded, TypeInv, TypeOK
<1>3. ASSUME NEW t \in Threads,
             \/ LoadSet(t)
             \/ \E n \in UnloadNames, ok \in BOOLEAN : BeginUnload(t, n, ok)
             \/ UnloadDelete(t) \/ Raise(t)
             \/ \E p \in Programs, m \in Modes : BeginSubmit(t, p, m)
             \/ ParseStop(t) \/ ParseDone(t) \/ BlockResolve(t) \/ BlockFail(t)
             \/ BlockSucceed(t) \/ Commit(t) \/ Publish(t)
      PROVE  RegisteredWasLoaded'
  <2>1. /\ registered' = registered /\ pc'[t] \notin {"register", "set"}
        /\ \A s \in Threads \ {t} : pc'[s] = pc[s] /\ call'[s] = call[s]
    BY <1>3 DEF LoadSet, BeginUnload, UnloadDelete, Raise, BeginSubmit, ParseStop, ParseDone,
       BlockResolve, BlockFail, Stop, BlockSucceed, Commit, Publish, Return, TypeInv, TypeOK
  <2> QED
    BY <2>1 DEF RegisteredWasLoaded
<1>4. CASE UNCHANGED vars
  BY <1>4 DEF vars, RegisteredWasLoaded
<1>5. CASE Next
  BY <1>5, <1>1, <1>2, <1>3 DEF Next, BeginLoad, BeginTransform
<1> QED
  BY <1>4, <1>5

(* Validation finds a generated table before a registered one only under   *)
(* the canonical name.                                                     *)
LoadedWrittenCanonically ==
  \A n \in Outputs, m \in LoadNames : KeyOf(m) = KeyOf(n) => n[2] = Canonical

(* SET, DICTIONARY.TABLES and validation find one table under every name,  *)
(* in whatever spelling it is looked up and whatever other threads do, if  *)
(* programs write a key under one spelling, and under the canonical one if *)
(* the key is loaded too.                                                  *)
THEOREM LookupsAlwaysAgree ==
  ASSUME OneWrittenSpelling, LoadedWrittenCanonically
  PROVE  Spec => []LookupsAgree
<1>1. Init => TypeInv /\ HoldOutputs /\ RegisteredWasLoaded
  BY TypeInit, OutputsInit, RegisteredInit
<1>2. TypeInv /\ HoldOutputs /\ RegisteredWasLoaded /\ [Next]_vars
        => (TypeInv /\ HoldOutputs /\ RegisteredWasLoaded)'
  BY TypeStep, OutputsNext, RegisteredNext
<1>3. TypeInv /\ HoldOutputs /\ RegisteredWasLoaded => LookupsAgree
  <2> SUFFICES ASSUME TypeInv, HoldOutputs, RegisteredWasLoaded, NEW t \in Threads, pc[t] = "resolve",
                      NEW n \in Names
               PROVE  /\ DictionaryView(avail[t], registered, KeyOf(n))
                           = ResolveInput(avail[t], registered, n)
                      /\ CandidateInput(avail[t], registered, n)
                           = ResolveInput(avail[t], registered, n)
    BY CurrentType DEF LookupsAgree, ValidationReadsInput
  <2> DEFINE k == KeyOf(n)
  <2>1. avail[t] \in Dict /\ OnlyOutputs(avail[t]) /\ k \in Keys
    BY KeyType DEF TypeInv, TypeOK, HoldOutputs
  <2>2. CASE Spelled(avail[t], k) = {} /\ ResolveAlias(avail[t], k) = None
    BY <2>2 DEF DictionaryView, ResolveInput, CandidateInput
  <2>3. CASE \E m \in Names : /\ KeyOf(m) = k /\ Has(avail[t], m) /\ Spelled(avail[t], k) = {m}
                              /\ ResolveAlias(avail[t], k) = avail[t].data[m]
                              /\ LastByKey(avail[t], k) = avail[t].data[m]
    <3>1. PICK m \in Names : /\ KeyOf(m) = k /\ Has(avail[t], m) /\ Spelled(avail[t], k) = {m}
                             /\ ResolveAlias(avail[t], k) = avail[t].data[m]
                             /\ LastByKey(avail[t], k) = avail[t].data[m]
      BY <2>3
    <3>2. registered[k] # None => m = <<k, Canonical>>
      <4>1. m \in Outputs /\ m = <<m[1], m[2]>>
        BY <2>1, <3>1 DEF OnlyOutputs, Names
      <4> QED
        BY <2>1, <3>1, <4>1 DEF RegisteredWasLoaded, LoadedWrittenCanonically, KeyOf
    <3> QED
      BY <3>1, <3>2 DEF DictionaryView, ResolveInput, CandidateInput
  <2> QED
    BY <2>1, <2>2, <2>3, OneOrNone
<1> QED
  BY <1>1, <1>2, <1>3, PTL DEF Spec

-----------------------------------------------------------------------------
(* Calls made one after the other, with the names that are loaded and the  *)
(* names that programs write kept apart.                                   *)
OneCaller == \A s, t \in Threads : s = t

KeptApart == \A n \in Outputs, m \in LoadNames \cup UnloadNames : KeyOf(m) # KeyOf(n)

(* what a commit would leave under a name *)
Carried(t, n) == IF Has(updates[t], n) THEN updates[t].data[n] ELSE generated.data[n]

(* a key that no program writes: the catalogs follow the last write, one   *)
(* step ahead of it while a load or an unload is on its way                *)
LoadsFollowed ==
  \A k \in Keys : (\A n \in Outputs : KeyOf(n) # k) =>
    \A t \in Threads :
      /\ ~(pc[t] = "set" /\ TheKey(t) = k) => registered[k] = last[k].data
      /\ ~(pc[t] = "unregister" /\ TheKey(t) = k) => datasets[k] = last[k].data

(* a name that programs write: the last write is what the running program  *)
(* carries, or what was generated                                          *)
BlocksFollowed ==
  \A n \in Outputs \cap Names :
    /\ last[KeyOf(n)].op \in {"none", "block"}
    /\ \A t \in Threads :
         /\ last[KeyOf(n)].data = Carried(t, n)
         /\ pc[t] \in {"resolve", "run"} => avail[t].data[n] = Carried(t, n)
         /\ pc[t] = "publish" /\ Has(updates[t], n) => generated.data[n] = updates[t].data[n]

CallsFollowed ==
  \A t \in Threads :
    /\ pc[t] = "set" => registered[TheKey(t)] = call[t].base + 1
    /\ pc[t] \in {"delete", "unregister"} => call[t].name \in UnloadNames
    /\ pc[t] = "unregister" => datasets[TheKey(t)] = None
    /\ pc[t] = "unregister" /\ call[t].held => registered[TheKey(t)] # None
    /\ pc[t] = "raised" => ~call[t].held

NothingLeft ==
  \A k \in Keys : last[k].op \in {"none", "unload"} => last[k].data = None

ReadsFollow ==
  \A t \in Threads : pc[t] = "run" =>
    \A n \in CurrentBlock(t).reads : seen[t][n] # None /\ seen[t][n] = last[KeyOf(n)].data

LastInv == LoadsFollowed /\ BlocksFollowed /\ CallsFollowed /\ NothingLeft /\ ReadsFollow

LEMMA LastInit == Init => LastInv
BY KeyType DEF Init, LastInv, LoadsFollowed, BlocksFollowed, CallsFollowed, NothingLeft, ReadsFollow, Carried,
   Has, NoDict

(* what an output leaves under a name *)
LEMMA UpdateIs ==
  ASSUME NEW d, NEW u, NEW n \in Names
  PROVE  Update(d, u).data[n] = IF Has(u, n) THEN u.data[n] ELSE d.data[n]
BY DEF Update

LEMMA LastNext ==
  ASSUME OneCaller, OneWrittenSpelling, KeptApart,
         TypeInv, TypeInv', PrefixInv, HoldOutputs, RegisteredWasLoaded, LastInv, [Next]_vars
  PROVE  LastInv'
<1> USE DEF catalogs, submitVars, threadVars, history, Goto
<1>1. ASSUME NEW t \in Threads,
             \/ \E op \in {"load", "transform"}, n \in LoadNames : BeginWrite(t, op, n)
             \/ \E n \in UnloadNames, ok \in BOOLEAN : BeginUnload(t, n, ok)
             \/ Raise(t)
             \/ \E p \in Programs, m \in Modes : BeginSubmit(t, p, m)
             \/ ParseStop(t)
      PROVE  LastInv'
  <2>1. /\ UNCHANGED <<datasets, registered, generated, avail, updates, last>>
        /\ pc[t] \in {"idle", "raised", "parse"}
        /\ pc'[t] \in {"register", "delete", "idle", "parse", "commit"}
        /\ pc'[t] = "delete" => call'[t].name \in UnloadNames
    BY <1>1 DEF BeginWrite, BeginUnload, Raise, BeginSubmit, ParseStop, Return, CallOf, TypeInv, TypeOK
  <2>2. \A s \in Threads : s = t
    BY DEF OneCaller
  <2> QED
    BY <2>1, <2>2 DEF LastInv, LoadsFollowed, BlocksFollowed, CallsFollowed, NothingLeft, ReadsFollow,
       Carried, Has
<1>2. ASSUME NEW t \in Threads, LoadRegister(t)
      PROVE  LastInv'
  <2>1. /\ UNCHANGED <<datasets, generated, avail, updates, last, call>>
        /\ pc[t] = "register" /\ pc'[t] = "set" /\ TheKey(t) \in Keys
        /\ registered' = [registered EXCEPT ![TheKey(t)] = call[t].base + 1]
    BY <1>2, KeyType DEF LoadRegister, TypeInv, TypeOK, CallInBounds, TheKey
  <2>2. \A s \in Threads : s = t
    BY DEF OneCaller
  <2> QED
    BY <2>1, <2>2 DEF LastInv, LoadsFollowed, BlocksFollowed, CallsFollowed, NothingLeft, ReadsFollow,
       Carried, Has, TheKey, TypeInv, TypeOK
<1>3. ASSUME NEW t \in Threads, LoadSet(t)
      PROVE  LastInv'
  <2> DEFINE v == call[t].base + 1
  <2>1. /\ UNCHANGED <<registered, generated, avail, updates>>
        /\ pc[t] = "set" /\ pc'[t] = "idle" /\ TheKey(t) \in Keys /\ call[t].name \in LoadNames
        /\ datasets' = [datasets EXCEPT ![TheKey(t)] = v]
        /\ last' = [last EXCEPT ![TheKey(t)] = [op |-> call[t].op, data |-> v]]
        /\ call[t].op \in {"load", "transform"}
    BY <1>3, KeyType DEF LoadSet, Wrote, Return, TypeInv, TypeOK, CallInBounds, TheKey, RegisteredWasLoaded
  <2>2. \A s \in Threads : s = t
    BY DEF OneCaller
  <2>3. registered[TheKey(t)] = v
    BY <2>1 DEF LastInv, CallsFollowed
  <2>4. /\ last'[TheKey(t)].data = v /\ last'[TheKey(t)].op \in {"load", "transform"}
        /\ datasets'[TheKey(t)] = v
        /\ \A k \in Keys : k # TheKey(t) => last'[k] = last[k] /\ datasets'[k] = datasets[k]
    BY <2>1 DEF TypeInv, TypeOK
  <2>5. \A n \in Outputs \cap Names : KeyOf(n) # TheKey(t) /\ KeyOf(n) \in Keys
    BY <2>1, KeyType DEF KeptApart, TheKey
  <2>6. LoadsFollowed'
    BY <2>1, <2>2, <2>3, <2>4 DEF LastInv, LoadsFollowed
  <2>7. BlocksFollowed'
    BY <2>1, <2>2, <2>4, <2>5 DEF LastInv, BlocksFollowed, Carried, Has
  <2> QED
    BY <2>1, <2>2, <2>4, <2>6, <2>7 DEF LastInv, CallsFollowed, NothingLeft, ReadsFollow
<1>4. ASSUME NEW t \in Threads, UnloadDelete(t)
      PROVE  LastInv'
  <2> DEFINE k0 == TheKey(t)
             held == datasets[k0] # None
  <2>1. /\ UNCHANGED <<registered, generated, avail, updates, last>>
        /\ pc[t] = "delete" /\ pc'[t] \in {"unregister", "raised"} /\ k0 \in Keys
        /\ call'[t].name = call[t].name /\ (call'[t].held <=> held)
        /\ datasets' = [datasets EXCEPT ![k0] = None]
        /\ pc'[t] = "raised" => ~held
        /\ call[t].name \in UnloadNames
    BY <1>4, KeyType DEF UnloadDelete, CallOf, TypeInv, TypeOK, CallInBounds, TheKey, LastInv, CallsFollowed
  <2>2. \A s \in Threads : s = t
    BY DEF OneCaller
  <2>3. \A n \in Outputs : KeyOf(n) # k0
    BY <2>1 DEF KeptApart, TheKey
  <2>4. registered[k0] = last[k0].data /\ datasets[k0] = last[k0].data
    BY <2>1, <2>3 DEF LastInv, LoadsFollowed
  <2>5. /\ datasets'[k0] = None /\ \A k \in Keys : k # k0 => datasets'[k] = datasets[k]
        /\ TheKey(t)' = k0
    BY <2>1 DEF TypeInv, TypeOK, TheKey
  <2>6. LoadsFollowed'
    BY <2>1, <2>2, <2>4, <2>5 DEF LastInv, LoadsFollowed
  <2>7. CallsFollowed'
    BY <2>1, <2>2, <2>4, <2>5 DEF LastInv, CallsFollowed
  <2> QED
    BY <2>1, <2>2, <2>6, <2>7 DEF LastInv, BlocksFollowed, NothingLeft, ReadsFollow, Carried, Has
<1>5. ASSUME NEW t \in Threads, UnloadUnregister(t)
      PROVE  LastInv'
  <2> DEFINE k0 == TheKey(t)
  <2>1. /\ UNCHANGED <<datasets, generated, avail, updates>>
        /\ pc[t] = "unregister" /\ k0 \in Keys /\ call[t].name \in UnloadNames
        /\ registered' = [registered EXCEPT ![k0] = None]
    BY <1>5, KeyType DEF UnloadUnregister, TypeInv, TypeOK, CallInBounds, TheKey, LastInv, CallsFollowed
  <2>2. \A s \in Threads : s = t
    BY DEF OneCaller
  <2>3. \A n \in Outputs : KeyOf(n) # k0
    BY <2>1 DEF KeptApart, TheKey
  <2>4. /\ registered'[k0] = None /\ \A k \in Keys : k # k0 => registered'[k] = registered[k]
        /\ registered[k0] = last[k0].data
    BY <2>1, <2>3 DEF TypeInv, TypeOK, LastInv, LoadsFollowed
  <2>5. datasets[k0] = None
    BY <2>1 DEF LastInv, CallsFollowed
  <2>6. CASE registered[k0] # None \/ call[t].missingOk
    <3>1. /\ pc'[t] = "idle" /\ last'[k0] = [op |-> "unload", data |-> None]
          /\ \A k \in Keys : k # k0 => last'[k] = last[k]
      BY <1>5, <2>1, <2>6 DEF UnloadUnregister, Return, Wrote, TypeInv, TypeOK
    <3>2. LoadsFollowed'
      BY <2>1, <2>2, <2>4, <2>5, <3>1 DEF LastInv, LoadsFollowed
    <3>3. BlocksFollowed'
      BY <2>1, <2>2, <2>3, <3>1, KeyType DEF LastInv, BlocksFollowed, Carried, Has
    <3> QED
      BY <2>1, <2>2, <3>1, <3>2, <3>3 DEF LastInv, CallsFollowed, NothingLeft, ReadsFollow
  <2>7. CASE ~(registered[k0] # None \/ call[t].missingOk)
    <3>1. pc'[t] = "raised" /\ call' = call /\ last' = last
      BY <1>5, <2>7 DEF UnloadUnregister, TypeInv, TypeOK
    <3>2. ~call[t].held
      BY <2>1, <2>7 DEF LastInv, CallsFollowed
    <3> QED
      BY <2>1, <2>2, <2>4, <2>5, <2>7, <3>1, <3>2 DEF LastInv, LoadsFollowed, BlocksFollowed, CallsFollowed,
         NothingLeft, ReadsFollow, Carried, Has
  <2> QED
    BY <2>6, <2>7
<1>6. ASSUME NEW t \in Threads, ParseDone(t)
      PROVE  LastInv'
  <2>1. /\ UNCHANGED <<datasets, registered, generated, updates, last, call>>
        /\ pc[t] = "parse" /\ pc'[t] \in {"resolve", "commit"} /\ avail'[t] = generated
    BY <1>6 DEF ParseDone, TypeInv, TypeOK
  <2>2. \A s \in Threads : s = t
    BY DEF OneCaller
  <2>3. \A n \in Names : ~Has(updates[t], n)
    <3>1. block[t] = 0
      BY <2>1 DEF TypeInv, CallInBounds
    <3> QED
      BY <3>1, NoneWritten DEF PrefixInv, UpdatesAreWrites, Has
  <2>4. BlocksFollowed'
    BY <2>1, <2>2, <2>3 DEF LastInv, BlocksFollowed, Carried, Has
  <2> QED
    BY <2>1, <2>2, <2>4 DEF LastInv, LoadsFollowed, CallsFollowed, NothingLeft, ReadsFollow
<1>7. ASSUME NEW t \in Threads, BlockResolve(t)
      PROVE  LastInv'
  <2>1. /\ UNCHANGED <<datasets, registered, generated, avail, updates, last, call, block>>
        /\ pc[t] = "resolve" /\ pc'[t] \in {"run", "commit"} /\ avail[t] \in Dict
    BY <1>7 DEF BlockResolve, Stop, TypeInv, TypeOK
  <2>2. \A s \in Threads : s = t
    BY DEF OneCaller
  <2>3. ASSUME NEW n \in Names, n \in CurrentBlock(t).reads
        PROVE  ResolveInput(avail[t], registered, n) = last[KeyOf(n)].data
    <3> DEFINE k == KeyOf(n)
    <3>1. CASE \E m \in Names : /\ KeyOf(m) = k /\ Has(avail[t], m) /\ Spelled(avail[t], k) = {m}
                                /\ ResolveAlias(avail[t], k) = avail[t].data[m]
      BY <2>1, <3>1 DEF ResolveInput, LastInv, BlocksFollowed, HoldOutputs, OnlyOutputs
    <3>2. CASE Spelled(avail[t], k) = {} /\ \E m \in Outputs \cap Names : KeyOf(m) = k
      <4>1. PICK m \in Outputs \cap Names : KeyOf(m) = k
        BY <3>2
      <4>2. avail[t].data[m] = None
        BY <3>2, <4>1 DEF Spelled, Has
      <4>3. registered[k] = None
        BY <4>1, KeyType DEF KeptApart, RegisteredWasLoaded
      <4> QED
        BY <2>1, <3>2, <4>1, <4>2, <4>3 DEF ResolveInput, LastInv, BlocksFollowed
    <3>3. CASE Spelled(avail[t], k) = {} /\ \A m \in Outputs : KeyOf(m) # k
      BY <2>1, <3>3, KeyType DEF ResolveInput, LastInv, LoadsFollowed
    <3>4. CASE Spelled(avail[t], k) = {} /\ (\E m \in Outputs : m \notin Names /\ KeyOf(m) = k)
      BY <3>4, OutputsAreNames
    <3> QED
      BY <2>1, <3>1, <3>2, <3>3, <3>4, OneOrNone DEF HoldOutputs
  <2>4. ASSUME pc'[t] = "run", NEW n \in CurrentBlock(t).reads
        PROVE  seen'[t][n] # None /\ seen'[t][n] = last[KeyOf(n)].data
    <3>1. n \in Names
      BY <2>1, CurrentType
    <3>2. seen'[t][n] = ResolveInput(avail[t], registered, n)
      BY <1>7, <2>4, <3>1 DEF BlockResolve, VisibleCatalog, TypeInv, TypeOK
    <3>3. seen'[t][n] # None
      BY <1>7, <2>4, <3>1 DEF BlockResolve, Stop, TypeInv, TypeOK
    <3> QED
      BY <2>3, <3>1, <3>2, <3>3
  <2>5. ReadsFollow'
    BY <2>1, <2>2, <2>4 DEF ReadsFollow, CurrentBlock
  <2> QED
    BY <2>1, <2>2, <2>5 DEF LastInv, LoadsFollowed, BlocksFollowed, CallsFollowed, NothingLeft, Carried, Has
<1>8. ASSUME NEW t \in Threads, BlockFail(t)
      PROVE  LastInv'
  <2>1. /\ UNCHANGED <<datasets, registered, generated, avail, updates, last, call>>
        /\ pc[t] = "run" /\ pc'[t] = "commit"
    BY <1>8 DEF BlockFail, Stop, TypeInv, TypeOK
  <2>2. \A s \in Threads : s = t
    BY DEF OneCaller
  <2> QED
    BY <2>1, <2>2 DEF LastInv, LoadsFollowed, BlocksFollowed, CallsFollowed, NothingLeft, ReadsFollow,
       Carried, Has
<1>9. ASSUME NEW t \in Threads, BlockSucceed(t)
      PROVE  LastInv'
  <2> DEFINE b == CurrentBlock(t)
             v == BlockVersion(t)
             out == BlockOutputs(b, v)
  <2>1. /\ UNCHANGED <<datasets, registered, generated, call>>
        /\ pc[t] = "run" /\ pc'[t] \in {"resolve", "commit"}
        /\ avail'[t] = Update(avail[t], out) /\ updates'[t] = Update(updates[t], out)
        /\ last' = [k \in Keys |-> IF \E n \in b.writes : KeyOf(n) = k
                                   THEN [op |-> "block", data |-> v] ELSE last[k]]
    BY <1>9 DEF BlockSucceed, TypeInv, TypeOK
  <2>2. \A s \in Threads : s = t
    BY DEF OneCaller
  <2>3. b.writes \subseteq Outputs /\ b.writes \subseteq Names /\ Outputs \subseteq Names
    BY <2>1, CurrentType, OutputsAreNames
  <2>4. v # None
    BY CatalogAssumption DEF TypeInv, TypeOK, Call, BlockVersion
  <2>5. ASSUME NEW n \in Outputs \cap Names, n \in b.writes
        PROVE  /\ last'[KeyOf(n)] = [op |-> "block", data |-> v]
               /\ avail'[t].data[n] = v /\ updates'[t].data[n] = v
    <3>1. out.data[n] = v /\ Has(out, n)
      BY <2>4, <2>5 DEF BlockOutputs, Has
    <3> QED
      BY <2>1, <2>5, <3>1, UpdateIs, KeyType
  <2>6. ASSUME NEW n \in Outputs \cap Names, n \notin b.writes
        PROVE  /\ last'[KeyOf(n)] = last[KeyOf(n)]
               /\ avail'[t].data[n] = avail[t].data[n] /\ updates'[t].data[n] = updates[t].data[n]
    <3>1. ~Has(out, n)
      BY <2>6 DEF BlockOutputs, Has
    <3>2. \A m \in b.writes : KeyOf(m) # KeyOf(n)
      BY <2>3, <2>6 DEF OneWrittenSpelling
    <3> QED
      BY <2>1, <2>6, <3>1, <3>2, UpdateIs, KeyType
  <2>7. \A k \in Keys : (\A n \in Outputs : KeyOf(n) # k) => last'[k] = last[k]
    BY <2>1, <2>3
  <2>8. LoadsFollowed'
    BY <2>1, <2>2, <2>7 DEF LastInv, LoadsFollowed
  <2>9. BlocksFollowed'
    <3> SUFFICES ASSUME NEW n \in Outputs \cap Names
                 PROVE  /\ last'[KeyOf(n)].op \in {"none", "block"}
                        /\ last'[KeyOf(n)].data = Carried(t, n)'
                        /\ avail'[t].data[n] = Carried(t, n)'
      BY <2>1, <2>2 DEF BlocksFollowed
    <3>1. CASE n \in b.writes
      BY <2>4, <2>5, <3>1 DEF Carried, Has
    <3>2. CASE n \notin b.writes
      BY <2>1, <2>6, <3>2 DEF LastInv, BlocksFollowed, Carried, Has
    <3> QED
      BY <3>1, <3>2
  <2>10. NothingLeft'
    BY <2>1 DEF LastInv, NothingLeft
  <2> QED
    BY <2>1, <2>2, <2>8, <2>9, <2>10 DEF LastInv, CallsFollowed, ReadsFollow
<1>10. ASSUME NEW t \in Threads, Commit(t)
      PROVE  LastInv'
  <2>1. /\ UNCHANGED <<datasets, registered, avail, updates, last, call>>
        /\ pc[t] = "commit" /\ pc'[t] = "publish" /\ generated' = Update(generated, updates[t])
    BY <1>10 DEF Commit, TypeInv, TypeOK
  <2>2. \A s \in Threads : s = t
    BY DEF OneCaller
  <2>3. \A n \in Names : generated'.data[n] = Carried(t, n)
    BY <2>1, UpdateIs DEF Carried
  <2>4. BlocksFollowed'
    BY <2>1, <2>2, <2>3 DEF LastInv, BlocksFollowed, Carried, Has
  <2> QED
    BY <2>1, <2>2, <2>4 DEF LastInv, LoadsFollowed, CallsFollowed, NothingLeft, ReadsFollow
<1>11. ASSUME NEW t \in Threads, Publish(t)
      PROVE  LastInv'
  <2>1. /\ UNCHANGED <<registered, generated, last>>
        /\ pc[t] = "publish" /\ pc'[t] = "idle" /\ updates'[t] = NoDict
        /\ datasets' = [k \in Keys |-> IF Spelled(PublicOutputs(t), k) # {}
                                       THEN LastByKey(PublicOutputs(t), k) ELSE datasets[k]]
    BY <1>11 DEF Publish, Return, TypeInv, TypeOK
  <2>2. \A s \in Threads : s = t
    BY DEF OneCaller
  <2>3. OnlyOutputs(PublicOutputs(t))
    BY DEF PublicOutputs, HoldOutputs, OnlyOutputs, NoDict, Has
  <2>4. \A k \in Keys : (\A n \in Outputs : KeyOf(n) # k) => datasets'[k] = datasets[k]
    BY <2>1, <2>3 DEF OnlyOutputs, Spelled
  <2>5. LoadsFollowed'
    BY <2>1, <2>2, <2>4 DEF LastInv, LoadsFollowed
  <2>6. BlocksFollowed'
    BY <2>1, <2>2 DEF LastInv, BlocksFollowed, Carried, Has, NoDict
  <2> QED
    BY <2>1, <2>2, <2>5, <2>6 DEF LastInv, CallsFollowed, NothingLeft, ReadsFollow
<1>12. CASE UNCHANGED vars
  BY <1>12 DEF vars, LastInv, LoadsFollowed, BlocksFollowed, CallsFollowed, NothingLeft, ReadsFollow,
     Carried, Has, TheKey, CurrentBlock
<1>13. CASE Next
  BY <1>13, <1>1, <1>2, <1>3, <1>4, <1>5, <1>6, <1>7, <1>8, <1>9, <1>10, <1>11
     DEF Next, BeginLoad, BeginTransform
<1> QED
  BY <1>12, <1>13

(* With one caller, and with the names that are loaded kept apart from     *)
(* those that programs write, every reference of a block reads what the    *)
(* last completed load, column helper or DATA block left, in whatever      *)
(* spelling, also after a submission that failed half way; nothing is read *)
(* after an unload, and an unload raises only for an absent name.          *)
THEOREM LastWriteAlwaysRead ==
  ASSUME OneCaller, OneWrittenSpelling, KeptApart
  PROVE  Spec => []LastWriteIsRead
<1> DEFINE Inv == TypeInv /\ PrefixInv /\ HoldOutputs /\ RegisteredWasLoaded /\ LastInv
<1>1. Init => Inv
  BY TypeInit, PrefixInit, OutputsInit, RegisteredInit, LastInit
<1>2. Inv /\ [Next]_vars => Inv'
  BY TypeStep, PrefixNext, OutputsNext, RegisteredNext, LastNext
<1>3. Inv => LastWriteIsRead
  <2> SUFFICES ASSUME Inv, NEW t \in Threads
               PROVE  /\ pc[t] = "run" => \A n \in CurrentBlock(t).reads :
                           /\ last[KeyOf(n)].op # "unload"
                           /\ last[KeyOf(n)].op \in {"load", "transform", "block"} =>
                                seen[t][n] = last[KeyOf(n)].data
                      /\ pc[t] = "raised" => ~call[t].held
    BY DEF LastWriteIsRead
  <2>1. \A n \in Names : KeyOf(n) \in Keys
    BY KeyType
  <2>2. pc[t] = "run" => CurrentBlock(t).reads \subseteq Names
    BY CurrentType
  <2> QED
    BY <2>1, <2>2 DEF LastInv, ReadsFollow, NothingLeft, CallsFollowed
<1> QED
  BY <1>1, <1>2, <1>3, PTL DEF Spec

=============================================================================
