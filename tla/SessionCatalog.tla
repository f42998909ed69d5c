--------------------------- MODULE SessionCatalog ---------------------------
(***************************************************************************)
(* The dataset catalogs of a limulus Session and of its executor, and the  *)
(* public calls that read and write them.                                  *)
(*                                                                         *)
(*   datasets    Session._datasets             canonical key -> table      *)
(*   registered  executor._registered_tables   canonical key -> table      *)
(*   generated   executor._generated_tables    name AS SPELLED -> table,   *)
(*                                             in insertion order          *)
(*                                                                         *)
(* A SET/MERGE reference is resolved in generated first and in registered  *)
(* next; session["x"] reads datasets.  Nothing keeps the three together    *)
(* but the order in which load, unload and submit write them.              *)
(*                                                                         *)
(* A call is a sequence of steps, one per shared access, so that calls     *)
(* made from several threads (or from inside an apply() callback of a      *)
(* running submission) interleave.  A table is a version number: the calls *)
(* never look inside one.                                                  *)
(***************************************************************************)
EXTENDS Naturals, Sequences, FiniteSets

CONSTANTS
  Keys,        \* canonical dataset names (_dataset_key of a name)
  Spellings,   \* ways a user writes one key: out, OUT, ...
  Canonical,   \* the spelling that _dataset_key returns: OUT
  Threads,     \* callers of the session
  Loaders,     \* the threads that call load, unload and the column helpers
  LoadNames,   \* names given to load and to the column helpers as output
  UnloadNames, \* names given to unload / DROP TABLE
  Programs,    \* sources given to submit: sequences of DATA blocks
  Modes,       \* backend= overrides given to submit
  MaxVersion,  \* bound on the tables ever made
  None         \* an absent entry

Names == Keys \X Spellings

(* _dataset_key: strip, upper-case, drop the "WORK." prefix *)
KeyOf(n) == n[1]

(* one DATA block: the names it reads and its output targets, of which     *)
(* merge_unique_targets keeps one spelling per key                         *)
DataBlock == [reads : SUBSET Names, writes : SUBSET Names]

AllModes == {"auto", "rust", "python", "bogus"}

ASSUME CatalogAssumption ==
  /\ IsFiniteSet(Names)
  /\ Loaders \subseteq Threads
  /\ LoadNames \subseteq Names
  /\ UnloadNames \subseteq Names
  /\ MaxVersion \in Nat
  /\ Modes \subseteq AllModes \cup {None}
  /\ None \notin Nat
  /\ None \notin AllModes
  /\ \A p \in Programs : p \in Seq(DataBlock)
  /\ \A p \in Programs : \A i \in 1..Len(p) : \A m, n \in p[i].writes :
        KeyOf(m) = KeyOf(n) => m = n

-----------------------------------------------------------------------------
(* Python dicts keyed by spelled names: the value under each name and the  *)
(* position at which the name was first inserted (0: not in the dict).     *)

Version == 1..MaxVersion
Entry == Version \cup {None}
Dict == [data : [Names -> Entry], at : [Names -> Nat]]

NoDict == [data |-> [n \in Names |-> None], at |-> [n \in Names |-> 0]]

Has(d, n) == d.data[n] # None
Count(d) == Cardinality({n \in Names : Has(d, n)})

(* d.update(u): a name already there keeps its position, the others follow *)
(* in u's order                                                            *)
Added(d, u) == {n \in Names : ~Has(d, n) /\ Has(u, n)}

Update(d, u) ==
  [data |-> [n \in Names |-> IF Has(u, n) THEN u.data[n] ELSE d.data[n]],
   at   |-> [n \in Names |->
              IF n \in Added(d, u)
              THEN Count(d)
                     + Cardinality({m \in Added(d, u) : u.at[m] <= u.at[n]})
              ELSE d.at[n]]]

(* mutant: the outputs carry the number of the table after theirs *)
BlockOutputsUnmade(b, v) ==
  [data |-> [n \in Names |-> IF n \in b.writes THEN v + 1 ELSE None],
   at   |-> [n \in Names |-> IF n \in b.writes THEN 1 ELSE 0]]

(* the outputs of a block that finished with version v *)
BlockOutputs(b, v) ==
  [data |-> [n \in Names |-> IF n \in b.writes THEN v ELSE None],
   at   |-> [n \in Names |-> IF n \in b.writes THEN 1 ELSE 0]]

Spelled(d, k) == {n \in Names : KeyOf(n) = k /\ Has(d, n)}

(* resolve_dataset_alias: the first entry, in insertion order, whose key   *)
(* matches                                                                 *)
ResolveAlias(d, k) ==
  LET first == {n \in Spelled(d, k) : \A m \in Spelled(d, k) : d.at[n] <= d.at[m]}
  IN  IF first = {} THEN None ELSE d.data[CHOOSE n \in first : TRUE]

(* mutant: a key keeps the first entry, as in resolve_dataset_alias *)
FirstByKey(d, k) == ResolveAlias(d, k)

(* iterating the dict and assigning into a mapping by key: the last entry  *)
(* wins                                                                    *)
LastByKey(d, k) ==
  LET final == {n \in Spelled(d, k) : \A m \in Spelled(d, k) : d.at[m] <= d.at[n]}
  IN  IF final = {} THEN None ELSE d.data[CHOOSE n \in final : TRUE]

(* resolve_input_names for a session's request (no explicit inputs): the   *)
(* generated tables shadow the registered ones                             *)
ResolveInput(avail, reg, n) ==
  IF Spelled(avail, KeyOf(n)) # {} THEN ResolveAlias(avail, KeyOf(n))
  ELSE reg[KeyOf(n)]

(* resolve_synthetic_inputs_for_names: what DICTIONARY.TABLES describes    *)
(* under key k                                                             *)
DictionaryView(avail, reg, k) ==
  IF Spelled(avail, k) # {} THEN LastByKey(avail, k) ELSE reg[k]

(* mutant: the registered tables are put into the dict last *)
CandidateRegisteredFirst(avail, reg, n) ==
  IF reg[KeyOf(n)] # None THEN reg[KeyOf(n)] ELSE ResolveAlias(avail, KeyOf(n))

(* resolve_dataset_alias over _resolved_candidate_inputs, the one dict in  *)
(* which validation looks a reference up: the registered tables come first *)
(* under their canonical names, and a generated table takes the place of   *)
(* one only if it was written under exactly that name                      *)
CandidateInput(avail, reg, n) ==
  LET k == KeyOf(n) IN
  IF reg[k] = None THEN ResolveAlias(avail, k)
  ELSE IF <<k, Canonical>> \in Spelled(avail, k) THEN avail.data[<<k, Canonical>>]
  ELSE reg[k]

-----------------------------------------------------------------------------
VARIABLES
  datasets,    \* Session._datasets
  registered,  \* executor._registered_tables
  generated,   \* executor._generated_tables
  preference,  \* executor._runtime_backend_preference
  pc,          \* the step each thread is at
  call,        \* the arguments of the call each thread is in
  block,       \* submit: how many blocks have succeeded so far
  avail,       \* submit: available_inputs of the running program
  updates,     \* submit: catalog_updates of the running program
  seen,        \* submit: the inputs resolved for the block in flight
  failed,      \* submit: the response carries an error
  version      \* tables made so far

(* history, read by properties only *)
VARIABLES
  snap,        \* versions in generated when the program took its copy
  loaded,      \* versions made by load and the column helpers
  doomed,      \* versions computed by a block that then failed
  dead,        \* versions of the successful prefix of a failed submission
  last         \* the last completed write of each key

catalogs == <<datasets, registered, generated, preference>>
threadVars == <<pc, call, block, avail, updates, seen, failed>>
history == <<snap, loaded, doomed, dead, last>>
vars == <<catalogs, threadVars, version, history>>

Phases == {"idle", "register", "set", "delete", "unregister", "raised",
           "parse", "resolve", "run", "commit", "publish"}

CallOf(op, n, p, m, v, ok, held) ==
  [op |-> op, name |-> n, program |-> p, mode |-> m, base |-> v,
   missingOk |-> ok, held |-> held]

NoCall == CallOf("none", None, <<>>, None, 0, TRUE, FALSE)

Init ==
  /\ datasets = [k \in Keys |-> None]
  /\ registered = [k \in Keys |-> None]
  /\ generated = NoDict
  /\ preference = "auto"
  /\ pc = [t \in Threads |-> "idle"]
  /\ call = [t \in Threads |-> NoCall]
  /\ block = [t \in Threads |-> 0]
  /\ avail = [t \in Threads |-> NoDict]
  /\ updates = [t \in Threads |-> NoDict]
  /\ seen = [t \in Threads |-> [n \in Names |-> None]]
  /\ failed = [t \in Threads |-> FALSE]
  /\ version = 0
  /\ snap = [t \in Threads |-> {}]
  /\ loaded = {}
  /\ doomed = {}
  /\ dead = {}
  /\ last = [k \in Keys |-> [op |-> "none", data |-> None]]

Goto(t, p) == pc' = [pc EXCEPT ![t] = p]
Return(t) == Goto(t, "idle") /\ call' = [call EXCEPT ![t] = NoCall]
TheKey(t) == KeyOf(call[t].name)
Wrote(k, op, v) == last' = [last EXCEPT ![k] = [op |-> op, data |-> v]]

submitVars == <<block, avail, updates, seen, failed, snap, doomed, dead>>

-----------------------------------------------------------------------------
(* load(name, data): convert the data, register the table with the         *)
(* executor, then list it in the session.                                  *)

BeginWrite(t, op, n) ==
  /\ t \in Loaders /\ pc[t] = "idle" /\ n \in LoadNames
  /\ version < MaxVersion
  /\ version' = version + 1
  /\ loaded' = loaded \cup {version'}
  /\ call' = [call EXCEPT ![t] =
                CallOf(op, n, <<>>, None, version, TRUE, FALSE)]
  /\ Goto(t, "register")
  /\ UNCHANGED <<catalogs, submitVars, last>>

BeginLoad(t, n) == BeginWrite(t, "load", n)

(* select, keep, rename, astype, transpose, assign, filter, where, drop,   *)
(* sort, sql CREATE TABLE: read session[source], load the result as n      *)
BeginTransform(t, source, n) ==
  /\ datasets[KeyOf(source)] # None
  /\ BeginWrite(t, "transform", n)

LoadRegister(t) ==
  /\ pc[t] = "register"
  /\ registered' = [registered EXCEPT ![TheKey(t)] = call[t].base + 1]
  /\ Goto(t, "set")
  /\ UNCHANGED <<datasets, generated, preference, call, version, submitVars,
                 loaded, last>>

LoadSet(t) ==
  /\ pc[t] = "set"
  /\ datasets' = [datasets EXCEPT ![TheKey(t)] = call[t].base + 1]
  /\ Wrote(TheKey(t), call[t].op, call[t].base + 1)
  /\ Return(t)
  /\ UNCHANGED <<registered, generated, preference, version, submitVars,
                 loaded>>

(* unload(name, missing_ok): drop the listing, then the registration; each *)
(* of the two raises KeyError for an absent name unless missing_ok         *)

BeginUnload(t, n, ok) ==
  /\ t \in Loaders /\ pc[t] = "idle" /\ n \in UnloadNames
  /\ call' = [call EXCEPT ![t] =
                CallOf("unload", n, <<>>, None, 0, ok, FALSE)]
  /\ Goto(t, "delete")
  /\ UNCHANGED <<catalogs, version, submitVars, loaded, last>>

UnloadDelete(t) ==
  LET k == TheKey(t) held == datasets[TheKey(t)] # None IN
  /\ pc[t] = "delete"
  /\ datasets' = [datasets EXCEPT ![k] = None]
  /\ call' = [call EXCEPT ![t] =
                CallOf("unload", call[t].name, <<>>, None, 0,
                       call[t].missingOk, held)]
  /\ Goto(t, IF held \/ call[t].missingOk THEN "unregister" ELSE "raised")
  /\ UNCHANGED <<registered, generated, preference, version, submitVars,
                 loaded, last>>

(* mutant: missing_ok skips the executor *)
UnloadUnregisterStrictOnly(t) ==
  /\ pc[t] = "unregister"
  /\ registered' = [registered EXCEPT ![TheKey(t)] =
                      IF call[t].missingOk THEN @ ELSE None]
  /\ Return(t) /\ Wrote(TheKey(t), "unload", None)
  /\ UNCHANGED <<datasets, generated, preference, version, submitVars,
                 loaded>>

UnloadUnregister(t) ==
  LET k == TheKey(t) IN
  /\ pc[t] = "unregister"
  /\ registered' = [registered EXCEPT ![k] = None]
  /\ IF registered[k] # None \/ call[t].missingOk
     THEN Return(t) /\ Wrote(k, "unload", None)
     ELSE Goto(t, "raised") /\ UNCHANGED <<call, last>>
  /\ UNCHANGED <<datasets, generated, preference, version, submitVars,
                 loaded>>

(* the caller sees the KeyError *)
Raise(t) ==
  /\ pc[t] = "raised"
  /\ Return(t)
  /\ UNCHANGED <<catalogs, version, submitVars, loaded, last>>

-----------------------------------------------------------------------------
(* submit(code, backend=mode) *)

BeginSubmit(t, p, mode) ==
  /\ pc[t] = "idle" /\ p \in Programs
  /\ version + Len(p) <= MaxVersion
  /\ version' = version + Len(p)
  /\ call' = [call EXCEPT ![t] =
                CallOf("submit", None, p, mode, version, TRUE, FALSE)]
  /\ Goto(t, "parse")
  /\ UNCHANGED <<catalogs, submitVars, loaded, last>>

(* the request, the macro hook or the parse of any block of the program    *)
(* stops the submission before the first block runs                        *)
ParseStop(t) ==
  /\ pc[t] = "parse"
  /\ failed' = [failed EXCEPT ![t] = TRUE]
  /\ Goto(t, "commit")
  /\ UNCHANGED <<catalogs, call, block, avail, updates, seen, version, history>>

ParseDone(t) ==
  /\ pc[t] = "parse"
  /\ avail' = [avail EXCEPT ![t] = generated]
  /\ snap' = [snap EXCEPT ![t] = {generated.data[n] : n \in Names} \ {None}]
  /\ Goto(t, IF call[t].program = <<>> THEN "commit" ELSE "resolve")
  /\ UNCHANGED <<catalogs, call, block, updates, seen, failed, version,
                 loaded, doomed, dead, last>>

CurrentBlock(t) == call[t].program[block[t] + 1]

(* the number the model gives to the tables of the block, which stand for  *)
(* one version                                                             *)
BlockVersion(t) == call[t].base + block[t] + 1

(* mutants of the catalog a block reads: the executor's own dict without a *)
(* copy, and with the copy never updated                                   *)
LiveCatalog(t) == Update(generated, updates[t])
CommittedCatalog(t) == generated

(* available_inputs *)
VisibleCatalog(t) == avail[t]

RequestedMode(t) == IF call[t].mode # None THEN call[t].mode ELSE preference

Stop(t) ==
  /\ failed' = [failed EXCEPT ![t] = TRUE]
  /\ dead' = dead \cup ({updates[t].data[n] : n \in Names} \ {None})
  /\ Goto(t, "commit")

(* a block copies registered, resolves its references against that copy    *)
(* and available_inputs, and asks for the execution strategy               *)
BlockResolve(t) ==
  LET b == CurrentBlock(t) IN
  /\ pc[t] = "resolve"
  /\ seen' = [seen EXCEPT ![t] =
                [n \in Names |-> IF n \in b.reads
                                 THEN ResolveInput(VisibleCatalog(t), registered, n)
                                 ELSE None]]
  /\ IF (\E n \in b.reads : seen'[t][n] = None) \/ RequestedMode(t) = "bogus"
     THEN Stop(t)
     ELSE Goto(t, "run") /\ UNCHANGED <<failed, dead>>
  /\ UNCHANGED <<catalogs, call, block, avail, updates, version, snap, loaded,
                 doomed, last>>

(* mutant: the rows written before the error are exported *)
BlockFailExporting(t) ==
  /\ pc[t] = "run"
  /\ doomed' = doomed \cup {BlockVersion(t)}
  /\ updates' = [updates EXCEPT ![t] =
                   Update(@, BlockOutputs(CurrentBlock(t), BlockVersion(t)))]
  /\ Stop(t)
  /\ UNCHANGED <<catalogs, call, block, avail, seen, version, snap, loaded, last>>

(* validation, preparation, planning, the native row loop or finalization  *)
(* rejects the block: its response has diagnostics and no outputs          *)
BlockFail(t) ==
  /\ pc[t] = "run"
  /\ doomed' = doomed \cup {BlockVersion(t)}
  /\ Stop(t)
  /\ UNCHANGED <<catalogs, call, block, avail, updates, seen, version, snap,
                 loaded, last>>

(* mutant: the block index is not advanced *)
BlockSucceedAgain(t) ==
  LET out == BlockOutputs(CurrentBlock(t), BlockVersion(t)) IN
  /\ pc[t] = "run"
  /\ avail' = [avail EXCEPT ![t] = Update(avail[t], out)]
  /\ updates' = [updates EXCEPT ![t] = Update(updates[t], out)]
  /\ Goto(t, "resolve")
  /\ UNCHANGED <<catalogs, call, block, seen, failed, version, snap, loaded,
                 doomed, dead, last>>

BlockSucceed(t) ==
  LET b == CurrentBlock(t)
      out == BlockOutputs(b, BlockVersion(t)) IN
  /\ pc[t] = "run"
  /\ avail' = [avail EXCEPT ![t] = Update(avail[t], out)]
  /\ updates' = [updates EXCEPT ![t] = Update(updates[t], out)]
  /\ block' = [block EXCEPT ![t] = block[t] + 1]
  /\ last' = [k \in Keys |-> IF \E n \in b.writes : KeyOf(n) = k
                             THEN [op |-> "block", data |-> BlockVersion(t)]
                             ELSE last[k]]
  /\ Goto(t, IF block'[t] = Len(call[t].program) THEN "commit" ELSE "resolve")
  /\ UNCHANGED <<catalogs, call, seen, failed, version, snap, loaded, doomed,
                 dead>>

(* mutant: an error response keeps its outputs *)
PublicOutputsAlways(t) == updates[t]

(* the outputs of the response: none after an error *)
PublicOutputs(t) == IF failed[t] THEN NoDict ELSE updates[t]

(* mutants of the commit: nothing after an error, and the working copy     *)
(* written back over what others committed                                 *)
CommitPublicOnly(t) ==
  /\ pc[t] = "commit"
  /\ generated' = Update(generated, PublicOutputs(t))
  /\ Goto(t, "publish")
  /\ UNCHANGED <<datasets, registered, preference, call, version, submitVars,
                 loaded, last>>

CommitWorkingCopy(t) ==
  /\ pc[t] = "commit"
  /\ generated' = avail[t]
  /\ Goto(t, "publish")
  /\ UNCHANGED <<datasets, registered, preference, call, version, submitVars,
                 loaded, last>>

(* _commit_pipeline_result: the successful prefix, after an error too *)
Commit(t) ==
  /\ pc[t] = "commit"
  /\ generated' = Update(generated, updates[t])
  /\ Goto(t, "publish")
  /\ UNCHANGED <<datasets, registered, preference, call, version, submitVars,
                 loaded, last>>

(* _datasets.update(converted.outputs) *)
Publish(t) ==
  /\ pc[t] = "publish"
  /\ datasets' = [k \in Keys |-> IF Spelled(PublicOutputs(t), k) # {}
                                 THEN LastByKey(PublicOutputs(t), k)
                                 ELSE datasets[k]]
  /\ Return(t)
  /\ block' = [block EXCEPT ![t] = 0]
  /\ avail' = [avail EXCEPT ![t] = NoDict]
  /\ updates' = [updates EXCEPT ![t] = NoDict]
  /\ seen' = [seen EXCEPT ![t] = [n \in Names |-> None]]
  /\ failed' = [failed EXCEPT ![t] = FALSE]
  /\ snap' = [snap EXCEPT ![t] = {}]
  /\ UNCHANGED <<registered, generated, preference, version, loaded, doomed,
                 dead, last>>

Next ==
  \E t \in Threads :
    \/ \E n \in LoadNames : BeginLoad(t, n)
    \/ \E s \in Names, n \in LoadNames : BeginTransform(t, s, n)
    \/ \E n \in UnloadNames, ok \in BOOLEAN : BeginUnload(t, n, ok)
    \/ \E p \in Programs, m \in Modes : BeginSubmit(t, p, m)
    \/ LoadRegister(t) \/ LoadSet(t)
    \/ UnloadDelete(t) \/ UnloadUnregister(t) \/ Raise(t)
    \/ ParseStop(t) \/ ParseDone(t)
    \/ BlockResolve(t) \/ BlockFail(t) \/ BlockSucceed(t)
    \/ Commit(t) \/ Publish(t)

Spec == Init /\ [][Next]_vars

(* a call that was made runs to its end: its thread keeps taking steps *)
Finish(t) ==
  \/ LoadRegister(t) \/ LoadSet(t)
  \/ UnloadDelete(t) \/ UnloadUnregister(t) \/ Raise(t)
  \/ ParseStop(t) \/ ParseDone(t)
  \/ BlockResolve(t) \/ BlockFail(t) \/ BlockSucceed(t)
  \/ Commit(t) \/ Publish(t)

FairSpec == Spec /\ \A t \in Threads : WF_vars(Finish(t))

-----------------------------------------------------------------------------
Call == [op : {"none", "load", "transform", "unload", "submit"},
         name : Names \cup {None}, program : Programs \cup {<<>>},
         mode : Modes \cup {None}, base : 0..MaxVersion,
         missingOk : BOOLEAN, held : BOOLEAN]

LastWrite == [op : {"none", "load", "transform", "unload", "block"},
              data : Entry]

(* Types of the catalogs, of the calls in flight and of the history. *)
TypeOK ==
  /\ datasets \in [Keys -> Entry]
  /\ registered \in [Keys -> Entry]
  /\ generated \in Dict
  /\ preference \in AllModes
  /\ pc \in [Threads -> Phases]
  /\ call \in [Threads -> Call]
  /\ block \in [Threads -> Nat]
  /\ avail \in [Threads -> Dict]
  /\ updates \in [Threads -> Dict]
  /\ seen \in [Threads -> [Names -> Entry]]
  /\ failed \in [Threads -> BOOLEAN]
  /\ version \in 0..MaxVersion
  /\ snap \in [Threads -> SUBSET Version]
  /\ loaded \subseteq Version
  /\ doomed \subseteq Version
  /\ dead \subseteq Version
  /\ last \in [Keys -> LastWrite]

(* Every dataset the session lists can be named by the next SET: it is     *)
(* registered, or some spelling of it was generated.  load writes the      *)
(* registration before the listing, unload removes them in the other       *)
(* order, and submit commits before it publishes; any other order leaves   *)
(* a listing that session["x"] serves and SET cannot find.                 *)
ListedIsResolvable ==
  \A k \in Keys : datasets[k] # None =>
      registered[k] # None \/ Spelled(generated, k) # {}

(* The session's listings are removed by one thread only: two threads that *)
(* load and unload one name can leave a listing without a registration.    *)
OneLoader == \A s, t \in Loaders : s = t

(* What a failing block computed never leaves it: not through the catalogs *)
(* and not to a later block of any submission.                             *)
FailedBlockInvisible ==
  \A v \in doomed :
    /\ \A k \in Keys : datasets[k] # v /\ registered[k] # v
    /\ \A n \in Names : generated.data[n] # v
    /\ \A t \in Threads, n \in Names :
         avail[t].data[n] # v /\ updates[t].data[n] # v /\ seen[t][n] # v

(* "Session.datasets update on successful submission": the prefix of a     *)
(* failed submission stays in the executor and is never listed.            *)
FailedPrefixUnlisted == \A k \in Keys : datasets[k] \notin dead

(* A commit adds exactly what the program's blocks up to the first error   *)
(* wrote, the last write of a name winning, and touches no other entry.    *)
LastWriter(t, n) ==
  {i \in 1..block[t] : n \in call[t].program[i].writes}

CommitsPrefix(t) ==
  \A n \in Names :
    generated'.data[n] =
      IF LastWriter(t, n) = {} THEN generated.data[n]
      ELSE call[t].base + (CHOOSE i \in LastWriter(t, n) :
                             \A j \in LastWriter(t, n) : j <= i)

CommitIsPrefix ==
  [][/\ \A t \in Threads : pc[t] = "commit" /\ pc'[t] # "commit"
                              => CommitsPrefix(t)
     /\ (generated' # generated =>
           \E t \in Threads : pc[t] = "commit" /\ pc'[t] = "publish")]_vars

(* What a submission reads is what its own earlier blocks made, what was   *)
(* generated when it started, or what is registered: the commit of another *)
(* submission never shows through in the middle of a program.              *)
Own(t) == call[t].base + 1 .. call[t].base + Len(call[t].program)

SubmissionIsolated ==
  \A t \in Threads : pc[t] = "run" =>
    \A n \in Names : seen[t][n] # None =>
      seen[t][n] \in Own(t) \cup snap[t] \cup loaded

(* A block that names the output of an earlier block of its own program    *)
(* reads that output, whatever the catalogs hold and whoever writes them   *)
(* meanwhile.                                                              *)
EarlierWriters(t, k) ==
  {i \in 1..block[t] : \E n \in call[t].program[i].writes : KeyOf(n) = k}

EarlierBlockVisible ==
  \A t \in Threads : pc[t] = "run" =>
    \A n \in CurrentBlock(t).reads : EarlierWriters(t, KeyOf(n)) # {} =>
      seen[t][n] = call[t].base + (CHOOSE i \in EarlierWriters(t, KeyOf(n)) :
                                     \A j \in EarlierWriters(t, KeyOf(n)) : j <= i)

(* A submission lists under a key the last table of the spelling that its  *)
(* program came to last: _datasets.update goes through the outputs in the  *)
(* order in which their names first appeared.  A key that the program      *)
(* writes one way, or respells for good, is listed as its last block left  *)
(* it; data b; data B; data b; is listed as its second block left it.      *)
FirstBlock(S) == CHOOSE i \in S : \A j \in S : i <= j

LastBlock(S) == CHOOSE i \in S : \A j \in S : j <= i

NewestSpelling(t, n) ==
  /\ LastWriter(t, n) # {}
  /\ \A m \in Names : KeyOf(m) = KeyOf(n) /\ LastWriter(t, m) # {} =>
       FirstBlock(LastWriter(t, m)) <= FirstBlock(LastWriter(t, n))

PublishListsNewestSpelling ==
  [][\A t \in Threads :
       pc[t] = "publish" /\ pc'[t] = "idle" /\ ~failed[t] =>
         \A n \in Names : NewestSpelling(t, n) =>
           datasets'[KeyOf(n)] = call[t].base + LastBlock(LastWriter(t, n))]_vars

(* Validation judges the columns of a reference (KEEP, DROP, RENAME, LABEL,  *)
(* BY) by the table that the block is then executed on.                      *)
ValidationReadsInput ==
  \A t \in Threads : pc[t] = "resolve" =>
    \A n \in CurrentBlock(t).reads :
      CandidateInput(avail[t], registered, n)
        = ResolveInput(avail[t], registered, n)

(* The three lookups of a name, each with an order of its own, find one      *)
(* table: DICTIONARY.TABLES describes under every key what a SET of the key  *)
(* reads, and validation judges the same table.                              *)
LookupsAgree ==
  /\ \A t \in Threads : pc[t] = "resolve" =>
       \A n \in Names :
         DictionaryView(avail[t], registered, KeyOf(n))
           = ResolveInput(avail[t], registered, n)
  /\ ValidationReadsInput

-----------------------------------------------------------------------------
(* Calls made one after the other: what a SET reads is what the last         *)
(* completed write of the name left, whether that write was a load, a column *)
(* helper (session.sort and its kind), or a DATA block of this or an earlier *)
(* submission, also one that stopped after the block; after an unload no     *)
(* spelling of the name resolves, and an unload raises only for a name that  *)
(* no write left behind.                                                     *)
LastWriteIsRead ==
  \A t \in Threads :
    /\ pc[t] = "run" => \A n \in CurrentBlock(t).reads :
         /\ last[KeyOf(n)].op # "unload"
         /\ last[KeyOf(n)].op \in {"load", "transform", "block"} =>
              seen[t][n] = last[KeyOf(n)].data
    /\ pc[t] = "raised" => ~call[t].held

(* The part about session.sort(name, ...) and the other column helpers. *)
TransformIsRead ==
  \A t \in Threads : pc[t] = "run" => \A n \in CurrentBlock(t).reads :
    last[KeyOf(n)].op = "transform" => seen[t][n] = last[KeyOf(n)].data

(* Every call returns. *)
EveryCallReturns == \A t \in Threads : (pc[t] # "idle") ~> (pc[t] = "idle")

=============================================================================
