------------------------- MODULE SetPreparationProofs -------------------------
(***************************************************************************)
(* What is proved of SET: what preparation accepts, the native ingress does*)
(* not refuse as badly prepared; every table has its columns in every row; *)
(* every row of every source is read once, at its place; and the automatic *)
(* and the LAG and LEAD columns tell of the streams around it.             *)
(***************************************************************************)
EXTENDS SetPreparation, PreparedTablesProofs

-----------------------------------------------------------------------------
(* The caller claims no input to be prepared, and spells each as the       *)
(* statement does (section 9 of the README has what happens otherwise).    *)
Unclaimed == \A d \in DOMAIN request.explicit : request.explicit[d].prep = "none"
SpelledAlike ==
  \A d \in DOMAIN request.explicit : DatasetKey(d) \in SourceKeys => d \in Names

(* Nothing is prepared yet, and the sources are found under the spellings  *)
(* of the statement only.                                                  *)
Fresh ==
  /\ First \in DOMAIN inputs
  /\ \A d \in DOMAIN inputs : /\ inputs[d].prep = "none"
                              /\ DatasetKey(d) \in SourceKeys => d \in Names

(* One carrier has replaced the sources.                                   *)
Carried ==
  /\ First \in DOMAIN inputs /\ inputs[First].prep = "prepared_set"
  /\ \A d \in DOMAIN inputs \ {First} : inputs[d].prep = "none" /\ DatasetKey(d) \notin SourceKeys

(* Nothing was asked of the statement that the runtime would not see.      *)
Plain == NoneOwned /\ ~Optioned /\ ~AskedIn

ContractInv ==
  /\ request \in Requests
  /\ phase \in {"resolve", "collisions", "schema", "order", "shape", "collapse"} => sources = refs
  /\ phase \in {"collisions", "schema", "order", "shape"} => Fresh
  /\ phase = "collapse" => (Fresh /\ Plain) \/ Carried
  /\ phase \in {"helpers", "ingress"} =>
       (Fresh /\ Plain /\ sources = refs) \/ (Carried /\ sources = <<CarrierRef>>)

BadContract ==
  {"INPUT_OPTION_NOT_PREPARED", "PREPARED_INPUT_OPTION_REMAINING", "PREPARED_INPUT_CONTRACT_INVALID"}

SetInv ==
  Unclaimed /\ SpelledAlike => ContractInv /\ result.code \notin BadContract

-----------------------------------------------------------------------------
(* Resolution adds names of the statement and copies inputs of the caller. *)
LEMMA FoundInputs ==
  ASSUME NEW n \in DOMAIN ResolvedInputs(request.explicit, Names)
  PROVE  /\ \E d \in DOMAIN request.explicit :
              ResolvedInputs(request.explicit, Names)[n] = request.explicit[d]
         /\ n \in DOMAIN request.explicit \/ n \in Names
BY DEF ResolvedInputs, InputOf, HasInput

LEMMA FirstIsAName == request \in Requests => First \in Names /\ DatasetKey(First) \in SourceKeys
BY RequestsAssumption DEF First, Names, SourceKeys, Occurrences, refs

LEMMA FoundAreFresh ==
  ASSUME request \in Requests, Unclaimed, SpelledAlike,
         inputs' = ResolvedInputs(request.explicit, Names),
         \A n \in Names : HasInput(ResolvedInputs(request.explicit, Names), n),
         UNCHANGED request
  PROVE  Fresh'
<1>1. Names' = Names /\ SourceKeys' = SourceKeys /\ First' = First
  BY DEF Names, SourceKeys, First, refs, Occurrences
<1>2. First \in DOMAIN inputs'
  <2>1. HasInput(ResolvedInputs(request.explicit, Names), First)
    BY FirstIsAName
  <2>2. PICK d \in DOMAIN ResolvedInputs(request.explicit, Names) : DatasetKey(d) = DatasetKey(First)
    BY <2>1 DEF HasInput
  <2>3. HasInput(request.explicit, First)
    BY <2>2 DEF ResolvedInputs, HasInput
  <2> QED
    BY <2>3, FirstIsAName DEF ResolvedInputs
<1>3. ASSUME NEW d \in DOMAIN inputs'
      PROVE  inputs'[d].prep = "none" /\ (DatasetKey(d) \in SourceKeys => d \in Names)
  BY FoundInputs DEF Unclaimed, SpelledAlike
<1> QED
  BY <1>1, <1>2, <1>3 DEF Fresh

(* Replacing the sources by a carrier makes fresh inputs carried.          *)
LEMMA ReplacedIsCarried ==
  ASSUME Fresh, request \in Requests, NEW table, inputs' = Replaced(table), UNCHANGED request
  PROVE  Carried'
<1>1. Names' = Names /\ SourceKeys' = SourceKeys /\ First' = First
  BY DEF Names, SourceKeys, First, refs, Occurrences
<1>2. /\ DOMAIN inputs' = (DOMAIN inputs \ Names) \cup {First}
      /\ inputs'[First].prep = "prepared_set"
      /\ \A d \in DOMAIN inputs' \ {First} : inputs'[d] = inputs[d]
  BY DEF Replaced, Provenance, Fresh
<1> QED
  BY <1>1, <1>2 DEF Carried, Fresh

(* Sorting keeps what the inputs are.                                      *)
LEMMA SortedIsFresh ==
  ASSUME Fresh, inputs' = SortedInputs, UNCHANGED request
  PROVE  Fresh'
<1>1. Names' = Names /\ SourceKeys' = SourceKeys /\ First' = First
  BY DEF Names, SourceKeys, First, refs, Occurrences
<1>2. /\ DOMAIN inputs' = DOMAIN inputs
      /\ \A d \in DOMAIN inputs : inputs'[d].prep = inputs[d].prep
  BY DEF SortedInputs
<1> QED
  BY <1>1, <1>2 DEF Fresh

(* A carrier is the only prepared input, under its own name only.          *)
LEMMA CarriedKinds ==
  ASSUME Carried, request \in Requests
  PROVE  /\ PreparedKinds(inputs) = {"prepared_set"}
         /\ ~OtherSourceLeft
         /\ FirstFolded(inputs, First) = inputs[First]
<1>1. PreparedKinds(inputs) = {"prepared_set"}
  BY DEF Carried, PreparedKinds
<1>2. DatasetKey(First) \in SourceKeys
  BY FirstIsAName
<1>3. ~OtherSourceLeft
  BY DEF Carried, OtherSourceLeft
<1>4. \A d \in DOMAIN inputs : d # First => DatasetKey(d) # DatasetKey(First)
  BY <1>2 DEF Carried
<1> QED
  BY <1>1, <1>3, <1>4 DEF FirstFolded

LEMMA FreshKinds == Fresh => PreparedKinds(inputs) = {}
BY DEF Fresh, PreparedKinds

(* The ingress takes a carrier with the reference that collapsed to it,    *)
(* and a statement that asked for nothing.                                 *)
LEMMA CarrierAccepted ==
  ASSUME Carried, request \in Requests, sources = <<CarrierRef>>
  PROVE  Refusal(inputs, sources) = "none"
<1>1. /\ DOMAIN sources = {1} /\ sources[1] = CarrierRef /\ Len(sources) = 1
      /\ sources[1].name = First /\ sources[1].opts = NoOptions /\ sources[1].in = NoVar
  BY DEF CarrierRef
<1>2. ~Unconsumed(sources)
  BY <1>1 DEF Unconsumed, Consumed, HasOptions
<1>3. FirstFolded(inputs, First).prep = "prepared_set"
  BY CarriedKinds DEF Carried
<1>4. Normalized(inputs, sources) = <<[sources[1] EXCEPT !.opts = NoOptions, !.in = NoVar]>>
  BY <1>1, <1>3 DEF Normalized
<1>5. Len(Normalized(inputs, sources)) = 1 /\ Normalized(inputs, sources)[1].name = First
  BY <1>1, <1>4 DEF CarrierRef
<1> QED
  BY <1>2, <1>3, <1>5, CarriedKinds DEF Refusal

LEMMA PlainAccepted ==
  ASSUME Fresh, Plain, sources = refs
  PROVE  Refusal(inputs, sources) = "none"
<1>1. ~Unconsumed(sources)
  BY DEF Plain, Optioned, AskedIn, Occurrences, Unconsumed, Consumed
<1> QED
  BY <1>1, FreshKinds DEF Refusal

-----------------------------------------------------------------------------
(* The steps                                                               *)

LEMMA FailKeeps ==
  ASSUME SetInv, NEW code, code \notin BadContract, Fail(code)
  PROVE  SetInv'
<1>1. UNCHANGED <<request, inputs, tables, sources>> /\ phase' = "failed" /\ result'.code = code
  BY DEF Fail, NoResult
<1>2. Unclaimed' = Unclaimed /\ SpelledAlike' = SpelledAlike
  BY <1>1 DEF Unclaimed, SpelledAlike, Names, SourceKeys, refs, Occurrences
<1> QED
  BY <1>1, <1>2 DEF SetInv, ContractInv

LEMMA SetInvKept ==
  ASSUME SetInv, [Next]_vars
  PROVE  SetInv'
<1>1. request' = request
  BY DEF Next, vars, Resolution, Collisions, Schema, Order, ShapeOccurrence, Combine, Collapse,
         Helpers, Ingress, Returned, Fail, Continue
<1>2. /\ Unclaimed' = Unclaimed /\ SpelledAlike' = SpelledAlike
      /\ refs' = refs /\ Names' = Names /\ SourceKeys' = SourceKeys /\ First' = First
      /\ CarrierRef' = CarrierRef /\ Plain' = Plain
  BY <1>1 DEF Unclaimed, SpelledAlike, Names, SourceKeys, refs, Occurrences, First, CarrierRef,
              Plain, NoneOwned, Optioned, AskedIn
<1> SUFFICES ASSUME Unclaimed, SpelledAlike PROVE ContractInv' /\ result'.code \notin BadContract
  BY <1>2 DEF SetInv
<1>3. ContractInv /\ result.code \notin BadContract
  BY DEF SetInv
<1>4. ASSUME NEW code, code \notin BadContract, Fail(code)
      PROVE  ContractInv' /\ result'.code \notin BadContract
  BY <1>2, <1>4, FailKeeps DEF SetInv
<1>5. CASE Resolution
  <2>1. CASE Fail("SET_NOT_FOUND") \/ Fail("DATASET_OPTION_INVALID")
    BY <1>4, <2>1 DEF BadContract
  <2>2. CASE /\ \A n \in Names : HasInput(ResolvedInputs(request.explicit, Names), n)
             /\ inputs' = ResolvedInputs(request.explicit, Names) /\ Continue("collisions")
    <3>1. Fresh'
      BY <1>1, <1>3, <2>2, FoundAreFresh DEF ContractInv
    <3> QED
      BY <1>1, <1>2, <1>3, <1>5, <2>2, <3>1 DEF ContractInv, Continue, Resolution
  <2> QED
    BY <1>5, <2>1, <2>2 DEF Resolution
<1>6. CASE Collisions
  <2>1. CASE Fail("INTERNAL_VAR_COLLISION")
    BY <1>4, <2>1 DEF BadContract
  <2>2. CASE Continue("schema") /\ UNCHANGED inputs
    <3>1. Fresh'
      BY <1>2, <1>3, <1>6, <2>2 DEF ContractInv, Collisions, Fresh
    <3> QED
      BY <1>1, <1>2, <1>3, <1>6, <2>2, <3>1 DEF ContractInv, Continue, Collisions
  <2> QED
    BY <1>6, <2>1, <2>2 DEF Collisions
<1>7. CASE Schema
  <2>1. CASE Fail("SET_SCHEMA_INCOMPATIBLE")
    BY <1>4, <2>1 DEF BadContract
  <2>2. CASE Continue("order") /\ UNCHANGED inputs
    <3>1. Fresh'
      BY <1>2, <1>3, <1>7, <2>2 DEF ContractInv, Schema, Fresh
    <3> QED
      BY <1>1, <1>2, <1>3, <1>7, <2>2, <3>1 DEF ContractInv, Continue, Schema
  <2> QED
    BY <1>7, <2>1, <2>2 DEF Schema
<1>8. CASE Order
  <2>1. Fresh /\ sources = refs /\ UNCHANGED <<sources, result>>
    BY <1>3, <1>8 DEF ContractInv, Order, Continue
  <2>2. CASE Concatenable
    <3>1. inputs' = Replaced(Concat([s \in Occurrences |-> Input(s).table]))
      BY <1>8, <2>2 DEF Order
    <3>2. Carried'
      BY <1>1, <1>3, <2>1, <3>1, ReplacedIsCarried DEF ContractInv
    <3>3. phase' = "collapse"
      BY <1>8, <2>2 DEF Order, Continue, PreparesRows, Concatenable
    <3> QED
      BY <1>1, <1>2, <1>3, <2>1, <3>2, <3>3 DEF ContractInv
  <2>3. CASE ~Concatenable /\ PreparesRows
    <3>1. phase' = "shape"
      BY <1>8, <2>3 DEF Order, Continue
    <3>2. inputs' = SortedInputs \/ inputs' = inputs
      BY <1>8, <2>3 DEF Order
    <3>3. Fresh'
      BY <1>1, <1>2, <2>1, <3>2, SortedIsFresh DEF Fresh
    <3> QED
      BY <1>1, <1>2, <1>3, <2>1, <3>1, <3>3 DEF ContractInv
  <2>4. CASE ~Concatenable /\ ~PreparesRows
    <3>1. phase' = "collapse"
      BY <1>8, <2>4 DEF Order, Continue
    <3>2. Input(1).prep = "none"
      <4>1. Input(1) = inputs[First] /\ First \in DOMAIN inputs
        BY <2>1 DEF Input, First, Fresh
      <4> QED
        BY <2>1, <4>1 DEF Fresh
    <3>3. Unprepared /\ ~Optioned /\ ~AskedIn
      BY <2>4, <3>2 DEF PreparesRows
    <3>4. Plain
      BY <3>3 DEF Plain, NoneOwned, Unprepared
    <3>5. inputs' = inputs
      BY <1>8, <2>4, <3>3 DEF Order, Unprepared
    <3>6. Fresh'
      BY <1>2, <2>1, <3>5 DEF Fresh
    <3> QED
      BY <1>1, <1>2, <1>3, <2>1, <3>1, <3>4, <3>6 DEF ContractInv
  <2> QED
    BY <2>2, <2>3, <2>4
<1>9. CASE ShapeOccurrence
  <2>1. CASE UNCHANGED <<request, phase, inputs, sources, result>>
    <3>1. Fresh' = Fresh /\ Carried' = Carried
      BY <1>2, <2>1 DEF Fresh, Carried
    <3> QED
      BY <1>2, <1>3, <2>1, <3>1 DEF ContractInv
  <2>2. CASE \/ Fail("DATASET_OPTION_INVALID") \/ Fail("IO_INPUT_ERROR")
             \/ Fail("INTERNAL_VAR_COLLISION")
    BY <1>4, <2>2 DEF BadContract
  <2> QED
    BY <1>9, <2>1, <2>2 DEF ShapeOccurrence
<1>10. CASE Combine
  <2>1. CASE Fail("SET_SCHEMA_INCOMPATIBLE") \/ Fail("BY_PRECONDITION_FAILED")
    BY <1>4, <2>1 DEF BadContract
  <2>2. CASE inputs' = Replaced(Carrier) /\ Continue("collapse")
    <3>1. Carried'
      BY <1>1, <1>3, <1>10, <2>2, ReplacedIsCarried DEF ContractInv, Combine
    <3> QED
      BY <1>1, <1>2, <1>3, <2>2, <3>1, <1>10 DEF ContractInv, Continue, Combine
  <2> QED
    BY <1>10, <2>1, <2>2 DEF Combine
<1>11. CASE Collapse
  <2>1. CASE Fail("PREPARATION_PROVENANCE_CONFLICT")
    BY <1>4, <2>1 DEF BadContract
  <2>2. CASE /\ sources' = IF inputs[First].prep = "prepared_set" /\ ~OtherSourceLeft
                           THEN <<CarrierRef>> ELSE sources
             /\ phase' = "helpers" /\ UNCHANGED <<request, inputs, tables, result>>
    <3>1. (Fresh' <=> Fresh) /\ (Carried' <=> Carried) /\ sources = refs
      BY <1>2, <1>3, <1>11, <2>2 DEF Fresh, Carried, ContractInv, Collapse
    <3>2. CASE Fresh /\ Plain
      <4>1. sources' = refs
        BY <2>2, <3>1, <3>2 DEF Fresh
      <4> QED
        BY <1>2, <1>3, <2>2, <3>1, <3>2, <4>1 DEF ContractInv
    <3>3. CASE Carried
      <4>1. sources' = <<CarrierRef>>
        BY <1>3, <2>2, <3>3, CarriedKinds DEF Carried, ContractInv
      <4> QED
        BY <1>2, <1>3, <2>2, <3>1, <3>3, <4>1 DEF ContractInv
    <3> QED
      BY <1>3, <1>11, <3>2, <3>3 DEF ContractInv, Collapse
  <2> QED
    BY <1>11, <2>1, <2>2 DEF Collapse
<1>12. CASE Helpers
  <2>1. CASE Fail("PREPARATION_PROVENANCE_CONFLICT")
    BY <1>4, <2>1 DEF BadContract
  <2>2. CASE ~Fail("PREPARATION_PROVENANCE_CONFLICT")
    <3>1. Continue("ingress")
      BY <1>12, <2>2 DEF Helpers
    <3>2. CASE NoneOwned
      <4>1. inputs' = inputs
        BY <1>12, <2>2, <3>2 DEF Helpers
      <4>2. (Fresh' <=> Fresh) /\ (Carried' <=> Carried)
        BY <1>2, <4>1 DEF Fresh, Carried
      <4> QED
        BY <1>2, <1>3, <1>12, <3>1, <4>2 DEF ContractInv, Continue, Helpers
    <3>3. CASE ~NoneOwned
      <4>1. Carried /\ sources = <<CarrierRef>>
        BY <1>3, <1>12, <3>3 DEF ContractInv, Helpers, Plain
      <4> DEFINE t       == SortTable(Concat([s \in DOMAIN sources |-> inputs[sources[s].name].table]), by)
                 helped  == IF Len(sources) = 1 /\ Columnar(t) THEN WithHelpers(t) ELSE WithRowHelpers(t)
                 others  == {d \in DOMAIN inputs : DatasetKey(d) \notin {DatasetKey(sources[s].name) : s \in DOMAIN sources}}
                 carrier == [kind |-> "table", table |-> helped, prep |-> Provenance(inputs[First].prep, "prepared_set")]
      <4>2. inputs' = [d \in others \cup {First} |-> IF d = First THEN carrier ELSE inputs[d]]
        BY <1>12, <2>2, <3>3 DEF Helpers
      <4>3. carrier.prep = "prepared_set"
        BY <4>1 DEF Carried, Provenance
      <4> HIDE DEF carrier
      <4>4. /\ First \in DOMAIN inputs' /\ inputs'[First].prep = "prepared_set"
            /\ \A d \in DOMAIN inputs' \ {First} : d \in DOMAIN inputs /\ inputs'[d] = inputs[d]
        BY <4>2, <4>3
      <4>5. Carried'
        BY <1>2, <4>1, <4>4 DEF Carried
      <4> QED
        BY <1>2, <1>3, <3>1, <4>1, <4>5 DEF ContractInv, Continue
    <3> QED
      BY <3>2, <3>3
  <2> QED
    BY <2>1, <2>2
<1>13. CASE Ingress
  <2>1. Refusal(inputs, sources) = "none"
    BY <1>3, <1>13, CarrierAccepted, PlainAccepted DEF ContractInv, Ingress
  <2>2. phase' = "done" /\ result'.code = "ok"
    BY <1>13, <2>1 DEF Ingress
  <2> QED
    BY <1>1, <1>3, <2>2 DEF ContractInv, BadContract
<1>14. CASE Returned \/ UNCHANGED vars
  <2>1. UNCHANGED vars
    BY <1>14 DEF Returned
  <2>2. (Fresh' <=> Fresh) /\ (Carried' <=> Carried)
    BY <1>2, <2>1 DEF vars, Fresh, Carried
  <2> QED
    BY <1>2, <1>3, <2>1, <2>2 DEF vars, ContractInv
<1> QED
  BY <1>5, <1>6, <1>7, <1>8, <1>9, <1>10, <1>11, <1>12, <1>13, <1>14 DEF Next

(* For callers who spell their inputs as the statement does, the ingress   *)
(* refuses no SET that preparation accepted, on whichever of its paths.    *)
THEOREM AcceptedWhenSpelledAlike ==
  Spec => [](SpelledAlike => PreparedIsAccepted)
<1>1. Init => SetInv
  BY DEF Init, SetInv, ContractInv, NoResult, BadContract
<1>2. SetInv /\ [Next]_vars => SetInv'
  BY SetInvKept
<1>3. SetInv => (SpelledAlike => PreparedIsAccepted)
  BY DEF SetInv, PreparedIsAccepted, Unclaimed, BadContract
<1> QED
  BY <1>1, <1>2, <1>3, PTL DEF Spec

-----------------------------------------------------------------------------
(* Tables put together                                                     *)

LEMMA HasColumnKey ==
  ASSUME NEW t, NEW c
  PROVE  HasColumn(t, c) <=> ColumnKey(c) \in Keys(Columns(t))
BY DEF HasColumn, Spellings, Keys, Columns, ToSet

(* A column that is put into a table is there once, and every row has it.  *)
PutRows(t, cs, given) ==
  [i \in DOMAIN t.rows |-> [c \in Columns(t) \cup ToSet(cs) |->
                             IF c \in ToSet(cs) THEN given[i][c] ELSE t.rows[i][c]]]
LEMMA PutColumns ==
  ASSUME NEW t, DOMAIN t = {"cols", "rows", "type"}, IsList(t.cols), NEW cs, IsList(cs), NEW given
  PROVE  LET u == Put(t, cs, given)
         IN  /\ DOMAIN u = {"cols", "rows", "type"} /\ u.type = t.type
             /\ IsList(u.cols) /\ Columns(u) = Columns(t) \cup ToSet(cs)
             /\ u.rows = PutRows(t, cs, given)
<1> DEFINE I == {n \in DOMAIN cs : cs[n] \notin Columns(t) /\ \A m \in 1..(n - 1) : cs[m] # cs[n]}
           u == Put(t, cs, given)
<1>1. /\ DOMAIN u = {"cols", "rows", "type"} /\ u.type = t.type
      /\ u.cols = t.cols \o Selected(cs, I)
      /\ u.rows = PutRows(t, cs, given)
  BY DEF Put, PutRows
<1>2. IsList(Selected(cs, I)) /\ ToSet(Selected(cs, I)) = {cs[n] : n \in I}
  <2>1. I \in SUBSET DOMAIN cs
    OBVIOUS
  <2> HIDE DEF I
  <2> QED
    BY <2>1, SelectedList
<1>3. IsList(u.cols) /\ ToSet(u.cols) = Columns(t) \cup {cs[n] : n \in I}
  <2> HIDE DEF I, u
  <2> QED
    BY <1>1, <1>2, JoinedLists DEF Columns
<1>4. ASSUME NEW c \in ToSet(cs), c \notin Columns(t)
      PROVE  c \in {cs[n] : n \in I}
  <2> DEFINE S == {n \in DOMAIN cs : cs[n] = c}
  <2>1. DOMAIN cs = 1..Len(cs) /\ Len(cs) \in Nat
    BY ListFacts
  <2>2. S # {} /\ S \subseteq Nat
    BY <2>1 DEF ToSet
  <2>3. PICK n \in S : \A m \in S : n <= m
    BY <2>2, LeastNumber
  <2>4. \A m \in 1..(n - 1) : cs[m] # cs[n]
    <3> SUFFICES ASSUME NEW m \in 1..(n - 1), cs[m] = cs[n] PROVE FALSE
      OBVIOUS
    <3>1. m \in S
      BY <2>1
    <3> QED
      BY <2>1, <2>3, <3>1
  <2> QED
    BY <1>4, <2>4
<1>5. Columns(u) = Columns(t) \cup ToSet(cs)
  <2>1. {cs[n] : n \in I} \subseteq ToSet(cs)
    BY DEF ToSet
  <2> QED
    BY <1>3, <1>4, <2>1 DEF Columns
<1> QED
  BY <1>1, <1>3, <1>5

LEMMA PutTable ==
  ASSUME NEW t, NEW V, IsTable(t, V), NEW cs, IsList(cs), NEW given,
         \A i \in DOMAIN t.rows : \A c \in ToSet(cs) : given[i][c] \in V
  PROVE  LET u == Put(t, cs, given)
         IN  /\ IsTable(u, V) /\ Columns(u) = Columns(t) \cup ToSet(cs)
             /\ DOMAIN u.rows = DOMAIN t.rows
             /\ \A i \in DOMAIN t.rows : \A c \in Columns(u) :
                  u.rows[i][c] = IF c \in ToSet(cs) THEN given[i][c] ELSE t.rows[i][c]
<1> DEFINE u == Put(t, cs, given)
           C == Columns(t) \cup ToSet(cs)
<1>1. DOMAIN t = {"cols", "rows", "type"} /\ IsList(t.cols)
  BY DEF IsTable, IsList, Columns
<1> HIDE DEF u
<1>2. /\ DOMAIN u = {"cols", "rows", "type"} /\ IsList(u.cols) /\ Columns(u) = C
      /\ u.rows = PutRows(t, cs, given)
  BY <1>1, PutColumns DEF u
<1>3. t.rows \in Seq([Columns(t) -> V]) /\ DOMAIN t.rows = 1..Len(t.rows) /\ Len(t.rows) \in Nat
  BY DEF IsTable
<1>4. \A i \in DOMAIN t.rows : t.rows[i] \in [Columns(t) -> V]
  BY <1>3
<1>5. \A i \in 1..Len(t.rows) : u.rows[i] \in [C -> V]
  BY <1>2, <1>3, <1>4 DEF PutRows
<1>6. u.rows = [i \in 1..Len(t.rows) |-> u.rows[i]]
  BY <1>2, <1>3 DEF PutRows
<1>7. u.rows \in Seq([C -> V])
  BY <1>3, <1>5, <1>6, TabulatedSequence
<1>8. IsTable(u, V)
  BY <1>2, <1>7 DEF IsTable, IsList, Columns
<1> QED
  BY <1>2, <1>8 DEF u, PutRows

(* The columns of tables put one below the other.                          *)
LEMMA WidenedColumns ==
  ASSUME NEW ts, IsList(ts), \A m \in DOMAIN ts : IsList(ts[m].cols)
  PROVE  IsList(Widened(ts)) /\ ToSet(Widened(ts)) = UNION {Columns(ts[m]) : m \in DOMAIN ts}
<1> DEFINE U == UNION {Columns(ts[m]) : m \in DOMAIN ts}
           Fresh1(m) == {i \in DOMAIN ts[m].cols : \A n \in 1..(m - 1) : ts[m].cols[i] \notin Columns(ts[n])}
           parts == [m \in DOMAIN ts |-> Selected(ts[m].cols, Fresh1(m))]
<1>1. DOMAIN ts = 1..Len(ts) /\ Len(ts) \in Nat
  BY ListFacts
<1>2. ASSUME NEW m \in DOMAIN ts
      PROVE  parts[m] \in Seq(U) /\ ToSet(parts[m]) = {ts[m].cols[i] : i \in Fresh1(m)}
  <2>1. Fresh1(m) \in SUBSET DOMAIN ts[m].cols
    OBVIOUS
  <2>2. Columns(ts[m]) \subseteq U
    OBVIOUS
  <2>3. parts[m] = Selected(ts[m].cols, Fresh1(m))
    OBVIOUS
  <2> HIDE DEF Fresh1, parts, U
  <2>4. IsList(parts[m]) /\ ToSet(parts[m]) = {ts[m].cols[i] : i \in Fresh1(m)}
    BY <2>1, <2>3, SelectedList
  <2>5. ToSet(parts[m]) \subseteq Columns(ts[m])
    BY <2>1, <2>4 DEF Columns, ToSet
  <2> QED
    BY <2>2, <2>4, <2>5 DEF IsList
<1>3. parts \in Seq(Seq(U))
  <2>1. parts = [m \in 1..Len(ts) |-> parts[m]] /\ \A m \in 1..Len(ts) : parts[m] \in Seq(U)
    BY <1>1, <1>2
  <2> HIDE DEF parts, U
  <2> QED
    BY <1>1, <2>1, TabulatedSequence
<1>4. Widened(ts) = Joined(parts) /\ DOMAIN parts = DOMAIN ts
  BY DEF Widened
<1> HIDE DEF parts
<1>5. /\ Joined(parts) \in Seq(U)
      /\ \A k \in DOMAIN parts : \A n \in DOMAIN parts[k] : \E p \in DOMAIN Joined(parts) :
           PlacesInTurn(parts)[p] = <<k, n>>
      /\ \A p \in DOMAIN Joined(parts) : LET at == PlacesInTurn(parts)[p] IN Joined(parts)[p] = parts[at[1]][at[2]]
  BY <1>3, JoinedInOrder
<1>6. IsList(Widened(ts)) /\ ToSet(Widened(ts)) \subseteq U
  <2>1. \A p \in DOMAIN Joined(parts) : Joined(parts)[p] \in U
    BY <1>5, OwnElements
  <2> QED
    BY <1>4, <1>5, <2>1, SequencesAreLists DEF ToSet
<1>7. ASSUME NEW c \in U PROVE c \in ToSet(Widened(ts))
  <2> DEFINE S == {m \in DOMAIN ts : c \in Columns(ts[m])}
  <2>1. S # {} /\ S \subseteq Nat
    BY <1>1
  <2>2. PICK m \in S : \A n \in S : m <= n
    BY <2>1, LeastNumber
  <2>3. \A n \in 1..(m - 1) : c \notin Columns(ts[n])
    <3> SUFFICES ASSUME NEW n \in 1..(m - 1), c \in Columns(ts[n]) PROVE FALSE
      OBVIOUS
    <3>1. n \in S
      BY <1>1
    <3> QED
      BY <1>1, <2>2, <3>1
  <2>4. PICK i \in DOMAIN ts[m].cols : ts[m].cols[i] = c
    BY DEF Columns, ToSet
  <2>5. i \in Fresh1(m)
    BY <2>3, <2>4
  <2>6. c \in ToSet(parts[m])
    BY <1>2, <2>4, <2>5
  <2>7. PICK n \in DOMAIN parts[m] : parts[m][n] = c
    BY <2>6 DEF ToSet
  <2>8. PICK p \in DOMAIN Joined(parts) : PlacesInTurn(parts)[p] = <<m, n>>
    BY <1>4, <1>5
  <2>9. Joined(parts)[p] = c
    BY <1>5, <2>7, <2>8
  <2> QED
    BY <1>4, <2>8, <2>9 DEF ToSet
<1> QED
  BY <1>6, <1>7

(* Every row below is a row of one of the tables, missing where that table *)
(* lacks a column.                                                         *)
Widely(ts, m, i) ==
  [c \in UNION {Columns(ts[n]) : n \in DOMAIN ts} |-> IF c \in Columns(ts[m]) THEN ts[m].rows[i][c] ELSE Null]
LinesOf(ts) == UNION {{<<m, i>> : i \in DOMAIN ts[m].rows} : m \in DOMAIN ts}
LineAt(ts, p) == Listed(LinesOf(ts), InTurn(LinesOf(ts)))[p]
LEMMA ConcatTable ==
  ASSUME NEW ts, IsList(ts), NEW V, Null \in V, \A m \in DOMAIN ts : IsTable(ts[m], V)
  PROVE  LET u == Concat(ts)
         IN  /\ IsTable(u, V) /\ Columns(u) = UNION {Columns(ts[m]) : m \in DOMAIN ts}
             /\ \A p \in DOMAIN u.rows : \E m \in DOMAIN ts : \E i \in DOMAIN ts[m].rows :
                  u.rows[p] = Widely(ts, m, i)
             /\ IsFiniteSet(LinesOf(ts)) /\ Cardinality(LinesOf(ts)) \in Nat
             /\ Len(u.rows) = Cardinality(LinesOf(ts)) /\ DOMAIN u.rows = 1..Cardinality(LinesOf(ts))
             /\ \A p \in DOMAIN u.rows : LET l == LineAt(ts, p)
                                       IN  l \in LinesOf(ts) /\ u.rows[p] = Widely(ts, l[1], l[2])
             /\ \A l \in LinesOf(ts) : \E p \in DOMAIN u.rows : LineAt(ts, p) = l
             /\ \A p, q \in DOMAIN u.rows : p < q => <<LineAt(ts, p), LineAt(ts, q)>> \in InTurn(LinesOf(ts))
<1> DEFINE u == Concat(ts)
           U == UNION {Columns(ts[n]) : n \in DOMAIN ts}
           parts == [m \in DOMAIN ts |-> [i \in DOMAIN ts[m].rows |-> Widely(ts, m, i)]]
<1>1. DOMAIN ts = 1..Len(ts) /\ Len(ts) \in Nat
  BY ListFacts
<1>2. IsList(Widened(ts)) /\ ToSet(Widened(ts)) = U
  <2>1. \A m \in DOMAIN ts : IsList(ts[m].cols)
    BY DEF IsTable, IsList, Columns
  <2> QED
    BY <2>1, WidenedColumns
<1>3. /\ DOMAIN u = {"cols", "rows", "type"} /\ u.cols = Widened(ts) /\ u.rows = Joined(parts)
  <2>1. \A m \in DOMAIN ts : [i \in DOMAIN ts[m].rows |->
             [c \in ToSet(Widened(ts)) |-> IF c \in Columns(ts[m]) THEN ts[m].rows[i][c] ELSE Null]]
          = [i \in DOMAIN ts[m].rows |-> Widely(ts, m, i)]
    BY <1>2 DEF Widely
  <2> QED
    BY <2>1 DEF Concat
<1>4. ASSUME NEW m \in DOMAIN ts
      PROVE  parts[m] \in Seq([U -> V])
  <2>1. /\ ts[m].rows \in Seq([Columns(ts[m]) -> V]) /\ DOMAIN ts[m].rows = 1..Len(ts[m].rows)
        /\ Len(ts[m].rows) \in Nat
    BY DEF IsTable
  <2>2. \A i \in 1..Len(ts[m].rows) : Widely(ts, m, i) \in [U -> V]
    <3> SUFFICES ASSUME NEW i \in 1..Len(ts[m].rows) PROVE Widely(ts, m, i) \in [U -> V]
      OBVIOUS
    <3>1. ts[m].rows[i] \in [Columns(ts[m]) -> V]
      BY <2>1
    <3> QED
      BY <3>1 DEF Widely
  <2>3. parts[m] = [i \in 1..Len(ts[m].rows) |-> parts[m][i]] /\ \A i \in 1..Len(ts[m].rows) : parts[m][i] \in [U -> V]
    BY <2>1, <2>2
  <2> HIDE DEF parts, U
  <2> QED
    BY <2>1, <2>3, TabulatedSequence
<1>5. parts \in Seq(Seq([U -> V]))
  <2>1. parts = [m \in 1..Len(ts) |-> parts[m]] /\ \A m \in 1..Len(ts) : parts[m] \in Seq([U -> V])
    BY <1>1, <1>4
  <2> HIDE DEF parts, U
  <2> QED
    BY <1>1, <2>1, TabulatedSequence
<1>6. DOMAIN parts = DOMAIN ts /\ \A m \in DOMAIN ts : DOMAIN parts[m] = DOMAIN ts[m].rows
  OBVIOUS
<1>7. \A m \in DOMAIN ts : \A i \in DOMAIN ts[m].rows : parts[m][i] = Widely(ts, m, i)
  OBVIOUS
<1> HIDE DEF parts, u, U
<1>8. /\ Joined(parts) \in Seq([U -> V])
      /\ \A p \in DOMAIN Joined(parts) :
           LET at == PlacesInTurn(parts)[p]
           IN  at[1] \in DOMAIN parts /\ at[2] \in DOMAIN parts[at[1]] /\ Joined(parts)[p] = parts[at[1]][at[2]]
  BY <1>5, JoinedInOrder
<1>11. Places(parts) = LinesOf(ts) /\ \A p : PlacesInTurn(parts)[p] = LineAt(ts, p)
  <2>1. Places(parts) = LinesOf(ts)
    BY <1>6 DEF Places, LinesOf
  <2> QED
    BY <2>1 DEF PlacesInTurn, LineAt
<1>12. /\ IsFiniteSet(LinesOf(ts)) /\ Cardinality(LinesOf(ts)) \in Nat
       /\ Len(u.rows) = Cardinality(LinesOf(ts)) /\ DOMAIN u.rows = 1..Cardinality(LinesOf(ts))
       /\ \A p \in DOMAIN u.rows : LineAt(ts, p) = <<LineAt(ts, p)[1], LineAt(ts, p)[2]>>
       /\ \A k \in DOMAIN parts : \A n \in DOMAIN parts[k] : \E p \in DOMAIN u.rows : LineAt(ts, p) = <<k, n>>
       /\ \A p, q \in DOMAIN u.rows : p < q => <<LineAt(ts, p), LineAt(ts, q)>> \in InTurn(LinesOf(ts))
  <2> DEFINE at(p) == PlacesInTurn(parts)[p]
             J == Joined(parts)
  <2>1. /\ IsFiniteSet(Places(parts)) /\ Cardinality(Places(parts)) \in Nat
        /\ Len(J) = Cardinality(Places(parts)) /\ DOMAIN J = 1..Cardinality(Places(parts))
        /\ \A p \in DOMAIN J : at(p) = <<at(p)[1], at(p)[2]>>
        /\ \A k \in DOMAIN parts : \A n \in DOMAIN parts[k] : \E p \in DOMAIN J : at(p) = <<k, n>>
        /\ \A p, q \in DOMAIN J : p < q => <<at(p), at(q)>> \in InTurn(Places(parts))
    BY <1>5, JoinedInOrder
  <2>2. \A p : at(p) = LineAt(ts, p)
    BY <1>11
  <2> HIDE DEF at, J
  <2>3. Places(parts) = LinesOf(ts) /\ u.rows = J
    BY <1>3, <1>11 DEF J
  <2> QED
    BY <2>1, <2>2, <2>3
<1>13. \A l \in LinesOf(ts) : \E p \in DOMAIN u.rows : LineAt(ts, p) = l
  <2> SUFFICES ASSUME NEW l \in LinesOf(ts) PROVE \E p \in DOMAIN u.rows : LineAt(ts, p) = l
    OBVIOUS
  <2>1. PICK m \in DOMAIN ts : \E i \in DOMAIN ts[m].rows : l = <<m, i>>
    BY DEF LinesOf
  <2>2. PICK i \in DOMAIN ts[m].rows : l = <<m, i>>
    BY <2>1
  <2> QED
    BY <1>6, <1>12, <2>2
<1>14. ASSUME NEW p \in DOMAIN u.rows
       PROVE  LineAt(ts, p) \in LinesOf(ts) /\ u.rows[p] = Widely(ts, LineAt(ts, p)[1], LineAt(ts, p)[2])
  <2> DEFINE l == LineAt(ts, p)
  <2> HIDE DEF l
  <2>1. l = <<l[1], l[2]>> /\ l[1] \in DOMAIN ts /\ l[2] \in DOMAIN ts[l[1]].rows
    BY <1>3, <1>6, <1>8, <1>11, <1>12 DEF l
  <2>2. l \in LinesOf(ts)
    BY <2>1 DEF LinesOf
  <2>3. u.rows[p] = Widely(ts, l[1], l[2])
    BY <1>3, <1>7, <1>8, <1>11, <2>1 DEF l
  <2> QED
    BY <2>2, <2>3 DEF l
<1>9. IsTable(u, V) /\ Columns(u) = U
  BY <1>2, <1>3, <1>8 DEF IsTable, IsList, Columns
<1>10. ASSUME NEW p \in DOMAIN u.rows
       PROVE  \E m \in DOMAIN ts : \E i \in DOMAIN ts[m].rows : u.rows[p] = Widely(ts, m, i)
  BY <1>3, <1>6, <1>7, <1>8
<1> QED
  BY <1>9, <1>10, <1>12, <1>13, <1>14 DEF u, U

-----------------------------------------------------------------------------
(* What a prepared column holds                                            *)

(* The cells of a carrier are numbers, missing, or, in the INDSNAME=       *)
(* column only, names of datasets.                                         *)
Values == Cells \cup Names
NamesHere(c) == request.indsname # NoVar /\ ColumnKey(c) = ColumnKey(request.indsname)
IsMarked(t) ==
  /\ IsTable(t, Values)
  /\ \A i \in DOMAIN t.rows : \A c \in Columns(t) : ~NamesHere(c) => t.rows[i][c] \in Cells

LEMMA PlainIsMarked ==
  ASSUME NEW t, IsTable(t, Cells)
  PROVE  IsMarked(t)
<1>1. t.rows \in Seq([Columns(t) -> Cells]) /\ DOMAIN t.rows = 1..Len(t.rows) /\ Len(t.rows) \in Nat
  BY DEF IsTable
<1>2. \A i \in DOMAIN t.rows : t.rows[i] \in [Columns(t) -> Cells]
  BY <1>1
<1>3. \A i \in 1..Len(t.rows) : t.rows[i] \in [Columns(t) -> Values]
  BY <1>1, <1>2 DEF Values
<1>4. t.rows = [i \in 1..Len(t.rows) |-> t.rows[i]]
  BY <1>1
<1>5. t.rows \in Seq([Columns(t) -> Values])
  BY <1>1, <1>3, <1>4, TabulatedSequence
<1> QED
  BY <1>2, <1>5 DEF IsTable, IsMarked

LEMMA WellFormedTable ==
  ASSUME NEW t, NEW V, IsTable(t, V)
  PROVE  WellFormed(t)
<1>1. t.rows \in Seq([Columns(t) -> V])
  BY DEF IsTable
<1>2. \A i \in DOMAIN t.rows : t.rows[i] \in [Columns(t) -> V]
  BY <1>1
<1> QED
  BY <1>2 DEF WellFormed

(* A column of numbers that is put into a table                            *)
LEMMA PutMarked ==
  ASSUME NEW t, IsMarked(t), NEW cs, IsList(cs), NEW given,
         \A i \in DOMAIN t.rows : \A c \in ToSet(cs) :
           given[i][c] \in Cells \/ (given[i][c] \in Names /\ NamesHere(c))
  PROVE  LET u == Put(t, cs, given)
         IN  IsMarked(u) /\ Columns(u) = Columns(t) \cup ToSet(cs) /\ DOMAIN u.rows = DOMAIN t.rows
<1> DEFINE u == Put(t, cs, given)
<1>1. \A i \in DOMAIN t.rows : \A c \in ToSet(cs) : given[i][c] \in Values
  BY DEF Values
<1>2. /\ IsTable(u, Values) /\ Columns(u) = Columns(t) \cup ToSet(cs)
      /\ DOMAIN u.rows = DOMAIN t.rows
      /\ \A i \in DOMAIN t.rows : \A c \in Columns(u) :
           u.rows[i][c] = IF c \in ToSet(cs) THEN given[i][c] ELSE t.rows[i][c]
  BY <1>1, PutTable DEF IsMarked
<1> HIDE DEF u
<1>3. ASSUME NEW i \in DOMAIN u.rows, NEW c \in Columns(u), ~NamesHere(c)
      PROVE  u.rows[i][c] \in Cells
  BY <1>2, <1>3 DEF IsMarked
<1> QED
  BY <1>2, <1>3 DEF IsMarked, u

LEMMA FlagList ==
  ASSUME NEW ks, IsList(ks)
  PROVE  IsList(FlagColumns(ks))
<1>1. Len(ks) \in Nat
  BY ListFacts
<1>2. 2 * Len(ks) \in Nat
  BY <1>1
<1>3. FlagColumns(ks) = [n \in 1..(2 * Len(ks)) |-> FlagColumns(ks)[n]]
  BY DEF FlagColumns
<1> HIDE DEF FlagColumns
<1> QED
  BY <1>2, <1>3, MappedList

LEMMA FlagsMarked ==
  ASSUME NEW t, IsMarked(t), NEW ks, IsList(ks)
  PROVE  LET u == WithFlags(t, ks)
         IN  IsMarked(u) /\ Columns(u) = Columns(t) \cup ToSet(FlagColumns(ks)) /\ DOMAIN u.rows = DOMAIN t.rows
<1> DEFINE u == WithFlags(t, ks)
           flags == FlagColumns(ks)
           C == Columns(t) \cup ToSet(flags)
           at(c) == CHOOSE b \in ToSet(ks) : c \in {Flag("FIRST", b), Flag("LAST", b)}
           flagOf(c, i) == Differs(t, at(c), i, IF c[1] = "FIRST" THEN i - 1 ELSE i + 1)
<1>1. /\ t.rows \in Seq([Columns(t) -> Values]) /\ DOMAIN t.rows = 1..Len(t.rows) /\ Len(t.rows) \in Nat
      /\ DOMAIN t = {"cols", "rows", "type"} /\ IsList(t.cols)
  BY DEF IsMarked, IsTable, IsList, Columns
<1>2. /\ DOMAIN u = {"cols", "rows", "type"} /\ u.cols = t.cols \o flags
      /\ u.rows = [i \in DOMAIN t.rows |-> [c \in C |-> IF c \in ToSet(flags) THEN flagOf(c, i) ELSE t.rows[i][c]]]
  BY <1>1 DEF WithFlags
<1>3. \A c, i : flagOf(c, i) \in {0, 1}
  BY DEF Differs
<1>4. IsList(u.cols) /\ Columns(u) = C
  <2>1. IsList(flags)
    BY FlagList
  <2> HIDE DEF u, flags
  <2> QED
    BY <1>1, <1>2, <2>1, JoinedLists DEF Columns
<1> HIDE DEF u, flags, flagOf
<1>5. \A i \in DOMAIN t.rows : t.rows[i] \in [Columns(t) -> Values]
  BY <1>1
<1>6. \A c, i : flagOf(c, i) \in Cells /\ flagOf(c, i) \in Values
  BY <1>3 DEF Cells, Values
<1>7. \A i \in 1..Len(t.rows) : u.rows[i] \in [C -> Values]
  BY <1>1, <1>2, <1>5, <1>6
<1>8. u.rows = [i \in 1..Len(t.rows) |-> u.rows[i]]
  BY <1>1, <1>2
<1>9. u.rows \in Seq([C -> Values])
  BY <1>1, <1>7, <1>8, TabulatedSequence
<1>10. IsTable(u, Values)
  BY <1>2, <1>4, <1>9 DEF IsTable, IsList, Columns
<1>11. ASSUME NEW i \in DOMAIN u.rows, NEW c \in Columns(u), ~NamesHere(c)
       PROVE  u.rows[i][c] \in Cells
  BY <1>2, <1>4, <1>6, <1>11 DEF IsMarked
<1> QED
  BY <1>2, <1>4, <1>10, <1>11 DEF IsMarked, u, flags

LEMMA ConcatMarked ==
  ASSUME NEW ts, IsList(ts), \A m \in DOMAIN ts : IsMarked(ts[m])
  PROVE  IsMarked(Concat(ts)) /\ Columns(Concat(ts)) = UNION {Columns(ts[m]) : m \in DOMAIN ts}
<1>1. Null \in Values /\ Null \in Cells
  BY DEF Values, Cells
<1>2. /\ IsTable(Concat(ts), Values) /\ Columns(Concat(ts)) = UNION {Columns(ts[m]) : m \in DOMAIN ts}
      /\ \A p \in DOMAIN Concat(ts).rows : \E m \in DOMAIN ts : \E i \in DOMAIN ts[m].rows :
           Concat(ts).rows[p] = Widely(ts, m, i)
  BY <1>1, ConcatTable DEF IsMarked
<1>3. ASSUME NEW p \in DOMAIN Concat(ts).rows, NEW c \in Columns(Concat(ts)), ~NamesHere(c)
      PROVE  Concat(ts).rows[p][c] \in Cells
  <2>1. PICK m \in DOMAIN ts : \E i \in DOMAIN ts[m].rows : Concat(ts).rows[p] = Widely(ts, m, i)
    BY <1>2
  <2>3. PICK i \in DOMAIN ts[m].rows : Concat(ts).rows[p] = Widely(ts, m, i)
    BY <2>1
  <2>2. Widely(ts, m, i)[c] = IF c \in Columns(ts[m]) THEN ts[m].rows[i][c] ELSE Null
    BY <1>2 DEF Widely
  <2> QED
    BY <1>1, <1>3, <2>2, <2>3 DEF IsMarked
<1> QED
  BY <1>2, <1>3 DEF IsMarked

(* BY columns are columns of numbers.                                      *)
LEMMA KeysOfNumbers ==
  ASSUME request \in Requests, NEW t, IsMarked(t), NEW ks, IsList(ks), ToSet(ks) \subseteq ToSet(by),
         \A n \in DOMAIN ks : HasColumn(t, ks[n])
  PROVE  Len(ks) \in Nat /\ \A i \in DOMAIN t.rows : KeyOfRow(t, ks, i) \in [1..Len(ks) -> Cells]
<1>1. DOMAIN ks = 1..Len(ks) /\ Len(ks) \in Nat
  BY ListFacts
<1>2. ASSUME NEW i \in DOMAIN t.rows, NEW n \in DOMAIN ks
      PROVE  t.rows[i][Resolve(t, ks[n])] \in Cells
  <2>1. Resolve(t, ks[n]) \in Columns(t) /\ ColumnKey(Resolve(t, ks[n])) = ColumnKey(ks[n])
    BY ResolvedColumn DEF IsMarked
  <2>2. ks[n] \in ToSet(by)
    BY DEF ToSet
  <2>3. ~NamesHere(ks[n])
    BY <2>2, RequestsAssumption DEF NamesHere, by, ToSet
  <2>4. ~NamesHere(Resolve(t, ks[n]))
    BY <2>1, <2>3 DEF NamesHere
  <2> QED
    BY <2>1, <2>4 DEF IsMarked
<1> QED
  BY <1>1, <1>2 DEF KeyOfRow, RowKey

LEMMA SortedMarked ==
  ASSUME request \in Requests, NEW t, IsMarked(t), \A n \in DOMAIN by : HasColumn(t, by[n])
  PROVE  LET u == SortTable(t, by)
         IN  IsMarked(u) /\ Columns(u) = Columns(t) /\ DOMAIN u.rows = DOMAIN t.rows
<1> DEFINE u == SortTable(t, by)
<1>1. IsList(by)
  BY RequestsAssumption DEF by
<1>2. Len(by) \in Nat /\ \A i \in DOMAIN t.rows : KeyOfRow(t, by, i) \in [1..Len(by) -> Cells]
  BY <1>1, KeysOfNumbers
<1>3. /\ IsTable(u, Values) /\ u.cols = t.cols /\ DOMAIN u.rows = DOMAIN t.rows
      /\ \A p \in DOMAIN t.rows : RowAt(t, by, p) \in DOMAIN t.rows /\ u.rows[p] = t.rows[RowAt(t, by, p)]
  BY <1>2, SortedTable DEF IsMarked
<1> HIDE DEF u
<1>4. Columns(u) = Columns(t)
  BY <1>3 DEF Columns
<1>5. ASSUME NEW p \in DOMAIN u.rows, NEW c \in Columns(u), ~NamesHere(c)
      PROVE  u.rows[p][c] \in Cells
  BY <1>3, <1>4, <1>5 DEF IsMarked
<1> QED
  BY <1>3, <1>4, <1>5 DEF IsMarked, u

-----------------------------------------------------------------------------
(* The tables of a preparation                                             *)

(* What the caller gave holds numbers in tables of its columns; so does    *)
(* what was shaped and marked; and a carrier can be sorted by BY, which    *)
(* LAG and LEAD ask for once more.                                         *)
IsCarrier(t) == IsMarked(t) /\ \A n \in DOMAIN by : HasColumn(t, by[n])
TypedInputs ==
  \A d \in DOMAIN inputs : \A t :
    t = inputs[d].table =>
      /\ inputs[d].kind = "table" => WellFormed(t)
      /\ inputs[d].kind = "table" /\ inputs[d].prep = "none" => IsTable(t, Cells)
      /\ inputs[d].prep = "prepared_set" /\ phase \in {"collapse", "helpers"} =>
           inputs[d].kind = "table" /\ IsCarrier(t)
FoundSources ==
  phase \in {"collisions", "schema", "order", "shape"} =>
    \A s \in Occurrences : /\ refs[s].name \in DOMAIN inputs
                           /\ inputs[refs[s].name].kind = "table" => refs[s].opts.firstobs >= 1
TypedTables == IsList(tables) /\ Len(tables) <= Len(refs) /\ \A t \in ToSet(tables) : IsMarked(t)
Returns ==
  /\ phase \in {"resolve", "collisions", "schema", "order", "shape", "collapse", "helpers",
                "ingress", "done", "failed"}
  /\ phase \in {"done", "failed"} <=> result.code # "none"
Typed == TypedInputs /\ FoundSources /\ TypedTables /\ Returns
TypesInv == Unclaimed /\ SpelledAlike => Typed

LEMMA RequestLists ==
  ASSUME request \in Requests
  PROVE  /\ IsList(refs) /\ IsList(by) /\ Occurrences = 1..Len(refs) /\ Len(refs) \in Nat
         /\ \A s \in Occurrences : /\ refs[s].opts.firstobs \in Int /\ refs[s].opts.obs \in Int
                                   /\ refs[s].name \in Names
         /\ IsList(InVars) /\ IsList(HelperColumns)
<1>1. IsList(refs) /\ IsList(by) /\ IsList(request.lags)
  BY RequestsAssumption DEF refs, by
<1>2. Occurrences = 1..Len(refs) /\ Len(refs) \in Nat
  BY <1>1, ListFacts DEF Occurrences
<1>3. \A s \in Occurrences : /\ refs[s].opts.firstobs \in Int /\ refs[s].opts.obs \in Int
                             /\ refs[s].name \in Names
  BY RequestsAssumption DEF refs, Occurrences, Names
<1>4. IsList(InVars)
  <2> DEFINE ins == [s \in Occurrences |-> refs[s].in]
             I == {s \in Occurrences : refs[s].in # NoVar}
  <2>1. ins = [s \in 1..Len(refs) |-> ins[s]]
    BY <1>2
  <2>2. I \in SUBSET DOMAIN ins
    OBVIOUS
  <2>3. InVars = Selected(ins, I)
    BY DEF InVars
  <2> HIDE DEF ins, I
  <2> QED
    BY <1>2, <2>1, <2>2, <2>3, MappedList, SelectedList
<1>5. IsList(HelperColumns)
  <2> DEFINE I == {n \in DOMAIN request.lags : request.lags[n].owned}
  <2>1. I \in SUBSET DOMAIN request.lags /\ Owned = Selected(request.lags, I)
    BY DEF Owned
  <2> HIDE DEF I
  <2>2. IsList(Owned)
    BY <1>1, <2>1, SelectedList
  <2>3. DOMAIN Owned = 1..Len(Owned) /\ Len(Owned) \in Nat
    BY <2>2, ListFacts
  <2>4. HelperColumns = [n \in 1..Len(Owned) |-> HelperColumns[n]]
    BY <2>3 DEF HelperColumns
  <2> HIDE DEF HelperColumns
  <2> QED
    BY <2>3, <2>4, MappedList
<1> QED
  BY <1>1, <1>2, <1>3, <1>4, <1>5

LEMMA OneColumn == ASSUME NEW c PROVE IsList(<<c>>) /\ ToSet(<<c>>) = {c}
<1>1. DOMAIN <<c>> = 1..1 /\ <<c>>[1] = c
  OBVIOUS
<1> QED
  BY <1>1 DEF IsList, ToSet

(* IN= variables are numbers, and INDSNAME= holds names.                   *)
LEMMA OccurrenceMarked ==
  ASSUME request \in Requests, NEW s \in Occurrences, NEW t, IsTable(t, Cells)
  PROVE  IsMarked(Marked(s, t))
<1> DEFINE flags == [i \in DOMAIN t.rows |-> [v \in ToSet(InVars) |-> InFlag(s, v)]]
           flagged == Put(t, InVars, flags)
           n == request.indsname
           origins == [i \in DOMAIN t.rows |-> [v \in {n} |-> refs[s].name]]
<1>1. IsMarked(t) /\ IsList(InVars) /\ refs[s].name \in Names
  BY PlainIsMarked, RequestLists
<1>2. \A i \in DOMAIN t.rows : \A c \in ToSet(InVars) : flags[i][c] \in Cells
  BY DEF InFlag, Cells
<1>3. Marked(s, t) = IF n = NoVar THEN flagged ELSE Put(flagged, <<n>>, origins)
  BY DEF Marked
<1>4. \A i \in DOMAIN t.rows : \A c \in {n} : origins[i][c] = refs[s].name
  OBVIOUS
<1> HIDE DEF flags, origins, n
<1>5. IsMarked(flagged) /\ DOMAIN flagged.rows = DOMAIN t.rows
  BY <1>1, <1>2, PutMarked
<1> HIDE DEF flagged
<1>6. ASSUME n # NoVar PROVE IsMarked(Put(flagged, <<n>>, origins))
  <2>1. NamesHere(n)
    BY <1>6 DEF NamesHere, n
  <2>2. \A i \in DOMAIN flagged.rows : \A c \in ToSet(<<n>>) : origins[i][c] \in Names /\ NamesHere(c)
    BY <1>1, <1>4, <1>5, <2>1, OneColumn
  <2> QED
    BY <1>5, <2>2, OneColumn, PutMarked
<1> QED
  BY <1>3, <1>5, <1>6

(* Sorted, with END= and the flags of BY                                   *)
LEMMA CarrierMarked ==
  ASSUME request \in Requests, TypedTables, \A n \in DOMAIN by : HasColumn(Concat(tables), by[n])
  PROVE  IsCarrier(Carrier)
<1> DEFINE all == Concat(tables)
           ordered == Ordered(all)
           n == Len(ordered.rows)
           given == [i \in 1..n |-> [v \in {request.end} |-> IF i = n THEN 1 ELSE 0]]
           ended == IF request.end = NoVar THEN ordered ELSE Put(ordered, <<request.end>>, given)
<1>1. IsMarked(all)
  <2>1. \A m \in DOMAIN tables : IsMarked(tables[m])
    BY DEF TypedTables, ToSet
  <2> QED
    BY <2>1, ConcatMarked DEF TypedTables
<1>2. IsMarked(ordered) /\ Columns(ordered) = Columns(all)
  BY <1>1, SortedMarked DEF Ordered
<1>3. \A i \in 1..n : given[i][request.end] \in Cells
  BY DEF Cells
<1>4. Carrier = IF by = <<>> \/ n = 0 THEN ended ELSE WithFlags(ended, by)
  BY DEF Carrier
<1>5. DOMAIN ordered.rows = 1..n
  BY <1>2 DEF IsMarked, IsTable
<1> HIDE DEF given, n, ordered, all
<1>6. IsMarked(ended) /\ Columns(all) \subseteq Columns(ended)
  <2>1. CASE request.end = NoVar
    BY <1>2, <2>1
  <2>2. CASE request.end # NoVar
    <3>1. \A i \in DOMAIN ordered.rows : \A c \in ToSet(<<request.end>>) : given[i][c] \in Cells
      BY <1>3, <1>5, OneColumn
    <3>2. /\ IsMarked(Put(ordered, <<request.end>>, given))
          /\ Columns(Put(ordered, <<request.end>>, given)) = Columns(ordered) \cup {request.end}
      BY <1>2, <3>1, OneColumn, PutMarked
    <3> QED
      BY <1>2, <2>2, <3>2
  <2> QED
    BY <2>1, <2>2
<1> HIDE DEF ended
<1>7. IsMarked(Carrier) /\ Columns(all) \subseteq Columns(Carrier)
  <2>1. /\ IsMarked(WithFlags(ended, by))
        /\ Columns(WithFlags(ended, by)) = Columns(ended) \cup ToSet(FlagColumns(by))
    BY <1>6, RequestLists, FlagsMarked
  <2> QED
    BY <1>4, <1>6, <2>1
<1>8. \A m \in DOMAIN by : HasColumn(Carrier, by[m])
  BY <1>7, HasColumnKey DEF Keys, all
<1> QED
  BY <1>7, <1>8 DEF IsCarrier

(* The sources as they are, one below the other                            *)
LEMMA SourcesMarked ==
  ASSUME request \in Requests, Fresh, TypedInputs, FoundSources, phase = "order", Concatenable
  PROVE  IsCarrier(Concat([s \in Occurrences |-> Input(s).table]))
<1> DEFINE ts == [s \in Occurrences |-> Input(s).table]
<1>1. IsList(ts)
  <2>1. ts = [s \in 1..Len(refs) |-> ts[s]]
    BY RequestLists
  <2> HIDE DEF ts
  <2> QED
    BY <2>1, RequestLists, MappedList
<1>2. ASSUME NEW s \in DOMAIN ts PROVE IsMarked(ts[s])
  <2>1. s \in Occurrences /\ refs[s].name \in DOMAIN inputs
    BY DEF FoundSources
  <2>2. inputs[refs[s].name].kind = "table" /\ inputs[refs[s].name].prep = "none"
    BY <2>1 DEF Fresh, Concatenable, AllTables, Input
  <2>3. IsTable(inputs[refs[s].name].table, Cells)
    BY <2>1, <2>2 DEF TypedInputs
  <2> QED
    BY <2>1, <2>3, PlainIsMarked DEF Input
<1>3. IsMarked(Concat(ts))
  <2> HIDE DEF ts
  <2> QED
    BY <1>1, <1>2, ConcatMarked
<1>4. DOMAIN by = {}
  <2>1. DOMAIN <<>> = {}
    OBVIOUS
  <2> QED
    BY <2>1 DEF Concatenable, Unprepared
<1> QED
  BY <1>3, <1>4 DEF IsCarrier

(* A table of the caller sorted by the BY columns it has                   *)
LEMMA SortedByActiveTable ==
  ASSUME request \in Requests, NEW t, IsTable(t, Cells)
  PROVE  IsTable(SortedByActive(t), Cells)
<1> DEFINE I == {n \in DOMAIN by : HasColumn(t, by[n])}
           active == Selected(by, I)
           found == [n \in DOMAIN active |-> t.cols[Min(Spellings(t, active[n]))]]
<1>1. IsList(by) /\ I \in SUBSET DOMAIN by
  BY RequestLists
<1>2. IsList(active) /\ ToSet(active) = {by[n] : n \in I}
  <2> HIDE DEF I
  <2> QED
    BY <1>1, SelectedList
<1>3. DOMAIN active = 1..Len(active) /\ Len(active) \in Nat
  BY <1>2, ListFacts
<1>4. IsList(t.cols) /\ DOMAIN t.cols = 1..Len(t.cols) /\ Len(t.cols) \in Nat
  <2>1. IsList(t.cols)
    BY DEF IsTable, IsList, Columns
  <2> QED
    BY <2>1, ListFacts
<1>5. ASSUME NEW n \in DOMAIN active
      PROVE  HasColumn(t, found[n])
  <2> DEFINE S == Spellings(t, active[n])
  <2>1. active[n] \in ToSet(active)
    BY DEF ToSet
  <2>2. HasColumn(t, active[n])
    BY <1>2, <2>1
  <2>3. S # {} /\ S \subseteq DOMAIN t.cols
    BY <2>2 DEF HasColumn, Spellings
  <2>4. S \subseteq Nat
    BY <1>4, <2>3
  <2>5. \E m \in S : \A k \in S : m <= k
    <3> HIDE DEF S
    <3> QED
      BY <2>3, <2>4, LeastNumber
  <2>6. Min(S) \in S
    BY <2>5 DEF Min
  <2>7. found[n] = t.cols[Min(S)]
    OBVIOUS
  <2>8. found[n] \in Columns(t)
    BY <2>3, <2>6, <2>7 DEF Columns, ToSet
  <2> QED
    BY <2>8, HasColumnKey DEF Keys
<1>6. SortedByActive(t) = SortTable(t, found)
  BY DEF SortedByActive
<1>7. DOMAIN found = 1..Len(active)
  BY <1>3
<1> HIDE DEF found, active
<1>8. \A i \in DOMAIN t.rows : KeyOfRow(t, found, i) \in [1..Len(active) -> Cells]
  <2>1. \A i \in DOMAIN t.rows : t.rows[i] \in [Columns(t) -> Cells]
    <3>1. t.rows \in Seq([Columns(t) -> Cells])
      BY DEF IsTable
    <3> QED
      BY <3>1
  <2> QED
    BY <1>3, <1>5, <1>7, <2>1, RowHasKey DEF KeyOfRow
<1> QED
  BY <1>3, <1>6, <1>8, SortedTable

(* The columns of LAG and LEAD calls                                       *)
LEMMA HelpedTable ==
  ASSUME request \in Requests, NEW t, NEW V, IsTable(t, V)
  PROVE  WellFormed(WithHelpers(t)) /\ WellFormed(WithRowHelpers(t))
<1>1. /\ DOMAIN t = {"cols", "rows", "type"} /\ IsList(t.cols) /\ IsList(HelperColumns)
      /\ t.rows \in Seq([Columns(t) -> V])
  BY RequestLists DEF IsTable, IsList, Columns
<1>2. ASSUME NEW given PROVE WellFormed(Put(t, HelperColumns, given))
  <2> DEFINE u == Put(t, HelperColumns, given)
  <2>1. u.rows = PutRows(t, HelperColumns, given) /\ Columns(u) = Columns(t) \cup ToSet(HelperColumns)
    BY <1>1, PutColumns
  <2> HIDE DEF u
  <2> QED
    BY <2>1 DEF WellFormed, PutRows, u
<1>3. WellFormed(WithHelpers(t))
  BY <1>2 DEF WithHelpers
<1>4. CASE t.rows = <<>>
  <2>1. WithRowHelpers(t) = [t EXCEPT !.cols = <<>>]
    BY <1>4 DEF WithRowHelpers
  <2>2. WithRowHelpers(t).cols = <<>>
    BY <1>1, <2>1
  <2> QED
    BY <1>3, <2>2 DEF WellFormed
<1>5. CASE t.rows # <<>>
  <2>1. WellFormed(WithRowHelpers(t))
    BY <1>2, <1>5 DEF WithRowHelpers
  <2> QED
    BY <1>3, <2>1
<1> QED
  BY <1>4, <1>5

LEMMA SameTypes ==
  ASSUME request' = request
  PROVE  /\ \A t : IsMarked(t)' <=> IsMarked(t)
         /\ \A t : IsCarrier(t)' <=> IsCarrier(t)
         /\ Occurrences' = Occurrences /\ refs' = refs /\ Names' = Names /\ First' = First
         /\ Unclaimed' = Unclaimed /\ SpelledAlike' = SpelledAlike
<1>1. refs' = refs /\ by' = by
  BY DEF refs, by
<1>2. Occurrences' = Occurrences
  BY <1>1 DEF Occurrences
<1>3. Names' = Names
  BY <1>1, <1>2 DEF Names
<1>4. \A t : IsMarked(t)' <=> IsMarked(t)
  BY <1>3 DEF IsMarked, Values, NamesHere
<1>5. \A t : IsCarrier(t)' <=> IsCarrier(t)
  BY <1>1, <1>4 DEF IsCarrier
<1>6. Unclaimed' = Unclaimed /\ SpelledAlike' = SpelledAlike
  BY <1>1, <1>2, <1>3 DEF Unclaimed, SpelledAlike, SourceKeys
<1> QED
  BY <1>1, <1>2, <1>3, <1>4, <1>5, <1>6 DEF First

LEMMA FailTyped ==
  ASSUME Typed, NEW c, c # "none", Fail(c)
  PROVE  Typed'
<1>1. UNCHANGED <<request, inputs, tables, sources>> /\ phase' = "failed" /\ result'.code = c
  BY DEF Fail, NoResult
<1>2. TypedInputs'
  BY <1>1, SameTypes DEF Typed, TypedInputs
<1>3. TypedTables'
  BY <1>1, SameTypes DEF Typed, TypedTables
<1> QED
  BY <1>1, <1>2, <1>3 DEF Typed, FoundSources, Returns

(* the sources replaced by a carrier *)
LEMMA ReplacedTyped ==
  ASSUME Typed, Fresh, NEW table, IsCarrier(table), inputs' = Replaced(table),
         phase' = "collapse", UNCHANGED <<request, result>>, phase \in {"order", "shape"}
  PROVE  TypedInputs' /\ FoundSources' /\ Returns'
<1>1. /\ DOMAIN inputs' = (DOMAIN inputs \ Names) \cup {First}
      /\ inputs'[First].kind = "table" /\ inputs'[First].table = table /\ inputs'[First].prep = "prepared_set"
      /\ \A d \in DOMAIN inputs' \ {First} : d \in DOMAIN inputs /\ inputs'[d] = inputs[d]
  BY DEF Replaced, Provenance, Fresh
<1>2. WellFormed(table)
  BY WellFormedTable DEF IsCarrier, IsMarked
<1>3. \A d \in DOMAIN inputs' \ {First} : inputs'[d].prep = "none"
  BY <1>1 DEF Fresh
<1>4. TypedInputs'
  BY <1>1, <1>2, <1>3, SameTypes DEF Typed, TypedInputs
<1> QED
  BY <1>4 DEF FoundSources, Returns, Typed

LEMMA TypesKept ==
  ASSUME SetInv, TypesInv, [Next]_vars
  PROVE  TypesInv'
<1>1. request' = request
  BY DEF Next, vars, Resolution, Collisions, Schema, Order, ShapeOccurrence, Combine, Collapse,
         Helpers, Ingress, Returned, Fail, Continue
<1> SUFFICES ASSUME Unclaimed, SpelledAlike PROVE Typed'
  BY <1>1, SameTypes DEF TypesInv
<1>2. ContractInv /\ Typed /\ request \in Requests
  BY DEF SetInv, TypesInv, ContractInv
<1>3. CASE \E c : c # "none" /\ Fail(c)
  BY <1>2, <1>3, FailTyped
<1> SUFFICES ASSUME ~ \E c : c # "none" /\ Fail(c) PROVE Typed'
  BY <1>3
<1>4. CASE Resolution
  <2> DEFINE found == ResolvedInputs(request.explicit, Names)
  <2>1. /\ \A n \in Names : HasInput(found, n)
        /\ \A s \in Occurrences : ~(found[refs[s].name].kind = "table"
                                    /\ ShapeFails(found[refs[s].name].table, refs[s].opts))
        /\ inputs' = found /\ Continue("collisions") /\ phase = "resolve"
    BY <1>4 DEF Resolution
  <2>2. \A d \in DOMAIN found : \E e \in DOMAIN request.explicit : found[d] = request.explicit[e]
    BY FoundInputs
  <2>3. \A n \in Names : n \in DOMAIN found
    BY <2>1 DEF ResolvedInputs, HasInput
  <2> HIDE DEF found
  <2>4. \A d \in DOMAIN found : /\ found[d].prep = "none"
                                /\ found[d].kind = "table" => IsTable(found[d].table, Cells)
    BY <1>2, <2>2, RequestsAssumption DEF Unclaimed
  <2>5. TypedInputs'
    BY <2>1, <2>4, WellFormedTable DEF TypedInputs
  <2>6. \A s \in Occurrences : /\ refs[s].name \in DOMAIN found
                               /\ found[refs[s].name].kind = "table" => refs[s].opts.firstobs >= 1
    <3>1. \A t, o : ~ShapeFails(t, o) => ~(o.firstobs < 1)
      BY DEF ShapeFails
    <3>2. \A s \in Occurrences : refs[s].name \in Names /\ refs[s].opts.firstobs \in Int
      BY <1>2, RequestLists
    <3> QED
      BY <2>1, <2>3, <3>1, <3>2
  <2>7. FoundSources'
    BY <1>1, <2>1, <2>6, SameTypes DEF FoundSources
  <2> QED
    BY <1>1, <1>2, <2>1, <2>5, <2>7, SameTypes DEF Typed, TypedTables, Returns, Continue
<1>5. CASE Collisions \/ Schema
  <2>1. /\ UNCHANGED inputs /\ UNCHANGED <<request, tables, sources, result>>
        /\ phase \in {"collisions", "schema"} /\ phase' \in {"schema", "order"}
    BY <1>5 DEF Collisions, Schema, Continue
  <2>2. TypedInputs' /\ FoundSources'
    BY <1>2, <2>1, SameTypes DEF Typed, TypedInputs, FoundSources
  <2> QED
    BY <1>2, <2>1, <2>2, SameTypes DEF Typed, TypedTables, Returns
<1>6. CASE Order
  <2>1. /\ phase = "order" /\ phase' \in {"shape", "collapse"} /\ UNCHANGED <<request, tables, sources, result>>
        /\ phase' = "shape" <=> PreparesRows
        /\ Fresh
    BY <1>2, <1>6 DEF Order, Continue, ContractInv
  <2>2. TypedTables' /\ Returns'
    BY <1>2, <2>1, SameTypes DEF Typed, TypedTables, Returns
  <2>3. CASE Concatenable
    <3>1. inputs' = Replaced(Concat([s \in Occurrences |-> Input(s).table]))
      BY <1>6, <2>3 DEF Order
    <3>2. phase' = "collapse"
      BY <1>6, <2>3 DEF Order, Continue, PreparesRows, Concatenable
    <3> QED
      BY <1>2, <2>1, <2>2, <2>3, <3>1, <3>2, SourcesMarked, ReplacedTyped DEF Typed
  <2>4. CASE ~Concatenable
    <3>1. inputs' = SortedInputs \/ inputs' = inputs
      BY <1>6, <2>4 DEF Order
    <3>2. /\ DOMAIN inputs' = DOMAIN inputs
          /\ \A d \in DOMAIN inputs : /\ inputs'[d].kind = inputs[d].kind /\ inputs'[d].prep = inputs[d].prep
                                      /\ inputs[d].kind = "table" =>
                                           inputs'[d].table \in {inputs[d].table, SortedByActive(inputs[d].table)}
      BY <3>1 DEF SortedInputs
    <3>3. ASSUME NEW d \in DOMAIN inputs, inputs[d].kind = "table"
          PROVE  IsTable(inputs'[d].table, Cells) /\ inputs[d].prep = "none"
      <4>1. IsTable(inputs[d].table, Cells) /\ inputs[d].prep = "none"
        BY <1>2, <2>1, <3>3 DEF Typed, TypedInputs, Fresh
      <4> QED
        BY <1>2, <3>2, <3>3, <4>1, SortedByActiveTable
    <3>4. TypedInputs'
      BY <2>1, <3>2, <3>3, WellFormedTable DEF TypedInputs, Fresh
    <3>5. FoundSources'
      BY <1>2, <2>1, <3>2, SameTypes DEF Typed, FoundSources
    <3> QED
      BY <2>2, <3>4, <3>5 DEF Typed
  <2> QED
    BY <2>3, <2>4
<1>7. CASE ShapeOccurrence
  <2> DEFINE s == Len(tables) + 1
             t == Shape(Input(s).table, refs[s].opts)
  <2>1. /\ phase = "shape" /\ Len(tables) < Len(refs) /\ Input(s).kind = "table"
        /\ tables' = Append(tables, Marked(s, t)) /\ UNCHANGED <<request, phase, inputs, sources, result>>
    BY <1>7 DEF ShapeOccurrence
  <2>2. s \in Occurrences /\ Len(tables) \in Nat /\ IsList(tables)
    BY <1>2, <2>1, RequestLists, ListFacts DEF Typed, TypedTables
  <2> HIDE DEF s
  <2>3. /\ inputs[refs[s].name].table = Input(s).table /\ inputs[refs[s].name].prep = "none"
        /\ inputs[refs[s].name].kind = "table" /\ refs[s].name \in DOMAIN inputs
        /\ refs[s].opts.firstobs >= 1
    BY <1>2, <2>1, <2>2 DEF Typed, FoundSources, ContractInv, Fresh, Input
  <2>4. IsTable(Input(s).table, Cells)
    BY <1>2, <2>3 DEF Typed, TypedInputs
  <2>5. refs[s].opts.firstobs \in Nat /\ refs[s].opts.obs \in Int
    BY <1>2, <2>2, <2>3, RequestLists
  <2>6. IsTable(t, Cells)
    BY <2>3, <2>4, <2>5, ShapedTable
  <2>7. IsMarked(Marked(s, t))
    BY <1>2, <2>2, <2>6, OccurrenceMarked
  <2> DEFINE m == Marked(s, t)
  <2> HIDE DEF t, m
  <2>8. /\ IsList(tables') /\ Len(tables') = Len(tables) + 1
        /\ ToSet(tables') = ToSet(tables) \cup {m}
    <3>1. tables' = tables \o <<m>>
      BY <2>1, <2>2 DEF m, IsList
    <3>2. IsList(<<m>>) /\ ToSet(<<m>>) = {m} /\ Len(<<m>>) = 1
      BY OneColumn
    <3> QED
      BY <2>2, <3>1, <3>2, JoinedLists
  <2>9. TypedTables'
    BY <1>2, <2>1, <2>2, <2>7, <2>8, RequestLists, SameTypes DEF Typed, TypedTables, m
  <2> QED
    BY <1>2, <2>1, <2>9, SameTypes DEF Typed, TypedInputs, FoundSources, Returns
<1>8. CASE Combine
  <2>1. /\ phase = "shape" /\ inputs' = Replaced(Carrier) /\ Continue("collapse") /\ Fresh
        /\ \A n \in DOMAIN by : HasColumn(Concat(tables), by[n])
    BY <1>2, <1>8 DEF Combine, ContractInv
  <2>2. IsCarrier(Carrier)
    BY <1>2, <2>1, CarrierMarked DEF Typed
  <2>3. TypedInputs' /\ FoundSources' /\ Returns'
    BY <1>2, <2>1, <2>2, ReplacedTyped DEF Continue
  <2> QED
    BY <1>1, <1>2, <2>1, <2>3, SameTypes DEF Typed, TypedTables, Continue
<1>9. CASE Collapse
  <2>1. phase = "collapse" /\ phase' = "helpers" /\ UNCHANGED <<request, inputs, tables, result>>
    BY <1>9 DEF Collapse
  <2> QED
    BY <1>2, <2>1, SameTypes DEF Typed, TypedInputs, TypedTables, FoundSources, Returns
<1>10. CASE Helpers
  <2>1. phase = "helpers" /\ Continue("ingress")
    BY <1>10 DEF Helpers
  <2>2. TypedTables' /\ Returns' /\ FoundSources'
    BY <1>1, <1>2, <2>1, SameTypes DEF Typed, TypedTables, Returns, FoundSources, Continue
  <2>3. CASE NoneOwned
    <3>1. inputs' = inputs
      BY <1>10, <2>3 DEF Helpers
    <3>2. TypedInputs'
      BY <1>1, <1>2, <2>1, <3>1, SameTypes DEF Typed, TypedInputs, Continue
    <3> QED
      BY <2>2, <3>2 DEF Typed
  <2>4. CASE ~NoneOwned
    <3>1. Carried /\ sources = <<CarrierRef>>
      BY <1>2, <2>1, <2>4 DEF ContractInv, Plain
    <3> DEFINE ts      == [s \in DOMAIN sources |-> inputs[sources[s].name].table]
               t       == SortTable(Concat(ts), by)
               helped  == IF Len(sources) = 1 /\ Columnar(t) THEN WithHelpers(t) ELSE WithRowHelpers(t)
               others  == {d \in DOMAIN inputs : DatasetKey(d) \notin {DatasetKey(sources[s].name) : s \in DOMAIN sources}}
               carrier == [kind |-> "table", table |-> helped, prep |-> Provenance(inputs[First].prep, "prepared_set")]
    <3>2. inputs' = [d \in others \cup {First} |-> IF d = First THEN carrier ELSE inputs[d]]
      BY <1>10, <2>4 DEF Helpers
    <3>3. ts = <<inputs[First].table>>
      <4>1. DOMAIN sources = {1} /\ sources[1].name = First
        BY <3>1 DEF CarrierRef
      <4> QED
        BY <4>1
    <3>4. IsCarrier(inputs[First].table)
      BY <1>2, <2>1, <3>1 DEF Typed, TypedInputs, Carried
    <3> HIDE DEF ts
    <3>5. IsMarked(Concat(ts)) /\ \A n \in DOMAIN by : HasColumn(Concat(ts), by[n])
      <4>1. IsList(ts) /\ DOMAIN ts = {1} /\ ts[1] = inputs[First].table
        BY <3>3, OneColumn
      <4>2. IsMarked(Concat(ts)) /\ Columns(Concat(ts)) = UNION {Columns(ts[m]) : m \in DOMAIN ts}
        BY <3>4, <4>1, ConcatMarked DEF IsCarrier
      <4>3. Columns(Concat(ts)) = Columns(inputs[First].table)
        BY <4>1, <4>2
      <4> QED
        BY <3>4, <4>2, <4>3, HasColumnKey DEF IsCarrier
    <3>6. IsMarked(t)
      BY <1>2, <3>5, SortedMarked
    <3> HIDE DEF t
    <3>7. WellFormed(helped)
      BY <1>2, <3>6, HelpedTable DEF IsMarked
    <3> HIDE DEF helped
    <3>8. carrier.kind = "table" /\ carrier.table = helped /\ carrier.prep = "prepared_set"
      BY <3>1 DEF Provenance, Carried
    <3> HIDE DEF carrier
    <3>9. /\ \A d \in DOMAIN inputs' \ {First} : d \in DOMAIN inputs /\ inputs'[d] = inputs[d]
          /\ inputs'[First] = carrier
      BY <3>2
    <3>10. TypedInputs'
      BY <1>1, <1>2, <2>1, <3>7, <3>8, <3>9, SameTypes DEF Typed, TypedInputs, Continue
    <3> QED
      BY <2>2, <3>10 DEF Typed
  <2> QED
    BY <2>3, <2>4
<1>11. CASE Ingress
  <2>1. /\ phase = "ingress" /\ phase' = "done" /\ result'.code = "ok"
        /\ UNCHANGED <<request, inputs, tables, sources>>
    BY <1>11 DEF Ingress
  <2> QED
    BY <1>2, <2>1, SameTypes DEF Typed, TypedInputs, TypedTables, FoundSources, Returns
<1>12. CASE Returned \/ UNCHANGED vars
  <2>1. UNCHANGED vars
    BY <1>12 DEF Returned
  <2> QED
    BY <1>2, <2>1, SameTypes DEF vars, Typed, TypedInputs, TypedTables, FoundSources, Returns
<1> QED
  BY <1>4, <1>5, <1>6, <1>7, <1>8, <1>9, <1>10, <1>11, <1>12 DEF Next

LEMMA SetTypesInit == Init => SetInv /\ TypesInv
<1>1. Init => SetInv
  BY DEF Init, SetInv, ContractInv, NoResult, BadContract
<1>2. ASSUME Init PROVE Typed
  <2>1. DOMAIN <<>> = {} /\ Len(<<>>) = 0 /\ IsList(<<>>) /\ ToSet(<<>>) = {}
    BY DEF IsList, ToSet
  <2>2. request \in Requests
    BY <1>2 DEF Init
  <2>3. Len(refs) \in Nat
    BY <2>2, RequestLists
  <2> QED
    BY <1>2, <2>1, <2>3 DEF Init, NoResult, Typed, TypedInputs, FoundSources, TypedTables, Returns
<1> QED
  BY <1>1, <1>2 DEF TypesInv

(* Every row of every table of a preparation has exactly the columns of    *)
(* its table, on whichever path the table was put together, and only a     *)
(* call that returned has a result: for callers who spell their inputs as  *)
(* the statement does and claim none prepared.                             *)
THEOREM PreparationIsTyped == Spec => [](Unclaimed /\ SpelledAlike => TypeOK)
<1>1. Init => SetInv /\ TypesInv
  BY SetTypesInit
<1>2. SetInv /\ TypesInv /\ [Next]_vars => SetInv' /\ TypesInv'
  BY SetInvKept, TypesKept
<1>3. TypesInv => (Unclaimed /\ SpelledAlike => TypeOK)
  <2> SUFFICES ASSUME Typed PROVE TypeOK
    BY DEF TypesInv
  <2>1. \A s \in DOMAIN tables : WellFormed(tables[s])
    BY WellFormedTable DEF Typed, TypedTables, IsMarked, ToSet
  <2>2. \A d \in DOMAIN inputs : inputs[d].kind = "table" => WellFormed(inputs[d].table)
    BY DEF Typed, TypedInputs
  <2> QED
    BY <2>1, <2>2 DEF Typed, TypedTables, Returns, TypeOK
<1> QED
  BY <1>1, <1>2, <1>3, PTL DEF Spec

-----------------------------------------------------------------------------
(* The streams in their order                                              *)

(* Every source is a table with options that fit it.                       *)
Readable ==
  \A s \in Occurrences : /\ Source(s).kind = "table" /\ IsTable(Source(s).table, Cells)
                         /\ refs[s].opts.firstobs >= 1
StreamColumns == UNION {Columns(Stream(s)) : s \in Occurrences}

(* A column is spelled in one way in each source and in all streams: by    *)
(* exact name, as they are concatenated, and by key, as they are read, a   *)
(* column is the same.                                                     *)
SpelledOnce ==
  /\ \A s \in Occurrences : \A c, d \in Columns(Source(s).table) : ColumnKey(c) = ColumnKey(d) => c = d
  /\ \A c, d \in StreamColumns : ColumnKey(c) = ColumnKey(d) => c = d

ActiveBy(t) == Selected(by, {n \in DOMAIN by : HasColumn(t, by[n])})
LEMMA ActiveList ==
  ASSUME request \in Requests, NEW t, IsTable(t, Cells)
  PROVE  /\ DOMAIN ActiveBy(t) = 1..Len(ActiveBy(t)) /\ Len(ActiveBy(t)) \in Nat
         /\ \A n \in DOMAIN ActiveBy(t) : HasColumn(t, ActiveBy(t)[n])
         /\ \A i \in DOMAIN t.rows : KeyOfRow(t, ActiveBy(t), i) \in [1..Len(ActiveBy(t)) -> Cells]
<1> DEFINE I == {n \in DOMAIN by : HasColumn(t, by[n])}
           active == ActiveBy(t)
<1>1. IsList(by) /\ I \in SUBSET DOMAIN by
  BY RequestLists
<1>2. IsList(active) /\ ToSet(active) = {by[n] : n \in I}
  <2>1. active = Selected(by, I)
    BY DEF ActiveBy
  <2> HIDE DEF I, active
  <2> QED
    BY <1>1, <2>1, SelectedList
<1>3. DOMAIN active = 1..Len(active) /\ Len(active) \in Nat /\ \A n \in DOMAIN active : active[n] \in ToSet(active)
  BY <1>2, ListFacts
<1>4. \A n \in DOMAIN active : HasColumn(t, active[n])
  BY <1>2, <1>3
<1>5. \A i \in DOMAIN t.rows : t.rows[i] \in [Columns(t) -> Cells]
  <2>1. t.rows \in Seq([Columns(t) -> Cells])
    BY DEF IsTable
  <2> QED
    BY <2>1
<1> HIDE DEF active
<1>6. \A i \in DOMAIN t.rows : KeyOfRow(t, active, i) \in [1..Len(active) -> Cells]
  BY <1>3, <1>4, <1>5, RowHasKey DEF KeyOfRow
<1> QED
  BY <1>3, <1>4, <1>6 DEF active

LEMMA StreamTable ==
  ASSUME request \in Requests, Readable, NEW s \in Occurrences
  PROVE  IsTable(Stream(s), Cells)
<1> DEFINE t == Source(s).table
           u == SortTable(t, ActiveBy(t))
<1>1. IsTable(t, Cells) /\ refs[s].opts.firstobs \in Nat /\ refs[s].opts.firstobs >= 1 /\ refs[s].opts.obs \in Int
  BY RequestLists DEF Readable
<1>2. Stream(s) = Shape(u, refs[s].opts)
  BY DEF Stream, ActiveBy
<1> HIDE DEF t, u
<1>3. IsTable(u, Cells)
  BY <1>1, ActiveList, SortedTable DEF u
<1> QED
  BY <1>1, <1>2, <1>3, ShapedTable

(* _sort_inputs_by_by_keys sorts by the columns that BY finds first, which *)
(* are the ones it names.                                                  *)
LEMMA SortedAsStream ==
  ASSUME request \in Requests, NEW t, IsTable(t, Cells),
         \A c, d \in Columns(t) : ColumnKey(c) = ColumnKey(d) => c = d
  PROVE  SortedByActive(t) = SortTable(t, ActiveBy(t))
<1> DEFINE active == ActiveBy(t)
           found == [n \in DOMAIN active |-> t.cols[Min(Spellings(t, active[n]))]]
<1>1. \A n \in DOMAIN active : HasColumn(t, active[n])
  BY ActiveList
<1>2. DOMAIN t.cols = 1..Len(t.cols) /\ Len(t.cols) \in Nat
  BY DEF IsTable
<1>3. SortedByActive(t) = SortTable(t, found)
  BY DEF SortedByActive, ActiveBy
<1> HIDE DEF active
<1>4. ASSUME NEW n \in DOMAIN active
      PROVE  Resolve(t, found[n]) = Resolve(t, active[n])
  <2> DEFINE S == Spellings(t, active[n])
  <2>1. S # {} /\ S \subseteq DOMAIN t.cols /\ \A m \in S : ColumnKey(t.cols[m]) = ColumnKey(active[n])
    BY <1>1 DEF HasColumn, Spellings
  <2>2. S \subseteq Nat
    BY <1>2, <2>1
  <2>3. Min(S) \in S
    <3> HIDE DEF S
    <3>1. \E m \in S : \A k \in S : m <= k
      BY <2>1, <2>2, LeastNumber
    <3> QED
      BY <3>1 DEF Min
  <2>4. found[n] = t.cols[Min(S)]
    OBVIOUS
  <2> HIDE DEF S, found
  <2>5. found[n] \in Columns(t) /\ ColumnKey(found[n]) = ColumnKey(active[n])
    BY <2>1, <2>3, <2>4 DEF Columns, ToSet
  <2>6. Resolve(t, found[n]) = found[n]
    BY <2>5 DEF Resolve
  <2>7. Resolve(t, active[n]) \in Columns(t) /\ ColumnKey(Resolve(t, active[n])) = ColumnKey(active[n])
    BY <1>1, ResolvedColumn
  <2> QED
    BY <2>5, <2>6, <2>7
<1>5. DOMAIN found = DOMAIN active
  OBVIOUS
<1> HIDE DEF found
<1>6. \A r : RowKey(t, found, r) = RowKey(t, active, r)
  BY <1>4, <1>5 DEF RowKey
<1>7. KeyedRows(t, found) = KeyedRows(t, active)
  BY <1>6 DEF KeyedRows
<1>8. SortTable(t, found) = SortTable(t, active)
  BY <1>7 DEF SortTable
<1> QED
  BY <1>3, <1>8 DEF active

(* a stream column by any name it goes by *)
LEMMA CellOfStream ==
  ASSUME request \in Requests, Readable, SpelledOnce, NEW c \in StreamColumns,
         NEW x, ColumnKey(x) = ColumnKey(c), NEW l, l[1] \in Occurrences
  PROVE  Cell(l, x) = IF c \in Columns(Stream(l[1])) THEN Stream(l[1]).rows[l[2]][c] ELSE Null
<1> DEFINE t == Stream(l[1])
<1>1. IsTable(t, Cells) /\ Columns(t) \subseteq StreamColumns
  BY StreamTable DEF StreamColumns
<1>2. Cell(l, x) = IF HasColumn(t, x) THEN t.rows[l[2]][Resolve(t, x)] ELSE Null
  BY DEF Cell
<1> HIDE DEF t
<1>3. \A d \in Columns(t) : ColumnKey(d) = ColumnKey(x) => d = c
  BY <1>1 DEF SpelledOnce
<1>4. CASE c \in Columns(t)
  <2>1. HasColumn(t, x)
    BY <1>4, HasColumnKey DEF Keys
  <2>2. Resolve(t, x) = c
    BY <1>1, <1>3, <2>1, ResolvedColumn
  <2> QED
    BY <1>2, <1>4, <2>1, <2>2 DEF t
<1>5. CASE c \notin Columns(t)
  <2>1. ~HasColumn(t, x)
    BY <1>3, <1>5, HasColumnKey DEF Keys
  <2> QED
    BY <1>2, <1>5, <2>1 DEF t
<1> QED
  BY <1>4, <1>5

(* A table that holds the rows of a stream, and columns beside them that   *)
(* are no columns of any stream.                                           *)
Holds(t, s) ==
  /\ IsMarked(t) /\ DOMAIN t.rows = DOMAIN Stream(s).rows
  /\ \A c \in Columns(Stream(s)) : c \in Columns(t) /\ \A i \in DOMAIN t.rows : t.rows[i][c] = Stream(s).rows[i][c]
  /\ \A d \in Columns(t), c \in StreamColumns : ColumnKey(d) = ColumnKey(c) => d = c /\ c \in Columns(Stream(s))

(* A table that shows every line of every stream at its place: the whole   *)
(* stream column under its one name.                                       *)
Shows(u) ==
  /\ IsFiniteSet(Lines) /\ Len(u.rows) = Cardinality(Lines)
  /\ \A l \in Lines : Place(l) \in DOMAIN u.rows
  /\ Lines # {} =>
       \A c \in StreamColumns : c \in Columns(u) /\ \A d \in Columns(u) : ColumnKey(d) = ColumnKey(c) => d = c
  /\ \A l \in Lines, c \in StreamColumns : u.rows[Place(l)][c] = Cell(l, c)

(* A carrier does, in BY order, and can be sorted again.                   *)
KeysOfStreams == \A n \in DOMAIN by : \E c \in StreamColumns : ColumnKey(c) = ColumnKey(by[n])
InOrder(u) == \A p, q \in DOMAIN u.rows : p < q => ~KeyPrecedes(KeyOfRow(u, by, q), KeyOfRow(u, by, p))
Carries(u) == IsCarrier(u) /\ KeysOfStreams /\ Shows(u) /\ InOrder(u)

KeyOfLine(l) == [n \in DOMAIN by |-> Cell(l, by[n])]
LEMMA LinesInOrder ==
  ASSUME NEW l, NEW m
  PROVE  LineBefore(l, m) <=> \/ KeyPrecedes(KeyOfLine(l), KeyOfLine(m))
                              \/ /\ KeyOfLine(l) = KeyOfLine(m)
                                 /\ l[1] < m[1] \/ (l[1] = m[1] /\ l[2] < m[2])
BY DEF LineBefore, KeyOfLine

(* The tables of all streams one below the other, sorted: the row at the   *)
(* place of a line is the row of that line.                                *)
LEMMA Interleaved ==
  ASSUME request \in Requests, Readable, SpelledOnce, KeysOfStreams,
         NEW ts, IsList(ts), Len(ts) = Len(refs), \A s \in DOMAIN ts : Holds(ts[s], s)
  PROVE  LET u == SortTable(Concat(ts), by)
         IN  /\ Carries(u) /\ u.cols = Concat(ts).cols
             /\ \A l \in Lines : /\ l[1] \in Occurrences /\ l[2] \in DOMAIN ts[l[1]].rows
                                 /\ u.rows[Place(l)] = Widely(ts, l[1], l[2])
<1> DEFINE all == Concat(ts)
           u == SortTable(all, by)
           D == DOMAIN all.rows
           at(p) == LineAt(ts, p)
<1>1. /\ DOMAIN ts = Occurrences /\ \A s \in Occurrences : IsMarked(ts[s]) /\ s \in Nat
      /\ DOMAIN by = 1..Len(by) /\ Len(by) \in Nat
  BY RequestLists, ListFacts DEF Holds
<1>2. LinesOf(ts) = Lines
  BY <1>1 DEF LinesOf, Lines, Holds
<1>3. /\ IsMarked(all) /\ IsTable(all, Values) /\ Columns(all) = UNION {Columns(ts[m]) : m \in DOMAIN ts}
  BY <1>1, ConcatMarked DEF IsMarked
<1>4. /\ IsFiniteSet(Lines) /\ Len(all.rows) = Cardinality(Lines) /\ D = 1..Cardinality(Lines)
      /\ Cardinality(Lines) \in Nat
      /\ \A p \in D : at(p) \in Lines /\ all.rows[p] = Widely(ts, at(p)[1], at(p)[2])
      /\ \A l \in Lines : \E p \in D : at(p) = l
      /\ \A p, q \in D : p < q => <<at(p), at(q)>> \in InTurn(Lines)
  <2>1. Null \in Values /\ \A m \in DOMAIN ts : IsTable(ts[m], Values)
    BY <1>1 DEF IsMarked, Values, Cells
  <2> HIDE DEF all
  <2> QED
    BY <1>2, <2>1, ConcatTable DEF all
<1>5. \A l \in Lines : /\ l[1] \in Occurrences /\ l[2] \in DOMAIN ts[l[1]].rows
                       /\ l[1] \in Nat /\ l[2] \in Nat
  <2>1. \A s \in Occurrences : ts[s].rows \in Seq([Columns(ts[s]) -> Values])
    BY <1>1 DEF IsMarked, IsTable
  <2>2. \A s \in Occurrences : \A i \in DOMAIN ts[s].rows : i \in Nat
    <3> SUFFICES ASSUME NEW s \in Occurrences PROVE \A i \in DOMAIN ts[s].rows : i \in Nat
      OBVIOUS
    <3>1. DOMAIN ts[s].rows = 1..Len(ts[s].rows) /\ Len(ts[s].rows) \in Nat
      BY <2>1
    <3> QED
      BY <3>1
  <2> QED
    BY <1>1, <1>2, <2>2 DEF LinesOf
<1>6. \A c \in StreamColumns : c \in Columns(all) /\ \A d \in Columns(all) : ColumnKey(d) = ColumnKey(c) => d = c
  BY <1>1, <1>3 DEF Holds, StreamColumns
<1>7. \A n \in DOMAIN by : HasColumn(all, by[n])
  BY <1>6, HasColumnKey DEF KeysOfStreams, Keys
<1> HIDE DEF all, u, D, at
<1>8. ASSUME NEW p \in D, NEW c \in StreamColumns, NEW x, ColumnKey(x) = ColumnKey(c)
      PROVE  all.rows[p][c] = Cell(at(p), x)
  <2> DEFINE l == at(p)
             s == l[1]
  <2>1. l \in Lines /\ s \in Occurrences /\ l[2] \in DOMAIN ts[s].rows /\ all.rows[p] = Widely(ts, s, l[2])
    BY <1>4, <1>5
  <2>2. c \in UNION {Columns(ts[n]) : n \in DOMAIN ts}
    BY <1>3, <1>6
  <2> HIDE DEF l, s
  <2>3. Widely(ts, s, l[2])[c] = IF c \in Columns(ts[s]) THEN ts[s].rows[l[2]][c] ELSE Null
    BY <2>2 DEF Widely
  <2>4. c \in Columns(ts[s]) <=> c \in Columns(Stream(s))
    BY <1>1, <2>1 DEF Holds
  <2>5. c \in Columns(Stream(s)) => ts[s].rows[l[2]][c] = Stream(s).rows[l[2]][c]
    BY <1>1, <2>1 DEF Holds
  <2>6. Cell(l, x) = IF c \in Columns(Stream(s)) THEN Stream(s).rows[l[2]][c] ELSE Null
    BY <1>8, <2>1, CellOfStream DEF s
  <2> QED
    BY <2>1, <2>3, <2>4, <2>5, <2>6 DEF l
<1>9. ASSUME NEW p \in D
      PROVE  KeyOfRow(all, by, p) = KeyOfLine(at(p))
  <2>1. ASSUME NEW n \in DOMAIN by
        PROVE  all.rows[p][Resolve(all, by[n])] = Cell(at(p), by[n])
    <3>1. PICK c \in StreamColumns : ColumnKey(c) = ColumnKey(by[n])
      BY DEF KeysOfStreams
    <3>2. Resolve(all, by[n]) = c
      BY <1>3, <1>6, <1>7, <3>1, ResolvedColumn
    <3> QED
      BY <1>8, <3>1, <3>2
  <2> QED
    BY <2>1 DEF KeyOfRow, RowKey, KeyOfLine
<1>10. ASSUME NEW p \in D, NEW q \in D
       PROVE  p < q <=> at(p)[1] < at(q)[1] \/ (at(p)[1] = at(q)[1] /\ at(p)[2] < at(q)[2])
  <2> DEFINE l == at(p)
             m == at(q)
  <2>1. l[1] \in Nat /\ l[2] \in Nat /\ m[1] \in Nat /\ m[2] \in Nat /\ p \in Nat /\ q \in Nat
    BY <1>4, <1>5
  <2>2. p < q => l[1] < m[1] \/ (l[1] = m[1] /\ l[2] < m[2])
    BY <1>4 DEF InTurn
  <2>3. q < p => m[1] < l[1] \/ (m[1] = l[1] /\ m[2] < l[2])
    BY <1>4 DEF InTurn
  <2>4. p = q => l = m
    OBVIOUS
  <2> HIDE DEF l, m
  <2>5. p < q <=> l[1] < m[1] \/ (l[1] = m[1] /\ l[2] < m[2])
    BY <2>1, <2>2, <2>3, <2>4
  <2> QED
    BY <2>5 DEF l, m
<1>11. ASSUME NEW q \in D
       PROVE  Place(at(q)) = Cardinality(RowsBefore(all, by, q)) + 1
  <2> DEFINE A == RowsBefore(all, by, q)
             B == {m \in Lines : LineBefore(m, at(q))}
             f == [p \in A |-> at(p)]
  <2>1. \A p \in D : p \in A <=> LineBefore(at(p), at(q))
    <3>1. \A p \in D : p \in A <=> \/ KeyPrecedes(KeyOfLine(at(p)), KeyOfLine(at(q)))
                                   \/ KeyOfLine(at(p)) = KeyOfLine(at(q)) /\ p < q
      BY <1>9 DEF RowsBefore, D
    <3> HIDE DEF A
    <3> QED
      BY <1>10, <3>1, LinesInOrder
  <2>2. A \subseteq D
    BY DEF RowsBefore, D
  <2>3. \A p, r \in D : at(p) = at(r) => p = r
    <3> SUFFICES ASSUME NEW p \in D, NEW r \in D, at(p) = at(r) PROVE p = r
      OBVIOUS
    <3>1. at(p)[1] \in Nat /\ at(p)[2] \in Nat /\ p \in Nat /\ r \in Nat
      BY <1>4, <1>5
    <3>2. ~(p < r) /\ ~(r < p)
      BY <1>10, <3>1
    <3> QED
      BY <3>1, <3>2
  <2> HIDE DEF A
  <2>4. \A p \in A : at(p) \in B
    BY <1>4, <2>1, <2>2
  <2>5. \A m \in B : \E p \in A : at(p) = m
    BY <1>4, <2>1
  <2> HIDE DEF B
  <2>6. f \in [A -> B] /\ (\A p, r \in A : f[p] = f[r] => p = r) /\ \A m \in B : \E p \in A : f[p] = m
    BY <2>2, <2>3, <2>4, <2>5
  <2> HIDE DEF f
  <2>7. f \in Bijection(A, B)
    BY <2>6 DEF Bijection, Injection, Surjection, IsInjective
  <2>8. ExistsBijection(A, B)
    BY <2>7 DEF ExistsBijection
  <2>9. IsFiniteSet(A)
    BY <1>4, <2>2, CountOfInterval, FS_Subset
  <2>10. Cardinality(A) = Cardinality(B) /\ Cardinality(A) \in Nat
    BY <2>8, <2>9, FS_Bijection, FS_CardinalityType
  <2> QED
    BY <2>10 DEF A, B, Place
<1>12. \A i \in D : KeyOfRow(all, by, i) \in [1..Len(by) -> Cells]
  <2>1. \A i \in DOMAIN all.rows : KeyOfRow(all, by, i) \in [1..Len(by) -> Cells]
    BY <1>3, <1>7, RequestLists, KeysOfNumbers
  <2> QED
    BY <2>1 DEF D
<1>13. /\ u.cols = all.cols /\ DOMAIN u.rows = D /\ Len(u.rows) = Len(all.rows)
       /\ \A p \in D : RowAt(all, by, p) \in D /\ u.rows[p] = all.rows[RowAt(all, by, p)]
       /\ \A i \in D : LET p == Cardinality(RowsBefore(all, by, i)) + 1 IN p \in D /\ RowAt(all, by, p) = i
       /\ \A p, q \in D :
            p < q => ~KeyPrecedes(KeyOfRow(all, by, RowAt(all, by, q)), KeyOfRow(all, by, RowAt(all, by, p)))
  <2>1. \A i \in DOMAIN all.rows : KeyOfRow(all, by, i) \in [1..Len(by) -> Cells]
    BY <1>12 DEF D
  <2>2. IsTable(all, Values) /\ Len(by) \in Nat
    BY <1>1, <1>3
  <2>3. /\ SortTable(all, by).cols = all.cols /\ Len(SortTable(all, by).rows) = Len(all.rows)
        /\ DOMAIN SortTable(all, by).rows = DOMAIN all.rows
    BY <2>1, <2>2, SortedTable
  <2>4. ASSUME NEW p \in DOMAIN all.rows
        PROVE  RowAt(all, by, p) \in DOMAIN all.rows /\ SortTable(all, by).rows[p] = all.rows[RowAt(all, by, p)]
    <3>1. RowAt(all, by, p) \in DOMAIN all.rows
      BY <2>1, <2>2, SortedTable
    <3>2. SortTable(all, by).rows[p] = all.rows[RowAt(all, by, p)]
      BY <2>1, <2>2, SortedTable
    <3> QED
      BY <3>1, <3>2
  <2>5. \A i \in DOMAIN all.rows : LET p == Cardinality(RowsBefore(all, by, i)) + 1
                                 IN  p \in DOMAIN all.rows /\ RowAt(all, by, p) = i
    BY <2>1, <2>2, SortedTable
  <2>6. \A p, q \in DOMAIN all.rows :
          p < q => ~KeyPrecedes(KeyOfRow(all, by, RowAt(all, by, q)), KeyOfRow(all, by, RowAt(all, by, p)))
    BY <2>1, <2>2, SortedTable
  <2> QED
    BY <2>3, <2>4, <2>5, <2>6 DEF u, D
<1>14. ASSUME NEW l \in Lines
       PROVE  Place(l) \in D /\ \E p \in D : at(p) = l /\ u.rows[Place(l)] = all.rows[p]
  <2>1. PICK p \in D : at(p) = l
    BY <1>4
  <2>2. Place(l) \in D /\ RowAt(all, by, Place(l)) = p
    BY <1>11, <1>13, <2>1
  <2> QED
    BY <1>13, <2>1, <2>2
<1>15. \A l \in Lines : u.rows[Place(l)] = Widely(ts, l[1], l[2])
  BY <1>4, <1>14
<1>16. \A l \in Lines, c \in StreamColumns : u.rows[Place(l)][c] = Cell(l, c)
  BY <1>8, <1>14
<1>17. Columns(u) = Columns(all)
  BY <1>13 DEF Columns
<1>18. Shows(u)
  BY <1>4, <1>6, <1>13, <1>14, <1>16, <1>17 DEF Shows
<1>19. IsCarrier(u)
  <2>1. IsMarked(u)
    BY <1>3, <1>7, SortedMarked DEF u
  <2>2. \A n \in DOMAIN by : HasColumn(u, by[n])
    BY <1>7, <1>17, HasColumnKey
  <2> QED
    BY <2>1, <2>2 DEF IsCarrier
<1>20. InOrder(u)
  <2>1. \A p \in D : KeyOfRow(u, by, p) = KeyOfRow(all, by, RowAt(all, by, p))
    <3>1. \A c : Resolve(u, c) = Resolve(all, c)
      BY <1>13, SameColumnsResolve
    <3> QED
      BY <1>13, <3>1 DEF KeyOfRow, RowKey
  <2> QED
    BY <1>13, <2>1 DEF InOrder
<1> QED
  BY <1>5, <1>13, <1>15, <1>18, <1>19, <1>20 DEF Carries, u, all

(* More columns beside those of the streams change nothing for them.       *)
LEMMA MoreColumns ==
  ASSUME NEW u, Shows(u), NEW v, Len(v.rows) = Len(u.rows), DOMAIN v.rows = DOMAIN u.rows,
         Lines # {} => /\ Columns(u) \subseteq Columns(v)
                       /\ \A d \in Columns(v) \ Columns(u), c \in StreamColumns : ColumnKey(d) # ColumnKey(c),
         \A p \in DOMAIN u.rows, c \in StreamColumns \cap Columns(u) : v.rows[p][c] = u.rows[p][c]
  PROVE  Shows(v)
<1>1. ASSUME NEW l \in Lines, NEW c \in StreamColumns
      PROVE  v.rows[Place(l)][c] = Cell(l, c)
  BY DEF Shows
<1>2. ASSUME Lines # {}, NEW c \in StreamColumns
      PROVE  c \in Columns(v) /\ \A d \in Columns(v) : ColumnKey(d) = ColumnKey(c) => d = c
  BY <1>2 DEF Shows
<1> QED
  BY <1>1, <1>2 DEF Shows

LEMMA MoreColumnsCarried ==
  ASSUME NEW u, Carries(u), NEW v, IsMarked(v), DOMAIN v.rows = DOMAIN u.rows, Columns(u) \subseteq Columns(v),
         \A d \in Columns(v) \ Columns(u), c \in StreamColumns : ColumnKey(d) # ColumnKey(c),
         \A p \in DOMAIN u.rows, c \in StreamColumns \cap Columns(u) : v.rows[p][c] = u.rows[p][c]
  PROVE  Carries(v)
<1>1. /\ IsTable(u, Values) /\ IsTable(v, Values)
      /\ DOMAIN u.rows = 1..Len(u.rows) /\ Len(u.rows) \in Nat
      /\ DOMAIN v.rows = 1..Len(v.rows) /\ Len(v.rows) \in Nat
  BY DEF Carries, IsCarrier, IsMarked, IsTable
<1>2. Len(v.rows) = Len(u.rows)
  BY <1>1, CountOfInterval
<1>3. Shows(u) /\ Shows(v)
  BY <1>2, MoreColumns DEF Carries
<1>4. \A n \in DOMAIN by : HasColumn(u, by[n]) /\ HasColumn(v, by[n])
  BY HasColumnKey DEF Carries, IsCarrier, Keys
<1>5. ASSUME NEW p \in DOMAIN u.rows
      PROVE  KeyOfRow(v, by, p) = KeyOfRow(u, by, p)
  <2>1. Lines # {}
    <3>1. Cardinality({}) = 0
      BY FS_EmptySet
    <3>2. Len(u.rows) # 0
      BY <1>1
    <3> QED
      BY <1>3, <3>1, <3>2 DEF Shows
  <2>2. ASSUME NEW n \in DOMAIN by
        PROVE  v.rows[p][Resolve(v, by[n])] = u.rows[p][Resolve(u, by[n])]
    <3>1. PICK c \in StreamColumns : ColumnKey(c) = ColumnKey(by[n])
      BY DEF Carries, KeysOfStreams
    <3>2. Resolve(u, by[n]) = c /\ c \in Columns(u)
      BY <1>1, <1>3, <1>4, <2>1, <3>1, ResolvedColumn DEF Shows
    <3>3. Resolve(v, by[n]) = c
      BY <1>1, <1>3, <1>4, <2>1, <3>1, ResolvedColumn DEF Shows
    <3> QED
      BY <3>2, <3>3
  <2> QED
    BY <2>2 DEF KeyOfRow, RowKey
<1>6. InOrder(v)
  BY <1>5 DEF Carries, InOrder
<1> QED
  BY <1>3, <1>4, <1>6 DEF Carries, IsCarrier

LEMMA PutCarries ==
  ASSUME NEW u, Carries(u), NEW cs, IsList(cs), NEW given,
         \A i \in DOMAIN u.rows : \A c \in ToSet(cs) : given[i][c] \in Cells,
         \A d \in ToSet(cs), c \in StreamColumns : ColumnKey(d) # ColumnKey(c)
  PROVE  Carries(Put(u, cs, given)) /\ DOMAIN Put(u, cs, given).rows = DOMAIN u.rows
<1> DEFINE v == Put(u, cs, given)
<1>1. IsMarked(u) /\ IsTable(u, Values)
  BY DEF Carries, IsCarrier, IsMarked
<1>2. \A i \in DOMAIN u.rows : \A c \in ToSet(cs) : given[i][c] \in Values
  BY DEF Values
<1>3. IsMarked(v)
  BY <1>1, PutMarked
<1>4. /\ Columns(v) = Columns(u) \cup ToSet(cs) /\ DOMAIN v.rows = DOMAIN u.rows
      /\ \A i \in DOMAIN u.rows : \A c \in Columns(v) :
           v.rows[i][c] = IF c \in ToSet(cs) THEN given[i][c] ELSE u.rows[i][c]
  BY <1>1, <1>2, PutTable
<1> HIDE DEF v
<1>5. Carries(v)
  BY <1>3, <1>4, MoreColumnsCarried
<1> QED
  BY <1>4, <1>5 DEF v

(* One table alone is left as it is, and so is a carrier that is sorted    *)
(* again.                                                                  *)
LEMMA OneMember ==
  ASSUME NEW f, f = [m \in {1} |-> f[m]]
  PROVE  f = <<f[1]>>
OBVIOUS

LEMMA ConcatOne ==
  ASSUME NEW u, NEW V, IsTable(u, V)
  PROVE  Concat(<<u>>).cols = u.cols /\ Concat(<<u>>).rows = u.rows
<1> DEFINE ts == <<u>>
<1>1. DOMAIN ts = {1} /\ ts[1] = u
  OBVIOUS
<1>2. IsList(u.cols) /\ u.cols \in Seq(Columns(u)) /\ u.rows \in Seq([Columns(u) -> V])
  BY DEF IsTable, IsList, Columns
<1> DEFINE fresh(m) == {i \in DOMAIN ts[m].cols : \A n \in 1..(m - 1) : ts[m].cols[i] \notin Columns(ts[n])}
           parts == [m \in DOMAIN ts |-> Selected(ts[m].cols, fresh(m))]
<1>3. Widened(ts) = Joined(parts)
  BY DEF Widened
<1>4. parts = <<u.cols>>
  <2>1. fresh(1) = DOMAIN u.cols
    BY <1>1
  <2>2. Selected(ts[1].cols, fresh(1)) = u.cols
    BY <1>1, <1>2, <2>1, AllSelected
  <2>3. parts = [m \in {1} |-> parts[m]] /\ parts[1] = Selected(ts[1].cols, fresh(1))
    BY <1>1
  <2> HIDE DEF parts, fresh
  <2> QED
    BY <2>2, <2>3, OneMember
<1>5. Widened(ts) = u.cols
  BY <1>2, <1>3, <1>4, JoinedOne
<1> DEFINE wide(t) == [i \in DOMAIN t.rows |->
                        [c \in ToSet(Widened(ts)) |-> IF c \in Columns(t) THEN t.rows[i][c] ELSE Null]]
           rows == [m \in DOMAIN ts |-> wide(ts[m])]
<1>6. Concat(ts).cols = Widened(ts) /\ Concat(ts).rows = Joined(rows)
  BY DEF Concat
<1>7. wide(u) = u.rows
  <2>1. \A i \in DOMAIN u.rows : u.rows[i] = [c \in Columns(u) |-> u.rows[i][c]]
    BY <1>2
  <2>2. ToSet(Widened(ts)) = Columns(u)
    BY <1>5 DEF Columns
  <2>3. wide(u) = [i \in DOMAIN u.rows |-> u.rows[i]]
    BY <2>1, <2>2
  <2>4. u.rows = [i \in DOMAIN u.rows |-> u.rows[i]]
    BY <1>2
  <2> HIDE DEF wide
  <2> QED
    BY <2>3, <2>4
<1>8. rows = <<u.rows>>
  <2>1. rows = [m \in {1} |-> rows[m]] /\ rows[1] = wide(ts[1])
    BY <1>1
  <2>2. rows[1] = u.rows
    <3> HIDE DEF rows, wide
    <3> QED
      BY <1>1, <1>7, <2>1
  <2> QED
    BY <2>1, <2>2, OneMember
<1> HIDE DEF ts, parts, rows
<1>9. Joined(rows) = u.rows
  BY <1>2, <1>8, JoinedOne
<1> QED
  BY <1>5, <1>6, <1>9 DEF ts

LEMMA SameCarries ==
  ASSUME NEW u, Carries(u), NEW v, IsMarked(v), v.cols = u.cols, v.rows = u.rows
  PROVE  Carries(v)
BY MoreColumnsCarried DEF Columns

LEMMA SortedAgain ==
  ASSUME request \in Requests, NEW u, Carries(u)
  PROVE  LET t == SortTable(Concat(<<u>>), by)
         IN  Carries(t) /\ t.cols = u.cols /\ t.rows = u.rows
<1> DEFINE v == Concat(<<u>>)
           t == SortTable(v, by)
<1>1. IsMarked(u) /\ IsTable(u, Values) /\ \A n \in DOMAIN by : HasColumn(u, by[n])
  BY DEF Carries, IsCarrier, IsMarked
<1>2. v.cols = u.cols /\ v.rows = u.rows
  BY <1>1, ConcatOne
<1>3. IsMarked(v)
  <2>1. IsList(<<u>>) /\ DOMAIN <<u>> = {1} /\ <<u>>[1] = u
    BY OneColumn
  <2> QED
    BY <1>1, <2>1, ConcatMarked
<1> HIDE DEF v
<1>4. Carries(v) /\ IsTable(v, Values) /\ \A n \in DOMAIN by : HasColumn(v, by[n])
  BY <1>2, <1>3, SameCarries DEF Carries, IsCarrier, IsMarked
<1>5. Len(by) \in Nat /\ \A i \in DOMAIN v.rows : KeyOfRow(v, by, i) \in [1..Len(by) -> Cells]
  BY <1>3, <1>4, RequestLists, KeysOfNumbers
<1>6. t.rows = v.rows /\ t.cols = v.cols
  BY <1>4, <1>5, SortOfSorted DEF Carries, InOrder
<1>7. IsMarked(t)
  BY <1>3, <1>4, SortedMarked
<1> HIDE DEF t
<1>8. Carries(t)
  BY <1>4, <1>6, <1>7, SameCarries
<1> QED
  BY <1>2, <1>6, <1>8 DEF t, v

-----------------------------------------------------------------------------
(* The carrier of the streams                                              *)

(* The columns that mark an occurrence, and an occurrence with its marks.  *)
Marks == ToSet(InVars) \cup ({request.indsname} \ {NoVar})
Bears(t, s) ==
  /\ IsMarked(t) /\ DOMAIN t.rows = DOMAIN Stream(s).rows
  /\ Columns(t) = Columns(Stream(s)) \cup Marks
  /\ \A i \in DOMAIN t.rows :
       /\ \A v \in ToSet(InVars) \ {request.indsname} : t.rows[i][v] = InFlag(s, v)
       /\ request.indsname # NoVar => t.rows[i][request.indsname] = refs[s].name
       /\ \A c \in Columns(Stream(s)) \ Marks : t.rows[i][c] = Stream(s).rows[i][c]

LEMMA InternalColumns ==
  ASSUME request \in Requests
  PROVE  /\ ToSet(InVars) = {refs[s].in : s \in {r \in Occurrences : refs[r].in # NoVar}}
         /\ NoVar \notin Marks
         /\ Marks \cup ({request.end} \ {NoVar}) \cup ToSet(FlagColumns(by)) \subseteq Internal
<1> DEFINE I == {s \in Occurrences : refs[s].in # NoVar}
           ins == [s \in Occurrences |-> refs[s].in]
<1>1. ToSet(InVars) = {ins[s] : s \in I}
  <2>1. ins = [s \in 1..Len(refs) |-> ins[s]] /\ Len(refs) \in Nat
    BY RequestLists
  <2>2. I \in SUBSET DOMAIN ins /\ InVars = Selected(ins, I)
    BY DEF InVars
  <2> HIDE DEF ins, I
  <2>3. IsList(ins)
    BY <2>1, MappedList
  <2> QED
    BY <2>2, <2>3, SelectedList
<1>2. {ins[s] : s \in I} = {refs[s].in : s \in I}
  OBVIOUS
<1>3. NoVar \notin ToSet(FlagColumns(by))
  BY RequestsAssumption DEF by
<1>4. ToSet(InVars) = {refs[s].in : s \in I}
  BY <1>1, <1>2
<1>5. Internal = ({refs[s].in : s \in Occurrences} \cup {request.end, request.indsname}
                    \cup ToSet(FlagColumns(by))) \ {NoVar}
  BY DEF Internal, InternalNames, Occurrences
<1> QED
  BY <1>3, <1>4, <1>5 DEF Marks

LEMMA MarkedBears ==
  ASSUME request \in Requests, NEW s \in Occurrences, NEW t, IsTable(t, Cells),
         t.cols = Stream(s).cols, t.rows = Stream(s).rows
  PROVE  Bears(Marked(s, t), s)
<1> DEFINE flags == [i \in DOMAIN t.rows |-> [v \in ToSet(InVars) |-> InFlag(s, v)]]
           flagged == Put(t, InVars, flags)
           n == request.indsname
           origins == [i \in DOMAIN t.rows |-> [v \in {n} |-> refs[s].name]]
           m == Marked(s, t)
<1>1. IsTable(t, Values) /\ IsList(InVars) /\ refs[s].name \in Values
  BY PlainIsMarked, RequestLists DEF Values, IsMarked
<1>2. \A i \in DOMAIN t.rows : \A c \in ToSet(InVars) : flags[i][c] = InFlag(s, c) /\ flags[i][c] \in Values
  BY DEF InFlag, Cells, Values
<1>3. m = IF n = NoVar THEN flagged ELSE Put(flagged, <<n>>, origins)
  BY DEF Marked
<1>4. \A i \in DOMAIN t.rows : origins[i][n] = refs[s].name
  OBVIOUS
<1>5. IsMarked(m) /\ Columns(t) = Columns(Stream(s))
  BY OccurrenceMarked DEF Columns
<1> HIDE DEF flags, origins, n, m
<1>6. /\ IsTable(flagged, Values) /\ Columns(flagged) = Columns(t) \cup ToSet(InVars)
      /\ DOMAIN flagged.rows = DOMAIN t.rows
      /\ \A i \in DOMAIN t.rows : \A c \in Columns(flagged) :
           flagged.rows[i][c] = IF c \in ToSet(InVars) THEN flags[i][c] ELSE t.rows[i][c]
  BY <1>1, <1>2, PutTable
<1> HIDE DEF flagged
<1>7. /\ Columns(m) = Columns(flagged) \cup ({n} \ {NoVar}) /\ DOMAIN m.rows = DOMAIN t.rows
      /\ \A i \in DOMAIN t.rows : \A c \in Columns(m) :
           m.rows[i][c] = IF c \in {n} \ {NoVar} THEN refs[s].name ELSE flagged.rows[i][c]
  <2>1. CASE n = NoVar
    BY <1>3, <1>6, <2>1
  <2>2. CASE n # NoVar
    <3> DEFINE cs == <<n>>
    <3>1. IsList(cs) /\ ToSet(cs) = {n}
      BY OneColumn
    <3> HIDE DEF cs
    <3>2. \A i \in DOMAIN flagged.rows : \A c \in ToSet(cs) : origins[i][c] = refs[s].name /\ origins[i][c] \in Values
      BY <1>1, <1>4, <1>6, <3>1
    <3> DEFINE p == Put(flagged, cs, origins)
    <3>3. /\ Columns(p) = Columns(flagged) \cup ToSet(cs) /\ DOMAIN p.rows = DOMAIN flagged.rows
          /\ \A i \in DOMAIN flagged.rows : \A c \in Columns(p) :
               p.rows[i][c] = IF c \in ToSet(cs) THEN origins[i][c] ELSE flagged.rows[i][c]
      BY <1>6, <3>1, <3>2, PutTable
    <3>4. m = p
      BY <1>3, <2>2 DEF cs
    <3> HIDE DEF p
    <3> QED
      BY <1>6, <2>2, <3>1, <3>2, <3>3, <3>4
  <2> QED
    BY <2>1, <2>2
<1>8. Columns(m) = Columns(Stream(s)) \cup Marks /\ NoVar \notin Marks
  BY <1>5, <1>6, <1>7, InternalColumns DEF Marks, n
<1>9. ASSUME NEW i \in DOMAIN t.rows, NEW v \in ToSet(InVars) \ {n}
      PROVE  m.rows[i][v] = InFlag(s, v)
  BY <1>2, <1>6, <1>7, <1>9
<1>10. ASSUME NEW i \in DOMAIN t.rows, n # NoVar
       PROVE  m.rows[i][n] = refs[s].name
  BY <1>7, <1>10
<1>11. ASSUME NEW i \in DOMAIN t.rows, NEW c \in Columns(Stream(s)) \ Marks
       PROVE  m.rows[i][c] = Stream(s).rows[i][c]
  <2>1. c \notin ToSet(InVars) /\ c \notin {n} \ {NoVar} /\ c \in Columns(t)
    BY <1>5 DEF Marks, n
  <2> QED
    BY <1>6, <1>7, <2>1
<1> QED
  BY <1>5, <1>7, <1>8, <1>9, <1>10, <1>11 DEF Bears, m, n

(* No column of a stream has the name of an automatic variable.            *)
Apart == \A c \in StreamColumns, d \in Internal : ColumnKey(d) # ColumnKey(c)

LEMMA BearsHolds ==
  ASSUME request \in Requests, SpelledOnce, Apart, NEW s \in Occurrences, NEW t, Bears(t, s)
  PROVE  Holds(t, s)
<1>1. \A d \in Marks, c \in StreamColumns : ColumnKey(d) # ColumnKey(c) /\ d # c
  BY InternalColumns DEF Apart
<1>2. Columns(Stream(s)) \subseteq StreamColumns
  BY DEF StreamColumns
<1>3. \A d \in Columns(t), c \in StreamColumns :
        ColumnKey(d) = ColumnKey(c) => d = c /\ c \in Columns(Stream(s))
  BY <1>1, <1>2 DEF Bears, SpelledOnce
<1> QED
  BY <1>1, <1>2, <1>3 DEF Bears, Holds

(* BY names no IN= variable, and the helper columns are named apart.       *)
ByApart == \A v \in ToSet(InVars) : \A n \in DOMAIN by : ColumnKey(v) # ColumnKey(by[n])
HelpersApart == \A h \in ToSet(HelperColumns), c \in StreamColumns : ColumnKey(h) # ColumnKey(c)

(* The BY columns that the carrier is checked for are columns of streams.  *)
LEMMA KeysFound ==
  ASSUME request \in Requests, ByApart, IsList(tables), Len(tables) = Len(refs),
         \A s \in DOMAIN tables : Bears(tables[s], s),
         \A n \in DOMAIN by : HasColumn(Concat(tables), by[n])
  PROVE  KeysOfStreams
<1> SUFFICES ASSUME NEW n \in DOMAIN by
             PROVE  \E c \in StreamColumns : ColumnKey(c) = ColumnKey(by[n])
  BY DEF KeysOfStreams
<1>1. DOMAIN tables = Occurrences /\ \A s \in DOMAIN tables : IsMarked(tables[s])
  BY RequestLists, ListFacts DEF Bears
<1>2. Columns(Concat(tables)) = UNION {Columns(tables[s]) : s \in DOMAIN tables}
  BY <1>1, ConcatMarked
<1>3. PICK c \in Columns(Concat(tables)) : ColumnKey(c) = ColumnKey(by[n])
  BY HasColumnKey DEF Keys
<1>4. PICK s \in Occurrences : c \in Columns(tables[s])
  BY <1>1, <1>2
<1>5. c \in Columns(Stream(s)) \/ c \in Marks
  BY <1>1, <1>4 DEF Bears
<1>6. c \notin Marks
  BY <1>3, RequestsAssumption DEF Marks, ByApart, by
<1> QED
  BY <1>3, <1>5, <1>6 DEF StreamColumns

LEMMA FlagsCarried ==
  ASSUME request \in Requests, Apart, NEW u, Carries(u)
  PROVE  Carries(WithFlags(u, by))
<1> DEFINE v == WithFlags(u, by)
<1>1. IsMarked(u) /\ DOMAIN u = {"cols", "rows", "type"}
  BY DEF Carries, IsCarrier, IsMarked, IsTable
<1>2. IsMarked(v) /\ Columns(v) = Columns(u) \cup ToSet(FlagColumns(by)) /\ DOMAIN v.rows = DOMAIN u.rows
  BY <1>1, RequestLists, FlagsMarked
<1>3. \A p \in DOMAIN u.rows, c \in Columns(u) : c \notin ToSet(FlagColumns(by)) => v.rows[p][c] = u.rows[p][c]
  BY <1>1 DEF WithFlags
<1> HIDE DEF v
<1>4. \A d \in ToSet(FlagColumns(by)), c \in StreamColumns : ColumnKey(d) # ColumnKey(c) /\ d # c
  BY InternalColumns DEF Apart
<1>5. \A p \in DOMAIN u.rows, c \in StreamColumns \cap Columns(u) : v.rows[p][c] = u.rows[p][c]
  BY <1>3, <1>4
<1>6. \A d \in Columns(v) \ Columns(u), c \in StreamColumns : ColumnKey(d) # ColumnKey(c)
  BY <1>2, <1>4
<1>7. Carries(v)
  BY <1>2, <1>5, <1>6, MoreColumnsCarried
<1> QED
  BY <1>7 DEF v

(* The END= column, and the FIRST. and LAST. columns of BY.                 *)
EndOf(t) ==
  IF request.end = NoVar THEN t
  ELSE Put(t, <<request.end>>,
           [i \in 1..Len(t.rows) |-> [v \in {request.end} |-> IF i = Len(t.rows) THEN 1 ELSE 0]])
LEMMA EndCarried ==
  ASSUME request \in Requests, Apart, NEW t, Carries(t)
  PROVE  LET u == EndOf(t)
         IN  /\ Carries(u) /\ DOMAIN u.rows = DOMAIN t.rows
             /\ Columns(u) = Columns(t) \cup ({request.end} \ {NoVar})
             /\ \A i \in DOMAIN t.rows : \A c \in Columns(u) :
                  u.rows[i][c] = IF c \in {request.end} \ {NoVar} THEN (IF i = Len(t.rows) THEN 1 ELSE 0)
                                 ELSE t.rows[i][c]
<1> DEFINE n == Len(t.rows)
           given == [i \in 1..n |-> [v \in {request.end} |-> IF i = n THEN 1 ELSE 0]]
           cs == <<request.end>>
           u == Put(t, cs, given)
<1>1. CASE request.end = NoVar
  BY <1>1 DEF EndOf
<1>2. CASE request.end # NoVar
  <2>1. EndOf(t) = u
    BY <1>2 DEF EndOf
  <2>2. IsTable(t, Values) /\ DOMAIN t.rows = 1..n
    BY DEF Carries, IsCarrier, IsMarked, IsTable
  <2>3. IsList(cs) /\ ToSet(cs) = {request.end}
    BY OneColumn
  <2>4. \A i \in 1..n : given[i][request.end] = IF i = n THEN 1 ELSE 0
    OBVIOUS
  <2> HIDE DEF cs, given, n
  <2>5. \A i \in DOMAIN t.rows : \A c \in ToSet(cs) : given[i][c] \in Cells /\ given[i][c] \in Values
    BY <2>2, <2>3, <2>4 DEF Cells, Values
  <2>6. \A d \in ToSet(cs), c \in StreamColumns : ColumnKey(d) # ColumnKey(c)
    BY <1>2, <2>3, InternalColumns DEF Apart
  <2>7. Carries(u)
    BY <2>3, <2>5, <2>6, PutCarries
  <2>8. /\ Columns(u) = Columns(t) \cup ToSet(cs) /\ DOMAIN u.rows = DOMAIN t.rows
        /\ \A i \in DOMAIN t.rows : \A c \in Columns(u) :
             u.rows[i][c] = IF c \in ToSet(cs) THEN given[i][c] ELSE t.rows[i][c]
    <3>1. \A i \in DOMAIN t.rows : \A c \in ToSet(cs) : given[i][c] \in Values
      BY <2>5
    <3>2. IsTable(t, Values) /\ IsList(cs)
      BY <2>2, <2>3
    <3> QED
      BY <3>1, <3>2, PutTable
  <2> HIDE DEF u
  <2> QED
    BY <1>2, <2>1, <2>2, <2>3, <2>4, <2>7, <2>8 DEF n
<1> QED
  BY <1>1, <1>2

LEMMA OrderedCarried ==
  ASSUME request \in Requests, Readable, SpelledOnce, Apart, ByApart, IsList(tables), Len(tables) = Len(refs),
         \A s \in DOMAIN tables : Bears(tables[s], s),
         \A n \in DOMAIN by : HasColumn(Concat(tables), by[n])
  PROVE  LET u == Ordered(Concat(tables))
         IN  /\ Carries(u) /\ Columns(u) = StreamColumns \cup Marks
             /\ DOMAIN u.rows = 1..Len(u.rows) /\ Len(u.rows) \in Nat
             /\ \A l \in Lines, c \in Marks :
                  /\ l[1] \in Occurrences /\ l[2] \in DOMAIN tables[l[1]].rows
                  /\ u.rows[Place(l)][c] = tables[l[1]].rows[l[2]][c]
<1> DEFINE u == Ordered(Concat(tables))
<1>1. DOMAIN tables = Occurrences /\ \A s \in Occurrences : IsMarked(tables[s])
  BY RequestLists, ListFacts DEF Bears
<1>2. /\ Carries(u) /\ u.cols = Concat(tables).cols
      /\ \A l \in Lines : /\ l[1] \in Occurrences /\ l[2] \in DOMAIN tables[l[1]].rows
                         /\ u.rows[Place(l)] = Widely(tables, l[1], l[2])
  <2>1. \A s \in DOMAIN tables : Holds(tables[s], s)
    BY <1>1, BearsHolds
  <2> QED
    BY <2>1, KeysFound, Interleaved DEF Ordered
<1>3. Columns(u) = UNION {Columns(tables[s]) : s \in Occurrences}
  BY <1>1, <1>2, ConcatMarked DEF Columns
<1>4. Columns(u) = StreamColumns \cup Marks
  <2>1. \A s \in Occurrences : Columns(tables[s]) = Columns(Stream(s)) \cup Marks
    BY <1>1 DEF Bears
  <2>2. 1 \in Occurrences
    BY RequestsAssumption DEF Occurrences, refs
  <2> QED
    BY <1>3, <2>1, <2>2 DEF StreamColumns
<1>5. \A l \in Lines, c \in Marks : Widely(tables, l[1], l[2])[c] = tables[l[1]].rows[l[2]][c]
  BY <1>1, <1>2, <1>3, <1>4 DEF Widely, Bears
<1>6. DOMAIN u.rows = 1..Len(u.rows) /\ Len(u.rows) \in Nat
  <2>1. IsTable(u, Values)
    BY <1>2 DEF Carries, IsCarrier, IsMarked
  <2> HIDE DEF u
  <2> QED
    BY <2>1 DEF IsTable
<1> HIDE DEF u
<1>7. \A l \in Lines, c \in Marks : u.rows[Place(l)][c] = tables[l[1]].rows[l[2]][c]
  BY <1>2, <1>5
<1> QED
  BY <1>2, <1>4, <1>6, <1>7 DEF u

LEMMA CarrierCarries ==
  ASSUME request \in Requests, Readable, SpelledOnce, Apart, ByApart, IsList(tables), Len(tables) = Len(refs),
         \A s \in DOMAIN tables : Bears(tables[s], s),
         \A n \in DOMAIN by : HasColumn(Concat(tables), by[n])
  PROVE  LET ordered == Ordered(Concat(tables))
             ended   == EndOf(ordered)
         IN  /\ Carries(Carrier) /\ Carries(ended)
             /\ Carrier = IF by = <<>> \/ Len(ordered.rows) = 0 THEN ended ELSE WithFlags(ended, by)
<1> DEFINE ordered == Ordered(Concat(tables))
           ended == EndOf(ordered)
<1>1. Carries(ordered)
  BY OrderedCarried
<1>2. Carrier = IF by = <<>> \/ Len(ordered.rows) = 0 THEN ended ELSE WithFlags(ended, by)
  BY DEF Carrier, EndOf
<1> HIDE DEF ordered
<1>3. Carries(ended)
  BY <1>1, EndCarried
<1> HIDE DEF ended
<1>4. Carries(WithFlags(ended, by))
  BY <1>3, FlagsCarried
<1>5. Carries(Carrier)
  BY <1>2, <1>3, <1>4
<1> QED
  BY <1>2, <1>3, <1>5 DEF ended, ordered

(* The automatic variables have names of their own, the IN= variables in   *)
(* one spelling or several; so have the helpers; and BY names columns, not *)
(* FIRST. and LAST. of a column it names too.                              *)
OwnNames ==
  /\ \A c, d \in Internal \cup ToSet(HelperColumns) :
       ColumnKey(c) = ColumnKey(d) => c = d \/ (c \in ToSet(InVars) /\ d \in ToSet(InVars))
  /\ request.indsname \notin ToSet(InVars) /\ request.end \notin Marks
  /\ ToSet(FlagColumns(by)) \cap (Marks \cup {request.end}) = {}
  /\ ToSet(HelperColumns) \cap Internal = {}
  /\ \A b, c \in ToSet(by) : b[2] = c[2] /\ b[3] = c[3] => b = c

LEMMA FlagNames ==
  ASSUME IsList(by)
  PROVE  ToSet(FlagColumns(by)) = {Flag("FIRST", b) : b \in ToSet(by)} \cup {Flag("LAST", b) : b \in ToSet(by)}
<1> DEFINE N == Len(by)
           flags == FlagColumns(by)
<1>1. DOMAIN by = 1..N /\ N \in Nat
  BY ListFacts
<1>2. /\ DOMAIN flags = 1..(2 * N)
      /\ \A n \in 1..(2 * N) : flags[n] = Flag(IF n % 2 = 1 THEN "FIRST" ELSE "LAST", by[(n + 1) \div 2])
  BY DEF FlagColumns
<1> HIDE DEF flags
<1>3. \A n \in 1..(2 * N) : (n + 1) \div 2 \in 1..N
  BY <1>1
<1>4. \A m \in 1..N : /\ 2 * m - 1 \in 1..(2 * N) /\ (2 * m - 1) % 2 = 1 /\ (2 * m - 1 + 1) \div 2 = m
                      /\ 2 * m \in 1..(2 * N) /\ (2 * m) % 2 # 1 /\ (2 * m + 1) \div 2 = m
  BY <1>1
<1>5. ASSUME NEW c \in ToSet(flags)
      PROVE  \E b \in ToSet(by) : c = Flag("FIRST", b) \/ c = Flag("LAST", b)
  <2>1. PICK n \in 1..(2 * N) : c = flags[n]
    BY <1>2 DEF ToSet
  <2>2. by[(n + 1) \div 2] \in ToSet(by)
    BY <1>1, <1>3 DEF ToSet
  <2> QED
    BY <1>2, <2>1, <2>2
<1>6. ASSUME NEW b \in ToSet(by)
      PROVE  Flag("FIRST", b) \in ToSet(flags) /\ Flag("LAST", b) \in ToSet(flags)
  <2>1. PICK m \in 1..N : b = by[m]
    BY <1>1 DEF ToSet
  <2>2. flags[2 * m - 1] = Flag("FIRST", b)
    BY <1>2, <1>4, <2>1
  <2>3. flags[2 * m] = Flag("LAST", b)
    BY <1>2, <1>4, <2>1
  <2> QED
    BY <1>2, <1>4, <2>2, <2>3 DEF ToSet
<1> QED
  BY <1>5, <1>6 DEF flags

LEMMA FlagsTell ==
  ASSUME NEW t, DOMAIN t = {"cols", "rows", "type"}, IsList(by), OwnNames,
         NEW b \in ToSet(by), NEW p \in DOMAIN t.rows
  PROVE  /\ WithFlags(t, by).rows[p][Flag("FIRST", b)] = Differs(t, b, p, p - 1)
         /\ WithFlags(t, by).rows[p][Flag("LAST", b)] = Differs(t, b, p, p + 1)
<1> DEFINE at(c) == CHOOSE d \in ToSet(by) : c \in {Flag("FIRST", d), Flag("LAST", d)}
           flags == FlagColumns(by)
           flagOf(c, i) == Differs(t, at(c), i, IF c[1] = "FIRST" THEN i - 1 ELSE i + 1)
<1>1. WithFlags(t, by).rows = [i \in DOMAIN t.rows |->
        [c \in Columns(t) \cup ToSet(flags) |-> IF c \in ToSet(flags) THEN flagOf(c, i) ELSE t.rows[i][c]]]
  BY DEF WithFlags
<1>2. Flag("FIRST", b) \in ToSet(flags) /\ Flag("LAST", b) \in ToSet(flags)
  BY FlagNames
<1>3. \A d \in ToSet(by) : /\ Flag("FIRST", b) \in {Flag("FIRST", d), Flag("LAST", d)} => d = b
                           /\ Flag("LAST", b) \in {Flag("FIRST", d), Flag("LAST", d)} => d = b
  BY DEF Flag, OwnNames
<1>4. at(Flag("FIRST", b)) = b /\ at(Flag("LAST", b)) = b
  BY <1>3
<1>5. Flag("FIRST", b)[1] = "FIRST" /\ Flag("LAST", b)[1] # "FIRST"
  BY DEF Flag
<1> HIDE DEF at, flags
<1>6. \A c \in ToSet(flags) : WithFlags(t, by).rows[p][c] = flagOf(c, p)
  BY <1>1
<1> QED
  BY <1>2, <1>4, <1>5, <1>6

(* A column that is the only one of its name, and a table whose automatic  *)
(* columns tell what they have to of every line.                           *)
OnlyColumn(u, c) == c \in Columns(u) /\ \A d \in Columns(u) : ColumnKey(d) = ColumnKey(c) => d = c
Tells(u) ==
  Lines # {} =>
    /\ KeysOfStreams
    /\ \A v \in ToSet(InVars) : v \in Columns(u) /\ (OneSpelling(v) => OnlyColumn(u, v))
    /\ \A c \in ({request.end, request.indsname} \ {NoVar}) \cup ToSet(FlagColumns(by)) : OnlyColumn(u, c)
    /\ \A l \in Lines :
         /\ \A v \in ToSet(InVars) : u.rows[Place(l)][v] = InFlag(l[1], v)
         /\ request.indsname # NoVar => u.rows[Place(l)][request.indsname] = refs[l[1]].name
         /\ request.end # NoVar => u.rows[Place(l)][request.end] = IF Place(l) = Len(u.rows) THEN 1 ELSE 0
         /\ \A b \in ToSet(by) :
              /\ u.rows[Place(l)][Flag("FIRST", b)] = Differs(u, b, Place(l), Place(l) - 1)
              /\ u.rows[Place(l)][Flag("LAST", b)] = Differs(u, b, Place(l), Place(l) + 1)

LEMMA OnlyAutomatic ==
  ASSUME request \in Requests, Apart, OwnNames, NEW u, Columns(u) \subseteq StreamColumns \cup Internal
  PROVE  /\ \A v \in ToSet(InVars) \cap Columns(u) : OneSpelling(v) => OnlyColumn(u, v)
         /\ \A c \in (({request.end, request.indsname} \ {NoVar}) \cup ToSet(FlagColumns(by))) \cap Columns(u) :
              OnlyColumn(u, c)
<1>1. \A c \in Internal, d \in Columns(u) : ColumnKey(d) = ColumnKey(c) => d \in Internal
  BY DEF Apart
<1>2. /\ ToSet(InVars) = {refs[s].in : s \in {r \in Occurrences : refs[r].in # NoVar}}
      /\ NoVar \notin Marks /\ Marks \cup ({request.end} \ {NoVar}) \cup ToSet(FlagColumns(by)) \subseteq Internal
  BY InternalColumns
<1>3. ASSUME NEW v \in ToSet(InVars) \cap Columns(u), OneSpelling(v)
      PROVE  OnlyColumn(u, v)
  <2>1. v \in Internal
    BY <1>2 DEF Marks
  <2>2. ASSUME NEW d \in Columns(u), ColumnKey(d) = ColumnKey(v) PROVE d = v
    <3>1. d \in Internal
      BY <1>1, <2>1, <2>2
    <3>2. CASE d \in ToSet(InVars)
      BY <1>2, <1>3, <2>2, <3>2 DEF OneSpelling
    <3>3. CASE d \notin ToSet(InVars)
      BY <2>1, <2>2, <3>1, <3>3 DEF OwnNames
    <3> QED
      BY <3>2, <3>3
  <2> QED
    BY <2>2 DEF OnlyColumn
<1>4. ASSUME NEW c \in (({request.end, request.indsname} \ {NoVar}) \cup ToSet(FlagColumns(by))) \cap Columns(u)
      PROVE  OnlyColumn(u, c)
  <2>1. c \in Internal /\ c \notin ToSet(InVars)
    BY <1>2 DEF Marks, OwnNames
  <2>2. \A d \in Columns(u) : ColumnKey(d) = ColumnKey(c) => d = c
    BY <1>1, <2>1 DEF OwnNames
  <2> QED
    BY <2>2 DEF OnlyColumn
<1> QED
  BY <1>3, <1>4

LEMMA DiffersAlike ==
  ASSUME Lines # {}, KeysOfStreams,
         NEW u, Shows(u), NEW U, IsTable(u, U), NEW v, Shows(v), NEW V, IsTable(v, V),
         DOMAIN v.rows = DOMAIN u.rows,
         \A p \in DOMAIN u.rows, c \in StreamColumns : v.rows[p][c] = u.rows[p][c],
         NEW b \in ToSet(by), NEW i \in DOMAIN u.rows, NEW q
  PROVE  Differs(v, b, i, q) = Differs(u, b, i, q)
<1>1. PICK c \in StreamColumns : ColumnKey(c) = ColumnKey(b)
  BY DEF KeysOfStreams, ToSet
<1>2. c \in Columns(u) /\ c \in Columns(v)
  BY DEF Shows
<1>3. HasColumn(u, b) /\ HasColumn(v, b)
  BY <1>1, <1>2, HasColumnKey DEF Keys
<1>4. Resolve(u, b) = c
  BY <1>1, <1>3, ResolvedColumn DEF Shows
<1>5. Resolve(v, b) = c
  BY <1>1, <1>3, ResolvedColumn DEF Shows
<1> QED
  BY <1>4, <1>5 DEF Differs

(* IN= and INDSNAME= of the occurrence a line is from, END= in the last    *)
(* row, and the flags of the rows around.                                  *)
LEMMA CarrierTells ==
  ASSUME request \in Requests, Readable, SpelledOnce, Apart, ByApart, IsList(tables), Len(tables) = Len(refs),
         \A s \in DOMAIN tables : Bears(tables[s], s),
         \A n \in DOMAIN by : HasColumn(Concat(tables), by[n])
  PROVE  Columns(Carrier) \subseteq StreamColumns \cup Internal /\ (OwnNames => Tells(Carrier))
<1> DEFINE o == Ordered(Concat(tables))
           e == EndOf(o)
           u == Carrier
           flags == ToSet(FlagColumns(by))
           end == {request.end} \ {NoVar}
<1>1. /\ Carries(o) /\ Columns(o) = StreamColumns \cup Marks
      /\ DOMAIN o.rows = 1..Len(o.rows) /\ Len(o.rows) \in Nat
      /\ \A l \in Lines, c \in Marks :
           /\ l[1] \in Occurrences /\ l[2] \in DOMAIN tables[l[1]].rows
           /\ o.rows[Place(l)][c] = tables[l[1]].rows[l[2]][c]
  BY OrderedCarried
<1>2. /\ Carries(u) /\ Carries(e)
      /\ u = IF by = <<>> \/ Len(o.rows) = 0 THEN e ELSE WithFlags(e, by)
  BY CarrierCarries
<1> HIDE DEF o, u
<1>3. /\ DOMAIN e.rows = DOMAIN o.rows /\ Columns(e) = Columns(o) \cup end
      /\ \A i \in DOMAIN o.rows : \A c \in Columns(e) :
           e.rows[i][c] = IF c \in end THEN (IF i = Len(o.rows) THEN 1 ELSE 0) ELSE o.rows[i][c]
  BY <1>1, EndCarried
<1> HIDE DEF e, end
<1>4. /\ IsMarked(e) /\ IsTable(e, Values) /\ IsTable(u, Values) /\ DOMAIN e = {"cols", "rows", "type"}
      /\ Shows(o) /\ Shows(e) /\ Shows(u) /\ KeysOfStreams /\ IsList(by)
  BY <1>1, <1>2, RequestLists DEF Carries, IsCarrier, IsMarked, IsTable
<1>5. Marks \cup end \cup flags \subseteq Internal /\ NoVar \notin Marks
  BY InternalColumns DEF end
<1>6. DOMAIN WithFlags(e, by).rows = DOMAIN e.rows /\ Columns(WithFlags(e, by)) = Columns(e) \cup flags
  BY <1>4, FlagsMarked
<1>7. \A p \in DOMAIN e.rows, c \in Columns(e) : c \notin flags => WithFlags(e, by).rows[p][c] = e.rows[p][c]
  BY <1>4 DEF WithFlags
<1> HIDE DEF flags
<1>8. Columns(u) \subseteq StreamColumns \cup Internal
  BY <1>1, <1>2, <1>3, <1>5, <1>6
<1> SUFFICES ASSUME OwnNames, Lines # {}
             PROVE  Tells(u)
  BY <1>8 DEF u, Tells
<1>9. Len(o.rows) # 0
  <2>1. IsFiniteSet(Lines) /\ Len(o.rows) = Cardinality(Lines)
    BY <1>4 DEF Shows
  <2> QED
    BY <2>1, FS_EmptySet
<1>10. /\ DOMAIN u.rows = DOMAIN o.rows /\ Columns(u) = Columns(e) \cup flags
       /\ \A p \in DOMAIN o.rows, c \in Columns(e) : c \notin flags => u.rows[p][c] = e.rows[p][c]
  <2>1. CASE by = <<>>
    <3>1. ToSet(by) = {}
      BY <2>1 DEF ToSet
    <3>2. flags = {}
      BY <1>4, <3>1, FlagNames DEF flags
    <3> QED
      BY <1>2, <1>3, <2>1, <3>2
  <2>2. CASE by # <<>>
    BY <1>2, <1>3, <1>6, <1>7, <1>9, <2>2
  <2> QED
    BY <2>1, <2>2
<1>11. \A q : \A b \in ToSet(by), p \in DOMAIN o.rows : Differs(u, b, p, q) = Differs(e, b, p, q)
  <2>1. \A p \in DOMAIN e.rows, c \in StreamColumns : u.rows[p][c] = e.rows[p][c]
    <3>1. \A c \in StreamColumns : c \in Columns(e) /\ c \notin flags
      BY <1>1, <1>3, <1>5 DEF Apart
    <3> QED
      BY <1>3, <1>10, <3>1
  <2> QED
    BY <1>3, <1>4, <1>10, <2>1, DiffersAlike
<1>12. ASSUME NEW b \in ToSet(by), NEW p \in DOMAIN o.rows
       PROVE  /\ u.rows[p][Flag("FIRST", b)] = Differs(u, b, p, p - 1)
              /\ u.rows[p][Flag("LAST", b)] = Differs(u, b, p, p + 1)
  <2>1. by # <<>>
    BY DEF ToSet
  <2>2. u = WithFlags(e, by)
    BY <1>2, <1>9, <2>1
  <2>3. /\ WithFlags(e, by).rows[p][Flag("FIRST", b)] = Differs(e, b, p, p - 1)
        /\ WithFlags(e, by).rows[p][Flag("LAST", b)] = Differs(e, b, p, p + 1)
    BY <1>3, <1>4, FlagsTell
  <2> QED
    BY <1>11, <2>2, <2>3
<1>13. \A l \in Lines : Place(l) \in DOMAIN o.rows
  BY <1>4 DEF Shows
<1>14. Len(u.rows) = Len(o.rows)
  BY <1>4 DEF Shows
<1>15. ASSUME NEW l \in Lines, NEW c \in Marks
       PROVE  u.rows[Place(l)][c] = tables[l[1]].rows[l[2]][c]
  <2>1. c \in Columns(e) /\ c \notin flags /\ c \notin end
    BY <1>1, <1>3, <1>5 DEF OwnNames, flags, end
  <2> QED
    BY <1>1, <1>3, <1>10, <1>13, <2>1
<1>16. ASSUME NEW l \in Lines
       PROVE  /\ \A v \in ToSet(InVars) : u.rows[Place(l)][v] = InFlag(l[1], v)
              /\ request.indsname # NoVar => u.rows[Place(l)][request.indsname] = refs[l[1]].name
  <2>1. l[2] \in DOMAIN tables[l[1]].rows \/ Marks = {}
    BY <1>1
  <2>2. Bears(tables[l[1]], l[1]) \/ Marks = {}
    <3>1. DOMAIN tables = Occurrences
      BY RequestLists, ListFacts
    <3> QED
      BY <1>1, <3>1
  <2>3. \A v \in ToSet(InVars) : u.rows[Place(l)][v] = InFlag(l[1], v)
    BY <1>15, <2>1, <2>2 DEF Bears, Marks, OwnNames
  <2>4. request.indsname # NoVar => u.rows[Place(l)][request.indsname] = refs[l[1]].name
    BY <1>15, <2>1, <2>2 DEF Bears, Marks
  <2> QED
    BY <2>3, <2>4
<1>17. ASSUME NEW l \in Lines, request.end # NoVar
       PROVE  u.rows[Place(l)][request.end] = IF Place(l) = Len(u.rows) THEN 1 ELSE 0
  <2>1. request.end \in end /\ request.end \in Columns(e) /\ request.end \notin flags
    BY <1>3, <1>17 DEF end, flags, OwnNames
  <2> QED
    BY <1>3, <1>10, <1>13, <1>14, <2>1
<1>18. ToSet(InVars) \cup (({request.end, request.indsname} \ {NoVar}) \cup flags) \subseteq Columns(u)
  BY <1>1, <1>3, <1>10 DEF Marks, end
<1>19. /\ \A v \in ToSet(InVars) : OneSpelling(v) => OnlyColumn(u, v)
       /\ \A c \in ({request.end, request.indsname} \ {NoVar}) \cup flags : OnlyColumn(u, c)
  BY <1>8, <1>18, OnlyAutomatic DEF flags
<1> QED
  BY <1>4, <1>12, <1>13, <1>16, <1>17, <1>18, <1>19 DEF Tells, flags

(* Columns beside those of a carrier change nothing for these either.      *)
LEMMA MoreTells ==
  ASSUME request \in Requests, NEW u, Carries(u), Tells(u), NEW v, Shows(v), NEW V, IsTable(v, V),
         DOMAIN v.rows = DOMAIN u.rows,
         Lines # {} => /\ Columns(u) \subseteq Columns(v)
                       /\ \A d \in Columns(v) \ Columns(u), c \in Internal : ColumnKey(d) # ColumnKey(c),
         \A p \in DOMAIN u.rows, c \in Columns(u) : v.rows[p][c] = u.rows[p][c]
  PROVE  Tells(v)
<1> SUFFICES ASSUME Lines # {} PROVE Tells(v)
  BY DEF Tells
<1>1. Shows(u) /\ IsTable(u, Values) /\ KeysOfStreams /\ IsList(by)
  BY RequestLists DEF Carries, IsCarrier, IsMarked
<1>2. Marks \cup ({request.end} \ {NoVar}) \cup ToSet(FlagColumns(by)) \subseteq Internal /\ NoVar \notin Marks
  BY InternalColumns
<1>3. \A c \in Internal : OnlyColumn(u, c) => OnlyColumn(v, c)
  BY DEF OnlyColumn
<1>4. \A q : \A b \in ToSet(by), p \in DOMAIN u.rows : Differs(v, b, p, q) = Differs(u, b, p, q)
  <2>1. \A c \in StreamColumns : c \in Columns(u)
    BY <1>1 DEF Shows
  <2>2. \A p \in DOMAIN u.rows, c \in StreamColumns : v.rows[p][c] = u.rows[p][c]
    BY <2>1
  <2> QED
    BY <1>1, <2>2, DiffersAlike
<1>5. \A l \in Lines : Place(l) \in DOMAIN u.rows
  BY <1>1 DEF Shows
<1>6. Len(v.rows) = Len(u.rows)
  BY <1>1 DEF Shows
<1>7. /\ \A w \in ToSet(InVars) : w \in Columns(v) /\ (OneSpelling(w) => OnlyColumn(v, w))
      /\ \A c \in ({request.end, request.indsname} \ {NoVar}) \cup ToSet(FlagColumns(by)) : OnlyColumn(v, c)
  BY <1>2, <1>3 DEF Tells, Marks
<1>8. \A l \in Lines, c \in Columns(u) : v.rows[Place(l)][c] = u.rows[Place(l)][c]
  BY <1>5
<1>9. ToSet(InVars) \cup (({request.end, request.indsname} \ {NoVar}) \cup ToSet(FlagColumns(by))) \subseteq Columns(u)
  BY DEF Tells, OnlyColumn
<1>10. ASSUME NEW l \in Lines
       PROVE  /\ \A w \in ToSet(InVars) : v.rows[Place(l)][w] = InFlag(l[1], w)
              /\ request.indsname # NoVar => v.rows[Place(l)][request.indsname] = refs[l[1]].name
              /\ request.end # NoVar => v.rows[Place(l)][request.end] = IF Place(l) = Len(v.rows) THEN 1 ELSE 0
  BY <1>6, <1>8, <1>9 DEF Tells
<1>11. ASSUME NEW l \in Lines, NEW b \in ToSet(by)
       PROVE  /\ v.rows[Place(l)][Flag("FIRST", b)] = Differs(v, b, Place(l), Place(l) - 1)
              /\ v.rows[Place(l)][Flag("LAST", b)] = Differs(v, b, Place(l), Place(l) + 1)
  <2>1. {Flag("FIRST", b), Flag("LAST", b)} \subseteq Columns(u)
    BY <1>1, <1>9, FlagNames
  <2> QED
    BY <1>4, <1>5, <1>8, <2>1 DEF Tells
<1> QED
  BY <1>1, <1>7, <1>10, <1>11 DEF Tells

LEMMA SameTells ==
  ASSUME request \in Requests, NEW u, Carries(u), Tells(u), NEW v, Carries(v), v.cols = u.cols, v.rows = u.rows
  PROVE  Tells(v)
<1>1. Shows(v) /\ IsTable(v, Values)
  BY DEF Carries, IsCarrier, IsMarked
<1>2. Columns(v) = Columns(u)
  BY DEF Columns
<1> QED
  BY <1>1, <1>2, MoreTells

(* Where nothing was asked for there is nothing to tell.                   *)
LEMMA PlainTells ==
  ASSUME request \in Requests, by = <<>>, ~AskedIn, request.end = NoVar, request.indsname = NoVar,
         NEW u, Carries(u)
  PROVE  Tells(u)
<1>1. ToSet(InVars) = {}
  BY InternalColumns DEF AskedIn
<1>2. ToSet(by) = {}
  BY DEF ToSet
<1>3. ToSet(FlagColumns(by)) = {}
  BY <1>2, RequestLists, FlagNames
<1> QED
  BY <1>1, <1>2, <1>3 DEF Tells, Carries

(* An input is shaped into its stream: sorted before by the BY columns it  *)
(* has, or as it is.                                                       *)
LEMMA ShapedAsStream ==
  ASSUME request \in Requests, Readable, SpelledOnce, NEW s \in Occurrences, NEW t,
         t = IF by # <<>> THEN SortedByActive(Source(s).table) ELSE Source(s).table
  PROVE  LET u == Shape(t, refs[s].opts)
         IN  IsTable(u, Cells) /\ u.cols = Stream(s).cols /\ u.rows = Stream(s).rows
<1> DEFINE r == Source(s).table
           v == SortTable(r, ActiveBy(r))
           o == refs[s].opts
<1>1. /\ IsTable(r, Cells) /\ o.firstobs \in Nat /\ o.firstobs >= 1 /\ o.obs \in Int
      /\ \A c, d \in Columns(r) : ColumnKey(c) = ColumnKey(d) => c = d
  BY RequestLists DEF Readable, SpelledOnce
<1>2. Stream(s) = Shape(v, o) /\ IsTable(Stream(s), Cells)
  <2>1. Stream(s) = Shape(v, o)
    BY DEF Stream, ActiveBy
  <2> QED
    BY <2>1, StreamTable
<1>3. SortedByActive(r) = v
  BY <1>1, SortedAsStream
<1> HIDE DEF r
<1>4. CASE by # <<>>
  <2>1. t = v
    BY <1>3, <1>4 DEF r
  <2> QED
    BY <1>2, <2>1
<1>5. CASE by = <<>>
  <2>1. t = r
    BY <1>5 DEF r
  <2>2. ActiveBy(r) = <<>>
    <3>1. IsList(<<>>) /\ DOMAIN <<>> = {}
      BY DEF IsList, ToSet
    <3>2. {n \in DOMAIN by : HasColumn(r, by[n])} = DOMAIN <<>>
      BY <1>5, <3>1
    <3> QED
      BY <1>5, <3>1, <3>2, AllSelected DEF ActiveBy
  <2>3. v.cols = r.cols /\ v.rows = r.rows
    BY <1>1, <2>2, SortByNothing
  <2>4. IsTable(v, Cells)
    BY <1>1, ActiveList, SortedTable
  <2> HIDE DEF v
  <2>5. Shape(r, o).cols = Shape(v, o).cols /\ Shape(r, o).rows = Shape(v, o).rows
    BY <1>1, <2>3, <2>4, ShapeOfSame
  <2>6. IsTable(Shape(r, o), Cells)
    BY <1>1, ShapedTable
  <2> QED
    BY <1>2, <2>1, <2>5, <2>6
<1> QED
  BY <1>4, <1>5

(* Without BY and options the tables are the streams.                      *)
LEMMA PlainCarries ==
  ASSUME request \in Requests, Readable, SpelledOnce, by = <<>>, ~Optioned
  PROVE  /\ Carries(Concat([s \in Occurrences |-> Source(s).table]))
         /\ Len(refs) = 1 => Carries(Source(1).table)
<1> DEFINE ts == [s \in Occurrences |-> Source(s).table]
           all == Concat(ts)
<1>1. IsList(ts) /\ Len(ts) = Len(refs) /\ DOMAIN ts = Occurrences
  <2>1. ts = [s \in 1..Len(refs) |-> ts[s]] /\ Len(refs) \in Nat
    BY RequestLists
  <2>2. DOMAIN ts = Occurrences
    OBVIOUS
  <2> HIDE DEF ts
  <2> QED
    BY <2>1, <2>2, MappedList
<1>2. ASSUME NEW s \in Occurrences
      PROVE  Holds(ts[s], s) /\ IsMarked(ts[s])
  <2> DEFINE t == ts[s]
             u == Shape(t, refs[s].opts)
  <2>1. t = Source(s).table /\ refs[s].opts = NoOptions /\ IsTable(t, Cells)
    BY DEF Optioned, HasOptions, Readable
  <2>2. u.cols = Stream(s).cols /\ u.rows = Stream(s).rows
    BY <2>1, ShapedAsStream
  <2>3. u.cols = t.cols /\ u.rows = t.rows
    BY <2>1, ShapeByNothing
  <2> HIDE DEF t, u
  <2>4. IsMarked(t) /\ Columns(t) = Columns(Stream(s)) /\ t.rows = Stream(s).rows
    BY <2>1, <2>2, <2>3, PlainIsMarked DEF Columns
  <2>5. Holds(t, s)
    BY <2>4 DEF Holds, SpelledOnce, StreamColumns
  <2> QED
    BY <2>4, <2>5 DEF t
<1>3. KeysOfStreams
  <2>1. DOMAIN <<>> = {}
    OBVIOUS
  <2> QED
    BY <2>1 DEF KeysOfStreams
<1> HIDE DEF ts
<1>4. Carries(SortTable(all, by))
  BY <1>1, <1>2, <1>3, Interleaved
<1>5. IsMarked(all) /\ IsTable(all, Values)
  BY <1>1, <1>2, ConcatMarked DEF IsMarked
<1>6. SortTable(all, by).rows = all.rows /\ SortTable(all, by).cols = all.cols
  BY <1>5, SortByNothing
<1>7. Carries(all)
  <2> HIDE DEF all
  <2> QED
    BY <1>4, <1>5, <1>6, SameCarries
<1>8. ASSUME Len(refs) = 1
      PROVE  Carries(Source(1).table)
  <2> DEFINE t == Source(1).table
  <2>1. 1 \in Occurrences /\ ts[1] = t /\ DOMAIN ts = {1}
    BY <1>1, <1>8, RequestLists DEF ts
  <2>2. ts = [m \in {1} |-> ts[m]]
    BY <1>1, <1>8, RequestLists DEF ts
  <2>3. ts = <<t>>
    BY <2>1, <2>2, OneMember
  <2>4. IsMarked(t) /\ IsTable(t, Values)
    BY <1>2, <2>1 DEF IsMarked
  <2> HIDE DEF t
  <2>5. all.cols = t.cols /\ all.rows = t.rows
    BY <2>3, <2>4, ConcatOne
  <2> HIDE DEF all
  <2>6. Carries(t)
    BY <1>7, <2>4, <2>5, SameCarries
  <2> QED
    BY <2>6 DEF t
<1> QED
  BY <1>7, <1>8 DEF ts

(* LAG and LEAD add columns and leave the rows where they are.             *)
LEMMA TableOfMore ==
  ASSUME NEW t, NEW V, IsTable(t, V), NEW W, V \subseteq W
  PROVE  IsTable(t, W)
<1>1. t.rows \in Seq([Columns(t) -> V]) /\ DOMAIN t.rows = 1..Len(t.rows) /\ Len(t.rows) \in Nat
  BY DEF IsTable
<1>2. \A i \in 1..Len(t.rows) : t.rows[i] \in [Columns(t) -> W]
  <2>1. \A i \in 1..Len(t.rows) : t.rows[i] \in [Columns(t) -> V]
    BY <1>1
  <2> QED
    BY <2>1
<1>3. t.rows = [i \in 1..Len(t.rows) |-> t.rows[i]]
  BY <1>1
<1>4. t.rows \in Seq([Columns(t) -> W])
  BY <1>1, <1>2, <1>3, TabulatedSequence
<1> QED
  BY <1>4 DEF IsTable

(* what the runtime can read: a table that shows the streams *)
Given1(t) == Shows(t) /\ \E V : IsTable(t, V)

LEMMA PutShows ==
  ASSUME request \in Requests, NEW t, Shows(t), IsTable(t, Values), NEW cs, IsList(cs), NEW given,
         \A d \in ToSet(cs), c \in StreamColumns : ColumnKey(d) # ColumnKey(c)
  PROVE  Given1(Put(t, cs, given))
<1> DEFINE v == Put(t, cs, given)
           V == Values \cup UNION {{given[i][c] : c \in ToSet(cs)} : i \in DOMAIN t.rows}
<1>1. \A i \in DOMAIN t.rows : \A c \in ToSet(cs) : given[i][c] \in V
  OBVIOUS
<1>2. IsTable(t, V)
  <2>1. Values \subseteq V
    OBVIOUS
  <2> HIDE DEF V
  <2> QED
    BY <2>1, TableOfMore
<1> HIDE DEF V
<1>3. /\ IsTable(v, V) /\ Columns(v) = Columns(t) \cup ToSet(cs) /\ DOMAIN v.rows = DOMAIN t.rows
      /\ \A i \in DOMAIN t.rows : \A c \in Columns(v) :
           v.rows[i][c] = IF c \in ToSet(cs) THEN given[i][c] ELSE t.rows[i][c]
  BY <1>1, <1>2, PutTable
<1> HIDE DEF v
<1>4. Len(v.rows) = Len(t.rows)
  <2>1. /\ DOMAIN v.rows = 1..Len(v.rows) /\ Len(v.rows) \in Nat
        /\ DOMAIN t.rows = 1..Len(t.rows) /\ Len(t.rows) \in Nat
    BY <1>2, <1>3 DEF IsTable
  <2>2. Len(v.rows) = Cardinality(DOMAIN v.rows) /\ Len(t.rows) = Cardinality(DOMAIN t.rows)
    BY <2>1, CountOfInterval
  <2> QED
    BY <1>3, <2>2
<1>5. Shows(v)
  BY <1>3, <1>4, MoreColumns
<1> QED
  BY <1>3, <1>5 DEF Given1, v

LEMMA HelpedShows ==
  ASSUME request \in Requests, HelpersApart, NEW t, Carries(t)
  PROVE  Given1(WithHelpers(t)) /\ Given1(WithRowHelpers(t))
<1>1. Shows(t) /\ IsTable(t, Values) /\ IsList(HelperColumns)
  BY RequestLists DEF Carries, IsCarrier, IsMarked
<1>2. ASSUME NEW given PROVE Given1(Put(t, HelperColumns, given))
  BY <1>1, PutShows DEF HelpersApart
<1>3. Given1(WithHelpers(t))
  BY <1>2 DEF WithHelpers
<1>4. CASE t.rows # <<>>
  BY <1>2, <1>3, <1>4 DEF WithRowHelpers
<1>5. CASE t.rows = <<>>
  <2> DEFINE v == [t EXCEPT !.cols = <<>>]
  <2>1. WithRowHelpers(t) = v
    BY <1>5 DEF WithRowHelpers
  <2>2. DOMAIN t = {"cols", "rows", "type"}
    BY <1>1 DEF IsTable
  <2>3. DOMAIN v = {"cols", "rows", "type"} /\ v.cols = <<>> /\ v.rows = <<>>
    BY <1>5, <2>2
  <2> HIDE DEF v
  <2>4. DOMAIN <<>> = {} /\ Len(<<>>) = 0 /\ IsList(<<>>)
    BY DEF IsList, ToSet
  <2>5. IsTable(v, Values)
    <3>1. v.rows \in Seq([Columns(v) -> Values])
      BY <2>3
    <3> QED
      BY <2>3, <2>4, <3>1 DEF IsTable, IsList, Columns
  <2>6. Lines = {}
    <3>1. IsFiniteSet(Lines) /\ Cardinality(Lines) = 0
      BY <1>1, <1>5, <2>4 DEF Shows
    <3> QED
      BY <3>1, FS_EmptySet
  <2>7. Shows(v)
    BY <1>1, <1>5, <2>3, <2>6 DEF Shows
  <2> QED
    BY <1>3, <2>1, <2>5, <2>7 DEF Given1
<1> QED
  BY <1>4, <1>5

(* The helpers take no automatic variable for one of theirs, so these tell *)
(* the same.                                                               *)
LEMMA HelpedTells ==
  ASSUME request \in Requests, HelpersApart, OwnNames, NEW t, Carries(t), Tells(t),
         Columns(t) \subseteq StreamColumns \cup Internal
  PROVE  Tells(WithHelpers(t)) /\ Tells(WithRowHelpers(t))
<1>1. Shows(t) /\ IsTable(t, Values) /\ DOMAIN t = {"cols", "rows", "type"} /\ IsList(t.cols) /\ IsList(HelperColumns)
  BY RequestLists DEF Carries, IsCarrier, IsMarked, IsTable, IsList, Columns
<1>2. ASSUME NEW given PROVE Tells(Put(t, HelperColumns, given))
  <2> DEFINE v == Put(t, HelperColumns, given)
  <2>1. Columns(v) = Columns(t) \cup ToSet(HelperColumns) /\ v.rows = PutRows(t, HelperColumns, given)
    BY <1>1, PutColumns
  <2>2. Given1(v)
    BY <1>1, PutShows DEF HelpersApart
  <2> HIDE DEF v
  <2>3. PICK V : Shows(v) /\ IsTable(v, V)
    BY <2>2 DEF Given1
  <2>4. \A d \in Columns(v) \ Columns(t), c \in Internal : ColumnKey(d) # ColumnKey(c)
    <3> SUFFICES ASSUME NEW d \in ToSet(HelperColumns), NEW c \in Internal, ColumnKey(d) = ColumnKey(c) PROVE FALSE
      BY <2>1
    <3>1. d = c \/ (c \in ToSet(InVars) /\ d \in ToSet(InVars))
      BY DEF OwnNames
    <3>2. ToSet(InVars) \subseteq Internal
      BY InternalColumns DEF Marks
    <3> QED
      BY <3>1, <3>2 DEF OwnNames
  <2>5. \A c \in Columns(t) : c \notin ToSet(HelperColumns)
    BY DEF HelpersApart, OwnNames
  <2>6. DOMAIN v.rows = DOMAIN t.rows /\ \A p \in DOMAIN t.rows, c \in Columns(t) : v.rows[p][c] = t.rows[p][c]
    BY <2>1, <2>5 DEF PutRows
  <2>7. Columns(t) \subseteq Columns(v)
    BY <2>1
  <2>8. Tells(v)
    BY <2>3, <2>4, <2>6, <2>7, MoreTells
  <2> QED
    BY <2>8 DEF v
<1>3. Tells(WithHelpers(t))
  BY <1>2 DEF WithHelpers
<1>4. CASE t.rows # <<>>
  BY <1>2, <1>3, <1>4 DEF WithRowHelpers
<1>5. CASE t.rows = <<>>
  <2>1. IsFiniteSet(Lines) /\ Cardinality(Lines) = 0
    BY <1>1, <1>5 DEF Shows
  <2>2. Lines = {}
    BY <2>1, FS_EmptySet
  <2> QED
    BY <1>3, <2>2 DEF Tells
<1> QED
  BY <1>4, <1>5

(* Calls whose values are a column of one name are the same, and read no   *)
(* column of a call; an IN= variable they read is written in one spelling. *)
OwnCalls ==
  /\ \A m, n \in DOMAIN Owned : Owned[m].helper = Owned[n].helper => Owned[m] = Owned[n]
  /\ \A m, n \in DOMAIN Owned : ColumnKey(Owned[m].column) # ColumnKey(Owned[n].helper)
  /\ \A n \in DOMAIN Owned, v \in ToSet(InVars) : ColumnKey(v) = ColumnKey(Owned[n].column) => OneSpelling(v)

(* A table whose helper columns look a step away.                          *)
Looks(v) ==
  DOMAIN v.rows # {} =>
    \A n \in DOMAIN Owned :
      /\ OnlyColumn(v, Owned[n].helper)
      /\ \A c \in Columns(v) : ColumnKey(c) = ColumnKey(Owned[n].column) =>
           /\ OnlyColumn(v, c)
           /\ \A p \in DOMAIN v.rows :
                v.rows[p][Owned[n].helper] =
                  IF p + Owned[n].step \in DOMAIN v.rows THEN v.rows[p + Owned[n].step][c] ELSE Owned[n].default

LEMMA NoHelpersLook == ASSUME request \in Requests, NoneOwned PROVE \A v : Looks(v)
<1> DEFINE I == {n \in DOMAIN request.lags : request.lags[n].owned}
<1>1. I \in SUBSET DOMAIN request.lags /\ Owned = Selected(request.lags, I) /\ IsList(request.lags) /\ I = {}
  BY RequestsAssumption DEF Owned, NoneOwned
<1> HIDE DEF I
<1>2. IsList(Owned) /\ ToSet(Owned) = {}
  BY <1>1, SelectedList
<1>3. DOMAIN Owned = {}
  BY <1>2 DEF ToSet
<1> QED
  BY <1>3 DEF Looks

LEMMA CallsOfHelpers ==
  ASSUME request \in Requests, OwnCalls
  PROVE  /\ ToSet(HelperColumns) = {Owned[n].helper : n \in DOMAIN Owned}
         /\ \A n \in DOMAIN Owned : CallOf(Owned[n].helper) = Owned[n]
<1>1. IsList(Owned) /\ DOMAIN Owned = 1..Len(Owned) /\ Len(Owned) \in Nat
  <2> DEFINE I == {n \in DOMAIN request.lags : request.lags[n].owned}
  <2>1. I \in SUBSET DOMAIN request.lags /\ Owned = Selected(request.lags, I) /\ IsList(request.lags)
    BY RequestsAssumption DEF Owned
  <2> HIDE DEF I
  <2>2. IsList(Owned)
    BY <2>1, SelectedList
  <2> QED
    BY <2>2, ListFacts
<1>2. ToSet(HelperColumns) = {Owned[n].helper : n \in DOMAIN Owned}
  BY DEF HelperColumns, ToSet
<1>3. ASSUME NEW n \in DOMAIN Owned PROVE CallOf(Owned[n].helper) = Owned[n]
  <2> DEFINE S == {m \in DOMAIN Owned : Owned[m].helper = Owned[n].helper}
  <2>1. n \in S /\ S \subseteq 1..Len(Owned) /\ S \subseteq Nat
    BY <1>1
  <2>2. IsFiniteSet(1..Len(Owned))
    BY <1>1, FS_Interval
  <2>3. IsFiniteSet(S)
    BY <2>1, <2>2, FS_Subset
  <2>4. CallOf(Owned[n].helper) = Owned[Max(S)]
    BY DEF CallOf
  <2> HIDE DEF S
  <2>5. \E m \in S : \A k \in S : k <= m
    BY <2>1, <2>3, GreatestNumber
  <2>6. Max(S) \in S
    BY <2>5 DEF Max
  <2> QED
    BY <2>4, <2>6 DEF OwnCalls, S
<1> QED
  BY <1>2, <1>3

LEMMA HelpedLooks ==
  ASSUME request \in Requests, Apart, HelpersApart, OwnNames, OwnCalls, NEW t, Carries(t),
         Columns(t) \subseteq StreamColumns \cup Internal
  PROVE  Looks(WithHelpers(t)) /\ Looks(WithRowHelpers(t))
<1> DEFINE H == ToSet(HelperColumns)
           Same(v, n) == \A c \in Columns(t) : ColumnKey(c) = ColumnKey(Owned[n].column) =>
                           \A p \in DOMAIN t.rows :
                             v.rows[p][Owned[n].helper] =
                               IF p + Owned[n].step \in DOMAIN t.rows THEN t.rows[p + Owned[n].step][c]
                               ELSE Owned[n].default
<1>1. /\ Shows(t) /\ IsTable(t, Values) /\ DOMAIN t = {"cols", "rows", "type"}
      /\ IsList(t.cols) /\ IsList(HelperColumns)
  BY RequestLists DEF Carries, IsCarrier, IsMarked, IsTable, IsList, Columns
<1>2. /\ H = {Owned[n].helper : n \in DOMAIN Owned}
      /\ \A n \in DOMAIN Owned : CallOf(Owned[n].helper) = Owned[n]
  BY CallsOfHelpers
<1>3. /\ ToSet(InVars) = {refs[s].in : s \in {r \in Occurrences : refs[r].in # NoVar}}
      /\ ToSet(InVars) \subseteq Internal
  BY InternalColumns DEF Marks
<1>4. \A c \in Columns(t) : c \notin H
  BY DEF HelpersApart, OwnNames
<1>5. \A h \in H, c \in Columns(t) : ColumnKey(h) # ColumnKey(c)
  <2>1. \A h \in H, c \in Internal : ColumnKey(h) # ColumnKey(c)
    BY <1>3 DEF OwnNames
  <2> QED
    BY <2>1 DEF HelpersApart
<1>6. \A h, g \in H : ColumnKey(h) = ColumnKey(g) => h = g
  <2> SUFFICES ASSUME NEW h \in H, NEW g \in H, ColumnKey(h) = ColumnKey(g), h # g PROVE FALSE
    OBVIOUS
  <2>1. h \in ToSet(InVars)
    BY DEF OwnNames
  <2> QED
    BY <1>3, <2>1 DEF OwnNames
<1>7. ASSUME Lines # {}, NEW n \in DOMAIN Owned, NEW c \in Columns(t), ColumnKey(c) = ColumnKey(Owned[n].column)
      PROVE  OnlyColumn(t, c)
  <2> SUFFICES ASSUME NEW d \in Columns(t), ColumnKey(d) = ColumnKey(c) PROVE d = c
    BY DEF OnlyColumn
  <2>1. CASE c \in StreamColumns
    BY <1>1, <1>7, <2>1 DEF Shows
  <2>2. CASE c \notin StreamColumns
    <3>1. c \in Internal /\ d \in Internal
      BY <2>2 DEF Apart
    <3>2. CASE c \in ToSet(InVars) /\ d \in ToSet(InVars)
      <4>1. OneSpelling(c)
        BY <1>7, <3>2 DEF OwnCalls
      <4> QED
        BY <1>3, <3>2, <4>1 DEF OneSpelling
    <3> QED
      BY <3>1, <3>2 DEF OwnNames
  <2> QED
    BY <2>1, <2>2
<1> HIDE DEF H
<1>8. ASSUME NEW given, \A n \in DOMAIN Owned : Same([rows |-> given], n)
      PROVE  Looks(Put(t, HelperColumns, given))
  <2> DEFINE v == Put(t, HelperColumns, given)
  <2>1. Columns(v) = Columns(t) \cup H /\ v.rows = PutRows(t, HelperColumns, given)
    BY <1>1, PutColumns DEF H
  <2> HIDE DEF v
  <2>2. /\ DOMAIN v.rows = DOMAIN t.rows
        /\ \A p \in DOMAIN t.rows : \A c \in Columns(t) : v.rows[p][c] = t.rows[p][c]
        /\ \A p \in DOMAIN t.rows : \A h \in H : v.rows[p][h] = given[p][h]
    BY <1>4, <2>1 DEF PutRows, H
  <2> SUFFICES ASSUME DOMAIN v.rows # {}, NEW n \in DOMAIN Owned
               PROVE  /\ OnlyColumn(v, Owned[n].helper)
                      /\ \A c \in Columns(v) : ColumnKey(c) = ColumnKey(Owned[n].column) =>
                           /\ OnlyColumn(v, c)
                           /\ \A p \in DOMAIN v.rows :
                                v.rows[p][Owned[n].helper] =
                                  IF p + Owned[n].step \in DOMAIN v.rows THEN v.rows[p + Owned[n].step][c]
                                  ELSE Owned[n].default
    BY DEF Looks, v
  <2>3. Lines # {}
    <3>1. DOMAIN t.rows = 1..Len(t.rows) /\ Len(t.rows) = Cardinality(Lines)
      BY <1>1 DEF Shows, IsTable
    <3>2. Lines = {} => Cardinality(Lines) = 0
      BY FS_EmptySet
    <3> QED
      BY <2>2, <3>1, <3>2
  <2>4. Owned[n].helper \in H /\ OnlyColumn(v, Owned[n].helper)
    BY <1>2, <1>5, <1>6, <2>1 DEF OnlyColumn
  <2>5. ASSUME NEW c \in Columns(v), ColumnKey(c) = ColumnKey(Owned[n].column)
        PROVE  c \in Columns(t) /\ OnlyColumn(v, c)
    <3>1. \A h \in H : ColumnKey(h) # ColumnKey(c)
      BY <1>2, <2>5 DEF OwnCalls
    <3>2. c \in Columns(t)
      BY <2>1, <3>1
    <3>3. OnlyColumn(t, c)
      BY <1>7, <2>3, <2>5, <3>2
    <3> QED
      BY <2>1, <3>1, <3>2, <3>3 DEF OnlyColumn
  <2>6. \A p \in DOMAIN t.rows : v.rows[p][Owned[n].helper] = given[p][Owned[n].helper]
    BY <2>2, <2>4
  <2>7. Same([rows |-> given], n)
    BY <1>8
  <2>8. ASSUME NEW c \in Columns(v), ColumnKey(c) = ColumnKey(Owned[n].column), NEW p \in DOMAIN v.rows
        PROVE  v.rows[p][Owned[n].helper] =
                 IF p + Owned[n].step \in DOMAIN v.rows THEN v.rows[p + Owned[n].step][c] ELSE Owned[n].default
    <3>1. c \in Columns(t)
      BY <2>5, <2>8
    <3> QED
      BY <2>2, <2>6, <2>7, <2>8, <3>1
  <2> QED
    BY <2>4, <2>5, <2>8
<1>9. ASSUME NEW n \in DOMAIN Owned, HasColumn(t, Owned[n].column),
             NEW c \in Columns(t), ColumnKey(c) = ColumnKey(Owned[n].column), Lines # {}
      PROVE  Resolve(t, Owned[n].column) = c
  BY <1>1, <1>7, <1>9, ResolvedColumn DEF OnlyColumn
<1>10. \A n \in DOMAIN Owned : \A c \in Columns(t) :
         ColumnKey(c) = ColumnKey(Owned[n].column) => HasColumn(t, Owned[n].column)
  BY HasColumnKey DEF Keys
<1>11. DOMAIN t.rows # {} => Lines # {}
  <2>1. DOMAIN t.rows = 1..Len(t.rows) /\ Len(t.rows) = Cardinality(Lines)
    BY <1>1 DEF Shows, IsTable
  <2>2. Lines = {} => Cardinality(Lines) = 0
    BY FS_EmptySet
  <2> QED
    BY <2>1, <2>2
<1>12. Looks(WithHelpers(t))
  <2> DEFINE given == [i \in DOMAIN t.rows |-> [h \in H |->
                         HelperValue(t.rows, i, CallOf(h), Resolve(t, CallOf(h).column))]]
  <2>1. ASSUME NEW n \in DOMAIN Owned PROVE Same([rows |-> given], n)
    <3>1. \A p \in DOMAIN t.rows :
            given[p][Owned[n].helper] = HelperValue(t.rows, p, Owned[n], Resolve(t, Owned[n].column))
      BY <1>2
    <3> QED
      BY <1>9, <1>10, <1>11, <3>1 DEF HelperValue
  <2>2. WithHelpers(t) = Put(t, HelperColumns, given)
    BY DEF WithHelpers, H
  <2> HIDE DEF given
  <2> QED
    BY <1>8, <2>1, <2>2
<1>13. Looks(WithRowHelpers(t))
  <2> DEFINE given == [i \in DOMAIN t.rows |-> [h \in H |-> RowHelperValue(t, i, CallOf(h))]]
  <2>1. ASSUME NEW n \in DOMAIN Owned PROVE Same([rows |-> given], n)
    <3>1. \A p \in DOMAIN t.rows : given[p][Owned[n].helper] = RowHelperValue(t, p, Owned[n])
      BY <1>2
    <3> QED
      BY <1>9, <1>10, <1>11, <3>1 DEF HelperValue, RowHelperValue
  <2>2. CASE t.rows # <<>>
    <3>1. WithRowHelpers(t) = Put(t, HelperColumns, given)
      BY <2>2 DEF WithRowHelpers, H
    <3> HIDE DEF given
    <3> QED
      BY <1>8, <2>1, <3>1
  <2>3. CASE t.rows = <<>>
    <3>1. WithRowHelpers(t) = [t EXCEPT !.cols = <<>>]
      BY <2>3 DEF WithRowHelpers
    <3>2. WithRowHelpers(t).rows = <<>>
      BY <1>1, <2>3, <3>1
    <3>3. DOMAIN <<>> = {}
      OBVIOUS
    <3> QED
      BY <3>2, <3>3 DEF Looks
  <2> QED
    BY <2>2, <2>3
<1> QED
  BY <1>12, <1>13

(* The runtime reads the one table it is given, and in it the column that  *)
(* is the only one of a name.                                              *)
LEMMA ReadsOnly ==
  ASSUME DOMAIN result.refs = {1}, Given1(result.inputs[result.refs[1].name].table)
  PROVE  LET t == result.inputs[result.refs[1].name].table
         IN  /\ Given.cols = t.cols /\ Given.rows = t.rows
             /\ \A c, x : OnlyColumn(t, c) /\ ColumnKey(c) = ColumnKey(x) =>
                  HasColumn(Given, x) /\ \A p : Reads(p, x) = t.rows[p][c]
<1> DEFINE t == result.inputs[result.refs[1].name].table
           f == [n \in DOMAIN result.refs |-> result.inputs[result.refs[n].name].table]
<1>1. \E V : IsTable(t, V)
  BY DEF Given1
<1>2. Given = Concat(<<t>>)
  <2>1. f[1] = t /\ f = [n \in {1} |-> f[n]]
    OBVIOUS
  <2>2. f = <<t>>
    <3> HIDE DEF f, t
    <3> QED
      BY <2>1, OneMember
  <2> QED
    BY <2>2 DEF Given
<1> HIDE DEF t
<1>3. Given.cols = t.cols /\ Given.rows = t.rows
  BY <1>1, <1>2, ConcatOne
<1>4. DOMAIN t.cols = 1..Len(t.cols) /\ Len(t.cols) \in Nat
  BY <1>1 DEF IsTable
<1>5. ASSUME NEW c, NEW x, OnlyColumn(t, c), ColumnKey(c) = ColumnKey(x)
      PROVE  HasColumn(Given, x) /\ \A p : Reads(p, x) = t.rows[p][c]
  <2> DEFINE S == Spellings(Given, x)
  <2>1. c \in Columns(t) /\ \A d \in Columns(t) : ColumnKey(d) = ColumnKey(c) => d = c
    BY <1>5 DEF OnlyColumn
  <2>2. HasColumn(Given, x)
    BY <1>3, <1>5, <2>1, HasColumnKey DEF Keys, Columns
  <2>3. S # {} /\ S \subseteq DOMAIN t.cols /\ \A m \in S : ColumnKey(t.cols[m]) = ColumnKey(c)
    BY <1>3, <1>5, <2>2 DEF HasColumn, Spellings
  <2>4. S \subseteq Nat
    BY <1>4, <2>3
  <2>5. Min(S) \in S
    <3> HIDE DEF S
    <3>1. \E m \in S : \A k \in S : m <= k
      BY <2>3, <2>4, LeastNumber
    <3> QED
      BY <3>1 DEF Min
  <2>6. Given.cols[Min(S)] = c
    <3>1. Given.cols[Min(S)] = t.cols[Min(S)] /\ t.cols[Min(S)] \in Columns(t)
      BY <1>3, <2>3, <2>5 DEF Columns, ToSet
    <3> QED
      BY <2>1, <2>3, <2>5, <3>1
  <2>7. \A p : Reads(p, x) = t.rows[p][c]
    BY <1>3, <2>6 DEF Reads
  <2> QED
    BY <2>2, <2>7
<1> QED
  BY <1>3, <1>5 DEF t

(* What the runtime is given under one reference shows the streams.        *)
LEMMA ReadsStreams ==
  ASSUME DOMAIN result.refs = {1}, Given1(result.inputs[result.refs[1].name].table)
  PROVE  InterleavesStreams
<1> DEFINE t == result.inputs[result.refs[1].name].table
<1>1. Shows(t)
  BY DEF Given1
<1>2. /\ Given.cols = t.cols /\ Given.rows = t.rows
      /\ \A c, x : OnlyColumn(t, c) /\ ColumnKey(c) = ColumnKey(x) =>
           HasColumn(Given, x) /\ \A p : Reads(p, x) = t.rows[p][c]
  BY ReadsOnly
<1> HIDE DEF t
<1>3. ASSUME NEW l \in Lines, NEW c \in StreamColumns
      PROVE  HasColumn(Given, c) /\ Reads(Place(l), c) = Cell(l, c)
  <2>1. OnlyColumn(t, c)
    BY <1>1 DEF Shows, OnlyColumn
  <2> QED
    BY <1>1, <1>2, <2>1 DEF Shows
<1>4. \A s \in Occurrences : Columns(Stream(s)) \subseteq StreamColumns
  BY DEF StreamColumns
<1> QED
  BY <1>1, <1>2, <1>3, <1>4 DEF InterleavesStreams, Shows

(* Its automatic columns tell what they have to.                           *)
LEMMA ReadsAutomatics ==
  ASSUME request \in Requests, DOMAIN result.refs = {1}, Given1(result.inputs[result.refs[1].name].table),
         Tells(result.inputs[result.refs[1].name].table)
  PROVE  AutomaticsTell
<1> DEFINE t == result.inputs[result.refs[1].name].table
<1>1. Shows(t) /\ Tells(t) /\ \E V : IsTable(t, V)
  BY DEF Given1
<1>2. /\ Given.cols = t.cols /\ Given.rows = t.rows
      /\ \A c, x : OnlyColumn(t, c) /\ ColumnKey(c) = ColumnKey(x) =>
           HasColumn(Given, x) /\ \A p : Reads(p, x) = t.rows[p][c]
  BY ReadsOnly
<1> HIDE DEF t
<1> SUFFICES ASSUME NEW l \in Lines
             PROVE  LET p == Place(l)
                        Changes(b, q) == q \notin DOMAIN Given.rows \/ Reads(q, b) # Reads(p, b)
                    IN  /\ \A v \in ToSet(InVars) : OneSpelling(v) => (Reads(p, v) = 1 <=> refs[l[1]].in = v)
                        /\ request.indsname # NoVar => Reads(p, request.indsname) = refs[l[1]].name
                        /\ request.end # NoVar => (Reads(p, request.end) = 1 <=> p = Len(Given.rows))
                        /\ \A b \in ToSet(by) : /\ Reads(p, Flag("FIRST", b)) = 1 <=> Changes(b, p - 1)
                                                /\ Reads(p, Flag("LAST", b)) = 1 <=> Changes(b, p + 1)
  BY DEF AutomaticsTell
<1> DEFINE p == Place(l)
<1>3. \A c, q : OnlyColumn(t, c) => Reads(q, c) = t.rows[q][c]
  BY <1>2
<1>4. KeysOfStreams
  BY <1>1 DEF Tells
<1>5. /\ \A v \in ToSet(InVars) : OneSpelling(v) => OnlyColumn(t, v)
      /\ \A c \in ({request.end, request.indsname} \ {NoVar}) \cup ToSet(FlagColumns(by)) : OnlyColumn(t, c)
  BY <1>1 DEF Tells
<1>6. /\ \A v \in ToSet(InVars) : t.rows[p][v] = InFlag(l[1], v)
      /\ request.indsname # NoVar => t.rows[p][request.indsname] = refs[l[1]].name
      /\ request.end # NoVar => t.rows[p][request.end] = IF p = Len(t.rows) THEN 1 ELSE 0
      /\ \A b \in ToSet(by) : /\ t.rows[p][Flag("FIRST", b)] = Differs(t, b, p, p - 1)
                              /\ t.rows[p][Flag("LAST", b)] = Differs(t, b, p, p + 1)
  BY <1>1 DEF Tells
<1> HIDE DEF p
<1>7. ASSUME NEW v \in ToSet(InVars), OneSpelling(v)
      PROVE  Reads(p, v) = 1 <=> refs[l[1]].in = v
  <2>1. Reads(p, v) = t.rows[p][v]
    BY <1>3, <1>5, <1>7
  <2>2. t.rows[p][v] = InFlag(l[1], v)
    BY <1>6
  <2> QED
    BY <2>1, <2>2 DEF InFlag
<1>8. ASSUME request.indsname # NoVar PROVE Reads(p, request.indsname) = refs[l[1]].name
  <2>1. Reads(p, request.indsname) = t.rows[p][request.indsname]
    BY <1>3, <1>5, <1>8
  <2> QED
    BY <1>6, <1>8, <2>1
<1>9. ASSUME request.end # NoVar PROVE Reads(p, request.end) = 1 <=> p = Len(Given.rows)
  <2>1. Reads(p, request.end) = t.rows[p][request.end]
    BY <1>3, <1>5, <1>9
  <2> QED
    BY <1>2, <1>6, <1>9, <2>1
<1>10. ASSUME NEW b \in ToSet(by)
      PROVE  /\ Reads(p, Flag("FIRST", b)) = Differs(t, b, p, p - 1)
             /\ Reads(p, Flag("LAST", b)) = Differs(t, b, p, p + 1)
             /\ \A q : Differs(t, b, p, q) = 1 <=> q \notin DOMAIN Given.rows \/ Reads(q, b) # Reads(p, b)
  <2>1. IsList(by)
    BY RequestLists
  <2>2. OnlyColumn(t, Flag("FIRST", b)) /\ OnlyColumn(t, Flag("LAST", b))
    BY <1>5, <2>1, FlagNames
  <2>3. PICK c \in StreamColumns : ColumnKey(c) = ColumnKey(b)
    BY <1>4 DEF KeysOfStreams, ToSet
  <2>4. OnlyColumn(t, c)
    BY <1>1 DEF Shows, OnlyColumn
  <2>5. Resolve(t, b) = c
    <3>1. HasColumn(t, b)
      BY <2>3, <2>4, HasColumnKey DEF Keys, OnlyColumn
    <3> QED
      BY <1>1, <2>3, <2>4, <3>1, ResolvedColumn DEF OnlyColumn
  <2>6. \A q : Reads(q, b) = t.rows[q][c]
    BY <1>2, <2>3, <2>4
  <2>7. \A q : Differs(t, b, p, q) = 1 <=> q \notin DOMAIN Given.rows \/ Reads(q, b) # Reads(p, b)
    BY <1>2, <2>5, <2>6 DEF Differs
  <2>8. /\ Reads(p, Flag("FIRST", b)) = Differs(t, b, p, p - 1)
        /\ Reads(p, Flag("LAST", b)) = Differs(t, b, p, p + 1)
    <3>1. /\ Reads(p, Flag("FIRST", b)) = t.rows[p][Flag("FIRST", b)]
          /\ Reads(p, Flag("LAST", b)) = t.rows[p][Flag("LAST", b)]
      BY <1>3, <2>2
    <3> QED
      BY <1>6, <3>1
  <2> QED
    BY <2>7, <2>8
<1> QED
  BY <1>7, <1>8, <1>9, <1>10 DEF p

(* Its helper columns look a step away.                                    *)
LEMMA ReadsHelpers ==
  ASSUME DOMAIN result.refs = {1}, Given1(result.inputs[result.refs[1].name].table),
         Looks(result.inputs[result.refs[1].name].table)
  PROVE  HelpersLookAcross
<1> DEFINE t == result.inputs[result.refs[1].name].table
<1>1. Looks(t)
  OBVIOUS
<1>2. /\ Given.cols = t.cols /\ Given.rows = t.rows
      /\ \A c, x : OnlyColumn(t, c) /\ ColumnKey(c) = ColumnKey(x) =>
           HasColumn(Given, x) /\ \A p : Reads(p, x) = t.rows[p][c]
  BY ReadsOnly
<1> HIDE DEF t
<1> SUFFICES ASSUME NEW p \in DOMAIN Given.rows, NEW n \in DOMAIN Owned, HasColumn(Given, Owned[n].column)
             PROVE  LET q == p + Owned[n].step
                    IN  Reads(p, Owned[n].helper) =
                          IF q \in DOMAIN Given.rows THEN Reads(q, Owned[n].column) ELSE Owned[n].default
  BY DEF HelpersLookAcross
<1>3. PICK c \in Columns(t) : ColumnKey(c) = ColumnKey(Owned[n].column)
  BY <1>2, HasColumnKey DEF Keys, Columns
<1>4. OnlyColumn(t, Owned[n].helper) /\ OnlyColumn(t, c)
  BY <1>1, <1>2, <1>3 DEF Looks
<1>5. Reads(p, Owned[n].helper) = t.rows[p][Owned[n].helper]
  BY <1>2, <1>4
<1>6. \A q : Reads(q, Owned[n].column) = t.rows[q][c]
  BY <1>2, <1>3, <1>4
<1> QED
  BY <1>1, <1>2, <1>3, <1>5, <1>6 DEF Looks

-----------------------------------------------------------------------------
(* The streams along a preparation                                         *)

(* A column has one name: in its source and in all streams, apart from the *)
(* automatic variables that BY could take for it and from the helpers.     *)
NamesApart == SpelledOnce /\ ByApart /\ HelpersApart
AllTabular == \A s \in Occurrences : Source(s).kind = "table"

(* What the columns of a carrier tell, before and after the helpers.       *)
CarrierTold(u) == (OwnNames => Tells(u)) /\ (NoneOwned \/ Columns(u) \subseteq StreamColumns \cup Internal)
GivenTold(u) == OwnNames => Tells(u) /\ (OwnCalls => Looks(u))

Streams ==
  /\ phase \notin {"resolve", "failed"} => Readable
  /\ phase \notin {"resolve", "collisions", "failed"} => Apart
  /\ phase \in {"resolve", "collisions", "schema", "order"} => tables = <<>>
  /\ phase \in {"collisions", "schema", "order"} => \A s \in Occurrences : Input(s) = Source(s)
  /\ phase = "shape" =>
       /\ \A s \in Occurrences : \A t :
            t = Source(s).table => Input(s).table = IF by # <<>> THEN SortedByActive(t) ELSE t
       /\ \A s \in DOMAIN tables : Bears(tables[s], s)
  /\ phase \in {"collapse", "helpers"} => Carries(inputs[First].table) /\ CarrierTold(inputs[First].table)
  /\ phase \in {"collapse", "helpers", "ingress"} => Carried \/ Len(refs) = 1
  /\ phase \in {"ingress", "done"} => Given1(inputs[First].table) /\ GivenTold(inputs[First].table)
  /\ phase = "done" => result.inputs = inputs /\ DOMAIN result.refs = {1} /\ result.refs[1].name = First
Asked == Unclaimed /\ SpelledAlike /\ NamesApart /\ AllTabular
StreamsInv == Asked => Streams

(* The streams are those of the request.                                   *)
LEMMA SameStreams ==
  ASSUME request' = request
  PROVE  /\ by' = by /\ refs' = refs /\ Occurrences' = Occurrences /\ First' = First
         /\ \A s : Source(s)' = Source(s)
         /\ Readable' = Readable /\ Apart' = Apart /\ Asked' = Asked
         /\ \A t, s : Bears(t, s)' <=> Bears(t, s)
         /\ \A t : Carries(t)' <=> Carries(t)
         /\ \A t : Given1(t)' <=> Given1(t)
         /\ \A t : CarrierTold(t)' <=> CarrierTold(t)
         /\ \A t : GivenTold(t)' <=> GivenTold(t)
         /\ \A t : SortedByActive(t)' = SortedByActive(t)
<1>1. refs' = refs /\ by' = by /\ request.explicit' = request.explicit
      /\ request.end' = request.end /\ request.indsname' = request.indsname /\ request.lags' = request.lags
  BY DEF refs, by
<1>2. Occurrences' = Occurrences /\ First' = First
  BY <1>1 DEF Occurrences, First
<1>3. \A s : Source(s)' = Source(s)
  BY <1>1 DEF Source
<1>4. \A s : Stream(s)' = Stream(s)
  BY <1>1, <1>3 DEF Stream
<1>5. StreamColumns' = StreamColumns /\ Lines' = Lines /\ Readable' = Readable
  BY <1>1, <1>2, <1>3, <1>4 DEF StreamColumns, Lines, Readable
<1>6. InVars' = InVars /\ Internal' = Internal
  BY <1>1, <1>2 DEF InVars, Internal
<1>7. Marks' = Marks /\ Apart' = Apart
  BY <1>1, <1>5, <1>6 DEF Marks, Apart
<1>8. \A t, s : Bears(t, s)' <=> Bears(t, s)
  <2>1. \A s, v : InFlag(s, v)' = InFlag(s, v)
    BY <1>1 DEF InFlag
  <2> QED
    BY <1>1, <1>4, <1>6, <1>7, <2>1, SameTypes DEF Bears
<1>9. \A l, c : Cell(l, c)' = Cell(l, c)
  BY <1>4 DEF Cell
<1>10. \A l, m : LineBefore(l, m)' <=> LineBefore(l, m)
  <2>1. \A l : KeyOfLine(l)' = KeyOfLine(l)
    BY <1>1, <1>9 DEF KeyOfLine
  <2>2. \A l, m : LineBefore(l, m) <=> \/ KeyPrecedes(KeyOfLine(l), KeyOfLine(m))
                                       \/ /\ KeyOfLine(l) = KeyOfLine(m)
                                          /\ l[1] < m[1] \/ (l[1] = m[1] /\ l[2] < m[2])
    BY LinesInOrder
  <2>3. \A l, m : LineBefore(l, m)' <=> \/ KeyPrecedes(KeyOfLine(l)', KeyOfLine(m)')
                                        \/ /\ KeyOfLine(l)' = KeyOfLine(m)'
                                           /\ l[1] < m[1] \/ (l[1] = m[1] /\ l[2] < m[2])
    BY DEF LineBefore, KeyOfLine
  <2> QED
    BY <2>1, <2>2, <2>3
<1>11. \A l : Place(l)' = Place(l)
  BY <1>5, <1>10 DEF Place
<1>12. \A t : Shows(t)' <=> Shows(t)
  BY <1>5, <1>9, <1>11 DEF Shows
<1>13. KeysOfStreams' = KeysOfStreams /\ \A t : InOrder(t)' <=> InOrder(t)
  BY <1>1, <1>5 DEF KeysOfStreams, InOrder
<1>14. \A t : Carries(t)' <=> Carries(t)
  BY <1>12, <1>13, SameTypes DEF Carries
<1>15. Asked' = Asked
  <2>1. HelperColumns' = HelperColumns
    BY <1>1 DEF Owned, HelperColumns
  <2>2. NamesApart' = NamesApart
    BY <1>1, <1>2, <1>3, <1>5, <1>6, <2>1 DEF NamesApart, SpelledOnce, ByApart, HelpersApart
  <2>3. AllTabular' = AllTabular
    BY <1>2, <1>3 DEF AllTabular
  <2> QED
    BY <2>2, <2>3, SameTypes DEF Asked
<1>16. \A t : Given1(t)' <=> Given1(t)
  BY <1>12 DEF Given1
<1>17. \A t : SortedByActive(t)' = SortedByActive(t)
  BY <1>1 DEF SortedByActive
<1>18. Owned' = Owned /\ HelperColumns' = HelperColumns /\ NoneOwned' = NoneOwned
  BY <1>1 DEF Owned, HelperColumns, NoneOwned
<1>19. /\ \A v : OneSpelling(v)' <=> OneSpelling(v)
       /\ \A s, v : InFlag(s, v)' = InFlag(s, v)
  BY <1>1, <1>2 DEF OneSpelling, InFlag
<1>20. OwnNames' = OwnNames /\ OwnCalls' = OwnCalls
  BY <1>1, <1>6, <1>7, <1>18, <1>19 DEF OwnNames, OwnCalls
<1>21. \A t : Tells(t)' <=> Tells(t)
  BY <1>1, <1>5, <1>6, <1>11, <1>13, <1>19 DEF Tells
<1>22. \A t : Looks(t)' <=> Looks(t)
  BY <1>18 DEF Looks
<1>23. \A t : (CarrierTold(t)' <=> CarrierTold(t)) /\ (GivenTold(t)' <=> GivenTold(t))
  BY <1>5, <1>6, <1>18, <1>20, <1>21, <1>22 DEF CarrierTold, GivenTold
<1> QED
  BY <1>1, <1>2, <1>3, <1>5, <1>7, <1>8, <1>14, <1>15, <1>16, <1>17, <1>23

(* The statement has one reference left, by the name of the first.         *)
LEMMA OneReference ==
  ASSUME request \in Requests,
         (Fresh /\ sources = refs /\ Len(refs) = 1) \/ (Carried /\ sources = <<CarrierRef>>)
  PROVE  DOMAIN Normalized(inputs, sources) = {1} /\ Normalized(inputs, sources)[1].name = First
<1>1. CASE Fresh /\ sources = refs /\ Len(refs) = 1
  <2>1. DOMAIN sources = {1} /\ sources[1].name = First
    BY <1>1, RequestLists DEF Occurrences, First
  <2>2. FirstFolded(inputs, First).prep = "none"
    BY <1>1 DEF FirstFolded, Fresh
  <2>3. Normalized(inputs, sources) = sources
    BY <2>1, <2>2 DEF Normalized
  <2> QED
    BY <2>1, <2>3
<1>2. CASE Carried /\ sources = <<CarrierRef>>
  <2> DEFINE r == [sources[1] EXCEPT !.opts = NoOptions, !.in = NoVar]
  <2>1. sources[1] = CarrierRef /\ sources[1].name = First /\ r.name = First
    BY <1>2 DEF CarrierRef
  <2>2. FirstFolded(inputs, First).prep = "prepared_set"
    BY <1>2, CarriedKinds DEF Carried
  <2>3. Normalized(inputs, sources) = <<r>>
    BY <2>1, <2>2 DEF Normalized
  <2> HIDE DEF r
  <2> QED
    BY <2>1, <2>3
<1> QED
  BY <1>1, <1>2

(* Resolution finds every source as it is.                                 *)
LEMMA ResolvedSources ==
  ASSUME request \in Requests, AllTabular,
         \A n \in Names : HasInput(ResolvedInputs(request.explicit, Names), n)
  PROVE  \A s \in Occurrences : /\ refs[s].name \in DOMAIN ResolvedInputs(request.explicit, Names)
                                /\ ResolvedInputs(request.explicit, Names)[refs[s].name] = Source(s)
                                /\ IsTable(Source(s).table, Cells)
<1> DEFINE found == ResolvedInputs(request.explicit, Names)
<1>1. \A n \in Names : HasInput(request.explicit, n)
  BY DEF ResolvedInputs, HasInput
<1>2. \A n \in Names : n \in DOMAIN found /\ found[n] = InputOf(request.explicit, n)
  BY <1>1 DEF ResolvedInputs
<1>3. \A n \in Names : \E d \in DOMAIN request.explicit : InputOf(request.explicit, n) = request.explicit[d]
  BY <1>1 DEF InputOf, HasInput
<1> HIDE DEF found
<1> SUFFICES ASSUME NEW s \in Occurrences
             PROVE  /\ refs[s].name \in DOMAIN found /\ found[refs[s].name] = Source(s)
                    /\ IsTable(Source(s).table, Cells)
  BY DEF found
<1>4. refs[s].name \in Names
  BY RequestLists
<1>5. PICK d \in DOMAIN request.explicit : Source(s) = request.explicit[d]
  BY <1>3, <1>4 DEF Source
<1>6. Source(s).kind = "table"
  BY DEF AllTabular
<1>7. IsTable(Source(s).table, Cells)
  BY <1>5, <1>6, RequestsAssumption
<1> QED
  BY <1>2, <1>4, <1>7 DEF Source

(* What the collision check lets pass is apart.                            *)
LEMMA PassedIsApart ==
  ASSUME request \in Requests, Readable, Fresh,
         \A s \in Occurrences : /\ Input(s) = Source(s) /\ refs[s].name \in DOMAIN inputs
                                /\ ~Collides(Columns(Shape(Input(s).table, refs[s].opts)), Internal, Input(s).prep)
  PROVE  Apart
<1> SUFFICES ASSUME NEW s \in Occurrences, NEW c \in Columns(Stream(s)), NEW d \in Internal
             PROVE  ColumnKey(d) # ColumnKey(c)
  BY DEF Apart, StreamColumns
<1> DEFINE t == Source(s).table
           u == SortTable(t, ActiveBy(t))
           o == refs[s].opts
<1>1. IsTable(t, Cells) /\ Input(s).prep = "none"
  BY DEF Readable, Fresh, Input
<1>2. IsTable(u, Cells) /\ u.cols = t.cols
  BY <1>1, ActiveList, SortedTable
<1>3. Stream(s) = Shape(u, o)
  BY DEF Stream, ActiveBy
<1> HIDE DEF u
<1>4. Columns(Shape(u, o)) = Columns(Shape(t, o))
  BY <1>1, <1>2 DEF Shape, Without, IsTable, Columns
<1>5. Keys(Columns(Shape(t, o))) \cap Keys(Internal) = {}
  BY <1>1 DEF Collides
<1> QED
  BY <1>3, <1>4, <1>5 DEF Keys

LEMMA StreamsKept ==
  ASSUME SetInv, TypesInv, StreamsInv, [Next]_vars
  PROVE  StreamsInv'
<1>1. request' = request
  BY DEF Next, vars, Resolution, Collisions, Schema, Order, ShapeOccurrence, Combine, Collapse,
         Helpers, Ingress, Returned, Fail, Continue
<1> SUFFICES ASSUME Asked PROVE Streams'
  BY <1>1, SameStreams DEF StreamsInv
<1>2. ContractInv /\ Typed /\ Streams /\ request \in Requests
  BY DEF SetInv, TypesInv, StreamsInv, ContractInv, Asked
<1>3. ContractInv' /\ Typed'
  <2>1. SetInv' /\ TypesInv' /\ Unclaimed' /\ SpelledAlike'
    BY <1>1, SetInvKept, TypesKept, SameTypes DEF Asked
  <2> QED
    BY <2>1 DEF SetInv, TypesInv
<1>4. SpelledOnce /\ ByApart /\ HelpersApart /\ AllTabular
  BY DEF Asked, NamesApart
<1>5. ASSUME NEW c, Fail(c)
      PROVE  Streams'
  BY <1>5 DEF Fail, Streams
<1> SUFFICES ASSUME ~ \E c : Fail(c) PROVE Streams'
  BY <1>5
<1>6. CASE Resolution
  <2> DEFINE found == ResolvedInputs(request.explicit, Names)
  <2>1. /\ \A n \in Names : HasInput(found, n)
        /\ inputs' = found /\ Continue("collisions") /\ phase = "resolve"
    BY <1>6 DEF Resolution
  <2>2. \A s \in Occurrences : /\ refs[s].name \in DOMAIN inputs' /\ inputs'[refs[s].name] = Source(s)
                               /\ IsTable(Source(s).table, Cells)
    BY <1>2, <1>4, <2>1, ResolvedSources
  <2>3. phase' = "collisions" /\ tables' = <<>>
    BY <1>2, <2>1 DEF Streams, Continue
  <2>4. \A s \in Occurrences : refs[s].opts.firstobs >= 1
    BY <1>1, <1>3, <1>4, <2>2, <2>3, SameTypes DEF Typed, FoundSources, AllTabular
  <2>5. Readable
    BY <1>4, <2>2, <2>4 DEF Readable, AllTabular
  <2>6. \A s \in Occurrences : Input(s)' = Source(s)
    BY <1>1, <2>2, SameStreams DEF Input
  <2> QED
    BY <1>1, <2>3, <2>5, <2>6, SameStreams DEF Streams
<1>7. CASE Collisions
  <2>1. /\ phase = "collisions" /\ phase' = "schema" /\ UNCHANGED <<request, tables, sources, result, inputs>>
        /\ ~ \E s \in Occurrences :
               /\ Input(s).kind = "table"
               /\ Collides(Columns(Shape(Input(s).table, refs[s].opts)), Internal, Input(s).prep)
    BY <1>7 DEF Collisions, Continue
  <2>2. \A s \in Occurrences : Input(s) = Source(s) /\ refs[s].name \in DOMAIN inputs
    BY <1>2, <2>1 DEF Streams, Typed, FoundSources
  <2>3. Readable /\ Fresh /\ tables = <<>>
    BY <1>2, <2>1 DEF Streams, ContractInv
  <2>4. Apart
    BY <1>2, <1>4, <2>1, <2>2, <2>3, PassedIsApart DEF AllTabular
  <2>5. \A s \in Occurrences : Input(s)' = Source(s)
    BY <1>1, <2>1, <2>2, SameStreams DEF Input
  <2> QED
    BY <1>1, <2>1, <2>3, <2>4, <2>5, SameStreams DEF Streams
<1>8. CASE Schema
  <2>1. phase = "schema" /\ phase' = "order" /\ UNCHANGED <<request, tables, sources, result, inputs>>
    BY <1>8 DEF Schema, Continue
  <2>2. \A s \in Occurrences : Input(s)' = Source(s)
    BY <1>1, <1>2, <2>1, SameStreams DEF Input, Streams
  <2> QED
    BY <1>1, <1>2, <2>1, <2>2, SameStreams DEF Streams
<1>9. CASE Order
  <2>1. /\ phase = "order" /\ UNCHANGED <<request, tables, sources, result>>
        /\ phase' = IF PreparesRows THEN "shape" ELSE "collapse"
        /\ Fresh /\ Readable /\ Apart /\ tables = <<>>
        /\ \A s \in Occurrences : Input(s) = Source(s) /\ refs[s].name \in DOMAIN inputs
    BY <1>2, <1>9 DEF Order, Continue, ContractInv, Streams, Typed, FoundSources
  <2>2. 1 \in Occurrences /\ Len(refs) \in Nat /\ First = refs[1].name /\ First \in DOMAIN inputs
    BY <1>2, <2>1, RequestsAssumption DEF First, Occurrences, refs
  <2>3. Input(1).prep = "none"
    BY <2>1, <2>2 DEF Fresh, Input
  <2>4. PreparesRows <=> ~Unprepared \/ Optioned \/ AskedIn
    BY <2>3 DEF PreparesRows
  <2>5. CASE PreparesRows
    <3>1. inputs' = IF by # <<>> THEN SortedInputs ELSE inputs
      BY <1>9, <2>4, <2>5 DEF Order, Concatenable
    <3>2. \A s \in Occurrences :
            inputs'[refs[s].name].table
              = IF by # <<>> THEN SortedByActive(Source(s).table) ELSE Source(s).table
      BY <1>4, <2>1, <3>1 DEF SortedInputs, Input, AllTabular
    <3>3. \A s \in Occurrences : \A t :
            t = Source(s).table => Input(s).table' = IF by # <<>> THEN SortedByActive(t) ELSE t
      BY <1>1, <3>2, SameStreams DEF Input
    <3>4. DOMAIN tables' = {}
      <4>1. DOMAIN <<>> = {}
        OBVIOUS
      <4> QED
        BY <2>1, <4>1
    <3> QED
      BY <1>1, <2>1, <2>5, <3>3, <3>4, SameStreams DEF Streams
  <2>6. CASE ~PreparesRows
    <3>1. by = <<>> /\ ~Optioned /\ ~AskedIn /\ Unprepared /\ phase' = "collapse"
      BY <2>1, <2>4, <2>6 DEF Unprepared
    <3>2. /\ Carries(Concat([s \in Occurrences |-> Source(s).table]))
          /\ Len(refs) = 1 => Carries(Source(1).table)
      BY <1>2, <1>4, <2>1, <3>1, PlainCarries
    <3>3. Carries(inputs'[First].table) /\ (Carried' \/ Len(refs) = 1)
      <4>1. CASE Concatenable
        <5> DEFINE all == Concat([s \in Occurrences |-> Source(s).table])
        <5>1. [s \in Occurrences |-> Input(s).table] = [s \in Occurrences |-> Source(s).table]
          BY <2>1
        <5>2. inputs' = Replaced(all)
          BY <1>9, <4>1, <5>1 DEF Order
        <5> HIDE DEF all
        <5>3. Carried' /\ inputs'[First].table = all
          BY <1>1, <1>2, <2>1, <5>2, ReplacedIsCarried DEF Replaced
        <5> QED
          BY <3>2, <5>3 DEF all
      <4>2. CASE ~Concatenable
        <5>1. AllTables
          BY <1>4, <2>1 DEF AllTables, AllTabular
        <5>2. ~(Len(refs) > 1)
          BY <3>1, <4>2, <5>1 DEF Concatenable
        <5>3. Len(refs) = 1
          <6>1. 1 \in 1..Len(refs)
            BY <1>2, <2>2, RequestLists
          <6>2. \A n \in Nat : 1 \in 1..n /\ ~(n > 1) => n = 1
            OBVIOUS
          <6> QED
            BY <2>2, <5>2, <6>1, <6>2
        <5>4. inputs' = inputs
          BY <1>9, <3>1, <4>2 DEF Order
        <5>5. inputs[First].table = Source(1).table
          BY <2>1, <2>2 DEF Input
        <5> QED
          BY <3>2, <5>3, <5>4, <5>5
      <4> QED
        BY <4>1, <4>2
    <3>4. CarrierTold(inputs'[First].table)
      <4>1. NoneOwned
        <5>1. request.lags = <<>> /\ DOMAIN <<>> = {}
          BY <3>1 DEF Unprepared
        <5> QED
          BY <5>1 DEF NoneOwned
      <4> QED
        BY <1>2, <3>1, <3>3, <4>1, PlainTells DEF CarrierTold, Unprepared
    <3> QED
      BY <1>1, <2>1, <3>1, <3>3, <3>4, SameStreams DEF Streams
  <2> QED
    BY <2>5, <2>6
<1>10. CASE ShapeOccurrence
  <2> DEFINE s == Len(tables) + 1
             t == Shape(Input(s).table, refs[s].opts)
             m == Marked(s, t)
  <2>1. /\ phase = "shape" /\ Len(tables) < Len(refs)
        /\ tables' = Append(tables, m) /\ UNCHANGED <<request, phase, inputs, sources, result>>
    BY <1>10 DEF ShapeOccurrence
  <2>2. s \in Occurrences /\ Len(tables) \in Nat /\ IsList(tables) /\ DOMAIN tables = 1..Len(tables)
    BY <1>2, <2>1, RequestLists, ListFacts DEF Typed, TypedTables
  <2>3. Readable /\ Apart /\ \A r \in Occurrences :
          Input(r).table = IF by # <<>> THEN SortedByActive(Source(r).table) ELSE Source(r).table
    BY <1>2, <2>1 DEF Streams
  <2>4. IsTable(t, Cells) /\ t.cols = Stream(s).cols /\ t.rows = Stream(s).rows
    <3>1. Input(s).table = IF by # <<>> THEN SortedByActive(Source(s).table) ELSE Source(s).table
      BY <2>2, <2>3
    <3> HIDE DEF s
    <3> QED
      BY <1>2, <1>4, <2>2, <2>3, <3>1, ShapedAsStream
  <2>5. Bears(m, s)
    <3> HIDE DEF s, t
    <3> QED
      BY <1>2, <2>2, <2>4, MarkedBears
  <2> HIDE DEF m
  <2>6. DOMAIN tables' = 1..s /\ tables'[s] = m /\ \A r \in DOMAIN tables : tables'[r] = tables[r]
    <3>1. tables' = tables \o <<m>>
      BY <2>1, <2>2 DEF IsList
    <3>2. IsList(<<m>>) /\ Len(<<m>>) = 1 /\ DOMAIN <<m>> = {1} /\ <<m>>[1] = m
      BY OneColumn
    <3> QED
      BY <2>2, <3>1, <3>2, JoinedLists
  <2>7. \A r \in DOMAIN tables' : Bears(tables'[r], r)
    <3>1. \A r \in DOMAIN tables : Bears(tables[r], r)
      BY <1>2, <2>1 DEF Streams
    <3>2. \A r \in 1..s : r \in DOMAIN tables \/ r = s
      BY <2>2
    <3> HIDE DEF s
    <3> QED
      BY <2>5, <2>6, <3>1, <3>2
  <2>8. \A r \in Occurrences : \A v :
          v = Source(r).table => Input(r).table' = IF by # <<>> THEN SortedByActive(v) ELSE v
    BY <1>1, <2>1, <2>3, SameStreams DEF Input
  <2> HIDE DEF s, t
  <2> QED
    BY <1>1, <2>1, <2>3, <2>7, <2>8, SameStreams DEF Streams
<1>11. CASE Combine
  <2>1. /\ phase = "shape" /\ Len(tables) = Len(refs) /\ inputs' = Replaced(Carrier) /\ phase' = "collapse"
        /\ UNCHANGED <<request, tables, sources, result>>
        /\ \A n \in DOMAIN by : HasColumn(Concat(tables), by[n])
    BY <1>11 DEF Combine, Continue
  <2>2. /\ Fresh /\ Readable /\ Apart /\ IsList(tables)
        /\ \A s \in DOMAIN tables : Bears(tables[s], s)
    BY <1>2, <2>1 DEF Streams, ContractInv, Typed, TypedTables
  <2>3. Carries(Carrier) /\ CarrierTold(Carrier)
    BY <1>2, <1>4, <2>1, <2>2, CarrierCarries, CarrierTells DEF CarrierTold
  <2>4. Carried' /\ inputs'[First].table = Carrier
    BY <1>2, <2>1, <2>2, ReplacedIsCarried DEF Replaced
  <2> QED
    BY <1>1, <2>1, <2>2, <2>3, <2>4, SameStreams DEF Streams
<1>12. CASE Collapse
  <2>1. phase = "collapse" /\ phase' = "helpers" /\ UNCHANGED <<request, inputs, tables, result>>
    BY <1>12 DEF Collapse
  <2>2. Carried' = Carried
    BY <1>1, <2>1, SameStreams, SameTypes DEF Carried, SourceKeys
  <2> QED
    BY <1>1, <1>2, <2>1, <2>2, SameStreams DEF Streams
<1>13. CASE Helpers
  <2>1. phase = "helpers" /\ phase' = "ingress" /\ UNCHANGED <<request, tables, sources, result>>
    BY <1>13 DEF Helpers, Continue
  <2>2. /\ Readable /\ Apart /\ Carries(inputs[First].table) /\ CarrierTold(inputs[First].table)
        /\ Carried \/ Len(refs) = 1
    BY <1>2, <2>1 DEF Streams
  <2>3. Given1(inputs'[First].table) /\ GivenTold(inputs'[First].table) /\ (Carried' \/ Len(refs) = 1)
    <3>1. CASE NoneOwned
      <4>1. inputs' = inputs
        BY <1>13, <3>1 DEF Helpers
      <4>2. Carried' = Carried
        BY <1>1, <4>1, SameStreams, SameTypes DEF Carried, SourceKeys
      <4>3. Given1(inputs[First].table)
        BY <2>2 DEF Carries, IsCarrier, IsMarked, Given1
      <4>4. GivenTold(inputs[First].table)
        BY <1>2, <2>2, <3>1, NoHelpersLook DEF CarrierTold, GivenTold
      <4> QED
        BY <2>2, <4>1, <4>2, <4>3, <4>4
    <3>2. CASE ~NoneOwned
      <4>1. Carried /\ sources = <<CarrierRef>>
        BY <1>2, <2>1, <3>2 DEF ContractInv, Plain
      <4> DEFINE u       == inputs[First].table
                 ts      == [s \in DOMAIN sources |-> inputs[sources[s].name].table]
                 t       == SortTable(Concat(ts), by)
                 helped  == IF Len(sources) = 1 /\ Columnar(t) THEN WithHelpers(t) ELSE WithRowHelpers(t)
                 others  == {d \in DOMAIN inputs : DatasetKey(d) \notin {DatasetKey(sources[s].name) : s \in DOMAIN sources}}
                 carrier == [kind |-> "table", table |-> helped, prep |-> Provenance(inputs[First].prep, "prepared_set")]
      <4>2. inputs' = [d \in others \cup {First} |-> IF d = First THEN carrier ELSE inputs[d]]
        BY <1>13, <3>2 DEF Helpers
      <4>3. ts = <<u>>
        <5>1. DOMAIN sources = {1} /\ sources[1].name = First
          BY <4>1 DEF CarrierRef
        <5> QED
          BY <5>1
      <4>4. inputs'[First].table = helped
        <5> HIDE DEF helped, others
        <5> QED
          BY <4>2
      <4> HIDE DEF ts
      <4>5. Carries(t) /\ t.cols = u.cols /\ t.rows = u.rows
        BY <1>2, <2>2, <4>3, SortedAgain
      <4> HIDE DEF t
      <4>6. Given1(helped) /\ GivenTold(helped)
        <5>1. Given1(helped)
          BY <1>2, <1>4, <4>5, HelpedShows
        <5>2. Columns(t) \subseteq StreamColumns \cup Internal
          BY <2>2, <3>2, <4>5 DEF CarrierTold, Columns
        <5>3. OwnNames => Tells(t)
          BY <1>2, <2>2, <4>5, SameTells DEF CarrierTold
        <5>4. OwnNames => Tells(helped)
          BY <1>2, <1>4, <4>5, <5>2, <5>3, HelpedTells
        <5>5. OwnNames /\ OwnCalls => Looks(helped)
          BY <1>2, <1>4, <2>2, <4>5, <5>2, HelpedLooks
        <5> QED
          BY <5>1, <5>4, <5>5 DEF GivenTold
      <4>7. Carried'
        <5>1. NoneOwned' = NoneOwned
          BY <1>1 DEF NoneOwned
        <5> QED
          BY <1>3, <2>1, <3>2, <5>1 DEF ContractInv, Plain
      <4> QED
        BY <4>4, <4>6, <4>7
    <3> QED
      BY <3>1, <3>2
  <2> QED
    BY <1>1, <2>1, <2>2, <2>3, SameStreams DEF Streams
<1>14. CASE Ingress
  <2>1. /\ phase = "ingress" /\ phase' = "done" /\ UNCHANGED <<request, inputs, tables, sources>>
        /\ result' = [code |-> "ok", inputs |-> inputs, refs |-> Normalized(inputs, sources)]
    BY <1>14 DEF Ingress
  <2>2. /\ Readable /\ Apart /\ Given1(inputs[First].table) /\ GivenTold(inputs[First].table)
        /\ Carried \/ Len(refs) = 1
    BY <1>2, <2>1 DEF Streams
  <2>3. (Fresh /\ sources = refs /\ Len(refs) = 1) \/ (Carried /\ sources = <<CarrierRef>>)
    BY <1>2, <2>1, <2>2 DEF ContractInv, Fresh, Carried
  <2>4. DOMAIN Normalized(inputs, sources) = {1} /\ Normalized(inputs, sources)[1].name = First
    BY <1>2, <2>3, OneReference
  <2> QED
    BY <1>1, <2>1, <2>2, <2>4, SameStreams DEF Streams
<1>15. CASE Returned \/ UNCHANGED vars
  <2>1. UNCHANGED vars
    BY <1>15 DEF Returned
  <2>2. UNCHANGED <<request, phase, inputs, tables, sources, result>>
    BY <2>1 DEF vars
  <2>3. Carried' = Carried
    BY <1>1, <2>2, SameStreams, SameTypes DEF Carried, SourceKeys
  <2>4. \A s \in Occurrences : Input(s)' = Input(s)
    BY <1>1, <2>2, SameStreams DEF Input
  <2> QED
    BY <1>1, <1>2, <2>2, <2>3, <2>4, SameStreams DEF Streams
<1> QED
  BY <1>6, <1>7, <1>8, <1>9, <1>10, <1>11, <1>12, <1>13, <1>14, <1>15 DEF Next

LEMMA StreamsAlways == Spec => [](SetInv /\ StreamsInv)
<1>1. Init => SetInv /\ TypesInv /\ StreamsInv
  <2>1. ASSUME Init PROVE StreamsInv
    BY <2>1 DEF Init, StreamsInv, Streams
  <2> QED
    BY <2>1, SetTypesInit
<1>2. SetInv /\ TypesInv /\ StreamsInv /\ [Next]_vars => SetInv' /\ TypesInv' /\ StreamsInv'
  BY SetInvKept, TypesKept, StreamsKept
<1> QED
  BY <1>1, <1>2, PTL DEF Spec

(* What a returned call gives, where every source is a table.              *)
LEMMA WhatIsGiven ==
  ASSUME SetInv, StreamsInv, Unclaimed, SpelledAlike, NamesApart, Tabular
  PROVE  LET t == result.inputs[result.refs[1].name].table
         IN  request \in Requests /\ DOMAIN result.refs = {1} /\ Given1(t) /\ GivenTold(t)
<1>1. phase = "done" /\ Streams
  BY DEF Tabular, Asked, AllTabular, StreamsInv
<1> QED
  BY <1>1 DEF Streams, SetInv, ContractInv

(* Every selected row of every source reaches the runtime exactly once, at *)
(* its place in BY order, under one column per name, whatever the sources  *)
(* were sorted, shaped, respelled or repeated into before: for callers who *)
(* spell their inputs as the statement does and claim none prepared, where *)
(* a column is spelled in one way, BY names no IN= variable, and the LAG   *)
(* and LEAD columns are named apart.                                       *)
THEOREM StreamsInterleaved ==
  Spec => [](Unclaimed /\ SpelledAlike /\ NamesApart => InterleavesStreams)
<1>1. SetInv /\ StreamsInv => (Unclaimed /\ SpelledAlike /\ NamesApart => InterleavesStreams)
  <2> SUFFICES ASSUME SetInv, StreamsInv, Unclaimed, SpelledAlike, NamesApart, Tabular
               PROVE  InterleavesStreams
    BY DEF InterleavesStreams
  <2> QED
    BY WhatIsGiven, ReadsStreams
<1> QED
  BY <1>1, StreamsAlways, PTL

(* In every row the runtime reads, the IN= and INDSNAME= columns tell of   *)
(* the stream the row came from, END= of the last row of all streams, and  *)
(* FIRST. and LAST. of the rows beside it: where, besides, the automatic   *)
(* variables and the LAG and LEAD columns have names of their own.         *)
THEOREM AutomaticsTold ==
  Spec => [](Unclaimed /\ SpelledAlike /\ NamesApart /\ OwnNames => AutomaticsTell)
<1>1. SetInv /\ StreamsInv => (Unclaimed /\ SpelledAlike /\ NamesApart /\ OwnNames => AutomaticsTell)
  <2> SUFFICES ASSUME SetInv, StreamsInv, Unclaimed, SpelledAlike, NamesApart, OwnNames, Tabular
               PROVE  AutomaticsTell
    BY DEF AutomaticsTell
  <2> QED
    BY WhatIsGiven, ReadsAutomatics DEF GivenTold
<1> QED
  BY <1>1, StreamsAlways, PTL

(* The value of LAG and LEAD is the column's value so many rows away, over *)
(* the rows of all streams in the order they are read, and the default     *)
(* outside them: where, besides, a LAG or LEAD column belongs to one call  *)
(* and no call reads it, nor an IN= variable in two spellings.             *)
THEOREM HelpersTold ==
  Spec => [](Unclaimed /\ SpelledAlike /\ NamesApart /\ OwnNames /\ OwnCalls => HelpersLookAcross)
<1>1. SetInv /\ StreamsInv =>
        (Unclaimed /\ SpelledAlike /\ NamesApart /\ OwnNames /\ OwnCalls => HelpersLookAcross)
  <2> SUFFICES ASSUME SetInv, StreamsInv, Unclaimed, SpelledAlike, NamesApart, OwnNames, OwnCalls, Tabular
               PROVE  HelpersLookAcross
    BY DEF HelpersLookAcross
  <2> QED
    BY WhatIsGiven, ReadsHelpers DEF GivenTold
<1> QED
  BY <1>1, StreamsAlways, PTL
=============================================================================
