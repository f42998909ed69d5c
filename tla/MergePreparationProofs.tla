----------------------- MODULE MergePreparationProofs -----------------------
(***************************************************************************)
(* What MERGE preparation hands to the runtime, for every set of requests. *)
(***************************************************************************)
EXTENDS MergePreparation, PreparedTablesProofs

(* After resolution the caller's inputs are among the inputs, unchanged:   *)
(* the bystanders Render copies are the ones the caller gave.              *)
CallersKept ==
  phase \in {"ownership", "shape", "emit", "done"} =>
    \A d \in DOMAIN request.explicit : d \in DOMAIN inputs /\ inputs[d] = request.explicit[d]

IInv == request \in Requests /\ CallersKept /\ OneCarrier

(* resolve_input_names adds names and never replaces one of the caller     *)
LEMMA ResolutionKeeps ==
  ASSUME NEW explicit, NEW names, NEW d \in DOMAIN explicit
  PROVE  /\ d \in DOMAIN ResolvedInputs(explicit, names)
         /\ ResolvedInputs(explicit, names)[d] = explicit[d]
BY DEF ResolvedInputs, InputOf

(* A failure keeps the resolution and hands on nothing.                    *)
LEMMA FailKeeps ==
  ASSUME IInv, NEW code, Fail(code)
  PROVE  IInv'
BY DEF IInv, CallersKept, OneCarrier, Fail, NoResult

(* A step that leaves the request, the inputs and the result alone and     *)
(* does not return keeps the invariant.                                    *)
LEMMA WorkKeeps ==
  ASSUME IInv, phase \in {"ownership", "shape", "emit"}, phase' \in {"ownership", "shape", "emit"},
         UNCHANGED <<request, inputs, result>>
  PROVE  IInv'
BY DEF IInv, CallersKept, OneCarrier

LEMMA RenderKeeps ==
  ASSUME IInv, Render
  PROVE  IInv'
<1> DEFINE first   == refs[1].name
           carrier == [kind |-> "table", table |-> Carrier,
                       prep |-> Provenance(Input(1).prep, "prepared_merge")]
           ready   == [d \in OtherInputs \cup {first} |-> IF d = first THEN carrier ELSE inputs[d]]
           ref     == [name |-> first, opts |-> NoOptions, in |-> NoVar]
<1> USE DEF IInv
<1>1. CASE phase' = "failed"
  <2>1. \E code : Fail(code)
    BY <1>1 DEF Render
  <2> QED
    BY <2>1, FailKeeps
<1>2. CASE phase' # "failed"
  <2>1. /\ phase = "emit" /\ phase' = "done"
        /\ result' = [code |-> "ok", inputs |-> ready, refs |-> <<ref>>, warned |-> by # <<>> /\ Repeats]
        /\ UNCHANGED <<request, inputs, tables, keys, plan>>
        /\ \A p, q \in PreparedKinds(ready) : p = q
    BY <1>2 DEF Render, Fail
  <2>2. request' \in Requests /\ CallersKept'
    BY <2>1 DEF CallersKept
  <2>3. 1 \in Occurrences
    BY RequestsAssumption DEF Occurrences, refs
  <2>4. DatasetKey(first) \in SourceKeys
    BY <2>3 DEF SourceKeys
  <2>5. /\ DOMAIN ready = OtherInputs \cup {first}
        /\ ready[first] = carrier
        /\ \A d \in OtherInputs \ {first} : ready[d] = inputs[d]
    OBVIOUS
  <2>6. {d \in DOMAIN ready : DatasetKey(d) \in SourceKeys} = {first}
    BY <2>4, <2>5 DEF OtherInputs
  <2>7. ASSUME NEW d \in DOMAIN request.explicit, DatasetKey(d) \notin SourceKeys
        PROVE  d \in DOMAIN ready /\ ready[d] = request.explicit[d]
    <3>1. d \in DOMAIN inputs /\ inputs[d] = request.explicit[d]
      BY <2>1 DEF CallersKept
    <3>2. d \in OtherInputs /\ d # first
      BY <3>1, <2>4, <2>7 DEF OtherInputs
    <3> QED
      BY <3>1, <3>2, <2>5
  <2>8. first \in DOMAIN ready /\ PreparedKinds(ready) = {ready[first].prep}
    <3>1. carrier.prep # "none"
      BY DEF Provenance
    <3>2. carrier.prep \in PreparedKinds(ready)
      BY <3>1, <2>5 DEF PreparedKinds
    <3> QED
      BY <3>2, <2>1, <2>5
  <2>9. /\ result'.inputs = ready /\ result'.refs = <<ref>>
        /\ SourceKeys' = SourceKeys
    BY <2>1 DEF SourceKeys, Occurrences, refs
  <2>10. Len(<<ref>>) = 1 /\ <<ref>>[1] = ref /\ ref.name = first /\ ~HasOptions(ref.opts)
    BY DEF HasOptions
  <2>11. OneCarrier'
    BY <2>1, <2>6, <2>7, <2>8, <2>9, <2>10 DEF OneCarrier
  <2> QED
    BY <2>2, <2>11
<1> QED
  BY <1>1, <1>2

(* For every request: when MERGE preparation succeeds the runtime is given *)
(* one unoptioned reference to one prepared carrier in place of all its    *)
(* sources and the caller's other inputs as they were, and when it fails   *)
(* it is given nothing.                                                    *)
THEOREM CarrierReplacesSources == Spec => []OneCarrier
<1>1. Init => IInv
  BY DEF Init, IInv, CallersKept, OneCarrier
<1>2. IInv /\ [Next]_vars => IInv'
  <2> SUFFICES ASSUME IInv, [Next]_vars PROVE IInv'
    OBVIOUS
  <2>1. CASE Resolution
    <3>1. CASE \E code : Fail(code)
      BY <3>1, FailKeeps
    <3>2. CASE ~\E code : Fail(code)
      <4>1. /\ phase' = "ownership" /\ UNCHANGED <<request, result>>
            /\ inputs' = ResolvedInputs(request.explicit, {refs[s].name : s \in Occurrences})
        BY <2>1, <3>2 DEF Resolution
      <4> QED
        BY <4>1, ResolutionKeeps DEF IInv, CallersKept, OneCarrier
    <3> QED
      BY <3>1, <3>2
  <2>2. CASE Ownership
    BY <2>2, FailKeeps, WorkKeeps DEF Ownership
  <2>3. CASE ShapeOccurrence
    <3>1. CASE \E code : Fail(code)
      BY <3>1, FailKeeps
    <3>2. CASE ~\E code : Fail(code)
      BY <2>3, <3>2, WorkKeeps DEF ShapeOccurrence
    <3> QED
      BY <3>1, <3>2
  <2>4. CASE Align
    BY <2>4, FailKeeps, WorkKeeps DEF Align
  <2>5. CASE EmitGroupRow
    BY <2>5, WorkKeeps DEF EmitGroupRow
  <2>6. CASE EmitOrdinalRow
    BY <2>6, WorkKeeps DEF EmitOrdinalRow
  <2>7. CASE Render
    BY <2>7, RenderKeeps
  <2>8. CASE UNCHANGED vars
    BY <2>8 DEF IInv, CallersKept, OneCarrier, vars, refs, Occurrences, SourceKeys
  <2> QED
    BY <2>1, <2>2, <2>3, <2>4, <2>5, <2>6, <2>7, <2>8 DEF Next, Returned
<1>3. IInv => OneCarrier
  BY DEF IInv
<1> QED
  BY <1>1, <1>2, <1>3, PTL DEF Spec

-----------------------------------------------------------------------------
(* What the variables hold                                                 *)

(* the inputs that were found are tables, and the options fit them *)
Found ==
  \A s \in Occurrences : Input(s).kind = "table" => /\ IsTable(Input(s).table, Cells)
                                                    /\ refs[s].opts.firstobs >= 1

TablesInv ==
  /\ tables \in Seq(ToSet(tables)) /\ Len(tables) <= Len(refs)
  /\ \A s \in DOMAIN tables : /\ IsTable(tables[s], Cells)
                              /\ \A n \in DOMAIN by : HasColumn(tables[s], by[n])

(* the keys still to be emitted are keys of the sources, in order *)
KeysInv ==
  /\ keys \in Seq(AllKeys)
  /\ \A m, n \in DOMAIN keys : m < n => KeyPrecedes(keys[m], keys[n])
  /\ by = <<>> => keys = <<>>

(* the plan picks rows that exist, and no key comes before an earlier one *)
PlanInv ==
  /\ plan \in Seq(ToSet(plan))
  /\ \A p \in DOMAIN plan :
       /\ \A s \in Occurrences : plan[p].pick[s] \in 0..Len(RowsOf(s))
       /\ Present(p) # {}
       /\ IF by = <<>> THEN plan[p].key = <<p>> ELSE plan[p].key \in AllKeys
       /\ p > 1 => ~KeyPrecedes(plan[p].key, plan[p - 1].key)
  /\ \A k \in ToSet(keys) : plan # <<>> => ~KeyPrecedes(k, plan[Len(plan)].key)

MergeInv ==
  /\ request \in Requests
  /\ phase \in {"resolve", "ownership", "shape", "emit", "done", "failed"}
  /\ phase \in {"done", "failed"} <=> result.code # "none"
  /\ phase \in {"ownership", "shape"} => Found
  /\ phase \in {"resolve", "ownership", "shape"} => keys = <<>> /\ plan = <<>>
  /\ phase \in {"emit", "done"} \/ plan # <<>> => Len(tables) = Len(refs)
  /\ TablesInv /\ KeysInv /\ PlanInv

LEMMA MergeInvIsTyped == MergeInv => TypeOK
BY DEF MergeInv, TablesInv, PlanInv, TypeOK

LEMMA RequestFacts ==
  ASSUME request \in Requests
  PROVE  /\ 1 \in Occurrences /\ refs \in Seq(ToSet(refs)) /\ by \in Seq(ToSet(by))
         /\ Occurrences = 1..Len(refs) /\ Len(refs) \in Nat
         /\ DOMAIN by = 1..Len(by) /\ Len(by) \in Nat
         /\ \A s \in Occurrences : refs[s].opts.firstobs \in Int /\ refs[s].opts.obs \in Int
         /\ \A d \in DOMAIN request.explicit :
              request.explicit[d].kind = "table" => IsTable(request.explicit[d].table, Cells)
<1>1. /\ 1 \in DOMAIN refs /\ refs \in Seq(ToSet(refs)) /\ by \in Seq(ToSet(by))
      /\ \A s \in DOMAIN refs : refs[s].opts.firstobs \in Int /\ refs[s].opts.obs \in Int
      /\ \A d \in DOMAIN request.explicit :
           request.explicit[d].kind = "table" => IsTable(request.explicit[d].table, Cells)
  BY RequestsAssumption DEF refs, by
<1>2. /\ DOMAIN refs = 1..Len(refs) /\ Len(refs) \in Nat
      /\ DOMAIN by = 1..Len(by) /\ Len(by) \in Nat
  BY <1>1, OwnElements
<1> QED
  BY <1>1, <1>2 DEF Occurrences

(* an input that resolution finds is one of the caller's *)
LEMMA FoundAreGiven ==
  ASSUME NEW explicit, NEW names, NEW n, HasInput(ResolvedInputs(explicit, names), n)
  PROVE  \E d \in DOMAIN explicit : InputOf(ResolvedInputs(explicit, names), n) = explicit[d]
<1> DEFINE found == ResolvedInputs(explicit, names)
<1>1. \A m \in DOMAIN found : \E d \in DOMAIN explicit : found[m] = explicit[d]
  BY DEF ResolvedInputs, InputOf, HasInput
<1>2. \E m \in DOMAIN found : InputOf(found, n) = found[m]
  <2> HIDE DEF found
  <2> QED
    BY DEF InputOf, HasInput, found
<1> QED
  BY <1>1, <1>2

LEMMA ResolutionFinds ==
  ASSUME MergeInv, Resolution, phase' = "ownership"
  PROVE  Found'
<1> DEFINE found == ResolvedInputs(request.explicit, {refs[s].name : s \in Occurrences})
<1>1. /\ inputs' = found /\ UNCHANGED request
      /\ \A s \in Occurrences : HasInput(found, refs[s].name)
      /\ \A s \in Occurrences : InputOf(found, refs[s].name).kind = "table"
           => ~ShapeFails(InputOf(found, refs[s].name).table, refs[s].opts)
  BY DEF Resolution, Fail
<1>2. ASSUME NEW s \in Occurrences, InputOf(found, refs[s].name).kind = "table"
      PROVE  /\ IsTable(InputOf(found, refs[s].name).table, Cells)
             /\ refs[s].opts.firstobs >= 1
  <2>1. PICK d \in DOMAIN request.explicit : InputOf(found, refs[s].name) = request.explicit[d]
    BY <1>1, FoundAreGiven
  <2>2. IsTable(InputOf(found, refs[s].name).table, Cells)
    BY <1>2, <2>1, RequestFacts DEF MergeInv
  <2>3. ~(refs[s].opts.firstobs < 1) /\ refs[s].opts.firstobs \in Int
    BY <1>1, <1>2, RequestFacts DEF ShapeFails, MergeInv
  <2> QED
    BY <2>2, <2>3
<1> HIDE DEF found
<1>3. Occurrences' = Occurrences /\ refs' = refs /\ \A s \in Occurrences : Input(s)' = InputOf(found, refs[s].name)
  BY <1>1 DEF Occurrences, refs, Input
<1> QED
  BY <1>2, <1>3 DEF Found

-----------------------------------------------------------------------------
(* The rows and keys of the shaped sources                                 *)

Sources == request \in Requests /\ TablesInv /\ Len(tables) = Len(refs)
Keyed == [1..Len(by) -> Cells]

LEMMA SourceRows ==
  ASSUME Sources
  PROVE  /\ DOMAIN tables = Occurrences
         /\ \A s \in Occurrences :
              /\ IsTable(tables[s], Cells) /\ \A n \in DOMAIN by : HasColumn(tables[s], by[n])
              /\ Len(RowsOf(s)) \in Nat /\ DOMAIN RowsOf(s) = 1..Len(RowsOf(s))
              /\ \A i \in DOMAIN RowsOf(s) : KeyAt(s, i) \in Keyed /\ KeyAt(s, i) \in AllKeys
<1>1. Occurrences = 1..Len(refs) /\ DOMAIN by = 1..Len(by) /\ Len(by) \in Nat
  BY RequestFacts DEF Sources
<1>2. DOMAIN tables = Occurrences
  BY <1>1, OwnElements DEF Sources, TablesInv
<1>3. ASSUME NEW s \in Occurrences
      PROVE  /\ IsTable(tables[s], Cells) /\ \A n \in DOMAIN by : HasColumn(tables[s], by[n])
             /\ Len(RowsOf(s)) \in Nat /\ DOMAIN RowsOf(s) = 1..Len(RowsOf(s))
             /\ \A i \in DOMAIN RowsOf(s) : KeyAt(s, i) \in Keyed /\ KeyAt(s, i) \in AllKeys
  <2>1. IsTable(tables[s], Cells) /\ \A n \in DOMAIN by : HasColumn(tables[s], by[n])
    BY <1>2 DEF Sources, TablesInv
  <2>2. /\ Len(RowsOf(s)) \in Nat /\ DOMAIN RowsOf(s) = 1..Len(RowsOf(s))
        /\ \A i \in DOMAIN RowsOf(s) : RowsOf(s)[i] \in [Columns(tables[s]) -> Cells]
    BY <2>1, OwnElements DEF IsTable, RowsOf
  <2>3. \A i \in DOMAIN RowsOf(s) : KeyAt(s, i) \in Keyed
    BY <1>1, <2>1, <2>2, RowHasKey DEF KeyAt, Keyed
  <2>4. \A i \in DOMAIN RowsOf(s) : KeyAt(s, i) \in AllKeys
    BY DEF AllKeys
  <2> QED
    BY <2>1, <2>2, <2>3, <2>4
<1> QED
  BY <1>2, <1>3

LEMMA KeysAreFinite ==
  ASSUME Sources
  PROVE  /\ AllKeys \in SUBSET Keyed /\ IsFiniteSet(AllKeys)
         /\ \A k \in AllKeys : \E s \in Occurrences : \E i \in DOMAIN RowsOf(s) : KeyAt(s, i) = k
<1>1. \A k \in AllKeys : \E s \in Occurrences : \E i \in DOMAIN RowsOf(s) : KeyAt(s, i) = k
  BY DEF AllKeys
<1>2. AllKeys \in SUBSET Keyed
  BY <1>1, SourceRows
<1> DEFINE KeysOf(s) == {KeyAt(s, i) : i \in DOMAIN RowsOf(s)}
           All == {KeysOf(s) : s \in Occurrences}
<1>3. ASSUME NEW s \in Occurrences
      PROVE  IsFiniteSet(KeysOf(s))
  <2> DEFINE f == [i \in DOMAIN RowsOf(s) |-> KeyAt(s, i)]
  <2>1. IsFiniteSet(DOMAIN f)
    BY SourceRows, CountOfInterval
  <2>2. KeysOf(s) = {f[i] : i \in DOMAIN f}
    OBVIOUS
  <2> HIDE DEF f
  <2> QED
    BY <2>1, <2>2, ImageIsFinite
<1>4. IsFiniteSet(All)
  <2> DEFINE f == [s \in Occurrences |-> KeysOf(s)]
  <2>1. IsFiniteSet(DOMAIN f)
    BY RequestFacts, CountOfInterval DEF Sources
  <2>2. All = {f[s] : s \in DOMAIN f}
    OBVIOUS
  <2> HIDE DEF f
  <2> QED
    BY <2>1, <2>2, ImageIsFinite
<1>5. AllKeys = UNION All
  BY DEF AllKeys
<1>6. \A T \in All : IsFiniteSet(T)
  BY <1>3
<1> HIDE DEF All
<1>7. IsFiniteSet(AllKeys)
  BY <1>4, <1>5, <1>6, FS_UNION
<1> QED
  BY <1>1, <1>2, <1>7

(* The rows of a source with one key, in row order; the place of a row     *)
(* among them is one more than the number of those before it.              *)
RowsWith(s, k) == {i \in DOMAIN RowsOf(s) : KeyAt(s, i) = k}
PlaceOf(s, i) == Cardinality({j \in RowsWith(s, KeyAt(s, i)) : j < i}) + 1

LEMMA GroupRows ==
  ASSUME Sources, NEW s \in Occurrences, NEW k
  PROVE  LET g == Group(s, k)
         IN  /\ Len(g) \in Nat /\ DOMAIN g = 1..Len(g) /\ (g = <<>> <=> Len(g) = 0)
             /\ \A p \in 1..Len(g) : g[p] \in RowsWith(s, k) /\ PlaceOf(s, g[p]) = p
             /\ \A i \in RowsWith(s, k) : PlaceOf(s, i) \in 1..Len(g) /\ g[PlaceOf(s, i)] = i
             /\ \A i, j \in RowsWith(s, k) : i < j <=> PlaceOf(s, i) < PlaceOf(s, j)
<1> DEFINE I == RowsWith(s, k)
           g == Group(s, k)
<1>1. I \in SUBSET (1..Len(RowsOf(s))) /\ Len(RowsOf(s)) \in Nat
  BY SourceRows DEF RowsWith
<1>2. IsFiniteSet(I) /\ I \subseteq Int
  BY <1>1, CountOfInterval, FS_Subset
<1>3. g = Numbered(I)
  BY DEF Group, RowsWith
<1>4. /\ g \in Seq(I) /\ Len(g) = Cardinality(I) /\ DOMAIN g = 1..Cardinality(I)
      /\ \A p \in DOMAIN g : g[p] \in I /\ Cardinality({j \in I : j < g[p]}) = p - 1
      /\ \A i \in I : LET p == Cardinality({j \in I : j < i}) + 1
                      IN  p \in DOMAIN g /\ g[p] = i
      /\ \A p, q \in DOMAIN g : p < q => g[p] < g[q]
  <2> HIDE DEF I, g
  <2>1. LET L == Numbered(I)
        IN  /\ L \in Seq(I) /\ Len(L) = Cardinality(I) /\ DOMAIN L = 1..Cardinality(I)
            /\ \A p \in DOMAIN L : L[p] \in I /\ Cardinality({j \in I : j < L[p]}) = p - 1
            /\ \A i \in I : LET p == Cardinality({j \in I : j < i}) + 1
                            IN  p \in DOMAIN L /\ L[p] = i
            /\ \A p, q \in DOMAIN L : p < q => L[p] < L[q]
    BY <1>2, NumberedInOrder
  <2> QED
    BY <2>1, <1>3
<1>5. \A i \in I : KeyAt(s, i) = k /\ PlaceOf(s, i) = Cardinality({j \in I : j < i}) + 1
  BY DEF RowsWith, PlaceOf
<1>6. Cardinality(I) \in Nat
  BY <1>2, FS_CardinalityType
<1> HIDE DEF I, g
<1>7. ASSUME NEW p \in 1..Len(g)
      PROVE  g[p] \in I /\ PlaceOf(s, g[p]) = p
  <2>1. p \in DOMAIN g
    BY <1>4, <1>6
  <2>2. g[p] \in I /\ Cardinality({j \in I : j < g[p]}) = p - 1
    BY <1>4, <2>1
  <2>3. PlaceOf(s, g[p]) = Cardinality({j \in I : j < g[p]}) + 1
    BY <1>5, <2>2
  <2> QED
    BY <1>4, <1>6, <2>2, <2>3
<1>8. \A i \in I : PlaceOf(s, i) \in 1..Len(g) /\ g[PlaceOf(s, i)] = i
  BY <1>4, <1>5
<1>9. g = <<>> <=> Len(g) = 0
  BY <1>4
<1>10. ASSUME NEW i \in I, NEW j \in I
       PROVE  i < j <=> PlaceOf(s, i) < PlaceOf(s, j)
  <2>1. /\ PlaceOf(s, i) \in DOMAIN g /\ g[PlaceOf(s, i)] = i
        /\ PlaceOf(s, j) \in DOMAIN g /\ g[PlaceOf(s, j)] = j
        /\ PlaceOf(s, i) \in Int /\ PlaceOf(s, j) \in Int /\ i \in Int /\ j \in Int
    BY <1>2, <1>4, <1>6, <1>8
  <2> QED
    BY <1>4, <2>1
<1> QED
  BY <1>4, <1>6, <1>7, <1>8, <1>9, <1>10 DEF I, g

(* the row a source shows at an offset of a key *)
LEMMA PickedRow ==
  ASSUME Sources, NEW s \in Occurrences, NEW k, NEW o \in Nat
  PROVE  LET i == PickInGroup(s, k, o)
             n == Len(Group(s, k))
         IN  /\ i \in 0..Len(RowsOf(s))
             /\ i = 0 <=> RowsWith(s, k) = {}
             /\ i # 0 => i \in RowsWith(s, k) /\ PlaceOf(s, i) = IF o < n THEN o + 1 ELSE n
<1> DEFINE g == Group(s, k)
           i == PickInGroup(s, k, o)
<1>1. /\ Len(g) \in Nat /\ (g = <<>> <=> Len(g) = 0)
      /\ \A p \in 1..Len(g) : g[p] \in RowsWith(s, k) /\ PlaceOf(s, g[p]) = p
      /\ \A j \in RowsWith(s, k) : PlaceOf(s, j) \in 1..Len(g) /\ g[PlaceOf(s, j)] = j
  BY GroupRows
<1>2. i = IF g = <<>> THEN 0 ELSE g[IF o < Len(g) THEN o + 1 ELSE Len(g)]
  BY DEF PickInGroup
<1>3. \A j \in RowsWith(s, k) : j \in 1..Len(RowsOf(s))
  BY SourceRows DEF RowsWith
<1>4. Len(RowsOf(s)) \in Nat
  BY SourceRows
<1> HIDE DEF g, i
<1>5. CASE g = <<>>
  <2>1. RowsWith(s, k) = {}
    BY <1>1, <1>5
  <2> QED
    BY <1>2, <1>4, <1>5, <2>1 DEF g, i
<1>6. CASE g # <<>>
  <2> DEFINE p == IF o < Len(g) THEN o + 1 ELSE Len(g)
  <2>1. p \in 1..Len(g)
    BY <1>1, <1>6
  <2>2. i = g[p]
    BY <1>2, <1>6
  <2> HIDE DEF p
  <2>3. i \in RowsWith(s, k) /\ PlaceOf(s, i) = p /\ i # 0 /\ i \in 0..Len(RowsOf(s))
    BY <1>1, <1>3, <1>4, <2>1, <2>2
  <2> QED
    BY <2>3 DEF g, i, p
<1> QED
  BY <1>5, <1>6

-----------------------------------------------------------------------------
(* Every step keeps the types                                              *)

LEMMA SourcesStay ==
  ASSUME UNCHANGED <<request, tables>>
  PROVE  /\ refs' = refs /\ by' = by /\ Occurrences' = Occurrences /\ AllKeys' = AllKeys
         /\ \A s : RowsOf(s)' = RowsOf(s)
         /\ TablesInv => TablesInv'
         /\ keys' = keys => (KeysInv => KeysInv')
         /\ plan' = plan /\ keys' = keys => (PlanInv => PlanInv')
<1>1. refs' = refs /\ by' = by /\ Occurrences' = Occurrences /\ \A s : RowsOf(s)' = RowsOf(s)
  BY DEF refs, by, Occurrences, RowsOf
<1>2. AllKeys' = AllKeys
  BY <1>1 DEF AllKeys, KeyAt
<1>3. TablesInv => TablesInv'
  BY <1>1 DEF TablesInv
<1>4. ASSUME keys' = keys, KeysInv
      PROVE  KeysInv'
  BY <1>1, <1>2, <1>4 DEF KeysInv
<1>5. ASSUME plan' = plan, keys' = keys, PlanInv
      PROVE  PlanInv'
  <2>1. \A p : Present(p)' = Present(p)
    BY <1>1, <1>5 DEF Present
  <2> QED
    BY <1>1, <1>2, <1>5, <2>1 DEF PlanInv
<1> QED
  BY <1>1, <1>2, <1>3, <1>4, <1>5

LEMMA FailKeepsTypes ==
  ASSUME MergeInv, phase \in {"resolve", "ownership", "shape", "emit"}, NEW code, code # "none", Fail(code)
  PROVE  MergeInv'
<1>1. /\ phase' = "failed" /\ result'.code = code
      /\ UNCHANGED <<request, tables, keys, plan>>
  BY DEF Fail, NoResult
<1>2. TablesInv' /\ KeysInv' /\ PlanInv' /\ refs' = refs
  BY <1>1, SourcesStay DEF MergeInv
<1> QED
  BY <1>1, <1>2 DEF MergeInv

(* a step that leaves the sources, the keys and the plan alone *)
LEMMA WorkKeepsTypes ==
  ASSUME MergeInv, phase' \in {"ownership", "shape"}, phase \in {"resolve", "ownership", "shape"}, Found',
         UNCHANGED <<request, tables, keys, plan, result>>
  PROVE  MergeInv'
<1>1. TablesInv' /\ KeysInv' /\ PlanInv' /\ refs' = refs
  BY SourcesStay DEF MergeInv
<1> QED
  BY <1>1 DEF MergeInv

LEMMA ShapeKeepsTypes ==
  ASSUME MergeInv, ShapeOccurrence, UNCHANGED phase
  PROVE  MergeInv'
<1> DEFINE s == Len(tables) + 1
           t == Shape(Input(s).table, refs[s].opts)
<1>1. /\ phase = "shape" /\ Len(tables) < Len(refs) /\ Input(s).kind = "table"
      /\ \A n \in DOMAIN by : HasColumn(t, by[n])
      /\ tables' = Append(tables, t)
      /\ UNCHANGED <<request, phase, inputs, keys, plan, result>>
  BY DEF ShapeOccurrence, Fail
<1>2. s \in Occurrences /\ DOMAIN tables = 1..Len(tables) /\ Len(tables) \in Nat
  BY <1>1, RequestFacts, OwnElements DEF MergeInv, TablesInv
<1>3. IsTable(t, Cells)
  <2>1. IsTable(Input(s).table, Cells) /\ refs[s].opts.firstobs >= 1
    BY <1>1, <1>2 DEF MergeInv, Found
  <2>2. refs[s].opts.firstobs \in Int /\ refs[s].opts.obs \in Int
    BY <1>2, RequestFacts DEF MergeInv
  <2>3. refs[s].opts.firstobs \in Nat
    BY <2>1, <2>2
  <2> HIDE DEF s
  <2> QED
    BY <2>1, <2>2, <2>3, ShapedTable
<1>4. refs' = refs /\ by' = by /\ Occurrences' = Occurrences
  BY <1>1 DEF refs, by, Occurrences
<1> HIDE DEF t
<1>5. TablesInv'
  <2>1. /\ tables' \in Seq(ToSet(tables')) /\ Len(tables') = s /\ DOMAIN tables' = 1..s
        /\ tables'[s] = t /\ \A u \in 1..Len(tables) : tables'[u] = tables[u]
    BY <1>1, OneMore DEF MergeInv, TablesInv
  <2>2. Len(tables') <= Len(refs')
    BY <1>1, <1>2, <1>4, <2>1, RequestFacts DEF MergeInv
  <2>3. ASSUME NEW u \in DOMAIN tables'
        PROVE  IsTable(tables'[u], Cells) /\ \A n \in DOMAIN by : HasColumn(tables'[u], by[n])
    <3>1. u = s \/ u \in DOMAIN tables
      BY <1>2, <2>1
    <3> QED
      BY <1>1, <1>2, <1>3, <2>1, <3>1 DEF MergeInv, TablesInv
  <2> QED
    BY <1>4, <2>1, <2>2, <2>3 DEF TablesInv
<1>6. Found'
  BY <1>1, <1>4 DEF MergeInv, Found, Input
<1>7. keys' = <<>> /\ plan' = <<>>
  BY <1>1 DEF MergeInv
<1>8. KeysInv' /\ PlanInv'
  BY <1>7 DEF KeysInv, PlanInv, ToSet
<1> QED
  BY <1>1, <1>5, <1>6, <1>7, <1>8 DEF MergeInv

LEMMA AlignKeepsTypes ==
  ASSUME MergeInv, Align, phase' = "emit"
  PROVE  MergeInv'
<1>1. /\ phase = "shape" /\ Len(tables) = Len(refs)
      /\ keys' = IF by = <<>> THEN <<>> ELSE Listed(AllKeys, KeyOrder)
      /\ UNCHANGED <<request, inputs, tables, plan, result>>
  BY DEF Align, Fail
<1>2. Sources /\ plan = <<>>
  BY <1>1 DEF Sources, MergeInv
<1>3. KeysInv'
  <2> DEFINE L == Listed(AllKeys, KeyOrder)
  <2>1. Orders(KeyOrder, AllKeys)
    BY <1>2, KeysAreFinite, KeySetsAreOrdered, RequestFacts DEF KeyOrder, Keyed, Sources
  <2>2. L \in Seq(AllKeys) /\ \A m, n \in DOMAIN L : m < n => <<L[m], L[n]>> \in KeyOrder
    BY <1>2, <2>1, KeysAreFinite, ListedInOrder
  <2>3. \A m, n \in DOMAIN L : m < n => KeyPrecedes(L[m], L[n])
    BY <2>2 DEF KeyOrder
  <2> HIDE DEF L
  <2>4. AllKeys' = AllKeys /\ by' = by
    BY <1>1, SourcesStay
  <2>5. CASE by = <<>>
    BY <1>1, <2>4, <2>5 DEF KeysInv
  <2>6. CASE by # <<>>
    BY <1>1, <2>2, <2>3, <2>4, <2>6 DEF KeysInv, L
  <2> QED
    BY <2>5, <2>6
<1>4. plan' = <<>>
  BY <1>1, <1>2
<1>5. PlanInv'
  BY <1>4 DEF PlanInv, ToSet
<1>6. TablesInv' /\ refs' = refs
  BY <1>1, SourcesStay DEF MergeInv
<1> QED
  BY <1>1, <1>3, <1>5, <1>6 DEF MergeInv

LEMMA OffsetIsNumber ==
  ASSUME PlanInv, NEW k
  PROVE  /\ Offset(k) \in Nat /\ IsFiniteSet({p \in DOMAIN plan : plan[p].key = k})
         /\ (\E p \in DOMAIN plan : plan[p].key = k) <=> Offset(k) > 0
<1> DEFINE P == {p \in DOMAIN plan : plan[p].key = k}
<1>1. DOMAIN plan = 1..Len(plan) /\ Len(plan) \in Nat
  BY OwnElements DEF PlanInv
<1>2. IsFiniteSet(P)
  BY <1>1, CountOfInterval, FS_Subset
<1>3. Cardinality(P) \in Nat /\ (Cardinality(P) = 0 <=> P = {})
  BY <1>2, FS_CardinalityType, FS_EmptySet
<1> QED
  BY <1>2, <1>3 DEF Offset

(* the first key, and those behind it *)
LEMMA KeysInOrder ==
  ASSUME Sources, KeysInv, keys # <<>>
  PROVE  /\ by # <<>> /\ Head(keys) \in AllKeys /\ Head(keys) \in Keyed /\ Head(keys) \in ToSet(keys)
         /\ ToSet(keys) = {Head(keys)} \cup ToSet(Tail(keys)) /\ ToSet(keys) \subseteq AllKeys
         /\ \A l \in ToSet(Tail(keys)) : KeyPrecedes(Head(keys), l)
         /\ \A l \in ToSet(keys) : ~KeyPrecedes(l, Head(keys))
         /\ Tail(keys) \in Seq(AllKeys)
         /\ \A m, n \in DOMAIN Tail(keys) : m < n => KeyPrecedes(Tail(keys)[m], Tail(keys)[n])
<1>1. /\ Len(keys) \in Nat /\ Len(keys) >= 1 /\ DOMAIN keys = 1..Len(keys)
      /\ Head(keys) = keys[1] /\ keys[1] \in AllKeys
      /\ Tail(keys) \in Seq(AllKeys) /\ DOMAIN Tail(keys) = 1..(Len(keys) - 1)
      /\ \A m \in 1..(Len(keys) - 1) : Tail(keys)[m] = keys[m + 1]
  BY WithoutHead DEF KeysInv
<1>2. \A m, n \in 1..Len(keys) : m < n => KeyPrecedes(keys[m], keys[n])
  BY <1>1 DEF KeysInv
<1>3. ToSet(keys) \subseteq AllKeys /\ Head(keys) \in ToSet(keys)
  BY <1>1 DEF KeysInv, ToSet
<1>4. \A m \in 1..Len(keys) : m = 1 \/ (m - 1 \in 1..(Len(keys) - 1) /\ Tail(keys)[m - 1] = keys[m])
  BY <1>1
<1>5. ToSet(keys) = {Head(keys)} \cup ToSet(Tail(keys))
  <2>1. \A m \in 1..Len(keys) : keys[m] = Head(keys) \/ keys[m] \in ToSet(Tail(keys))
    BY <1>1, <1>4 DEF ToSet
  <2>2. \A m \in 1..(Len(keys) - 1) : Tail(keys)[m] \in ToSet(keys)
    BY <1>1 DEF ToSet
  <2>3. ToSet(keys) = {keys[m] : m \in 1..Len(keys)}
        /\ ToSet(Tail(keys)) = {Tail(keys)[m] : m \in 1..(Len(keys) - 1)}
    BY <1>1 DEF ToSet
  <2> QED
    BY <1>3, <2>1, <2>2, <2>3
<1>6. \A l \in ToSet(Tail(keys)) : KeyPrecedes(Head(keys), l)
  BY <1>1, <1>2 DEF ToSet
<1>7. ASSUME NEW l \in ToSet(keys)
      PROVE  ~KeyPrecedes(l, Head(keys))
  <2>1. l \in Keyed /\ Head(keys) \in Keyed /\ Len(by) \in Nat
    BY <1>3, KeysAreFinite, RequestFacts DEF Sources
  <2>2. l = Head(keys) \/ KeyPrecedes(Head(keys), l)
    BY <1>5, <1>6
  <2> QED
    BY <2>1, <2>2, KeysAreOrdered DEF Keyed
<1>8. \A m, n \in DOMAIN Tail(keys) : m < n => KeyPrecedes(Tail(keys)[m], Tail(keys)[n])
  BY <1>1, <1>2
<1> QED
  BY <1>1, <1>3, <1>5, <1>6, <1>7, <1>8, KeysAreFinite DEF KeysInv

LEMMA GroupRowKeepsTypes ==
  ASSUME MergeInv, EmitGroupRow
  PROVE  MergeInv'
<1> DEFINE k == Head(keys)
           o == Offset(k)
           e == [key |-> k, pick |-> [s \in Occurrences |-> PickInGroup(s, k, o)]]
<1>1. /\ phase = "emit" /\ keys # <<>> /\ plan' = Append(plan, e)
      /\ keys' = Tail(keys) \/ keys' = keys
      /\ UNCHANGED <<request, phase, inputs, tables, result>>
  BY DEF EmitGroupRow
<1>2. Sources
  BY <1>1 DEF Sources, MergeInv
<1>3. /\ by # <<>> /\ k \in AllKeys /\ k \in ToSet(keys) /\ ToSet(keys') \subseteq ToSet(keys)
      /\ \A l \in ToSet(keys) : ~KeyPrecedes(l, k)
  BY <1>1, <1>2, KeysInOrder DEF MergeInv
<1>4. /\ refs' = refs /\ by' = by /\ Occurrences' = Occurrences /\ AllKeys' = AllKeys
      /\ (\A s : RowsOf(s)' = RowsOf(s)) /\ TablesInv'
  BY <1>1, SourcesStay DEF MergeInv
<1>5. KeysInv'
  BY <1>1, <1>2, <1>3, <1>4, KeysInOrder DEF MergeInv, KeysInv
<1>6. /\ plan' \in Seq(ToSet(plan')) /\ Len(plan') = Len(plan) + 1 /\ Len(plan) \in Nat
      /\ DOMAIN plan' = 1..(Len(plan) + 1) /\ DOMAIN plan = 1..Len(plan)
      /\ plan'[Len(plan) + 1] = e /\ \A p \in 1..Len(plan) : plan'[p] = plan[p]
  BY <1>1, OneMore DEF MergeInv, PlanInv
<1> DEFINE n == Len(plan) + 1
<1>7. /\ \A s \in Occurrences : e.pick[s] \in 0..Len(RowsOf(s))
      /\ \E s \in Occurrences : e.pick[s] # 0
  <2>1. o \in Nat
    BY OffsetIsNumber DEF MergeInv
  <2>2. \A s \in Occurrences : e.pick[s] = PickInGroup(s, k, o)
    OBVIOUS
  <2>3. PICK s \in Occurrences : RowsWith(s, k) # {}
    BY <1>2, <1>3, KeysAreFinite DEF RowsWith
  <2> HIDE DEF e, o
  <2> QED
    BY <1>2, <2>1, <2>2, <2>3, PickedRow
<1>8. e.key = k
  OBVIOUS
<1> HIDE DEF e, k, o
<1>9. ASSUME NEW p \in DOMAIN plan'
      PROVE  /\ \A s \in Occurrences : plan'[p].pick[s] \in 0..Len(RowsOf(s))
             /\ Present(p)' # {}
             /\ plan'[p].key \in AllKeys
             /\ p > 1 => ~KeyPrecedes(plan'[p].key, plan'[p - 1].key)
  <2>1. CASE p \in 1..Len(plan)
    <3>1. plan'[p] = plan[p] /\ (p > 1 => plan'[p - 1] = plan[p - 1])
      BY <1>6, <2>1
    <3>2. Present(p)' = Present(p)
      BY <1>4, <3>1 DEF Present
    <3> QED
      BY <1>3, <1>6, <2>1, <3>1, <3>2 DEF MergeInv, PlanInv
  <2>2. CASE p = n
    <3>1. plan'[p] = e /\ Present(p)' # {}
      BY <1>4, <1>6, <1>7, <2>2 DEF Present
    <3>2. p > 1 => plan # <<>> /\ plan'[p - 1] = plan[Len(plan)]
      BY <1>6, <2>2
    <3>3. p > 1 => ~KeyPrecedes(k, plan[Len(plan)].key)
      BY <1>3, <3>2 DEF MergeInv, PlanInv
    <3> QED
      BY <1>3, <1>7, <1>8, <3>1, <3>2, <3>3
  <2> QED
    BY <1>6, <2>1, <2>2
<1>10. PlanInv'
  <2>1. \A l \in ToSet(keys') : ~KeyPrecedes(l, plan'[Len(plan')].key)
    BY <1>3, <1>6, <1>8
  <2> QED
    BY <1>3, <1>4, <1>6, <1>9, <2>1 DEF PlanInv
<1> QED
  BY <1>1, <1>4, <1>5, <1>10 DEF MergeInv

(* row numbers are keys in order *)
LEMMA OrdinalsInOrder ==
  ASSUME NEW m \in Int, NEW n \in Int, m < n
  PROVE  KeyPrecedes(<<m>>, <<n>>) /\ ~KeyPrecedes(<<n>>, <<m>>)
<1> DEFINE k == <<m>>
           l == <<n>>
<1>1. k \in [1..1 -> Cells] /\ l \in [1..1 -> Cells] /\ DOMAIN k = 1..1 /\ k[1] = m /\ l[1] = n
  BY DEF Cells
<1>2. 1 \in 1..1 /\ \A h \in 1..(1 - 1) : FALSE
  OBVIOUS
<1>3. Precedes(m, n)
  BY NullAssumption DEF Precedes
<1> HIDE DEF k, l
<1>4. KeyPrecedes(k, l)
  BY <1>1, <1>2, <1>3 DEF KeyPrecedes
<1>5. ~KeyPrecedes(l, k)
  BY <1>1, <1>4, KeysAreOrdered
<1> QED
  BY <1>4, <1>5 DEF k, l

LEMMA OrdinalRowKeepsTypes ==
  ASSUME MergeInv, EmitOrdinalRow
  PROVE  MergeInv'
<1> DEFINE n == Len(plan) + 1
           e == [key  |-> <<n>>,
                 pick |-> [s \in Occurrences |-> IF n <= Len(RowsOf(s)) THEN n ELSE 0]]
<1>1. /\ phase = "emit" /\ by = <<>> /\ Len(plan) < Max({Len(RowsOf(s)) : s \in Occurrences})
      /\ plan' = Append(plan, e)
      /\ UNCHANGED <<request, phase, inputs, tables, keys, result>>
  BY DEF EmitOrdinalRow, MoreOrdinals
<1>2. Sources
  BY <1>1 DEF Sources, MergeInv
<1>3. /\ refs' = refs /\ by' = by /\ Occurrences' = Occurrences /\ AllKeys' = AllKeys
      /\ (\A s : RowsOf(s)' = RowsOf(s)) /\ TablesInv' /\ KeysInv'
  BY <1>1, SourcesStay DEF MergeInv
<1>4. /\ plan' \in Seq(ToSet(plan')) /\ Len(plan') = n /\ Len(plan) \in Nat
      /\ DOMAIN plan' = 1..n /\ DOMAIN plan = 1..Len(plan)
      /\ plan'[n] = e /\ \A p \in 1..Len(plan) : plan'[p] = plan[p]
  BY <1>1, OneMore DEF MergeInv, PlanInv
<1>5. PICK s \in Occurrences : n <= Len(RowsOf(s))
  <2> DEFINE f == [s \in Occurrences |-> Len(RowsOf(s))]
             S == {f[s] : s \in DOMAIN f}
  <2>1. IsFiniteSet(S) /\ S # {} /\ S \subseteq Nat
    <3>1. IsFiniteSet(DOMAIN f) /\ 1 \in DOMAIN f
      BY <1>2, RequestFacts, CountOfInterval DEF Sources
    <3>2. \A s \in DOMAIN f : f[s] \in Nat
      BY <1>2, SourceRows
    <3> HIDE DEF f
    <3> QED
      BY <3>1, <3>2, ImageIsFinite
  <2>2. S = {Len(RowsOf(s)) : s \in Occurrences}
    OBVIOUS
  <2>3. Max(S) \in S
    BY <2>1, GreatestNumber DEF Max
  <2> QED
    BY <1>1, <1>2, <1>4, <2>2, <2>3, SourceRows
<1>6. /\ \A u \in Occurrences : e.pick[u] \in 0..Len(RowsOf(u))
      /\ e.pick[s] # 0 /\ e.key = <<n>>
  BY <1>2, <1>4, <1>5, SourceRows
<1> HIDE DEF e
<1>7. ASSUME NEW p \in DOMAIN plan'
      PROVE  /\ \A u \in Occurrences : plan'[p].pick[u] \in 0..Len(RowsOf(u))
             /\ Present(p)' # {}
             /\ plan'[p].key = <<p>>
             /\ p > 1 => ~KeyPrecedes(plan'[p].key, plan'[p - 1].key)
  <2>1. CASE p \in 1..Len(plan)
    <3>1. plan'[p] = plan[p] /\ (p > 1 => plan'[p - 1] = plan[p - 1])
      BY <1>4, <2>1
    <3>2. Present(p)' = Present(p)
      BY <1>3, <3>1 DEF Present
    <3> QED
      BY <1>1, <1>4, <2>1, <3>1, <3>2 DEF MergeInv, PlanInv
  <2>2. CASE p = n
    <3>1. plan'[p] = e /\ Present(p)' # {}
      BY <1>3, <1>4, <1>6, <2>2 DEF Present
    <3>2. ASSUME p > 1
          PROVE  plan'[p - 1].key = <<p - 1>>
      <4>1. p - 1 \in 1..Len(plan)
        BY <1>4, <2>2, <3>2
      <4>2. plan[p - 1].key = <<p - 1>>
        BY <1>1, <1>4, <4>1 DEF MergeInv, PlanInv
      <4> QED
        BY <1>4, <4>1, <4>2
    <3>3. p > 1 => ~KeyPrecedes(<<p>>, <<p - 1>>)
      BY <1>4, <2>2, OrdinalsInOrder
    <3> QED
      BY <1>6, <2>2, <3>1, <3>2, <3>3
  <2> QED
    BY <1>4, <2>1, <2>2
<1>8. keys' = <<>>
  BY <1>1 DEF MergeInv, KeysInv
<1>9. PlanInv'
  BY <1>1, <1>3, <1>4, <1>7, <1>8 DEF PlanInv, ToSet
<1> QED
  BY <1>1, <1>3, <1>9 DEF MergeInv

LEMMA RenderKeepsTypes ==
  ASSUME MergeInv, Render
  PROVE  MergeInv'
<1>1. CASE phase' = "failed"
  <2>1. phase = "emit" /\ Fail("PREPARATION_PROVENANCE_CONFLICT")
    BY <1>1 DEF Render
  <2> QED
    BY <2>1, FailKeepsTypes
<1>2. CASE phase' # "failed"
  <2>1. /\ phase = "emit" /\ phase' = "done" /\ result'.code = "ok"
        /\ UNCHANGED <<request, inputs, tables, keys, plan>>
    BY <1>2 DEF Render, Fail
  <2>2. TablesInv' /\ KeysInv' /\ PlanInv' /\ refs' = refs
    BY <2>1, SourcesStay DEF MergeInv
  <2> QED
    BY <2>1, <2>2 DEF MergeInv
<1> QED
  BY <1>1, <1>2

LEMMA MergeKeepsTypes == Spec => []MergeInv
<1>1. Init => MergeInv
  <2> SUFFICES ASSUME Init PROVE MergeInv
    OBVIOUS
  <2>1. /\ request \in Requests /\ phase = "resolve" /\ result.code = "none"
        /\ tables = <<>> /\ keys = <<>> /\ plan = <<>>
    BY DEF Init, NoResult
  <2>2. Len(refs) \in Nat
    BY <2>1, RequestFacts
  <2>3. TablesInv /\ KeysInv /\ PlanInv
    BY <2>1, <2>2 DEF TablesInv, KeysInv, PlanInv, ToSet
  <2> QED
    BY <2>1, <2>3 DEF MergeInv
<1>2. MergeInv /\ [Next]_vars => MergeInv'
  <2> SUFFICES ASSUME MergeInv, [Next]_vars PROVE MergeInv'
    OBVIOUS
  <2>1. CASE Resolution
    <3>1. CASE phase' = "ownership"
      <4>1. phase = "resolve" /\ UNCHANGED <<request, tables, keys, plan, result>>
        BY <2>1, <3>1 DEF Resolution, Fail
      <4> QED
        BY <2>1, <3>1, <4>1, ResolutionFinds, WorkKeepsTypes
    <3>2. CASE phase' # "ownership"
      <4>1. phase = "resolve" /\ \E code : code # "none" /\ Fail(code)
        BY <2>1, <3>2 DEF Resolution
      <4> QED
        BY <4>1, FailKeepsTypes
    <3> QED
      BY <3>1, <3>2
  <2>2. CASE Ownership
    <3>1. CASE phase' = "shape"
      <4>1. phase = "ownership" /\ UNCHANGED <<request, inputs, tables, keys, plan, result>>
        BY <2>2, <3>1 DEF Ownership, Fail
      <4>2. Found'
        BY <4>1 DEF MergeInv, Found, Input, refs, Occurrences
      <4> QED
        BY <3>1, <4>1, <4>2, WorkKeepsTypes
    <3>2. CASE phase' # "shape"
      <4>1. phase = "ownership" /\ Fail("MERGE_DUPLICATE_COLUMN")
        BY <2>2, <3>2 DEF Ownership
      <4> QED
        BY <4>1, FailKeepsTypes
    <3> QED
      BY <3>1, <3>2
  <2>3. CASE ShapeOccurrence
    <3>1. CASE phase' = phase
      BY <2>3, <3>1, ShapeKeepsTypes
    <3>2. CASE phase' # phase
      <4>1. phase = "shape" /\ \E code : code # "none" /\ Fail(code)
        BY <2>3, <3>2 DEF ShapeOccurrence
      <4> QED
        BY <4>1, FailKeepsTypes
    <3> QED
      BY <3>1, <3>2
  <2>4. CASE Align
    <3>1. CASE phase' = "emit"
      BY <2>4, <3>1, AlignKeepsTypes
    <3>2. CASE phase' # "emit"
      <4>1. phase = "shape" /\ Fail("BY_PRECONDITION_FAILED")
        BY <2>4, <3>2 DEF Align
      <4> QED
        BY <4>1, FailKeepsTypes
    <3> QED
      BY <3>1, <3>2
  <2>5. CASE EmitGroupRow
    BY <2>5, GroupRowKeepsTypes
  <2>6. CASE EmitOrdinalRow
    BY <2>6, OrdinalRowKeepsTypes
  <2>7. CASE Render
    BY <2>7, RenderKeepsTypes
  <2>8. CASE UNCHANGED vars
    <3>1. UNCHANGED <<request, phase, inputs, tables, keys, plan, result>>
      BY <2>8 DEF vars
    <3>2. TablesInv' /\ KeysInv' /\ PlanInv' /\ refs' = refs /\ Occurrences' = Occurrences
      BY <3>1, SourcesStay DEF MergeInv
    <3>3. Found => Found'
      BY <3>1, <3>2 DEF Found, Input
    <3> QED
      BY <3>1, <3>2, <3>3 DEF MergeInv
  <2> QED
    BY <2>1, <2>2, <2>3, <2>4, <2>5, <2>6, <2>7, <2>8 DEF Next, Returned
<1> QED
  BY <1>1, <1>2, PTL DEF Spec

(* For every set of requests: the plan picks rows that exist, its keys are *)
(* in order, every emitted row shows a source, and a call has a result     *)
(* exactly when it has returned.                                           *)
THEOREM PlanPicksRows == Spec => []TypeOK
BY MergeKeepsTypes, MergeInvIsTyped, PTL

-----------------------------------------------------------------------------
(* The plan reads sorted streams                                           *)

Picks(s) == {plan[p].pick[s] : p \in DOMAIN plan} \ {0}

(* Without BY the rows up to the number of emitted rows are read; with BY  *)
(* the rows of all keys that are done, and of the first key as many as     *)
(* there are emitted rows of it.                                           *)
IsRead(s, i) ==
  IF by = <<>> THEN i <= Len(plan)
  ELSE \/ KeyAt(s, i) \notin ToSet(keys)
       \/ keys # <<>> /\ KeyAt(s, i) = Head(keys) /\ PlaceOf(s, i) <= Offset(Head(keys))

OrdinalPick(s, n) == IF n <= Len(RowsOf(s)) THEN n ELSE 0

ReadInv ==
  Aligned =>
    /\ Len(tables) = Len(refs)
    /\ \A s \in Occurrences : Picks(s) = {i \in DOMAIN RowsOf(s) : IsRead(s, i)}
    /\ by = <<>> /\ plan # <<>> =>
         \A s \in Occurrences : plan[Len(plan)].pick[s] = OrdinalPick(s, Len(plan))
    /\ by # <<>> /\ plan # <<>> =>
         LET k == plan[Len(plan)].key
         IN  \A s \in Occurrences : plan[Len(plan)].pick[s] = PickInGroup(s, k, Offset(k) - 1)
    /\ \A k \in AllKeys \ ToSet(keys), l \in ToSet(keys) : KeyPrecedes(k, l)
    /\ keys # <<>> =>
         /\ Offset(Head(keys)) < GroupLength(Head(keys))
         /\ Offset(Head(keys)) > 0 => plan # <<>> /\ plan[Len(plan)].key = Head(keys)
         /\ \A l \in ToSet(Tail(keys)), p \in DOMAIN plan : plan[p].key # l

(* the stream of a source: its rows in BY order, or as they are *)
RowInStream(s, p) == IF by = <<>> THEN p ELSE RowAt(tables[s], by, p)
KeyInStream(s, p) == IF by = <<>> THEN <<p>> ELSE KeyAt(s, RowAt(tables[s], by, p))

LEMMA StreamRows ==
  ASSUME Sources, NEW s \in Occurrences
  PROVE  /\ DOMAIN Stream(s) = 1..Len(RowsOf(s)) /\ Len(Stream(s)) = Len(RowsOf(s))
         /\ Stream(s) \in Seq(ToSet(Stream(s)))
         /\ \A p \in 1..Len(RowsOf(s)) :
              /\ RowInStream(s, p) \in DOMAIN RowsOf(s)
              /\ Stream(s)[p] = [key |-> KeyInStream(s, p), row |-> RowsOf(s)[RowInStream(s, p)]]
<1> DEFINE t == tables[s]
           u == IF by = <<>> THEN t ELSE SortTable(t, by)
           row(i) == [key |-> IF by = <<>> THEN <<i>> ELSE RowKey(u, by, u.rows[i]), row |-> u.rows[i]]
           n == Len(RowsOf(s))
<1>1. /\ IsTable(t, Cells) /\ n \in Nat /\ DOMAIN t.rows = 1..n /\ Len(by) \in Nat
      /\ \A i \in DOMAIN t.rows : KeyOfRow(t, by, i) \in [1..Len(by) -> Cells]
  BY SourceRows, RequestFacts DEF Sources, RowsOf, KeyAt, KeyOfRow, Keyed
<1>2. Stream(s) = [i \in DOMAIN u.rows |-> row(i)]
  BY DEF Stream
<1>3. CASE by = <<>>
  <2>1. Stream(s) = [i \in 1..n |-> [key |-> <<i>>, row |-> RowsOf(s)[i]]]
    BY <1>1, <1>2, <1>3 DEF RowsOf
  <2> DEFINE S == Stream(s)
  <2> HIDE DEF S
  <2>2. DOMAIN S = 1..n /\ \A p \in 1..n : S[p] = [key |-> <<p>>, row |-> RowsOf(s)[p]]
    BY <2>1 DEF S
  <2>3. Len(S) = n /\ S \in Seq(ToSet(S))
    <3>1. S = [i \in 1..n |-> S[i]] /\ \A i \in 1..n : S[i] \in ToSet(S)
      BY <2>1, <2>2 DEF S, ToSet
    <3> QED
      BY <1>1, <3>1
  <2> QED
    BY <1>1, <1>3, <2>2, <2>3 DEF S, RowInStream, KeyInStream, RowsOf
<1>4. CASE by # <<>>
  <2>1. /\ u.cols = t.cols /\ DOMAIN u.rows = DOMAIN t.rows
        /\ \A p \in DOMAIN t.rows : /\ RowAt(t, by, p) \in DOMAIN t.rows
                                    /\ u.rows[p] = t.rows[RowAt(t, by, p)]
    <3>1. u = SortTable(t, by)
      BY <1>4
    <3> HIDE DEF t, u
    <3> QED
      BY <1>1, <3>1, SortedTable
  <2> DEFINE S == Stream(s)
  <2> HIDE DEF u, S
  <2>3. \A r : RowKey(u, by, r) = RowKey(t, by, r)
    BY <2>1, SameColumnsResolve DEF RowKey
  <2>4. /\ DOMAIN S = 1..n /\ S = [i \in 1..n |-> S[i]]
        /\ \A p \in 1..n : S[p] = [key |-> KeyAt(s, RowAt(t, by, p)), row |-> RowsOf(s)[RowAt(t, by, p)]]
    BY <1>1, <1>2, <1>4, <2>1, <2>3 DEF S, RowsOf, KeyAt
  <2>5. Len(S) = n /\ S \in Seq(ToSet(S))
    <3>1. \A i \in 1..n : S[i] \in ToSet(S)
      BY <2>4 DEF ToSet
    <3> QED
      BY <1>1, <2>4, <3>1
  <2> QED
    BY <1>1, <1>4, <2>1, <2>4, <2>5 DEF S, RowInStream, KeyInStream, RowsOf
<1> QED
  BY <1>3, <1>4

(* no row of a stream comes before an earlier one *)
LEMMA StreamInOrder ==
  ASSUME Sources, NEW s \in Occurrences
  PROVE  Merge!Sorted(Stream(s))
<1>1. /\ DOMAIN Stream(s) = 1..Len(RowsOf(s)) /\ Len(RowsOf(s)) \in Nat
      /\ \A p \in 1..Len(RowsOf(s)) : Stream(s)[p].key = KeyInStream(s, p)
  <2>1. /\ DOMAIN Stream(s) = 1..Len(RowsOf(s)) /\ Len(RowsOf(s)) \in Nat
        /\ \A p \in 1..Len(RowsOf(s)) :
             Stream(s)[p] = [key |-> KeyInStream(s, p), row |-> RowsOf(s)[RowInStream(s, p)]]
    BY StreamRows, SourceRows
  <2>2. \A p \in 1..Len(RowsOf(s)) : Stream(s)[p].key = KeyInStream(s, p)
    BY <2>1
  <2> QED
    BY <2>1, <2>2
<1>2. ASSUME NEW p \in 1..Len(RowsOf(s)), NEW q \in 1..Len(RowsOf(s)), p < q
      PROVE  ~KeyPrecedes(KeyInStream(s, q), KeyInStream(s, p))
  <2>1. CASE by = <<>>
    BY <1>1, <1>2, <2>1, OrdinalsInOrder DEF KeyInStream
  <2>2. CASE by # <<>>
    <3>1. /\ IsTable(tables[s], Cells) /\ DOMAIN tables[s].rows = 1..Len(RowsOf(s)) /\ Len(by) \in Nat
          /\ \A i \in DOMAIN tables[s].rows : KeyOfRow(tables[s], by, i) \in [1..Len(by) -> Cells]
      BY SourceRows, RequestFacts DEF Sources, RowsOf, KeyAt, KeyOfRow, Keyed
    <3>2. ~KeyPrecedes(KeyOfRow(tables[s], by, RowAt(tables[s], by, q)),
                       KeyOfRow(tables[s], by, RowAt(tables[s], by, p)))
      BY <1>2, <3>1, SortedTable
    <3> QED
      BY <2>2, <3>2 DEF KeyInStream, KeyAt, KeyOfRow, RowsOf
  <2> QED
    BY <2>1, <2>2
<1> QED
  BY <1>1, <1>2 DEF Merge!Sorted

-----------------------------------------------------------------------------
(* How far the streams are read                                            *)

LEMMA GreatestOfSources ==
  ASSUME request \in Requests, NEW f, DOMAIN f = Occurrences, \A s \in Occurrences : f[s] \in Nat
  PROVE  LET m == Max({f[s] : s \in Occurrences})
         IN  m \in Nat /\ (\A s \in Occurrences : f[s] <= m) /\ \E s \in Occurrences : f[s] = m
<1> DEFINE S == {f[s] : s \in Occurrences}
<1>1. IsFiniteSet(Occurrences) /\ 1 \in Occurrences
  BY RequestFacts, CountOfInterval
<1>2. IsFiniteSet(S)
  BY <1>1, ImageIsFinite
<1>3. S \subseteq Nat /\ S # {}
  BY <1>1
<1> HIDE DEF S
<1>4. Max(S) \in S /\ \A n \in S : n <= Max(S)
  BY <1>2, <1>3, GreatestNumber DEF Max
<1> QED
  BY <1>3, <1>4 DEF S

LEMMA LongestGroup ==
  ASSUME Sources, NEW k
  PROVE  /\ GroupLength(k) \in Nat
         /\ \A s \in Occurrences : Len(Group(s, k)) \in Nat /\ Len(Group(s, k)) <= GroupLength(k)
         /\ \E s \in Occurrences : Len(Group(s, k)) = GroupLength(k)
<1> DEFINE f == [s \in Occurrences |-> Len(Group(s, k))]
<1>1. DOMAIN f = Occurrences /\ \A s \in Occurrences : f[s] \in Nat /\ f[s] = Len(Group(s, k))
  BY GroupRows
<1>2. {f[s] : s \in Occurrences} = {Len(Group(s, k)) : s \in Occurrences}
  OBVIOUS
<1> HIDE DEF f
<1>3. LET m == Max({f[s] : s \in Occurrences})
      IN  m \in Nat /\ (\A s \in Occurrences : f[s] <= m) /\ \E s \in Occurrences : f[s] = m
  BY <1>1, GreatestOfSources DEF Sources
<1> QED
  BY <1>1, <1>2, <1>3 DEF GroupLength

LEMMA LongestSource ==
  ASSUME Sources
  PROVE  LET m == Max({Len(RowsOf(s)) : s \in Occurrences})
         IN  /\ m \in Nat /\ \A s \in Occurrences : Len(RowsOf(s)) \in Nat /\ Len(RowsOf(s)) <= m
             /\ \E s \in Occurrences : Len(RowsOf(s)) = m
<1> DEFINE f == [s \in Occurrences |-> Len(RowsOf(s))]
<1>1. DOMAIN f = Occurrences /\ \A s \in Occurrences : f[s] \in Nat /\ f[s] = Len(RowsOf(s))
  BY SourceRows
<1>2. {f[s] : s \in Occurrences} = {Len(RowsOf(s)) : s \in Occurrences}
  OBVIOUS
<1> HIDE DEF f
<1>3. LET m == Max({f[s] : s \in Occurrences})
      IN  m \in Nat /\ (\A s \in Occurrences : f[s] <= m) /\ \E s \in Occurrences : f[s] = m
  BY <1>1, GreatestOfSources DEF Sources
<1> QED
  BY <1>1, <1>2, <1>3

(* as many rows are read as were picked, and never more than there are *)
LEMMA RowsAreCounted ==
  ASSUME Sources, NEW s \in Occurrences, Picks(s) \in SUBSET DOMAIN RowsOf(s)
  PROVE  /\ IsFiniteSet(Picks(s)) /\ RowsRead(s) = Cardinality(Picks(s))
         /\ RowsRead(s) \in 0..Len(RowsOf(s)) /\ RowsRead(s) \in Nat /\ Len(RowsOf(s)) \in Nat
         /\ RowsRead(s) = Len(RowsOf(s)) <=> Picks(s) = DOMAIN RowsOf(s)
<1> DEFINE D == DOMAIN RowsOf(s)
<1>1. D = 1..Len(RowsOf(s)) /\ Len(RowsOf(s)) \in Nat
  BY SourceRows
<1>2. IsFiniteSet(D) /\ Cardinality(D) = Len(RowsOf(s))
  BY <1>1, CountOfInterval
<1>3. RowsRead(s) = Cardinality(Picks(s))
  BY DEF RowsRead, Picks
<1>4. /\ IsFiniteSet(Picks(s)) /\ Cardinality(Picks(s)) <= Cardinality(D)
      /\ Cardinality(Picks(s)) = Cardinality(D) => Picks(s) = D
  BY <1>2, FS_Subset
<1>5. Cardinality(Picks(s)) \in Nat
  BY <1>4, FS_CardinalityType
<1> QED
  BY <1>1, <1>2, <1>3, <1>4, <1>5

LEMMA RestOfStream ==
  ASSUME Sources, NEW s \in Occurrences, Picks(s) \in SUBSET DOMAIN RowsOf(s)
  PROVE  /\ Unread(s) = <<>> <=> RowsRead(s) = Len(RowsOf(s))
         /\ RowsRead(s) < Len(RowsOf(s)) =>
              /\ Unread(s) # <<>> /\ Head(Unread(s)) = Stream(s)[RowsRead(s) + 1]
              /\ Tail(Unread(s)) = SubSeq(Stream(s), (RowsRead(s) + 1) + 1, Len(Stream(s)))
<1>1. RowsRead(s) \in 0..Len(RowsOf(s)) /\ RowsRead(s) \in Nat /\ Len(RowsOf(s)) \in Nat
  BY RowsAreCounted
<1>2. Stream(s) \in Seq(ToSet(Stream(s))) /\ Len(Stream(s)) = Len(RowsOf(s))
  BY StreamRows
<1> DEFINE all == Stream(s)
           r == RowsRead(s)
           u == SubSeq(all, r + 1, Len(all))
<1>3. Unread(s) = u
  BY DEF Unread
<1> HIDE DEF all, r
<1>4. r \in 0..Len(all) /\ Len(all) = Len(RowsOf(s))
  BY <1>1, <1>2 DEF all, r
<1>5. /\ (u = <<>> <=> r = Len(all))
      /\ r < Len(all) => Head(u) = all[r + 1] /\ Tail(u) = SubSeq(all, (r + 1) + 1, Len(all))
  <2>1. all \in Seq(ToSet(all))
    BY <1>2 DEF all
  <2> QED
    BY <1>4, <2>1, RestOfSequence
<1> HIDE DEF u
<1>6. r < Len(all) => u # <<>>
  BY <1>1, <1>4, <1>5 DEF r
<1> QED
  BY <1>3, <1>4, <1>5, <1>6 DEF all, r

(* What is next in the stream of a source with BY: a row that comes after  *)
(* exactly the rows that were read, and never after a row that was not.    *)
LEMMA TableFacts ==
  ASSUME Sources, NEW s \in Occurrences
  PROVE  LET t == tables[s]
         IN  /\ IsTable(t, Cells) /\ Len(by) \in Nat /\ t.rows = RowsOf(s)
             /\ \A i \in DOMAIN t.rows : KeyOfRow(t, by, i) = KeyAt(s, i)
             /\ \A i \in DOMAIN t.rows : KeyOfRow(t, by, i) \in [1..Len(by) -> Cells]
BY SourceRows, RequestFacts DEF Sources, RowsOf, KeyAt, KeyOfRow, Keyed

LEMMA NextIsThere ==
  ASSUME Sources, NEW s \in Occurrences, Picks(s) \in SUBSET DOMAIN RowsOf(s),
         RowsRead(s) < Len(RowsOf(s))
  PROVE  LET i == RowAt(tables[s], by, RowsRead(s) + 1)
         IN  /\ i \in DOMAIN RowsOf(s)
             /\ \E j \in DOMAIN RowsOf(s) \ Picks(s) :
                  KeyAt(s, j) = KeyAt(s, i) \/ KeyPrecedes(KeyAt(s, j), KeyAt(s, i))
<1> DEFINE t == tables[s]
           p == RowsRead(s) + 1
           i == RowAt(t, by, p)
           B == RowsBefore(t, by, i)
<1>1. /\ IsTable(t, Cells) /\ Len(by) \in Nat /\ t.rows = RowsOf(s)
      /\ \A j \in DOMAIN t.rows : KeyOfRow(t, by, j) = KeyAt(s, j)
      /\ \A j \in DOMAIN t.rows : KeyOfRow(t, by, j) \in [1..Len(by) -> Cells]
  BY TableFacts
<1>2. /\ IsFiniteSet(Picks(s)) /\ RowsRead(s) = Cardinality(Picks(s)) /\ RowsRead(s) \in Nat
      /\ Len(RowsOf(s)) \in Nat /\ DOMAIN RowsOf(s) = 1..Len(RowsOf(s))
  BY RowsAreCounted, SourceRows
<1>3. p \in DOMAIN t.rows
  BY <1>1, <1>2
<1>4. i \in DOMAIN t.rows /\ Cardinality(B) = RowsRead(s)
  <2>1. i \in DOMAIN t.rows /\ Cardinality(B) = p - 1
    <3> HIDE DEF t, p
    <3> QED
      BY <1>1, <1>3, SortedTable
  <2> QED
    BY <1>2, <2>1
<1> HIDE DEF t, p, i
<1>5. i \in Int /\ i \notin B /\ B \cup {i} \in SUBSET DOMAIN t.rows
  <2>1. i \in Int
    BY <1>1, <1>2, <1>4
  <2>2. ~KeyPrecedes(KeyOfRow(t, by, i), KeyOfRow(t, by, i))
    BY <1>1, <1>4, KeysAreOrdered
  <2> QED
    BY <1>4, <2>1, <2>2 DEF RowsBefore
<1>6. IsFiniteSet(B) /\ IsFiniteSet(B \cup {i}) /\ Cardinality(B \cup {i}) = RowsRead(s) + 1
  <2>1. IsFiniteSet(DOMAIN t.rows)
    BY <1>1, <1>2, CountOfInterval
  <2>2. IsFiniteSet(B)
    BY <1>5, <2>1, FS_Subset
  <2> QED
    BY <1>4, <1>5, <2>2, FS_AddElement
<1>7. PICK j \in B \cup {i} : j \notin Picks(s)
  <2> SUFFICES ASSUME B \cup {i} \in SUBSET Picks(s) PROVE FALSE
    OBVIOUS
  <2>1. Cardinality(B \cup {i}) <= Cardinality(Picks(s))
    BY <1>2, FS_Subset
  <2> QED
    BY <1>2, <1>6, <2>1
<1>8. KeyOfRow(t, by, j) = KeyOfRow(t, by, i) \/ KeyPrecedes(KeyOfRow(t, by, j), KeyOfRow(t, by, i))
  BY <1>7 DEF RowsBefore
<1> QED
  BY <1>1, <1>4, <1>5, <1>7, <1>8 DEF t, p, i

LEMMA NextFollowsWhatIsRead ==
  ASSUME Sources, NEW s \in Occurrences, Picks(s) \in SUBSET DOMAIN RowsOf(s),
         NEW i \in DOMAIN RowsOf(s), RowsBefore(tables[s], by, i) = Picks(s)
  PROVE  RowsRead(s) < Len(RowsOf(s)) /\ RowAt(tables[s], by, RowsRead(s) + 1) = i
<1> DEFINE t == tables[s]
<1>1. /\ IsTable(t, Cells) /\ Len(by) \in Nat /\ t.rows = RowsOf(s)
      /\ \A j \in DOMAIN t.rows : KeyOfRow(t, by, j) \in [1..Len(by) -> Cells]
  BY TableFacts
<1>2. RowsRead(s) = Cardinality(Picks(s)) /\ RowsRead(s) \in Nat /\ DOMAIN RowsOf(s) = 1..Len(RowsOf(s))
  BY RowsAreCounted, SourceRows
<1>3. LET p == Cardinality(RowsBefore(t, by, i)) + 1
      IN  p \in DOMAIN t.rows /\ RowAt(t, by, p) = i
  <2> HIDE DEF t
  <2>1. i \in DOMAIN t.rows
    BY <1>1
  <2> QED
    BY <1>1, <2>1, SortedTable
<1> QED
  BY <1>1, <1>2, <1>3

-----------------------------------------------------------------------------
(* The row a source adds to the group of the first key                     *)

LEMMA ReadRows ==
  ASSUME Sources, ReadInv, Aligned, NEW s \in Occurrences
  PROVE  Picks(s) = {i \in DOMAIN RowsOf(s) : IsRead(s, i)} /\ Picks(s) \in SUBSET DOMAIN RowsOf(s)
BY DEF ReadInv

LEMMA PlaceIsPositive ==
  ASSUME Sources, NEW s \in Occurrences, NEW i \in DOMAIN RowsOf(s)
  PROVE  PlaceOf(s, i) \in Nat /\ PlaceOf(s, i) >= 1 /\ PlaceOf(s, i) <= Len(Group(s, KeyAt(s, i)))
<1>1. i \in RowsWith(s, KeyAt(s, i)) /\ Len(Group(s, KeyAt(s, i))) \in Nat
  BY GroupRows DEF RowsWith
<1>2. PlaceOf(s, i) \in 1..Len(Group(s, KeyAt(s, i)))
  BY <1>1, GroupRows
<1> QED
  BY <1>1, <1>2

(* While the group has more rows the source picks the next of its stream.  *)
LEMMA GroupAdvances ==
  ASSUME Sources, PlanInv, KeysInv, ReadInv, Aligned, keys # <<>>, NEW s \in Occurrences,
         Offset(Head(keys)) < Len(Group(s, Head(keys)))
  PROVE  LET i == PickInGroup(s, Head(keys), Offset(Head(keys)))
         IN  /\ i \in RowsWith(s, Head(keys)) /\ i \notin Picks(s) /\ i # 0
             /\ PlaceOf(s, i) = Offset(Head(keys)) + 1
             /\ RowsBefore(tables[s], by, i) = Picks(s)
<1> DEFINE k == Head(keys)
           o == Offset(k)
           i == PickInGroup(s, k, o)
           n == Len(Group(s, k))
<1>1. o \in Nat /\ n \in Nat
  BY OffsetIsNumber, GroupRows
<1>2. i \in RowsWith(s, k) /\ PlaceOf(s, i) = o + 1 /\ i # 0
  <2>1. /\ i = 0 <=> RowsWith(s, k) = {}
        /\ i # 0 => i \in RowsWith(s, k) /\ PlaceOf(s, i) = IF o < n THEN o + 1 ELSE n
    BY <1>1, PickedRow
  <2>2. RowsWith(s, k) # {}
    <3>1. 1 \in 1..n
      BY <1>1
    <3> QED
      BY <3>1, GroupRows
  <2> QED
    BY <2>1, <2>2
<1>3. /\ by # <<>> /\ k \in ToSet(keys) /\ \A l \in ToSet(keys) : ~KeyPrecedes(l, k)
  BY KeysInOrder
<1>4. \A l \in AllKeys \ ToSet(keys) : KeyPrecedes(l, k)
  BY <1>3 DEF ReadInv
<1>5. Picks(s) = {j \in DOMAIN RowsOf(s) : KeyAt(s, j) \notin ToSet(keys) \/ (KeyAt(s, j) = k /\ PlaceOf(s, j) <= o)}
  BY <1>3, ReadRows DEF IsRead
<1>6. i \in DOMAIN RowsOf(s) /\ KeyAt(s, i) = k
  BY <1>2 DEF RowsWith
<1>7. RowsBefore(tables[s], by, i) =
        {j \in DOMAIN RowsOf(s) : KeyPrecedes(KeyAt(s, j), k) \/ (KeyAt(s, j) = k /\ j < i)}
  BY <1>6, TableFacts DEF RowsBefore
<1> HIDE DEF k, o, i
<1>8. ASSUME NEW j \in DOMAIN RowsOf(s), KeyAt(s, j) = k
      PROVE  j < i <=> PlaceOf(s, j) <= o
  <2>1. j \in RowsWith(s, k)
    BY <1>8 DEF RowsWith
  <2>2. j < i <=> PlaceOf(s, j) < PlaceOf(s, i)
    BY <1>2, <2>1, GroupRows
  <2> QED
    BY <1>1, <1>2, <2>2, PlaceIsPositive
<1>9. ASSUME NEW j \in DOMAIN RowsOf(s)
      PROVE  KeyPrecedes(KeyAt(s, j), k) <=> KeyAt(s, j) \notin ToSet(keys)
  BY <1>3, <1>4, SourceRows
<1>10. RowsBefore(tables[s], by, i) = Picks(s)
  BY <1>5, <1>7, <1>8, <1>9
<1>11. i \notin Picks(s)
  BY <1>1, <1>2, <1>3, <1>5, <1>6
<1> QED
  BY <1>2, <1>10, <1>11 DEF k, o, i

(* When it has no more, all its rows with the key are read already, and it *)
(* picks the row it picked before.                                         *)
LEMMA GroupStays ==
  ASSUME Sources, PlanInv, KeysInv, ReadInv, Aligned, keys # <<>>, NEW s \in Occurrences,
         ~(Offset(Head(keys)) < Len(Group(s, Head(keys))))
  PROVE  LET k == Head(keys)
             i == PickInGroup(s, k, Offset(k))
         IN  /\ \A j \in RowsWith(s, k) : j \in Picks(s)
             /\ i = 0 <=> RowsWith(s, k) = {}
             /\ i # 0 => /\ i \in Picks(s)
                         /\ plan # <<>> /\ plan[Len(plan)].key = k /\ plan[Len(plan)].pick[s] = i
             /\ i = 0 /\ plan # <<>> /\ plan[Len(plan)].key = k => plan[Len(plan)].pick[s] = 0
<1> DEFINE k == Head(keys)
           o == Offset(k)
           i == PickInGroup(s, k, o)
           g == Group(s, k)
           last == plan[Len(plan)]
<1>1. o \in Nat /\ Len(g) \in Nat /\ Len(g) <= o
  <2>1. o \in Nat /\ Len(g) \in Nat
    BY OffsetIsNumber, GroupRows
  <2>2. ~(o < Len(g))
    OBVIOUS
  <2> HIDE DEF o, g
  <2> QED
    BY <2>1, <2>2
<1>2. by # <<>>
  BY KeysInOrder
<1>3. ASSUME NEW j \in RowsWith(s, k)
      PROVE  j \in Picks(s)
  <2>1. j \in DOMAIN RowsOf(s) /\ KeyAt(s, j) = k
    BY DEF RowsWith
  <2>2. PlaceOf(s, j) <= o
    BY <1>1, <2>1, PlaceIsPositive
  <2> QED
    BY <1>2, <2>1, <2>2, ReadRows DEF IsRead
<1>4. /\ i = 0 <=> RowsWith(s, k) = {}
      /\ i # 0 => i \in RowsWith(s, k)
  BY <1>1, PickedRow
<1>5. /\ g = <<>> <=> Len(g) = 0
      /\ i = 0 <=> g = <<>>
      /\ i # 0 => i = g[Len(g)]
  <2>1. /\ g = <<>> <=> Len(g) = 0
        /\ \A p \in 1..Len(g) : g[p] \in RowsWith(s, k)
        /\ \A j \in RowsWith(s, k) : PlaceOf(s, j) \in 1..Len(g)
    BY GroupRows
  <2>2. i = IF g = <<>> THEN 0 ELSE g[IF o < Len(g) THEN o + 1 ELSE Len(g)]
    BY DEF PickInGroup
  <2> HIDE DEF g, i, o, k
  <2>3. i = IF g = <<>> THEN 0 ELSE g[Len(g)]
    BY <1>1, <2>2
  <2>4. g = <<>> <=> RowsWith(s, k) = {}
    <3>1. g # <<>> => 1 \in 1..Len(g)
      BY <1>1, <2>1
    <3>2. g = <<>> => 1..Len(g) = {}
      BY <2>1
    <3> QED
      BY <2>1, <3>1, <3>2
  <2> QED
    BY <1>4, <2>1, <2>3, <2>4
<1>6. ASSUME plan # <<>>, last.key = k
      PROVE  last.pick[s] = i
  <2>1. last.pick[s] = PickInGroup(s, k, o - 1)
    BY <1>2, <1>6 DEF ReadInv
  <2>2. PickInGroup(s, k, o - 1) = IF g = <<>> THEN 0 ELSE g[IF o - 1 < Len(g) THEN (o - 1) + 1 ELSE Len(g)]
    BY DEF PickInGroup
  <2> HIDE DEF g, i, o, k, last
  <2>3. (IF o - 1 < Len(g) THEN (o - 1) + 1 ELSE Len(g)) = Len(g)
    BY <1>1
  <2> QED
    BY <1>5, <2>1, <2>2, <2>3
<1>7. ASSUME i # 0
      PROVE  plan # <<>> /\ last.key = k
  <2>1. o > 0
    BY <1>1, <1>5, <1>7
  <2> QED
    BY <2>1 DEF ReadInv
<1> QED
  BY <1>3, <1>4, <1>6, <1>7

(* A step of the merge, source by source: k is the key of the new row.     *)
NextKey(s) == KeyInStream(s, RowsRead(s) + 1)
HasNext(s) == RowsRead(s) < Len(RowsOf(s))
Takes(s, k) == HasNext(s) /\ NextKey(s) = k
(* what a source without a next row of the key shows: what it showed for   *)
(* the key before, or nothing                                              *)
Shown(s, k) == plan # <<>> /\ plan[Len(plan)].key = k /\ plan[Len(plan)].pick[s] # 0

(* No next row of a source comes before the first key, and the source      *)
(* takes a row exactly while its group has one.                            *)
LEMMA GroupReads ==
  ASSUME Sources, PlanInv, KeysInv, ReadInv, Aligned, keys # <<>>, NEW s \in Occurrences
  PROVE  LET k == Head(keys)
             o == Offset(k)
         IN  /\ HasNext(s) => ~KeyPrecedes(NextKey(s), k)
             /\ Takes(s, k) <=> o < Len(Group(s, k))
             /\ Takes(s, k) => PickInGroup(s, k, o) = RowInStream(s, RowsRead(s) + 1)
<1> DEFINE k == Head(keys)
           o == Offset(k)
           i == RowAt(tables[s], by, RowsRead(s) + 1)
<1>1. /\ by # <<>> /\ k \in Keyed /\ \A l \in ToSet(keys) : ~KeyPrecedes(l, k)
      /\ ToSet(keys) = {k} \cup ToSet(Tail(keys)) /\ \A l \in ToSet(Tail(keys)) : KeyPrecedes(k, l)
  BY KeysInOrder
<1>2. Picks(s) \in SUBSET DOMAIN RowsOf(s)
  BY ReadRows
<1>3. NextKey(s) = KeyAt(s, i) /\ RowInStream(s, RowsRead(s) + 1) = i
  BY <1>1 DEF NextKey, KeyInStream, RowInStream
<1>4. Len(by) \in Nat
  BY RequestFacts DEF Sources
<1>5. ASSUME HasNext(s)
      PROVE  /\ ~KeyPrecedes(KeyAt(s, i), k)
             /\ KeyAt(s, i) = k => o < Len(Group(s, k))
  <2>1. PICK j \in DOMAIN RowsOf(s) \ Picks(s) :
          KeyAt(s, j) = KeyAt(s, i) \/ KeyPrecedes(KeyAt(s, j), KeyAt(s, i))
    BY <1>2, <1>5, NextIsThere DEF HasNext
  <2>2. i \in DOMAIN RowsOf(s)
    BY <1>2, <1>5, NextIsThere DEF HasNext
  <2>3. KeyAt(s, j) \in ToSet(keys)
    BY <1>1, <2>1, ReadRows DEF IsRead
  <2>4. KeyAt(s, j) \in Keyed /\ KeyAt(s, i) \in Keyed
    BY <2>1, <2>2, SourceRows
  <2>5. KeyAt(s, j) = k \/ KeyPrecedes(k, KeyAt(s, j))
    BY <1>1, <2>3
  <2> HIDE DEF i, k
  <2>6. KeyAt(s, i) = k \/ KeyPrecedes(k, KeyAt(s, i))
    BY <1>1, <1>4, <2>1, <2>4, <2>5, KeysAreOrdered DEF Keyed
  <2>7. ~KeyPrecedes(KeyAt(s, i), k)
    BY <1>1, <1>4, <2>4, <2>6, KeysAreOrdered DEF Keyed
  <2>8. ASSUME KeyAt(s, i) = k
        PROVE  o < Len(Group(s, k))
    <3>1. KeyAt(s, j) = k
      BY <1>1, <1>4, <2>1, <2>4, <2>5, <2>8, KeysAreOrdered DEF Keyed
    <3>2. j \in RowsWith(s, k) /\ j \notin Picks(s)
      BY <2>1, <3>1 DEF RowsWith
    <3> QED
      BY <3>2, GroupStays DEF k
  <2> QED
    BY <2>7, <2>8
<1>6. ASSUME o < Len(Group(s, k))
      PROVE  HasNext(s) /\ KeyAt(s, i) = k /\ PickInGroup(s, k, o) = i
  <2> DEFINE j == PickInGroup(s, k, o)
  <2>1. j \in RowsWith(s, k) /\ RowsBefore(tables[s], by, j) = Picks(s)
    BY <1>6, GroupAdvances
  <2>2. j \in DOMAIN RowsOf(s) /\ KeyAt(s, j) = k
    BY <2>1 DEF RowsWith
  <2> HIDE DEF j
  <2>3. RowsRead(s) < Len(RowsOf(s)) /\ i = j
    BY <1>2, <2>1, <2>2, NextFollowsWhatIsRead
  <2> QED
    BY <2>2, <2>3 DEF HasNext, j
<1> QED
  BY <1>3, <1>5, <1>6 DEF Takes

LEMMA HeadOfStream ==
  ASSUME Sources, NEW s \in Occurrences, Picks(s) \in SUBSET DOMAIN RowsOf(s)
  PROVE  /\ Unread(s) # <<>> <=> HasNext(s)
         /\ HasNext(s) =>
              /\ RowInStream(s, RowsRead(s) + 1) \in DOMAIN RowsOf(s)
              /\ Head(Unread(s)) = [key |-> NextKey(s), row |-> RowsOf(s)[RowInStream(s, RowsRead(s) + 1)]]
              /\ Tail(Unread(s)) = SubSeq(Stream(s), (RowsRead(s) + 1) + 1, Len(Stream(s)))
<1>1. RowsRead(s) \in 0..Len(RowsOf(s)) /\ RowsRead(s) \in Nat /\ Len(RowsOf(s)) \in Nat
  BY RowsAreCounted
<1>2. RowsRead(s) = Len(RowsOf(s)) <=> ~HasNext(s)
  BY <1>1 DEF HasNext
<1>3. HasNext(s) => RowsRead(s) + 1 \in 1..Len(RowsOf(s))
  BY <1>1 DEF HasNext
<1>4. HasNext(s) => Unread(s) # <<>> /\ Head(Unread(s)) = Stream(s)[RowsRead(s) + 1]
                    /\ Tail(Unread(s)) = SubSeq(Stream(s), (RowsRead(s) + 1) + 1, Len(Stream(s)))
  BY RestOfStream DEF HasNext
<1>5. Unread(s) = <<>> <=> RowsRead(s) = Len(RowsOf(s))
  BY RestOfStream
<1>6. HasNext(s) =>
        /\ RowInStream(s, RowsRead(s) + 1) \in DOMAIN RowsOf(s)
        /\ Stream(s)[RowsRead(s) + 1]
             = [key |-> NextKey(s), row |-> RowsOf(s)[RowInStream(s, RowsRead(s) + 1)]]
  BY <1>3, StreamRows DEF NextKey
<1> QED
  BY <1>2, <1>4, <1>5, <1>6

(* What a new row of the plan does to one source.                          *)
LEMMA SourceStep ==
  ASSUME Sources, UNCHANGED <<request, tables>>,
         plan \in Seq(ToSet(plan)), NEW k, NEW pick, plan' = Append(plan, [key |-> k, pick |-> pick]),
         NEW s \in Occurrences, Picks(s) \in SUBSET DOMAIN RowsOf(s),
         Takes(s, k) => pick[s] = RowInStream(s, RowsRead(s) + 1) /\ pick[s] \notin Picks(s),
         ~Takes(s, k) => pick[s] = IF Shown(s, k) THEN plan[Len(plan)].pick[s] ELSE 0
  PROVE  /\ Unread(s)' = IF Takes(s, k) THEN Tail(Unread(s)) ELSE Unread(s)
         /\ Picks(s)' = Picks(s) \cup ({pick[s]} \ {0})
<1> DEFINE n == Len(plan)
<1>1. /\ Len(plan') = n + 1 /\ n \in Nat /\ DOMAIN plan' = 1..(n + 1) /\ DOMAIN plan = 1..n
      /\ plan'[n + 1] = [key |-> k, pick |-> pick] /\ \A p \in 1..n : plan'[p] = plan[p]
  BY OneMore
<1>2. plan'[n + 1].pick = pick
  BY <1>1
<1>3. Picks(s)' = Picks(s) \cup ({pick[s]} \ {0})
  <2>1. {plan'[p].pick[s] : p \in 1..(n + 1)} = {plan[p].pick[s] : p \in 1..n} \cup {pick[s]}
    <3>1. 1..(n + 1) = (1..n) \cup {n + 1}
      BY <1>1
    <3> QED
      BY <1>1, <1>2, <3>1
  <2> QED
    BY <1>1, <2>1 DEF Picks
<1>4. Stream(s)' = Stream(s)
  BY DEF Stream, by, SortTable, KeyedRows, RowKey
<1>5. RowsRead(s)' = Cardinality(Picks(s)') /\ RowsRead(s) = Cardinality(Picks(s)) /\ IsFiniteSet(Picks(s))
  BY RowsAreCounted DEF RowsRead, Picks
<1>6. CASE Takes(s, k)
  <2>1. HasNext(s) /\ pick[s] \in DOMAIN RowsOf(s)
    BY <1>6, HeadOfStream DEF Takes
  <2>2. pick[s] # 0
    BY <2>1, SourceRows
  <2>3. RowsRead(s)' = RowsRead(s) + 1
    <3>1. Picks(s)' = Picks(s) \cup {pick[s]} /\ pick[s] \notin Picks(s)
      BY <1>3, <1>6, <2>2
    <3>2. Cardinality(Picks(s) \cup {pick[s]}) = Cardinality(Picks(s)) + 1
      BY <1>5, <3>1, FS_AddElement
    <3> QED
      BY <1>5, <3>1, <3>2
  <2>4. Unread(s)' = SubSeq(Stream(s), RowsRead(s)' + 1, Len(Stream(s)))
    BY <1>4 DEF Unread
  <2> QED
    BY <1>3, <1>6, <2>1, <2>3, <2>4, HeadOfStream
<1>7. CASE ~Takes(s, k)
  <2>1. pick[s] # 0 => pick[s] \in Picks(s)
    <3>1. pick[s] # 0 => n \in DOMAIN plan /\ pick[s] = plan[n].pick[s]
      BY <1>1, <1>7 DEF Shown
    <3> QED
      BY <3>1 DEF Picks
  <2>2. RowsRead(s)' = RowsRead(s)
    BY <1>3, <1>5, <2>1
  <2>3. Unread(s)' = SubSeq(Stream(s), RowsRead(s)' + 1, Len(Stream(s)))
    BY <1>4 DEF Unread
  <2> QED
    BY <1>3, <1>7, <2>2, <2>3 DEF Unread
<1> QED
  BY <1>3, <1>6, <1>7

LEMMA MergeReadRow ==
  ASSUME Sources, phase = "emit", UNCHANGED <<request, tables, phase, result>>,
         plan \in Seq(ToSet(plan)), NEW k, NEW pick, plan' = Append(plan, [key |-> k, pick |-> pick]),
         \A s \in Occurrences :
           /\ Picks(s) \in SUBSET DOMAIN RowsOf(s)
           /\ Takes(s, k) => pick[s] = RowInStream(s, RowsRead(s) + 1) /\ pick[s] \notin Picks(s)
           /\ ~Takes(s, k) => pick[s] = IF Shown(s, k) THEN plan[Len(plan)].pick[s] ELSE 0
           /\ HasNext(s) => ~KeyPrecedes(NextKey(s), k),
         \E s \in Occurrences : Takes(s, k)
  PROVE  Merge!ReadRow
<1>0. PICK n : n = Len(plan)
  OBVIOUS
<1> DEFINE D == Occurrences
           U == UnreadRows
           H == HeldRows
           E == EmittedRows
<1>1. /\ Len(plan') = n + 1 /\ n \in Nat /\ DOMAIN plan' = 1..(n + 1) /\ DOMAIN plan = 1..n
      /\ plan'[n + 1] = [key |-> k, pick |-> pick] /\ \A p \in 1..n : plan'[p] = plan[p]
  BY <1>0, OneMore
<1>2. /\ Aligned /\ Aligned' /\ Stage = "reading" /\ Stage' = "reading"
      /\ Occurrences' = Occurrences /\ \A s : RowsOf(s)' = RowsOf(s)
  BY SourcesStay DEF Aligned, Stage
<1>3. U = [s \in D |-> Unread(s)] /\ H = [s \in D |-> IF plan = <<>> THEN Absent ELSE Shows(n, s)]
      /\ E = [p \in 1..n |-> [s \in D |-> Shows(p, s)]]
  BY <1>0, <1>1, <1>2 DEF UnreadRows, HeldRows, EmittedRows
<1>4. \A s \in D : Unread(s)' = IF Takes(s, k) THEN Tail(Unread(s)) ELSE Unread(s)
  BY SourceStep
<1>5. U' = [s \in D |-> IF Takes(s, k) THEN Tail(Unread(s)) ELSE Unread(s)]
  <2>1. U' = [s \in D |-> Unread(s)']
    BY <1>2 DEF UnreadRows
  <2> QED
    BY <1>4, <2>1
<1>6. \A s : \A p \in 1..n : Shows(p, s)' = Shows(p, s)
  BY <1>1, <1>2 DEF Shows, Picked
<1> DEFINE new == [s \in D |-> IF pick[s] = 0 THEN Absent ELSE [key |-> k, row |-> RowsOf(s)[pick[s]]]]
<1>7. \A s : Shows(n + 1, s)' = IF pick[s] = 0 THEN Absent ELSE [key |-> k, row |-> RowsOf(s)[pick[s]]]
  <2>1. plan'[n + 1].key = k /\ plan'[n + 1].pick = pick
    BY <1>1
  <2> QED
    BY <1>2, <2>1 DEF Shows, Picked
<1>8. H' = new
  <2>1. plan' # <<>> /\ Len(plan') = n + 1
    BY <1>1
  <2>2. H' = [s \in D |-> Shows(n + 1, s)']
    BY <1>2, <2>1 DEF HeldRows
  <2> QED
    BY <1>7, <2>2
<1>9. E' = Append(E, H')
  <2>1. E' = [p \in 1..(n + 1) |-> [s \in D |-> Shows(p, s)']]
    BY <1>1, <1>2 DEF EmittedRows
  <2>2. \A p \in 1..n : E'[p] = E[p]
    <3>1. \A p \in 1..n : p \in 1..(n + 1)
      BY <1>1
    <3>2. ASSUME NEW p \in 1..n
          PROVE  [s \in D |-> Shows(p, s)'] = [s \in D |-> Shows(p, s)]
      BY <1>6
    <3> QED
      BY <1>3, <2>1, <3>1, <3>2
  <2>3. E'[n + 1] = H'
    <3>1. n + 1 \in 1..(n + 1)
      BY <1>1
    <3> QED
      BY <1>7, <1>8, <2>1, <3>1
  <2>4. E \in Seq(ToSet(E)) /\ Len(E) = n
    <3>1. DOMAIN E = 1..n /\ E = [p \in 1..n |-> E[p]] /\ \A p \in 1..n : E[p] \in ToSet(E)
      BY <1>3 DEF ToSet
    <3> HIDE DEF E
    <3> QED
      BY <1>1, <3>1
  <2> DEFINE h == H'
             F == E'
  <2>5. DOMAIN F = 1..(n + 1) /\ F = [p \in 1..(n + 1) |-> F[p]]
    BY <2>1
  <2> DEFINE A == Append(E, h)
  <2> HIDE DEF E, h, F
  <2>6. /\ A \in Seq(ToSet(A)) /\ DOMAIN A = 1..(n + 1)
        /\ A[n + 1] = h /\ \A p \in 1..n : A[p] = E[p]
    BY <2>4, OneMore
  <2> HIDE DEF A
  <2>7. A = [p \in 1..(n + 1) |-> A[p]]
    BY <2>6
  <2>8. \A p \in 1..(n + 1) : p \in 1..n \/ p = n + 1
    BY <1>1
  <2>9. F[n + 1] = h /\ \A p \in 1..n : F[p] = E[p]
    BY <2>2, <2>3 DEF F, h
  <2>10. F = A
    BY <2>5, <2>6, <2>7, <2>8, <2>9
  <2> QED
    BY <2>10 DEF A, F, h
<1>10. \A s \in D : /\ U[s] # <<>> <=> HasNext(s)
                    /\ HasNext(s) => /\ Head(U[s]).key = NextKey(s)
                                     /\ NextKey(s) = k => Head(U[s]) = new[s]
  <2> SUFFICES ASSUME NEW s \in D
               PROVE  /\ Unread(s) # <<>> <=> HasNext(s)
                      /\ HasNext(s) => /\ Head(Unread(s)).key = NextKey(s)
                                       /\ NextKey(s) = k => Head(Unread(s)) = new[s]
    BY <1>3
  <2>1. /\ Unread(s) # <<>> <=> HasNext(s)
        /\ HasNext(s) =>
             /\ RowInStream(s, RowsRead(s) + 1) \in DOMAIN RowsOf(s)
             /\ Head(Unread(s)) = [key |-> NextKey(s), row |-> RowsOf(s)[RowInStream(s, RowsRead(s) + 1)]]
    BY HeadOfStream
  <2>2. HasNext(s) /\ NextKey(s) = k => Head(Unread(s)) = new[s]
    <3>1. 0 \notin DOMAIN RowsOf(s)
      BY SourceRows
    <3> QED
      BY <2>1, <3>1 DEF Takes
  <2> QED
    BY <2>1, <2>2
<1> DEFINE Fronts(s) == U[s] # <<>> /\ Head(U[s]).key = k
           Keeps(s)  == H[s] # Absent /\ H[s].key = k
<1>11. ASSUME NEW s \in D
       PROVE  /\ Fronts(s) <=> Takes(s, k)
              /\ new[s] = IF Fronts(s) THEN Head(U[s]) ELSE IF Keeps(s) THEN H[s] ELSE Absent
  <2>1. Fronts(s) <=> Takes(s, k)
    BY <1>10 DEF Takes
  <2>2. CASE Takes(s, k)
    BY <1>10, <2>1, <2>2 DEF Takes
  <2>3. CASE ~Takes(s, k) /\ Shown(s, k)
    <3>1. pick[s] = plan[n].pick[s] /\ pick[s] # 0 /\ plan # <<>> /\ plan[n].key = k
      BY <1>0, <2>3 DEF Shown
    <3>2. H[s] = [key |-> k, row |-> RowsOf(s)[pick[s]]]
      BY <1>3, <3>1 DEF Shows, Picked
    <3>3. new[s] = H[s]
      BY <3>1, <3>2
    <3>4. H[s].key = k
      BY <3>2
    <3> HIDE DEF H, new
    <3> QED
      BY <2>1, <2>3, <3>3, <3>4
  <2>4. CASE ~Takes(s, k) /\ ~Shown(s, k)
    <3>1. new[s] = Absent
      BY <2>4
    <3>2. CASE plan = <<>> \/ plan[n].pick[s] = 0
      <4>1. H[s] = Absent
        BY <1>3, <3>2 DEF Shows
      <4> HIDE DEF H, new
      <4> QED
        BY <2>1, <2>4, <3>1, <4>1
    <3>3. CASE plan # <<>> /\ plan[n].pick[s] # 0
      <4>1. H[s] = [key |-> plan[n].key, row |-> RowsOf(s)[plan[n].pick[s]]]
        BY <1>3, <3>3 DEF Shows, Picked
      <4>2. H[s].key = plan[n].key /\ plan[n].key # k
        BY <1>0, <2>4, <3>3, <4>1 DEF Shown
      <4> HIDE DEF H, new
      <4> QED
        BY <2>1, <2>4, <3>1, <4>2
    <3> QED
      BY <3>2, <3>3
  <2> QED
    BY <2>2, <2>3, <2>4
<1>12. DOMAIN U = D
  BY <1>3
<1>13. k \in Merge!Front /\ \A l \in Merge!Front : ~KeyPrecedes(l, k)
  <2>1. Merge!Front = {Head(U[s]).key : s \in {t \in D : U[t] # <<>>}}
    BY <1>12 DEF Merge!Front
  <2> HIDE DEF U, new
  <2>2. \A l \in Merge!Front : \E s \in D : HasNext(s) /\ l = NextKey(s)
    BY <1>10, <2>1
  <2>3. PICK s \in D : Takes(s, k)
    OBVIOUS
  <2>4. U[s] # <<>> /\ Head(U[s]).key = k
    BY <1>10, <2>3 DEF Takes
  <2> QED
    BY <2>1, <2>2, <2>4
<1>14. H' = [s \in D |-> IF Fronts(s) THEN Head(U[s]) ELSE IF Keeps(s) THEN H[s] ELSE Absent]
  BY <1>8, <1>11
<1>15. U' = [s \in D |-> IF Fronts(s) THEN Tail(U[s]) ELSE U[s]]
  BY <1>3, <1>5, <1>11
<1> HIDE DEF U, H, E, new
<1> QED
  BY <1>2, <1>9, <1>12, <1>13, <1>14, <1>15 DEF Merge!ReadRow, U, H, E

-----------------------------------------------------------------------------
(* Every step reads the streams                                            *)

LEMMA GroupsUnchanged ==
  ASSUME UNCHANGED <<request, tables>>
  PROVE  /\ \A s, i : KeyAt(s, i)' = KeyAt(s, i) /\ PlaceOf(s, i)' = PlaceOf(s, i)
         /\ \A s, k : Group(s, k)' = Group(s, k) /\ RowsWith(s, k)' = RowsWith(s, k)
         /\ \A s, k, o : PickInGroup(s, k, o)' = PickInGroup(s, k, o)
         /\ \A k : GroupLength(k)' = GroupLength(k)
<1>1. by' = by /\ Occurrences' = Occurrences /\ \A s : RowsOf(s)' = RowsOf(s)
  BY SourcesStay
<1>2. \A s, i : KeyAt(s, i)' = KeyAt(s, i)
  BY <1>1 DEF KeyAt
<1>3. \A s, k : RowsWith(s, k)' = RowsWith(s, k) /\ Group(s, k)' = Group(s, k)
  BY <1>1, <1>2 DEF RowsWith, Group
<1>4. \A s, i : PlaceOf(s, i)' = PlaceOf(s, i)
  BY <1>2, <1>3 DEF PlaceOf
<1>5. \A k : GroupLength(k)' = GroupLength(k)
  BY <1>1, <1>3 DEF GroupLength
<1>6. \A s, k, o : PickInGroup(s, k, o)' = PickInGroup(s, k, o)
  BY <1>3 DEF PickInGroup
<1> QED
  BY <1>2, <1>3, <1>4, <1>5, <1>6

LEMMA OffsetGrows ==
  ASSUME PlanInv, NEW e, plan' = Append(plan, e)
  PROVE  \A l : Offset(l)' = IF l = e.key THEN Offset(l) + 1 ELSE Offset(l)
<1>0. PICK n : n = Len(plan)
  OBVIOUS
<1>1. /\ n \in Nat /\ DOMAIN plan' = 1..(n + 1) /\ DOMAIN plan = 1..n
      /\ plan'[n + 1] = e /\ \A p \in 1..n : plan'[p] = plan[p]
  BY <1>0, OneMore DEF PlanInv
<1> SUFFICES ASSUME NEW l PROVE Offset(l)' = IF l = e.key THEN Offset(l) + 1 ELSE Offset(l)
  OBVIOUS
<1> DEFINE P == {p \in 1..n : plan[p].key = l}
           Q == {p \in 1..(n + 1) : plan'[p].key = l}
<1>2. Offset(l) = Cardinality(P) /\ Offset(l)' = Cardinality(Q) /\ IsFiniteSet(P)
  BY <1>1, OffsetIsNumber DEF Offset
<1>3. /\ \A p \in 1..(n + 1) : p \in 1..n \/ p = n + 1
      /\ \A p \in 1..n : p \in 1..(n + 1)
      /\ n + 1 \in 1..(n + 1) /\ n + 1 \notin 1..n
  BY <1>1
<1>4. Q = IF l = e.key THEN P \cup {n + 1} ELSE P
  BY <1>1, <1>3
<1>5. n + 1 \notin P
  BY <1>3
<1> HIDE DEF P, Q
<1>6. CASE l = e.key
  <2>1. Cardinality(P \cup {n + 1}) = Cardinality(P) + 1
    BY <1>2, <1>5, FS_AddElement
  <2> QED
    BY <1>2, <1>4, <1>6, <2>1
<1>7. CASE l # e.key
  BY <1>2, <1>4, <1>7
<1> QED
  BY <1>6, <1>7

LEMMA GroupRowReads ==
  ASSUME MergeInv, ReadInv, EmitGroupRow
  PROVE  Merge!ReadRow
<1>0. PICK k, o : k = Head(keys) /\ o = Offset(k)
  OBVIOUS
<1>1. PICK pick : /\ pick = [s \in Occurrences |-> PickInGroup(s, k, o)]
                  /\ plan' = Append(plan, [key |-> k, pick |-> pick])
  BY <1>0 DEF EmitGroupRow
<1>2. phase = "emit" /\ keys # <<>> /\ UNCHANGED <<request, tables, phase, result>>
  BY DEF EmitGroupRow
<1>3. Sources /\ Aligned /\ PlanInv /\ KeysInv /\ plan \in Seq(ToSet(plan))
  BY <1>2 DEF MergeInv, Sources, Aligned, PlanInv
<1>4. /\ \A s \in Occurrences : Len(Group(s, k)) \in Nat /\ Len(Group(s, k)) <= GroupLength(k)
      /\ \E s \in Occurrences : Len(Group(s, k)) = GroupLength(k)
      /\ o < GroupLength(k) /\ o \in Nat
  BY <1>0, <1>2, <1>3, LongestGroup, OffsetIsNumber DEF ReadInv
<1>5. ASSUME NEW s \in Occurrences
      PROVE  /\ Picks(s) \in SUBSET DOMAIN RowsOf(s)
             /\ Takes(s, k) <=> o < Len(Group(s, k))
             /\ Takes(s, k) => pick[s] = RowInStream(s, RowsRead(s) + 1) /\ pick[s] \notin Picks(s)
             /\ HasNext(s) => ~KeyPrecedes(NextKey(s), k)
  <2>1. pick[s] = PickInGroup(s, k, o)
    BY <1>1
  <2>2. o < Len(Group(s, k)) => pick[s] \notin Picks(s)
    BY <1>0, <1>2, <1>3, <2>1, GroupAdvances
  <2> QED
    BY <1>0, <1>2, <1>3, <2>1, <2>2, ReadRows, GroupReads
<1>6. ASSUME NEW s \in Occurrences, ~Takes(s, k)
      PROVE  pick[s] = IF Shown(s, k) THEN plan[Len(plan)].pick[s] ELSE 0
  <2>1. pick[s] = PickInGroup(s, k, o) /\ ~(o < Len(Group(s, k)))
    BY <1>1, <1>5, <1>6
  <2>2. /\ pick[s] # 0 => plan # <<>> /\ plan[Len(plan)].key = k /\ plan[Len(plan)].pick[s] = pick[s]
        /\ pick[s] = 0 /\ plan # <<>> /\ plan[Len(plan)].key = k => plan[Len(plan)].pick[s] = 0
    BY <1>0, <1>2, <1>3, <2>1, GroupStays
  <2> QED
    BY <2>2 DEF Shown
<1>7. \E s \in Occurrences : Takes(s, k)
  BY <1>4, <1>5
<1> QED
  BY <1>1, <1>2, <1>3, <1>5, <1>6, <1>7, MergeReadRow

LEMMA GroupRowKeepsReads ==
  ASSUME MergeInv, ReadInv, EmitGroupRow
  PROVE  ReadInv'
<1>0. PICK k, o, n : k = Head(keys) /\ o = Offset(k) /\ n = Len(plan)
  OBVIOUS
<1>1. PICK pick : /\ pick = [s \in Occurrences |-> PickInGroup(s, k, o)]
                  /\ plan' = Append(plan, [key |-> k, pick |-> pick])
  BY <1>0 DEF EmitGroupRow
<1>2. /\ phase = "emit" /\ keys # <<>> /\ UNCHANGED <<request, tables, phase, result>>
      /\ keys' = IF o + 1 = GroupLength(k) THEN Tail(keys) ELSE keys
  BY <1>0 DEF EmitGroupRow
<1>3. Sources /\ Aligned /\ PlanInv /\ KeysInv /\ plan \in Seq(ToSet(plan))
  BY <1>2 DEF MergeInv, Sources, Aligned, PlanInv
<1>4. /\ refs' = refs /\ by' = by /\ Occurrences' = Occurrences /\ AllKeys' = AllKeys
      /\ \A s : RowsOf(s)' = RowsOf(s)
  BY <1>2, SourcesStay
<1>5. /\ Len(plan') = n + 1 /\ n \in Nat /\ DOMAIN plan' = 1..(n + 1) /\ DOMAIN plan = 1..n
      /\ plan'[n + 1].key = k /\ plan'[n + 1].pick = pick /\ plan' # <<>>
      /\ \A p \in 1..n : plan'[p] = plan[p]
  <2>1. /\ Len(plan') = n + 1 /\ n \in Nat /\ DOMAIN plan' = 1..(n + 1) /\ DOMAIN plan = 1..n
        /\ plan'[n + 1] = [key |-> k, pick |-> pick] /\ \A p \in 1..n : plan'[p] = plan[p]
    BY <1>0, <1>1, <1>3, OneMore
  <2> QED
    BY <2>1
<1>6. /\ by # <<>> /\ k \in AllKeys /\ k \in Keyed /\ ToSet(keys) = {k} \cup ToSet(Tail(keys))
      /\ \A l \in ToSet(Tail(keys)) : KeyPrecedes(k, l)
      /\ Tail(keys) \in Seq(AllKeys) /\ ToSet(keys) \subseteq AllKeys
  BY <1>0, <1>2, <1>3, KeysInOrder
<1>7. k \notin ToSet(Tail(keys))
  <2>1. Len(by) \in Nat
    BY <1>3, RequestFacts DEF Sources
  <2> QED
    BY <1>6, <2>1, KeysAreOrdered DEF Keyed
<1>8. /\ \A l : Offset(l)' = IF l = k THEN Offset(l) + 1 ELSE Offset(l)
      /\ Offset(k)' = o + 1 /\ o \in Nat /\ o < GroupLength(k) /\ GroupLength(k) \in Nat
  <2>1. \A l : Offset(l)' = IF l = k THEN Offset(l) + 1 ELSE Offset(l)
    BY <1>1, <1>3, OffsetGrows
  <2> QED
    BY <1>0, <1>2, <1>3, <2>1, LongestGroup, OffsetIsNumber DEF ReadInv
<1>9. \A l \in ToSet(Tail(keys)) : l # k /\ Offset(l)' = 0 /\ \A p \in DOMAIN plan' : plan'[p].key # l
  <2> SUFFICES ASSUME NEW l \in ToSet(Tail(keys))
               PROVE  l # k /\ Offset(l)' = 0 /\ \A p \in DOMAIN plan' : plan'[p].key # l
    OBVIOUS
  <2>1. l # k
    BY <1>7
  <2>2. \A p \in DOMAIN plan : plan[p].key # l
    BY <1>2, <1>3 DEF ReadInv
  <2>3. Offset(l) = 0
    BY <1>3, <2>2, OffsetIsNumber
  <2> QED
    BY <1>5, <1>8, <2>1, <2>2, <2>3
<1>10. ASSUME NEW s \in Occurrences
       PROVE  Picks(s)' = {i \in DOMAIN RowsOf(s) : IsRead(s, i)'}
  <2>1. PICK i : i = PickInGroup(s, k, o) /\ i = pick[s]
    BY <1>1
  <2>2. Picks(s) = {j \in DOMAIN RowsOf(s) :
                      KeyAt(s, j) \notin ToSet(keys) \/ (KeyAt(s, j) = k /\ PlaceOf(s, j) <= o)}
    BY <1>0, <1>2, <1>3, <1>6, ReadRows DEF IsRead
  <2>3. Picks(s)' = Picks(s) \cup ({i} \ {0})
    <3>1. {plan'[p].pick[s] : p \in 1..(n + 1)} = {plan[p].pick[s] : p \in 1..n} \cup {i}
      <4>1. /\ \A p \in 1..(n + 1) : p \in 1..n \/ p = n + 1
            /\ \A p \in 1..n : p \in 1..(n + 1)
            /\ n + 1 \in 1..(n + 1)
        BY <1>5
      <4> QED
        BY <1>5, <2>1, <4>1
    <3> QED
      BY <1>5, <3>1 DEF Picks
  <2>4. \A j \in DOMAIN RowsOf(s) :
          IsRead(s, j)' <=> \/ KeyAt(s, j) \notin ToSet(keys')
                            \/ keys' # <<>> /\ KeyAt(s, j) = Head(keys') /\ PlaceOf(s, j) <= Offset(Head(keys))'
    BY <1>2, <1>4, <1>6, GroupsUnchanged DEF IsRead
  <2>5. \A j \in DOMAIN RowsOf(s) :
          KeyAt(s, j) = k => /\ PlaceOf(s, j) \in Nat /\ PlaceOf(s, j) <= Len(Group(s, k))
                             /\ PlaceOf(s, j) >= 1
    BY <1>3, PlaceIsPositive
  <2>6. Len(Group(s, k)) <= GroupLength(k) /\ Len(Group(s, k)) \in Nat
    BY <1>3, LongestGroup
  <2>7. \A j \in DOMAIN RowsOf(s) :
          IsRead(s, j)' <=> KeyAt(s, j) \notin ToSet(keys) \/ (KeyAt(s, j) = k /\ PlaceOf(s, j) <= o + 1)
    <3>1. CASE o + 1 = GroupLength(k)
      <4>1. keys' = Tail(keys)
        BY <1>2, <3>1
      <4>2. ASSUME keys' # <<>>
            PROVE  Head(keys') \in ToSet(Tail(keys)) /\ Offset(Head(keys))' = 0
        <5>1. Head(keys') \in ToSet(Tail(keys))
          BY <1>6, <4>1, <4>2, WithoutHead DEF ToSet
        <5> QED
          BY <1>9, <5>1
      <4>3. \A j \in DOMAIN RowsOf(s) : PlaceOf(s, j) \in Nat /\ PlaceOf(s, j) >= 1
        BY <1>3, PlaceIsPositive
      <4>4. \A j \in DOMAIN RowsOf(s) : IsRead(s, j)' <=> KeyAt(s, j) \notin ToSet(Tail(keys))
        BY <2>4, <4>1, <4>2, <4>3
      <4>5. \A j \in DOMAIN RowsOf(s) : KeyAt(s, j) = k => PlaceOf(s, j) <= o + 1
        BY <1>8, <2>5, <2>6, <3>1
      <4>6. \A l : l \notin ToSet(Tail(keys)) <=> l \notin ToSet(keys) \/ l = k
        BY <1>6, <1>7
      <4> QED
        BY <4>4, <4>5, <4>6
    <3>2. CASE o + 1 # GroupLength(k)
      <4>1. keys' = keys /\ Head(keys') = k /\ keys' # <<>> /\ Offset(Head(keys))' = o + 1
        BY <1>0, <1>2, <1>8, <3>2
      <4> QED
        BY <2>4, <4>1
    <3> QED
      BY <3>1, <3>2
  <2>8. CASE o < Len(Group(s, k))
    <3>1. i \in RowsWith(s, k) /\ i # 0 /\ PlaceOf(s, i) = o + 1
      BY <1>0, <1>2, <1>3, <2>1, <2>8, GroupAdvances
    <3>2. i \in DOMAIN RowsOf(s) /\ KeyAt(s, i) = k
      BY <3>1 DEF RowsWith
    <3>3. ASSUME NEW j \in DOMAIN RowsOf(s), KeyAt(s, j) = k, PlaceOf(s, j) = o + 1
          PROVE  j = i
      <4>1. j \in RowsWith(s, k)
        BY <3>3 DEF RowsWith
      <4>2. Group(s, k)[PlaceOf(s, j)] = j /\ Group(s, k)[PlaceOf(s, i)] = i
        BY <1>3, <3>1, <4>1, GroupRows
      <4> QED
        BY <3>1, <3>3, <4>2
    <3>4. \A j \in DOMAIN RowsOf(s) : KeyAt(s, j) = k => (PlaceOf(s, j) <= o + 1 <=> PlaceOf(s, j) <= o \/ j = i)
      BY <1>8, <2>5, <3>1, <3>3
    <3> QED
      BY <2>2, <2>3, <2>7, <3>1, <3>2, <3>4
  <2>9. CASE ~(o < Len(Group(s, k)))
    <3>1. i = 0 \/ i \in Picks(s)
      BY <1>0, <1>2, <1>3, <2>1, <2>9, GroupStays
    <3>2. \A j \in DOMAIN RowsOf(s) : KeyAt(s, j) = k => PlaceOf(s, j) <= o /\ PlaceOf(s, j) <= o + 1
      BY <1>8, <2>5, <2>6, <2>9
    <3> QED
      BY <2>2, <2>3, <2>7, <3>1, <3>2
  <2> QED
    BY <2>8, <2>9
<1>11. \A s \in Occurrences : plan'[n + 1].pick[s] = PickInGroup(s, k, (o + 1) - 1)
  <2>1. (o + 1) - 1 = o
    BY <1>8
  <2> QED
    BY <1>1, <1>5, <2>1
<1>12. ASSUME NEW l \in AllKeys \ ToSet(keys'), NEW m \in ToSet(keys')
       PROVE  KeyPrecedes(l, m)
  <2>1. m \in ToSet(keys)
    BY <1>2, <1>6
  <2>2. l \notin ToSet(keys) \/ (l = k /\ m \in ToSet(Tail(keys)))
    BY <1>2, <1>6
  <2> QED
    BY <1>3, <1>6, <2>1, <2>2 DEF ReadInv
<1>13. ASSUME keys' # <<>>
       PROVE  /\ Offset(Head(keys))' < GroupLength(Head(keys'))
              /\ Offset(Head(keys))' > 0 => k = Head(keys')
              /\ \A l \in ToSet(Tail(keys')), p \in DOMAIN plan' : plan'[p].key # l
  <2>1. CASE keys' = keys
    <3>1. o + 1 # GroupLength(k) \/ keys = Tail(keys)
      BY <1>2, <2>1
    <3>2. keys # Tail(keys)
      BY <1>6, <1>7
    <3> QED
      BY <1>0, <1>8, <1>9, <2>1, <3>1, <3>2
  <2>2. CASE keys' = Tail(keys)
    <3>1. /\ Head(keys') \in ToSet(Tail(keys)) /\ ToSet(Tail(keys')) \subseteq ToSet(Tail(keys))
      <4> DEFINE u == Tail(keys)
      <4>1. u \in Seq(AllKeys) /\ u # <<>>
        BY <1>6, <1>13, <2>2
      <4> HIDE DEF u
      <4>2. /\ Len(u) \in Nat /\ Len(u) >= 1 /\ DOMAIN u = 1..Len(u) /\ Head(u) = u[1]
            /\ DOMAIN Tail(u) = 1..(Len(u) - 1) /\ \A m \in 1..(Len(u) - 1) : Tail(u)[m] = u[m + 1]
        BY <4>1, WithoutHead
      <4>3. 1 \in 1..Len(u) /\ \A m \in 1..(Len(u) - 1) : m + 1 \in 1..Len(u)
        BY <4>2
      <4>4. Head(u) \in ToSet(u) /\ ToSet(Tail(u)) \subseteq ToSet(u)
        BY <4>2, <4>3 DEF ToSet
      <4> QED
        BY <2>2, <4>4 DEF u
    <3>2. Offset(Head(keys))' = 0
      BY <1>9, <3>1
    <3>3. GroupLength(Head(keys')) > 0
      <4>1. PICK s \in Occurrences : \E i \in DOMAIN RowsOf(s) : KeyAt(s, i) = Head(keys')
        BY <1>3, <1>6, <3>1, KeysAreFinite
      <4>2. Len(Group(s, Head(keys'))) >= 1 /\ Len(Group(s, Head(keys'))) \in Nat
        BY <1>3, <4>1, PlaceIsPositive, LongestGroup
      <4> QED
        BY <1>3, <4>2, LongestGroup
    <3> QED
      BY <1>9, <3>1, <3>2, <3>3
  <2> QED
    BY <1>2, <2>1, <2>2
<1>14. Aligned' /\ Len(tables') = Len(refs')
  BY <1>2, <1>4 DEF Aligned, MergeInv
<1> QED
  BY <1>4, <1>5, <1>6, <1>8, <1>10, <1>11, <1>12, <1>13, <1>14, <1>2, GroupsUnchanged DEF ReadInv

(* Without BY every source that has a row of this number takes it.         *)
LEMMA OrdinalReads ==
  ASSUME Sources, PlanInv, ReadInv, Aligned, by = <<>>, NEW s \in Occurrences
  PROVE  LET n == Len(plan)
         IN  /\ Picks(s) = {i \in DOMAIN RowsOf(s) : i <= n} /\ n \in Nat
             /\ HasNext(s) <=> n < Len(RowsOf(s))
             /\ HasNext(s) => RowsRead(s) = n
<1>0. PICK n : n = Len(plan)
  OBVIOUS
<1>1. n \in Nat /\ Len(RowsOf(s)) \in Nat /\ DOMAIN RowsOf(s) = 1..Len(RowsOf(s))
  BY <1>0, SourceRows, OwnElements DEF PlanInv
<1>2. Picks(s) = {i \in DOMAIN RowsOf(s) : i <= n}
  BY <1>0, ReadRows DEF IsRead
<1>3. RowsRead(s) = Cardinality(Picks(s)) /\ Picks(s) \in SUBSET DOMAIN RowsOf(s)
  BY <1>2, RowsAreCounted
<1>4. CASE n < Len(RowsOf(s))
  <2>1. Picks(s) = 1..n
    BY <1>1, <1>2, <1>4
  <2>2. RowsRead(s) = n
    BY <1>1, <1>3, <2>1, CountOfInterval
  <2> QED
    BY <1>0, <1>1, <1>2, <1>4, <2>2 DEF HasNext
<1>5. CASE ~(n < Len(RowsOf(s)))
  <2>1. Picks(s) = 1..Len(RowsOf(s))
    BY <1>1, <1>2, <1>5
  <2>2. RowsRead(s) = Len(RowsOf(s))
    BY <1>1, <1>3, <2>1, CountOfInterval
  <2>3. ~HasNext(s)
    BY <1>1, <2>2 DEF HasNext
  <2> QED
    BY <1>0, <1>1, <1>2, <1>5, <2>3
<1> QED
  BY <1>4, <1>5

LEMMA OrdinalRowFacts ==
  ASSUME MergeInv, ReadInv, EmitOrdinalRow
  PROVE  /\ phase = "emit" /\ by = <<>> /\ UNCHANGED <<request, tables, phase, result, keys>>
         /\ Sources /\ Aligned /\ PlanInv /\ plan \in Seq(ToSet(plan)) /\ Len(plan) \in Nat
         /\ \E s \in Occurrences : Len(plan) < Len(RowsOf(s))
         /\ plan' = Append(plan, [key  |-> <<Len(plan) + 1>>,
                                  pick |-> [s \in Occurrences |-> OrdinalPick(s, Len(plan) + 1)]])
<1>1. /\ phase = "emit" /\ by = <<>> /\ UNCHANGED <<request, tables, phase, result, keys>>
      /\ Len(plan) < Max({Len(RowsOf(s)) : s \in Occurrences})
      /\ plan' = Append(plan, [key  |-> <<Len(plan) + 1>>,
                               pick |-> [s \in Occurrences |-> OrdinalPick(s, Len(plan) + 1)]])
  BY DEF EmitOrdinalRow, MoreOrdinals, OrdinalPick
<1>2. Sources /\ Aligned /\ PlanInv /\ plan \in Seq(ToSet(plan))
  BY <1>1 DEF MergeInv, Sources, Aligned, PlanInv
<1>3. Len(plan) \in Nat
  BY <1>2
<1>4. \E s \in Occurrences : Len(plan) < Len(RowsOf(s))
  BY <1>1, <1>2, LongestSource
<1> QED
  BY <1>1, <1>2, <1>3, <1>4

LEMMA OrdinalRowReads ==
  ASSUME MergeInv, ReadInv, EmitOrdinalRow
  PROVE  Merge!ReadRow
<1>0. PICK n, k, pick : /\ n = Len(plan) /\ k = <<n + 1>>
                        /\ pick = [s \in Occurrences |-> OrdinalPick(s, n + 1)]
  OBVIOUS
<1>1. /\ phase = "emit" /\ by = <<>> /\ UNCHANGED <<request, tables, phase, result, keys>>
      /\ Sources /\ Aligned /\ PlanInv /\ plan \in Seq(ToSet(plan)) /\ n \in Nat
      /\ \E s \in Occurrences : n < Len(RowsOf(s))
      /\ plan' = Append(plan, [key |-> k, pick |-> pick])
  BY <1>0, OrdinalRowFacts
<1>2. ASSUME NEW s \in Occurrences
      PROVE  /\ Picks(s) \in SUBSET DOMAIN RowsOf(s)
             /\ Takes(s, k) <=> n < Len(RowsOf(s))
             /\ Takes(s, k) => pick[s] = RowInStream(s, RowsRead(s) + 1) /\ pick[s] \notin Picks(s)
             /\ HasNext(s) => NextKey(s) = k
             /\ ~Takes(s, k) => pick[s] = 0
  <2>1. /\ Picks(s) = {i \in DOMAIN RowsOf(s) : i <= n}
        /\ HasNext(s) <=> n < Len(RowsOf(s))
        /\ HasNext(s) => RowsRead(s) = n
    BY <1>0, <1>1, OrdinalReads
  <2>2. HasNext(s) => NextKey(s) = k /\ RowInStream(s, RowsRead(s) + 1) = n + 1
    BY <1>0, <1>1, <2>1 DEF NextKey, KeyInStream, RowInStream
  <2>3. pick[s] = (IF n + 1 <= Len(RowsOf(s)) THEN n + 1 ELSE 0) /\ Len(RowsOf(s)) \in Nat
    BY <1>0, <1>1, SourceRows DEF OrdinalPick
  <2>4. Takes(s, k) <=> HasNext(s)
    BY <2>2 DEF Takes
  <2>5. n + 1 \notin Picks(s) /\ (n < Len(RowsOf(s)) <=> n + 1 <= Len(RowsOf(s)))
    BY <1>1, <2>1, <2>3
  <2> QED
    BY <2>1, <2>2, <2>3, <2>4, <2>5
<1>3. \A s \in Occurrences : ~Shown(s, k)
  <2>1. ASSUME plan # <<>>
        PROVE  plan[Len(plan)].key # k
    <3>1. n \in DOMAIN plan
      BY <1>0, <1>1, <2>1
    <3>2. plan[n].key = <<n>>
      BY <1>1, <3>1 DEF PlanInv
    <3> QED
      BY <1>0, <1>1, <3>2
  <2> QED
    BY <2>1 DEF Shown
<1>4. ~KeyPrecedes(k, k)
  BY <1>0, <1>1 DEF KeyPrecedes, Precedes
<1> QED
  BY <1>1, <1>2, <1>3, <1>4, MergeReadRow

LEMMA OrdinalRowKeepsReads ==
  ASSUME MergeInv, ReadInv, EmitOrdinalRow
  PROVE  ReadInv'
<1>0. PICK n, k, pick : /\ n = Len(plan) /\ k = <<n + 1>>
                        /\ pick = [s \in Occurrences |-> OrdinalPick(s, n + 1)]
  OBVIOUS
<1>1. /\ phase = "emit" /\ by = <<>> /\ UNCHANGED <<request, tables, phase, result, keys>>
      /\ Sources /\ Aligned /\ PlanInv /\ plan \in Seq(ToSet(plan)) /\ n \in Nat
      /\ plan' = Append(plan, [key |-> k, pick |-> pick])
  BY <1>0, OrdinalRowFacts
<1>2. /\ refs' = refs /\ by' = by /\ Occurrences' = Occurrences /\ AllKeys' = AllKeys
      /\ \A s : RowsOf(s)' = RowsOf(s)
  BY <1>1, SourcesStay
<1>3. /\ Len(plan') = n + 1 /\ n \in Nat /\ DOMAIN plan' = 1..(n + 1) /\ DOMAIN plan = 1..n
      /\ plan'[n + 1].pick = pick /\ \A p \in 1..n : plan'[p] = plan[p]
  <2>1. /\ Len(plan') = n + 1 /\ n \in Nat /\ DOMAIN plan' = 1..(n + 1) /\ DOMAIN plan = 1..n
        /\ plan'[n + 1] = [key |-> k, pick |-> pick] /\ \A p \in 1..n : plan'[p] = plan[p]
    BY <1>0, <1>1, OneMore
  <2> QED
    BY <2>1
<1>4. ASSUME NEW s \in Occurrences
      PROVE  Picks(s)' = {i \in DOMAIN RowsOf(s) : IsRead(s, i)'}
  <2>1. PICK i : i = pick[s]
    OBVIOUS
  <2>2. {plan'[p].pick[s] : p \in 1..(n + 1)} = {plan[p].pick[s] : p \in 1..n} \cup {i}
    <3>1. /\ \A p \in 1..(n + 1) : p \in 1..n \/ p = n + 1
          /\ \A p \in 1..n : p \in 1..(n + 1)
          /\ n + 1 \in 1..(n + 1)
      BY <1>3
    <3> QED
      BY <1>3, <2>1, <3>1
  <2>3. Picks(s)' = Picks(s) \cup ({i} \ {0})
    BY <1>3, <2>2 DEF Picks
  <2>4. Picks(s) = {j \in DOMAIN RowsOf(s) : j <= n}
    BY <1>0, <1>1, OrdinalReads
  <2>5. /\ i = (IF n + 1 <= Len(RowsOf(s)) THEN n + 1 ELSE 0) /\ Len(RowsOf(s)) \in Nat
        /\ DOMAIN RowsOf(s) = 1..Len(RowsOf(s))
    BY <1>0, <1>1, <2>1, SourceRows DEF OrdinalPick
  <2>6. \A j \in DOMAIN RowsOf(s) : IsRead(s, j)' <=> j <= n + 1
    BY <1>1, <1>2, <1>3 DEF IsRead
  <2>7. \A j \in DOMAIN RowsOf(s) : j <= n + 1 <=> j <= n \/ j = i
    BY <1>3, <2>5
  <2>8. i # 0 => i \in DOMAIN RowsOf(s)
    BY <1>3, <2>5
  <2>9. 0 \notin DOMAIN RowsOf(s)
    BY <2>5
  <2> QED
    BY <2>3, <2>4, <2>6, <2>7, <2>8, <2>9
<1>5. \A s \in Occurrences : plan'[n + 1].pick[s] = OrdinalPick(s, n + 1)
  BY <1>0, <1>3
<1>6. keys' = <<>>
  BY <1>1 DEF MergeInv, KeysInv
<1>7. Aligned' /\ Len(tables') = Len(refs')
  BY <1>1, <1>2 DEF Aligned, MergeInv
<1>8. \A s, m : OrdinalPick(s, m)' = OrdinalPick(s, m)
  BY <1>2 DEF OrdinalPick
<1> QED
  BY <1>1, <1>2, <1>3, <1>4, <1>5, <1>6, <1>7, <1>8 DEF ReadInv, ToSet

LEMMA AlignReads ==
  ASSUME MergeInv, Align, phase' = "emit"
  PROVE  ReadInv' /\ Merge!Open
<1>0. PICK L : L = Listed(AllKeys, KeyOrder)
  OBVIOUS
<1>1. /\ phase = "shape" /\ Len(tables) = Len(refs) /\ plan = <<>> /\ plan' = <<>>
      /\ keys' = IF by = <<>> THEN <<>> ELSE L
      /\ UNCHANGED <<request, inputs, tables, plan, result>>
      /\ Sources /\ result.code = "none"
  BY <1>0 DEF Align, Fail, Sources, MergeInv
<1>2. /\ refs' = refs /\ by' = by /\ Occurrences' = Occurrences /\ AllKeys' = AllKeys
      /\ \A s : RowsOf(s)' = RowsOf(s)
  BY <1>1, SourcesStay
<1>3. ~Aligned /\ Aligned' /\ Stage = "waiting" /\ Stage' = "reading"
  BY <1>1 DEF Aligned, Stage
<1>4. \A s \in Occurrences : Picks(s)' = {}
  BY <1>1 DEF Picks
<1>5. L \in Seq(AllKeys) /\ ToSet(L) = AllKeys
  <2>1. Orders(KeyOrder, AllKeys) /\ IsFiniteSet(AllKeys)
    BY <1>1, KeysAreFinite, KeySetsAreOrdered, RequestFacts DEF KeyOrder, Keyed, Sources
  <2>2. /\ L \in Seq(AllKeys)
        /\ \A x \in AllKeys : Rank(AllKeys, KeyOrder, x) + 1 \in DOMAIN L
                              /\ L[Rank(AllKeys, KeyOrder, x) + 1] = x
        /\ \A p \in DOMAIN L : L[p] \in AllKeys
    BY <1>0, <2>1, ListedInOrder
  <2> QED
    BY <2>2 DEF ToSet
<1>6. ASSUME by # <<>>
      PROVE  /\ ToSet(keys') = AllKeys /\ \A l : Offset(l)' = 0
             /\ keys' # <<>> => Head(keys') \in AllKeys
  <2>1. \A l : Offset(l)' = 0
    BY <1>1, FS_EmptySet DEF Offset
  <2>2. L # <<>> => Head(L) \in AllKeys
    BY <1>5, WithoutHead
  <2> QED
    BY <1>1, <1>5, <1>6, <2>1, <2>2
<1>7. ASSUME NEW s \in Occurrences, NEW i \in DOMAIN RowsOf(s)
      PROVE  ~IsRead(s, i)'
  <2>1. i \in Nat /\ i >= 1 /\ KeyAt(s, i) \in AllKeys
    BY <1>1, SourceRows
  <2>2. CASE by = <<>>
    BY <1>1, <1>2, <2>1, <2>2 DEF IsRead
  <2>3. CASE by # <<>>
    <3>1. PlaceOf(s, i) \in Nat /\ PlaceOf(s, i) >= 1
      BY <1>1, PlaceIsPositive
    <3>2. KeyAt(s, i)' = KeyAt(s, i) /\ PlaceOf(s, i)' = PlaceOf(s, i)
      BY <1>1, GroupsUnchanged
    <3>3. KeyAt(s, i) \in ToSet(keys') /\ Offset(Head(keys))' = 0
      BY <1>6, <2>1, <2>3
    <3> QED
      BY <1>2, <2>3, <3>1, <3>2, <3>3 DEF IsRead
  <2> QED
    BY <2>2, <2>3
<1>8. ASSUME by # <<>>, keys' # <<>>
      PROVE  Offset(Head(keys))' = 0 /\ GroupLength(Head(keys')) > 0
  <2>1. PICK s \in Occurrences : \E i \in DOMAIN RowsOf(s) : KeyAt(s, i) = Head(keys')
    BY <1>1, <1>6, <1>8, KeysAreFinite
  <2>2. Len(Group(s, Head(keys'))) >= 1 /\ Len(Group(s, Head(keys'))) \in Nat
    BY <1>1, <2>1, PlaceIsPositive, LongestGroup
  <2> QED
    BY <1>1, <1>6, <1>8, <2>2, LongestGroup
<1>9. Len(tables') = Len(refs') /\ DOMAIN plan' = {} /\ (by = <<>> => keys' = <<>>)
  BY <1>1, <1>2
<1>10. ReadInv'
  BY <1>1, <1>2, <1>4, <1>6, <1>7, <1>8, <1>9, GroupsUnchanged DEF ReadInv, ToSet
<1>11. ASSUME NEW s \in Occurrences
       PROVE  Unread(s)' = Stream(s)
  <2>1. Stream(s)' = Stream(s)
    BY <1>1 DEF Stream, by, SortTable, KeyedRows, RowKey
  <2>2. RowsRead(s)' = 0
    BY <1>4, FS_EmptySet DEF RowsRead, Picks
  <2>3. Unread(s)' = SubSeq(Stream(s), 1, Len(Stream(s)))
    BY <2>1, <2>2 DEF Unread
  <2> DEFINE all == Stream(s)
  <2>4. all \in Seq(ToSet(all))
    BY <1>1, StreamRows
  <2> HIDE DEF all
  <2>5. SubSeq(all, 1, Len(all)) = all
    BY <2>4
  <2> QED
    BY <2>3, <2>5 DEF all
<1>12. UnreadRows' = [s \in Occurrences |-> Unread(s)']
  BY <1>2, <1>3 DEF UnreadRows
<1>13. DOMAIN UnreadRows' = Occurrences /\ \A s \in Occurrences : Merge!Sorted(UnreadRows'[s])
  BY <1>1, <1>11, <1>12, StreamInOrder
<1>14. HeldRows' = [s \in Occurrences |-> Absent]
  BY <1>1, <1>2, <1>3 DEF HeldRows
<1>15. EmittedRows' = <<>>
  BY <1>3, <1>9 DEF EmittedRows
<1> QED
  BY <1>3, <1>10, <1>13, <1>14, <1>15 DEF Merge!Open

LEMMA ReadsUnchanged ==
  ASSUME UNCHANGED <<request, tables, keys, plan>>, Aligned, Aligned'
  PROVE  /\ UNCHANGED <<UnreadRows, HeldRows, EmittedRows>>
         /\ ReadInv => ReadInv'
<1>1. /\ refs' = refs /\ by' = by /\ Occurrences' = Occurrences /\ AllKeys' = AllKeys
      /\ \A s : RowsOf(s)' = RowsOf(s)
  BY SourcesStay
<1>2. \A s : Picks(s)' = Picks(s) /\ RowsRead(s)' = RowsRead(s)
  BY DEF Picks, RowsRead
<1>3. \A s : Stream(s)' = Stream(s)
  BY DEF Stream, by, SortTable, KeyedRows, RowKey
<1>4. \A s : Unread(s)' = Unread(s)
  BY <1>2, <1>3 DEF Unread
<1>5. \A p, s : Shows(p, s)' = Shows(p, s)
  BY <1>1 DEF Shows, Picked
<1>6. UnreadRows' = UnreadRows
  BY <1>1, <1>4 DEF UnreadRows
<1>7. HeldRows' = HeldRows
  BY <1>1, <1>5 DEF HeldRows
<1>8. EmittedRows' = EmittedRows
  BY <1>1, <1>5 DEF EmittedRows
<1>9. \A k : Offset(k)' = Offset(k)
  BY DEF Offset
<1>10. \A s, i : IsRead(s, i)' = IsRead(s, i)
  BY <1>1, <1>9, GroupsUnchanged DEF IsRead
<1>11. \A s, n : OrdinalPick(s, n)' = OrdinalPick(s, n)
  BY <1>1 DEF OrdinalPick
<1>12. ReadInv => ReadInv'
  BY <1>1, <1>2, <1>9, <1>10, <1>11, GroupsUnchanged DEF ReadInv
<1> QED
  BY <1>6, <1>7, <1>8, <1>12

LEMMA RenderReads ==
  ASSUME MergeInv, ReadInv, Render
  PROVE  ReadInv' /\ Merge!Close
<1>1. /\ phase = "emit" /\ keys = <<>> /\ ~MoreOrdinals
      /\ UNCHANGED <<request, inputs, tables, keys, plan>>
      /\ \/ phase' = "done"
         \/ phase' = "failed" /\ result'.code = "PREPARATION_PROVENANCE_CONFLICT"
  BY DEF Render, Fail, NoResult
<1>2. Aligned /\ Aligned' /\ Stage = "reading" /\ Stage' = "finished" /\ Sources /\ PlanInv
  BY <1>1 DEF Aligned, Stage, Sources, MergeInv
<1>3. ReadInv' /\ UNCHANGED <<UnreadRows, HeldRows, EmittedRows>>
  BY <1>1, <1>2, ReadsUnchanged
<1>4. ASSUME NEW s \in Occurrences
      PROVE  Unread(s) = <<>>
  <2>1. Picks(s) = {i \in DOMAIN RowsOf(s) : IsRead(s, i)} /\ Picks(s) \in SUBSET DOMAIN RowsOf(s)
    BY <1>2, ReadRows
  <2>2. \A i \in DOMAIN RowsOf(s) : IsRead(s, i)
    <3>1. CASE by = <<>>
      <4>1. PICK m : m = Max({Len(RowsOf(u)) : u \in Occurrences})
        OBVIOUS
      <4>2. ~(Len(plan) < m)
        BY <1>1, <3>1, <4>1 DEF MoreOrdinals
      <4>3. /\ Len(plan) \in Nat /\ m \in Nat /\ Len(RowsOf(s)) \in Nat /\ Len(RowsOf(s)) <= m
            /\ DOMAIN RowsOf(s) = 1..Len(RowsOf(s))
        BY <1>2, <4>1, LongestSource, SourceRows, OwnElements DEF PlanInv
      <4>4. \A i \in DOMAIN RowsOf(s) : i <= Len(plan)
        BY <4>2, <4>3
      <4> QED
        BY <3>1, <4>4 DEF IsRead
    <3>2. CASE by # <<>>
      BY <1>1, <3>2 DEF IsRead, ToSet
    <3> QED
      BY <3>1, <3>2
  <2>3. RowsRead(s) = Len(RowsOf(s))
    BY <1>2, <2>1, <2>2, RowsAreCounted
  <2> QED
    BY <1>2, <2>1, <2>3, RestOfStream
<1>5. DOMAIN UnreadRows = Occurrences /\ \A s \in Occurrences : UnreadRows[s] = <<>>
  BY <1>2, <1>4 DEF UnreadRows
<1>6. Merge!Front = {}
  BY <1>5 DEF Merge!Front
<1> QED
  BY <1>2, <1>3, <1>6 DEF Merge!Close

(* Before alignment and after a failure that came before it the contract   *)
(* waits.                                                                  *)
LEMMA WaitingReads ==
  ASSUME ~Aligned, ~Aligned'
  PROVE  ReadInv' /\ UNCHANGED Merge!vars
BY DEF ReadInv, Stage, UnreadRows, HeldRows, EmittedRows, Merge!vars

LEMMA NotYetAligned ==
  ASSUME MergeInv, phase \in {"resolve", "ownership", "shape"}
  PROVE  ~Aligned
BY DEF MergeInv, Aligned

LEMMA FailureWaits ==
  ASSUME MergeInv, phase \in {"resolve", "ownership", "shape"},
         NEW code, code # "PREPARATION_PROVENANCE_CONFLICT", Fail(code)
  PROVE  ReadInv' /\ UNCHANGED Merge!vars
BY NotYetAligned, WaitingReads DEF Fail, NoResult, Aligned

LEMMA WorkWaits ==
  ASSUME MergeInv, phase \in {"resolve", "ownership", "shape"},
         phase' \in {"resolve", "ownership", "shape"}, UNCHANGED result
  PROVE  ReadInv' /\ UNCHANGED Merge!vars
BY NotYetAligned, WaitingReads DEF Aligned

(* For every set of requests: grouping the sources into dictionaries,      *)
(* sorting the union of their keys and counting offsets inside a group     *)
(* reads every row of every source exactly once, in BY order, and repeats  *)
(* only the last row of a source that has run out of the key.              *)
THEOREM PlanReadsStreams == Spec => RefinesMatchMerge
<1>1. Init => Merge!Init /\ ReadInv
  <2> SUFFICES ASSUME Init PROVE Merge!Init /\ ReadInv
    OBVIOUS
  <2>1. ~Aligned
    BY DEF Init, NoResult, Aligned
  <2> QED
    BY <2>1 DEF ReadInv, Merge!Init, Stage, UnreadRows, HeldRows, EmittedRows
<1>2. MergeInv /\ ReadInv /\ [Next]_vars => ReadInv' /\ [Merge!Next]_(Merge!vars)
  <2> SUFFICES ASSUME MergeInv, ReadInv, [Next]_vars
               PROVE  ReadInv' /\ [Merge!Next]_(Merge!vars)
    OBVIOUS
  <2>1. CASE Resolution
    <3>1. CASE phase' = "ownership"
      BY <2>1, <3>1, WorkWaits DEF Resolution, Fail
    <3>2. CASE phase' # "ownership"
      <4>1. phase = "resolve" /\ \E code : code # "PREPARATION_PROVENANCE_CONFLICT" /\ Fail(code)
        BY <2>1, <3>2 DEF Resolution
      <4> QED
        BY <4>1, FailureWaits
    <3> QED
      BY <3>1, <3>2
  <2>2. CASE Ownership
    <3>1. CASE phase' = "shape"
      BY <2>2, <3>1, WorkWaits DEF Ownership, Fail
    <3>2. CASE phase' # "shape"
      BY <2>2, <3>2, FailureWaits DEF Ownership
    <3> QED
      BY <3>1, <3>2
  <2>3. CASE ShapeOccurrence
    <3>1. CASE phase' = phase
      BY <2>3, <3>1, WorkWaits DEF ShapeOccurrence, Fail
    <3>2. CASE phase' # phase
      <4>1. phase = "shape" /\ \E code : code # "PREPARATION_PROVENANCE_CONFLICT" /\ Fail(code)
        BY <2>3, <3>2 DEF ShapeOccurrence
      <4> QED
        BY <4>1, FailureWaits
    <3> QED
      BY <3>1, <3>2
  <2>4. CASE Align
    <3>1. CASE phase' = "emit"
      BY <2>4, <3>1, AlignReads DEF Merge!Next
    <3>2. CASE phase' # "emit"
      BY <2>4, <3>2, FailureWaits DEF Align
    <3> QED
      BY <3>1, <3>2
  <2>5. CASE EmitGroupRow
    BY <2>5, GroupRowReads, GroupRowKeepsReads DEF Merge!Next
  <2>6. CASE EmitOrdinalRow
    BY <2>6, OrdinalRowReads, OrdinalRowKeepsReads DEF Merge!Next
  <2>7. CASE Render
    BY <2>7, RenderReads DEF Merge!Next
  <2>8. CASE UNCHANGED vars
    <3>1. UNCHANGED <<request, phase, tables, keys, plan, result>>
      BY <2>8 DEF vars
    <3>2. CASE Aligned
      <4>1. Aligned' /\ Stage' = Stage
        BY <3>1, <3>2 DEF Aligned, Stage
      <4> QED
        BY <3>1, <3>2, <4>1, ReadsUnchanged DEF Merge!vars
    <3>3. CASE ~Aligned
      <4>1. ~Aligned'
        BY <3>1, <3>3 DEF Aligned
      <4> QED
        BY <3>3, <4>1, WaitingReads
    <3> QED
      BY <3>2, <3>3
  <2> QED
    BY <2>1, <2>2, <2>3, <2>4, <2>5, <2>6, <2>7, <2>8 DEF Next, Returned
<1> QED
  BY <1>1, <1>2, MergeKeepsTypes, PTL DEF Spec, RefinesMatchMerge, Merge!Spec

-----------------------------------------------------------------------------
(* What the carrier shows                                                  *)

(* no two columns of one name *)
KeysOnce(cs) == \A m, n \in DOMAIN cs : m # n => ColumnKey(cs[m]) # ColumnKey(cs[n])

LEMMA KeysOfList ==
  ASSUME NEW cs, IsList(cs), KeysOnce(cs)
  PROVE  Cardinality(Keys(ToSet(cs))) = Len(cs)
<1> DEFINE D == 1..Len(cs)
           K == Keys(ToSet(cs))
           f == [n \in D |-> ColumnKey(cs[n])]
<1>1. DOMAIN cs = D /\ Len(cs) \in Nat
  BY ListFacts
<1>2. IsFiniteSet(D) /\ Cardinality(D) = Len(cs)
  BY <1>1, CountOfInterval
<1>3. \A n \in D : f[n] = ColumnKey(cs[n]) /\ f[n] \in K
  BY <1>1 DEF Keys, ToSet
<1>4. f \in [D -> K]
  BY <1>3
<1>5. \A k \in K : \E n \in D : f[n] = k
  BY <1>1 DEF Keys, ToSet
<1>6. \A m, n \in D : f[m] = f[n] => m = n
  BY <1>1 DEF KeysOnce
<1> HIDE DEF f, D, K
<1>7. f \in Bijection(D, K)
  BY <1>4, <1>5, <1>6 DEF Bijection, Injection, Surjection, IsInjective
<1>8. Cardinality(K) = Cardinality(D)
  BY <1>2, <1>7, FS_Bijection DEF ExistsBijection
<1> QED
  BY <1>2, <1>8 DEF K

LEMMA KeysOnceAfter ==
  ASSUME NEW a, NEW b, IsList(a), IsList(b), KeysOnce(a), KeysOnce(b),
         \A c \in ToSet(a), d \in ToSet(b) : ColumnKey(c) # ColumnKey(d)
  PROVE  KeysOnce(a \o b)
<1> DEFINE c == a \o b
<1>1. /\ DOMAIN c = 1..(Len(a) + Len(b))
      /\ \A i \in DOMAIN c : IF i <= Len(a) THEN c[i] = a[i] ELSE c[i] = b[i - Len(a)]
  BY JoinedLists
<1>2. /\ DOMAIN a = 1..Len(a) /\ Len(a) \in Nat /\ DOMAIN b = 1..Len(b) /\ Len(b) \in Nat
  BY ListFacts
<1> HIDE DEF c
<1>3. ASSUME NEW m \in DOMAIN c, NEW n \in DOMAIN c, m < n, ColumnKey(c[m]) = ColumnKey(c[n]) PROVE FALSE
  <2>1. CASE n <= Len(a)
    <3>1. m \in DOMAIN a /\ n \in DOMAIN a /\ m # n /\ c[m] = a[m] /\ c[n] = a[n]
      BY <1>1, <1>2, <1>3, <2>1
    <3> QED
      BY <1>3, <3>1 DEF KeysOnce
  <2>2. CASE m <= Len(a) /\ ~(n <= Len(a))
    <3>1. m \in DOMAIN a /\ n - Len(a) \in DOMAIN b /\ c[m] = a[m] /\ c[n] = b[n - Len(a)]
      BY <1>1, <1>2, <1>3, <2>2
    <3>2. a[m] \in ToSet(a) /\ b[n - Len(a)] \in ToSet(b)
      BY <3>1 DEF ToSet
    <3> QED
      BY <1>3, <3>1, <3>2
  <2>3. CASE ~(m <= Len(a))
    <3>1. /\ m - Len(a) \in DOMAIN b /\ n - Len(a) \in DOMAIN b /\ m - Len(a) # n - Len(a)
          /\ c[m] = b[m - Len(a)] /\ c[n] = b[n - Len(a)]
      BY <1>1, <1>2, <1>3, <2>3
    <3> QED
      BY <1>3, <3>1 DEF KeysOnce
  <2> QED
    BY <1>1, <1>2, <1>3, <2>1, <2>2, <2>3
<1>4. \A m, n \in DOMAIN c : m # n => m < n \/ n < m
  BY <1>1, <1>2
<1> QED
  BY <1>3, <1>4 DEF KeysOnce, c

LEMMA KeysOnceSelected ==
  ASSUME NEW s, IsList(s), KeysOnce(s), NEW I \in SUBSET DOMAIN s
  PROVE  KeysOnce(Selected(s, I))
<1> DEFINE c == Selected(s, I)
           L == Numbered(I)
<1>1. /\ L \in [DOMAIN c -> I] /\ \A p \in DOMAIN c : c[p] = s[L[p]]
      /\ \A p, q \in DOMAIN c : p # q => L[p] # L[q]
  BY SelectedList
<1> HIDE DEF c, L
<1> QED
  BY <1>1 DEF KeysOnce, c

(* lists of different names, one after the other *)
LEMMA KeysOnceJoined ==
  ASSUME NEW V, NEW parts \in Seq(Seq(V)), \A k \in DOMAIN parts : KeysOnce(parts[k]),
         \A k, l \in DOMAIN parts : k # l =>
           \A c \in ToSet(parts[k]), d \in ToSet(parts[l]) : ColumnKey(c) # ColumnKey(d)
  PROVE  /\ IsList(Joined(parts)) /\ KeysOnce(Joined(parts))
         /\ \A c : c \in ToSet(Joined(parts)) <=> \E k \in DOMAIN parts : c \in ToSet(parts[k])
<1> DEFINE J == Joined(parts)
           T == PlacesInTurn(parts)
<1>1. /\ J \in Seq(V)
      /\ IsFiniteSet(Places(parts)) /\ Cardinality(Places(parts)) \in Nat
      /\ DOMAIN J = 1..Cardinality(Places(parts))
      /\ \A p \in DOMAIN J : /\ T[p] = <<T[p][1], T[p][2]>> /\ T[p][1] \in DOMAIN parts
                             /\ T[p][2] \in DOMAIN parts[T[p][1]] /\ J[p] = parts[T[p][1]][T[p][2]]
      /\ \A k \in DOMAIN parts : \A n \in DOMAIN parts[k] : \E p \in DOMAIN J : T[p] = <<k, n>>
      /\ \A p, q \in DOMAIN J : p < q => <<T[p], T[q]>> \in InTurn(Places(parts))
  BY JoinedInOrder
<1>2. IsList(J)
  BY <1>1, SequencesAreLists
<1> HIDE DEF J, T
<1>3. \A p, q \in DOMAIN J : p < q => T[p][1] < T[q][1] \/ (T[p][1] = T[q][1] /\ T[p][2] < T[q][2])
  BY <1>1 DEF InTurn
<1>4. \A k \in DOMAIN parts : DOMAIN parts[k] \subseteq Int
  <2> SUFFICES ASSUME NEW k \in DOMAIN parts PROVE DOMAIN parts[k] \subseteq Int
    OBVIOUS
  <2>1. parts[k] \in Seq(V)
    OBVIOUS
  <2>2. DOMAIN parts[k] = 1..Len(parts[k])
    BY ONLY <2>1
  <2> QED
    BY ONLY <2>2
<1>5. ASSUME NEW p \in DOMAIN J, NEW q \in DOMAIN J, p < q, ColumnKey(J[p]) = ColumnKey(J[q]) PROVE FALSE
  <2>1. CASE T[p][1] = T[q][1]
    <3>2. T[p][2] \in Int /\ T[q][2] \in Int
      BY <1>1, <1>4
    <3>3. T[p][2] < T[q][2]
      <4>1. T[p][1] \in Int
        BY <1>1
      <4> QED
        BY <1>3, <1>5, <2>1, <4>1
    <3>1. T[p][2] # T[q][2]
      BY ONLY <3>2, <3>3
    <3> QED
      BY <1>1, <1>5, <2>1, <3>1 DEF KeysOnce
  <2>2. CASE T[p][1] # T[q][1]
    <3>1. J[p] \in ToSet(parts[T[p][1]]) /\ J[q] \in ToSet(parts[T[q][1]])
      BY <1>1 DEF ToSet
    <3> QED
      BY <1>1, <1>5, <2>2, <3>1
  <2> QED
    BY <2>1, <2>2
<1>6. KeysOnce(J)
  <2>1. \A p, q \in DOMAIN J : p # q => p < q \/ q < p
    BY <1>1
  <2> QED
    BY <1>5, <2>1 DEF KeysOnce
<1>7. ASSUME NEW c PROVE c \in ToSet(J) <=> \E k \in DOMAIN parts : c \in ToSet(parts[k])
  <2>1. ASSUME c \in ToSet(J) PROVE \E k \in DOMAIN parts : c \in ToSet(parts[k])
    <3>1. PICK p \in DOMAIN J : c = J[p]
      BY <2>1 DEF ToSet
    <3> QED
      BY <1>1, <3>1 DEF ToSet
  <2>2. ASSUME NEW k \in DOMAIN parts, c \in ToSet(parts[k]) PROVE c \in ToSet(J)
    <3>1. PICK n \in DOMAIN parts[k] : c = parts[k][n]
      BY <2>2 DEF ToSet
    <3>2. PICK p \in DOMAIN J : T[p] = <<k, n>>
      BY <1>1
    <3>3. T[p][1] = k /\ T[p][2] = n
      BY <3>2
    <3>4. J[p] = c
      BY <1>1, <3>1, <3>3
    <3> QED
      BY <3>4 DEF ToSet
  <2> QED
    BY <2>1, <2>2
<1> QED
  BY <1>2, <1>6, <1>7 DEF J

LEMMA FlagsOnce ==
  ASSUME NEW bs, IsList(bs), \A m, n \in DOMAIN bs : m # n => bs[m][2] # bs[n][2]
  PROVE  LET flags == FlagColumns(bs)
         IN  /\ IsList(flags) /\ KeysOnce(flags)
             /\ \A c : c \in ToSet(flags) <=> \E n \in DOMAIN bs : c = Flag("FIRST", bs[n]) \/ c = Flag("LAST", bs[n])
<1> DEFINE N == Len(bs)
           flags == FlagColumns(bs)
           h(i) == (i + 1) \div 2
           kind(i) == IF i % 2 = 1 THEN "FIRST" ELSE "LAST"
<1>1. DOMAIN bs = 1..N /\ N \in Nat
  BY ListFacts
<1>2. /\ flags = [n \in 1..(2 * N) |-> flags[n]]
      /\ DOMAIN flags = 1..(2 * N) /\ 2 * N \in Nat
      /\ \A n \in 1..(2 * N) : flags[n] = Flag(kind(n), bs[h(n)])
  BY <1>1 DEF FlagColumns
<1>3. IsList(flags)
  <2> HIDE DEF flags
  <2> QED
    BY <1>2, MappedList
<1> HIDE DEF flags
<1>4. \A n \in 1..(2 * N) : h(n) \in 1..N
  BY <1>1
<1>5. \A m \in 1..N : /\ 2 * m - 1 \in 1..(2 * N) /\ kind(2 * m - 1) = "FIRST" /\ h(2 * m - 1) = m
                      /\ 2 * m \in 1..(2 * N) /\ kind(2 * m) = "LAST" /\ h(2 * m) = m
  BY <1>1
<1>6. \A m, n \in 1..(2 * N) : m # n => h(m) # h(n) \/ kind(m) # kind(n)
  BY <1>1
<1> HIDE DEF h, kind
<1>7. KeysOnce(flags)
  <2>1. ASSUME NEW m \in 1..(2 * N), NEW n \in 1..(2 * N), m # n PROVE ColumnKey(flags[m]) # ColumnKey(flags[n])
    <3>1. ColumnKey(flags[m]) = <<kind(m), bs[h(m)][2]>> /\ ColumnKey(flags[n]) = <<kind(n), bs[h(n)][2]>>
      BY <1>2 DEF Flag, ColumnKey
    <3>2. h(m) # h(n) => bs[h(m)][2] # bs[h(n)][2]
      BY <1>1, <1>4
    <3> QED
      BY <1>6, <2>1, <3>1, <3>2
  <2> QED
    BY <1>2, <2>1 DEF KeysOnce
<1>8. ASSUME NEW c PROVE c \in ToSet(flags) <=> \E n \in DOMAIN bs : c = Flag("FIRST", bs[n]) \/ c = Flag("LAST", bs[n])
  <2>1. ASSUME c \in ToSet(flags) PROVE \E n \in DOMAIN bs : c = Flag("FIRST", bs[n]) \/ c = Flag("LAST", bs[n])
    <3>1. PICK n \in 1..(2 * N) : c = flags[n]
      BY <1>2, <2>1 DEF ToSet
    <3> QED
      BY <1>1, <1>2, <1>4, <3>1 DEF kind
  <2>2. ASSUME NEW n \in DOMAIN bs PROVE Flag("FIRST", bs[n]) \in ToSet(flags) /\ Flag("LAST", bs[n]) \in ToSet(flags)
    <3>1. flags[2 * n - 1] = Flag("FIRST", bs[n]) /\ flags[2 * n] = Flag("LAST", bs[n])
      BY <1>1, <1>2, <1>5
    <3> QED
      BY <1>1, <1>2, <1>5, <3>1 DEF ToSet
  <2> QED
    BY <2>1, <2>2
<1> QED
  BY <1>3, <1>7, <1>8 DEF flags

(* Each shaped source has one column of a name, none of them a FIRST. or   *)
(* LAST. variable; BY names a column once, and an IN= variable is not      *)
(* named like a FIRST. or LAST. variable.                                  *)
NamesApart ==
  /\ \A s \in DOMAIN tables : KeysOnce(tables[s].cols) /\ \A c \in Columns(tables[s]) : c[1] = "var"
  /\ KeysOnce(by)
  /\ \A s \in Occurrences : refs[s].in # NoVar => refs[s].in[1] = "var"
(* No source is the carrier of an earlier MERGE; such a source may have    *)
(* columns with the names of automatic variables.                          *)
Unclaimed == \A s \in Occurrences : Input(s).prep # "prepared_merge"

(* What was checked before alignment: the shaped sources have no column of *)
(* an automatic variable, and each ordinary column has one provider.       *)
Checked ==
  /\ phase \in {"resolve", "ownership"} => tables = <<>>
  /\ phase \in {"shape", "emit", "done"} =>
       /\ \A s \in DOMAIN tables : /\ Input(s).kind = "table" /\ tables[s] = Shape(Input(s).table, refs[s].opts)
                                   /\ ~Collides(Columns(tables[s]), Internal, Input(s).prep)
       /\ (\A s \in Occurrences : Input(s).kind = "table") => ~Ambiguous
(* with BY, a row of the plan picks rows of its key *)
KeysPicked ==
  by # <<>> => \A p \in DOMAIN plan : \A s \in Occurrences :
                 plan[p].pick[s] # 0 => KeyAt(s, plan[p].pick[s]) = plan[p].key
CarrierKept == phase = "done" => result.inputs[refs[1].name].table = Carrier
CarrierInv == Checked /\ KeysPicked /\ CarrierKept

Own == Joined([s \in Occurrences |-> OwnColumns(s)])
Ready == MergeInv /\ CarrierInv /\ phase \in {"emit", "done"} /\ NamesApart /\ Unclaimed

LEMMA ReadySources ==
  ASSUME Ready
  PROVE  /\ Sources /\ DOMAIN tables = Occurrences /\ 1 \in Occurrences /\ IsList(by) /\ IsList(refs)
         /\ \A s \in Occurrences : /\ IsTable(tables[s], Cells) /\ IsList(tables[s].cols)
                                   /\ \A n \in DOMAIN by : HasColumn(tables[s], by[n])
<1>1. Sources
  BY DEF Ready, MergeInv, Sources
<1>2. 1 \in Occurrences /\ IsList(by) /\ IsList(refs)
  BY <1>1, RequestFacts DEF Sources, IsList
<1>3. DOMAIN tables = Occurrences
  BY <1>1, SourceRows
<1>4. ASSUME NEW s \in Occurrences
      PROVE  /\ IsTable(tables[s], Cells) /\ IsList(tables[s].cols)
             /\ \A n \in DOMAIN by : HasColumn(tables[s], by[n])
  <2>1. IsTable(tables[s], Cells) /\ \A n \in DOMAIN by : HasColumn(tables[s], by[n])
    BY <1>1, SourceRows
  <2> QED
    BY <2>1 DEF IsTable, Columns, IsList
<1> QED
  BY <1>1, <1>2, <1>3, <1>4

(* the columns that BY names: ordinary columns of every source *)
LEMMA KeyNames ==
  ASSUME Ready, NEW s \in Occurrences, NEW n \in DOMAIN by
  PROVE  LET c == Resolve(tables[s], by[n])
         IN  /\ c \in Columns(tables[s]) /\ ColumnKey(c) = ColumnKey(by[n]) /\ IsBy(c) /\ by[n][1] = "var"
             /\ \A d : ColumnKey(d) = ColumnKey(by[n]) => Resolve(tables[s], d) = c
<1> DEFINE t == tables[s]
<1>1. IsTable(t, Cells) /\ HasColumn(t, by[n]) /\ KeysOnce(t.cols) /\ \A c \in Columns(t) : c[1] = "var"
  BY ReadySources DEF Ready, NamesApart
<1>2. Resolve(t, by[n]) \in Columns(t) /\ ColumnKey(Resolve(t, by[n])) = ColumnKey(by[n])
  BY <1>1, ResolvedColumn
<1>3. by[n][1] = "var"
  BY <1>1, <1>2 DEF ColumnKey
<1>4. IsBy(Resolve(t, by[n]))
  BY <1>2 DEF IsBy, Keys, ToSet
<1>5. ASSUME NEW d, ColumnKey(d) = ColumnKey(by[n]) PROVE Resolve(t, d) = Resolve(t, by[n])
  <2>1. HasColumn(t, d)
    BY <1>1, <1>5 DEF HasColumn, Spellings
  <2>2. Resolve(t, d) \in Columns(t) /\ ColumnKey(Resolve(t, d)) = ColumnKey(d)
    BY <1>1, <2>1, ResolvedColumn
  <2> QED
    BY <1>1, <1>2, <1>5, <2>2 DEF KeysOnce, Columns, ToSet
<1> QED
  BY <1>2, <1>3, <1>4, <1>5

LEMMA KeyColumnsOnce ==
  ASSUME Ready
  PROVE  /\ IsList(KeyColumns) /\ KeysOnce(KeyColumns) /\ DOMAIN KeyColumns = DOMAIN by
         /\ \A n \in DOMAIN by : KeyColumns[n] = Resolve(tables[1], by[n])
<1> DEFINE K == KeyColumns
<1>1. K = [n \in DOMAIN by |-> Resolve(tables[1], by[n])]
  BY DEF KeyColumns
<1>2. DOMAIN by = 1..Len(by) /\ Len(by) \in Nat /\ 1 \in Occurrences
  BY ReadySources, ListFacts
<1>3. /\ DOMAIN K = DOMAIN by /\ \A n \in DOMAIN by : K[n] = Resolve(tables[1], by[n])
      /\ K = [n \in 1..Len(by) |-> K[n]]
  BY <1>1, <1>2
<1> HIDE DEF K
<1>4. IsList(K)
  BY <1>2, <1>3, MappedList
<1>5. \A n \in DOMAIN by : ColumnKey(K[n]) = ColumnKey(by[n])
  BY <1>2, <1>3, KeyNames
<1>6. KeysOnce(K)
  BY <1>3, <1>5 DEF Ready, NamesApart, KeysOnce
<1> QED
  BY <1>3, <1>4, <1>6 DEF K

(* the other columns of the sources: each is of one source *)
LEMMA OwnColumnsOnce ==
  ASSUME Ready
  PROVE  /\ IsList(Own) /\ KeysOnce(Own)
         /\ \A c : c \in ToSet(Own) <=> \E s \in Occurrences : c \in Columns(tables[s]) /\ ~IsBy(c)
         /\ \A s, t \in Occurrences : \A c \in Columns(tables[s]) :
              ~IsBy(c) /\ HasColumn(tables[t], c) => t = s
<1> DEFINE parts == [s \in Occurrences |-> OwnColumns(s)]
           V == UNION {Columns(tables[s]) : s \in Occurrences}
<1>1. /\ DOMAIN tables = Occurrences /\ Occurrences = 1..Len(refs) /\ Len(refs) \in Nat
      /\ \A s \in Occurrences : IsList(tables[s].cols) /\ KeysOnce(tables[s].cols)
  BY ReadySources, ListFacts DEF Ready, NamesApart, Occurrences
<1>2. ASSUME NEW s \in Occurrences
      PROVE  /\ IsList(OwnColumns(s)) /\ KeysOnce(OwnColumns(s))
             /\ ToSet(OwnColumns(s)) = {c \in Columns(tables[s]) : ~IsBy(c)}
  <2> DEFINE a == tables[s].cols
             I == {i \in DOMAIN a : ~IsBy(a[i])}
  <2>1. I \in SUBSET DOMAIN a /\ OwnColumns(s) = Selected(a, I) /\ IsList(a) /\ KeysOnce(a)
    BY <1>1 DEF OwnColumns
  <2>2. {a[i] : i \in I} = {c \in Columns(tables[s]) : ~IsBy(c)}
    BY DEF Columns, ToSet
  <2> HIDE DEF a, I
  <2>3. IsList(Selected(a, I)) /\ ToSet(Selected(a, I)) = {a[i] : i \in I}
    BY ONLY <2>1, SelectedList
  <2>4. KeysOnce(Selected(a, I))
    BY <2>1, KeysOnceSelected
  <2> QED
    BY <2>1, <2>2, <2>3, <2>4
<1>3. ASSUME NEW s \in Occurrences, NEW t \in Occurrences, NEW c \in Columns(tables[s]), ~IsBy(c),
             HasColumn(tables[t], c)
      PROVE  t = s
  <2>1. ~Ambiguous /\ \A u \in Occurrences : /\ tables[u] = Shape(Input(u).table, refs[u].opts)
                                             /\ \A d \in Columns(tables[u]) : d[1] = "var"
    BY <1>1 DEF Ready, CarrierInv, Checked, NamesApart
  <2>2. \A u \in Occurrences : Provided(u) = {k \in Keys(Columns(tables[u])) : k[1] = "var"} \ Keys(ToSet(by))
    BY <2>1 DEF Provided, Columns
  <2>3. ColumnKey(c) \in Provided(s)
    BY <1>3, <2>1, <2>2 DEF Keys, IsBy, ColumnKey
  <2>4. \E d \in Columns(tables[t]) : ColumnKey(d) = ColumnKey(c)
    BY <1>3 DEF HasColumn, Spellings, Columns, ToSet
  <2>5. ColumnKey(c) \in Provided(t)
    BY <1>3, <2>1, <2>2, <2>3, <2>4 DEF Keys, IsBy, ColumnKey
  <2> QED
    BY <2>1, <2>3, <2>5 DEF Ambiguous
<1>4. parts \in Seq(Seq(V)) /\ DOMAIN parts = Occurrences /\ \A s \in Occurrences : parts[s] = OwnColumns(s)
  <2>1. \A s \in Occurrences : OwnColumns(s) \in Seq(V)
    <3> SUFFICES ASSUME NEW s \in Occurrences PROVE OwnColumns(s) \in Seq(V)
      OBVIOUS
    <3>1. OwnColumns(s) \in Seq(ToSet(OwnColumns(s))) /\ ToSet(OwnColumns(s)) \subseteq V
      BY <1>2 DEF IsList
    <3> DEFINE o == OwnColumns(s)
    <3> HIDE DEF V, o
    <3> QED
      BY <3>1 DEF o
  <2> QED
    BY <1>1, <2>1
<1> HIDE DEF parts, V
<1>5. \A k \in DOMAIN parts : KeysOnce(parts[k])
  BY <1>2, <1>4
<1>6. ASSUME NEW k \in DOMAIN parts, NEW l \in DOMAIN parts, k # l, NEW c \in ToSet(parts[k]), NEW d \in ToSet(parts[l])
      PROVE  ColumnKey(c) # ColumnKey(d)
  <2>1. k \in Occurrences /\ l \in Occurrences /\ c \in Columns(tables[k]) /\ ~IsBy(c) /\ d \in Columns(tables[l])
    BY <1>2, <1>4, <1>6
  <2>2. ColumnKey(c) = ColumnKey(d) => HasColumn(tables[l], c)
    BY <2>1 DEF HasColumn, Spellings, Columns, ToSet
  <2> QED
    BY <1>3, <1>6, <2>1, <2>2
<1>7. /\ IsList(Joined(parts)) /\ KeysOnce(Joined(parts))
      /\ \A c : c \in ToSet(Joined(parts)) <=> \E k \in DOMAIN parts : c \in ToSet(parts[k])
  BY <1>4, <1>5, <1>6, KeysOnceJoined
<1>8. Own = Joined(parts)
  BY DEF Own, parts
<1>9. ASSUME NEW c
      PROVE  c \in ToSet(Own) <=> \E s \in Occurrences : c \in Columns(tables[s]) /\ ~IsBy(c)
  BY <1>2, <1>4, <1>7, <1>8
<1> QED
  BY <1>3, <1>7, <1>8, <1>9

(* the IN= variables: each once, and no source has a column of the name *)
LEMMA InColumnsOnce ==
  ASSUME Ready
  PROVE  /\ IsList(InColumns) /\ KeysOnce(InColumns)
         /\ \A c \in ToSet(InColumns) : /\ c[1] = "var" /\ c \in {refs[s].in : s \in Occurrences} \ {NoVar}
                                        /\ \A s \in Occurrences : \A d \in Columns(tables[s]) : ColumnKey(d) # ColumnKey(c)
         /\ \A s \in Occurrences : refs[s].in # NoVar /\ Naming(refs[s].in) = {s} => refs[s].in \in ToSet(InColumns)
<1> DEFINE S == {s \in Occurrences : refs[s].in # NoVar /\ s = Min(Naming(refs[s].in))}
           L == Numbered(S)
           I == InColumns
<1>1. I = [n \in DOMAIN L |-> refs[L[n]].in]
  BY DEF InColumns
<1>2. /\ DOMAIN tables = Occurrences /\ Occurrences = 1..Len(refs) /\ Len(refs) \in Nat
  BY ReadySources, ListFacts DEF Occurrences
<1>3. S \subseteq Int /\ IsFiniteSet(S)
  <2>1. S \subseteq Occurrences /\ IsFiniteSet(Occurrences)
    BY <1>2, CountOfInterval
  <2> HIDE DEF S
  <2>2. S \in SUBSET Occurrences
    BY <2>1
  <2>3. IsFiniteSet(S)
    BY ONLY <2>1, <2>2, FS_Subset
  <2> QED
    BY <1>2, <2>1, <2>3
<1> DEFINE N == Len(L)
<1>4. /\ DOMAIN L = 1..N /\ N \in Nat /\ \A n \in DOMAIN L : L[n] \in S
      /\ \A s \in S : \E n \in DOMAIN L : L[n] = s
      /\ \A m, n \in DOMAIN L : m # n => L[m] # L[n]
  <2> HIDE DEF S
  <2>1. /\ L \in Seq(S) /\ \A p \in DOMAIN L : L[p] \in S
        /\ \A i \in S : LET p == Cardinality({j \in S : j < i}) + 1 IN p \in DOMAIN L /\ L[p] = i
        /\ \A p, q \in DOMAIN L : p < q => L[p] < L[q]
    BY <1>3, NumberedInOrder
  <2>2. DOMAIN L = 1..N /\ N \in Nat
    BY <2>1
  <2>3. \A m, n \in DOMAIN L : m # n => L[m] # L[n]
    <3>1. \A n \in DOMAIN L : L[n] \in Int
      BY <1>3, <2>1
    <3> QED
      BY <2>1, <2>2, <3>1
  <2> QED
    BY <2>1, <2>2, <2>3
<1> HIDE DEF L, N
<1>5. /\ DOMAIN I = DOMAIN L /\ \A n \in DOMAIN I : I[n] = refs[L[n]].in
      /\ I = [n \in 1..N |-> I[n]]
  BY <1>1, <1>4
<1> HIDE DEF I
<1>6. IsList(I)
  BY <1>4, <1>5, MappedList
<1>7. KeysOnce(I)
  <2> SUFFICES ASSUME NEW m \in DOMAIN I, NEW n \in DOMAIN I, m # n, ColumnKey(I[m]) = ColumnKey(I[n]) PROVE FALSE
    BY DEF KeysOnce
  <2>1. Naming(I[m]) = Naming(I[n])
    BY DEF Naming
  <2>2. L[m] = Min(Naming(I[m])) /\ L[n] = Min(Naming(I[n]))
    BY <1>4, <1>5
  <2> QED
    BY <1>4, <1>5, <2>1, <2>2
<1>8. ASSUME NEW c \in ToSet(I)
      PROVE  /\ c[1] = "var" /\ c \in {refs[s].in : s \in Occurrences} \ {NoVar}
             /\ \A s \in Occurrences : \A d \in Columns(tables[s]) : ColumnKey(d) # ColumnKey(c)
  <2>1. PICK s \in Occurrences : refs[s].in # NoVar /\ c = refs[s].in
    BY <1>4, <1>5 DEF ToSet
  <2>2. c \in Internal
    BY <2>1 DEF Internal, InternalNames, Occurrences
  <2>3. \A u \in Occurrences : Keys(Columns(tables[u])) \cap Keys(Internal) = {}
    BY <1>2 DEF Ready, CarrierInv, Checked, Unclaimed, Collides
  <2>4. \A u \in Occurrences : \A d \in Columns(tables[u]) : ColumnKey(d) # ColumnKey(c)
    BY <2>2, <2>3 DEF Keys
  <2> QED
    BY <2>1, <2>4 DEF Ready, NamesApart
<1>9. ASSUME NEW s \in Occurrences, refs[s].in # NoVar, Naming(refs[s].in) = {s}
      PROVE  refs[s].in \in ToSet(I)
  <2>1. Min({s}) = s
    <3>1. s \in Int
      BY <1>2
    <3> QED
      BY <3>1 DEF Min
  <2>2. s \in S
    BY <1>9, <2>1
  <2> QED
    BY <1>4, <1>5, <2>2 DEF ToSet
<1> QED
  BY <1>6, <1>7, <1>8, <1>9 DEF I

(* the columns of the carrier, and what is in them *)
LEMMA CarrierColumns ==
  ASSUME Ready
  PROVE  LET cols == Carrier.cols
             flags == ToSet(FlagColumns(by))
         IN  /\ IsList(cols) /\ KeysOnce(cols)
             /\ ToSet(cols) = ToSet(KeyColumns) \cup ToSet(Own) \cup ToSet(InColumns) \cup flags
             /\ \A c \in ToSet(KeyColumns) \cup ToSet(Own) \cup ToSet(InColumns) : c \notin flags
             /\ ToSet(KeyColumns) \cap ToSet(InColumns) = {}
             /\ ToSet(Own) \cap (ToSet(KeyColumns) \cup ToSet(InColumns)) = {}
             /\ \A c : c \in flags <=> \E n \in DOMAIN by : c = Flag("FIRST", by[n]) \/ c = Flag("LAST", by[n])
<1> DEFINE K == KeyColumns
           O == Own
           I == InColumns
           F == FlagColumns(by)
<1>1. Carrier.cols = K \o O \o I \o F
  BY DEF Carrier, Own
<1>2. /\ IsList(K) /\ KeysOnce(K) /\ IsList(O) /\ KeysOnce(O) /\ IsList(I) /\ KeysOnce(I)
  BY KeyColumnsOnce, OwnColumnsOnce, InColumnsOnce
<1>3. 1 \in Occurrences /\ IsList(by) /\ \A n \in DOMAIN by : by[n][1] = "var"
  BY ReadySources, KeyNames
<1>4. \A m, n \in DOMAIN by : m # n => by[m][2] # by[n][2]
  BY <1>3 DEF Ready, NamesApart, KeysOnce, ColumnKey
<1>5. /\ IsList(F) /\ KeysOnce(F)
      /\ \A c : c \in ToSet(F) <=> \E n \in DOMAIN by : c = Flag("FIRST", by[n]) \/ c = Flag("LAST", by[n])
  BY <1>3, <1>4, FlagsOnce
<1>6. \A c \in ToSet(K) : IsBy(c) /\ c \in Columns(tables[1]) /\ c[1] = "var"
  <2> SUFFICES ASSUME NEW c \in ToSet(K) PROVE IsBy(c) /\ c \in Columns(tables[1]) /\ c[1] = "var"
    OBVIOUS
  <2>1. PICK n \in DOMAIN by : c = Resolve(tables[1], by[n])
    BY KeyColumnsOnce DEF ToSet
  <2>2. IsBy(c) /\ c \in Columns(tables[1])
    BY <1>3, <2>1, KeyNames
  <2> QED
    BY <1>3, <2>2, ReadySources DEF Ready, NamesApart
<1>7. \A c \in ToSet(O) : ~IsBy(c) /\ c[1] = "var" /\ \E s \in Occurrences : c \in Columns(tables[s])
  BY OwnColumnsOnce, ReadySources DEF Ready, NamesApart
<1>8. \A c \in ToSet(I) : c[1] = "var" /\ \A s \in Occurrences : \A d \in Columns(tables[s]) : ColumnKey(d) # ColumnKey(c)
  BY InColumnsOnce
<1>9. \A c \in ToSet(F) : c[1] # "var"
  <2>1. \A b : Flag("FIRST", b)[1] = "FIRST" /\ Flag("LAST", b)[1] = "LAST"
    BY DEF Flag
  <2> QED
    BY <1>5, <2>1
<1> HIDE DEF K, O, I, F
<1>10. \A c \in ToSet(K), d \in ToSet(O) : ColumnKey(c) # ColumnKey(d)
  BY <1>6, <1>7 DEF IsBy
<1>11. \A c \in ToSet(K) \cup ToSet(O), d \in ToSet(I) : ColumnKey(c) # ColumnKey(d)
  BY <1>3, <1>6, <1>7, <1>8
<1>12. \A c \in ToSet(K) \cup ToSet(O) \cup ToSet(I), d \in ToSet(F) : ColumnKey(c) # ColumnKey(d)
  BY <1>6, <1>7, <1>8, <1>9 DEF ColumnKey
<1>13. IsList(K \o O) /\ KeysOnce(K \o O) /\ ToSet(K \o O) = ToSet(K) \cup ToSet(O)
  BY <1>2, <1>10, JoinedLists, KeysOnceAfter
<1> DEFINE A == K \o O
<1> HIDE DEF A
<1>14. IsList(A \o I) /\ KeysOnce(A \o I) /\ ToSet(A \o I) = ToSet(K) \cup ToSet(O) \cup ToSet(I)
  <2>1. IsList(A) /\ KeysOnce(A) /\ ToSet(A) = ToSet(K) \cup ToSet(O)
    BY <1>13 DEF A
  <2>2. \A c \in ToSet(A), d \in ToSet(I) : ColumnKey(c) # ColumnKey(d)
    BY <1>11, <2>1
  <2> QED
    BY <1>2, <2>1, <2>2, JoinedLists, KeysOnceAfter
<1> DEFINE B == A \o I
<1> HIDE DEF B
<1>15. IsList(B \o F) /\ KeysOnce(B \o F) /\ ToSet(B \o F) = ToSet(K) \cup ToSet(O) \cup ToSet(I) \cup ToSet(F)
  <2>1. IsList(B) /\ KeysOnce(B) /\ ToSet(B) = ToSet(K) \cup ToSet(O) \cup ToSet(I)
    BY <1>14 DEF B
  <2>2. \A c \in ToSet(B), d \in ToSet(F) : ColumnKey(c) # ColumnKey(d)
    BY <1>12, <2>1
  <2> QED
    BY <1>5, <2>1, <2>2, JoinedLists, KeysOnceAfter
<1>16. Carrier.cols = B \o F
  BY <1>1 DEF A, B
<1>17. /\ ToSet(K) \cap ToSet(I) = {} /\ ToSet(O) \cap (ToSet(K) \cup ToSet(I)) = {}
       /\ \A c \in ToSet(K) \cup ToSet(O) \cup ToSet(I) : c \notin ToSet(F)
  BY <1>10, <1>11, <1>12
<1> QED
  BY <1>5, <1>15, <1>16, <1>17 DEF K, O, I, F

LEMMA CarrierCells ==
  ASSUME Ready
  PROVE  /\ Len(Carrier.rows) = Len(plan)
         /\ \A p \in DOMAIN plan : \A c \in ToSet(Carrier.cols) :
              Carrier.rows[p][c] = IF c \in ToSet(FlagColumns(by)) THEN FlagValue(p, c)
                                   ELSE IF c \in ToSet(KeyColumns) THEN KeyValue(p, c)
                                   ELSE IF c \in ToSet(InColumns) THEN InValue(p, c) ELSE OwnValue(p, c)
<1> DEFINE C == Carrier.cols
           R == Carrier.rows
           Value(p, c) == IF c \in ToSet(FlagColumns(by)) THEN FlagValue(p, c)
                          ELSE IF c \in ToSet(KeyColumns) THEN KeyValue(p, c)
                          ELSE IF c \in ToSet(InColumns) THEN InValue(p, c) ELSE OwnValue(p, c)
<1>1. R = [p \in DOMAIN plan |-> [c \in ToSet(C) |-> Value(p, c)]]
  BY DEF Carrier, Own
<1>2. DOMAIN plan = 1..Len(plan) /\ Len(plan) \in Nat
  BY OwnElements DEF Ready, MergeInv, PlanInv
<1> HIDE DEF C, R, Value
<1>3. R = [p \in 1..Len(plan) |-> R[p]] /\ \A p \in DOMAIN plan : \A c \in ToSet(C) : R[p][c] = Value(p, c)
  BY <1>1, <1>2
<1>4. Len(R) = Len(plan)
  BY <1>2, <1>3, MappedList
<1> QED
  BY <1>3, <1>4 DEF C, R, Value

(* asked for a column of BY, the carrier finds its only one *)
LEMMA CarrierResolves ==
  ASSUME Ready
  PROVE  /\ \A c \in ToSet(Carrier.cols) : Resolve(Carrier, c) = c
         /\ \A n \in DOMAIN by : Resolve(Carrier, by[n]) = KeyColumns[n]
<1> DEFINE C == Carrier.cols
           u == [cols |-> C, rows |-> <<>>, type |-> "none"]
<1>1. IsList(C) /\ KeysOnce(C) /\ ToSet(KeyColumns) \subseteq ToSet(C)
  BY CarrierColumns
<1>2. \A c \in ToSet(C) : Resolve(Carrier, c) = c
  BY DEF Resolve, Columns
<1>3. ASSUME NEW n \in DOMAIN by PROVE Resolve(Carrier, by[n]) = KeyColumns[n]
  <2>1. KeyColumns[n] \in ToSet(C) /\ ColumnKey(KeyColumns[n]) = ColumnKey(by[n])
    <3>1. KeyColumns[n] = Resolve(tables[1], by[n]) /\ n \in DOMAIN KeyColumns /\ 1 \in Occurrences
      BY KeyColumnsOnce, ReadySources
    <3>2. KeyColumns[n] \in ToSet(KeyColumns)
      BY <3>1 DEF ToSet
    <3> QED
      BY <1>1, <3>1, <3>2, KeyNames
  <2> HIDE DEF C
  <2>2. u.cols = C /\ IsTable(u, Cells) /\ Columns(u) = ToSet(C)
    BY <1>1 DEF IsTable, Columns, IsList
  <2>3. HasColumn(u, by[n])
    BY <2>1, <2>2 DEF HasColumn, Spellings, ToSet
  <2>4. Resolve(u, by[n]) \in ToSet(C) /\ ColumnKey(Resolve(u, by[n])) = ColumnKey(by[n])
    BY <2>2, <2>3, ResolvedColumn
  <2>5. Resolve(u, by[n]) = KeyColumns[n]
    BY <1>1, <2>1, <2>4 DEF KeysOnce, ToSet
  <2>6. Resolve(Carrier, by[n]) = Resolve(u, by[n])
    BY <2>2, SameColumnsResolve DEF C
  <2> QED
    BY <2>5, <2>6
<1> QED
  BY <1>2, <1>3

LEMMA OwnCell ==
  ASSUME Ready, NEW p \in DOMAIN plan, NEW s \in Occurrences, NEW c \in Columns(tables[s]), ~IsBy(c)
  PROVE  OwnValue(p, c) = IF plan[p].pick[s] = 0 THEN Null ELSE Picked(p, s)[c]
<1>1. HasColumn(tables[s], c) /\ Resolve(tables[s], c) = c
  BY DEF HasColumn, Spellings, Resolve, Columns, ToSet
<1>2. \A t \in Occurrences : HasColumn(tables[t], c) => t = s
  BY OwnColumnsOnce
<1>3. s \in Int
  BY ReadySources, ListFacts DEF Occurrences
<1>4. CASE plan[p].pick[s] = 0
  <2>1. Owners(c, p) = {}
    BY <1>2, <1>4 DEF Owners, Present
  <2> QED
    BY <1>4, <2>1 DEF OwnValue
<1>5. CASE plan[p].pick[s] # 0
  <2>1. Owners(c, p) = {s}
    BY <1>1, <1>2, <1>5 DEF Owners, Present
  <2>2. Max({s}) = s
    BY <1>3 DEF Max
  <2> QED
    BY <1>1, <1>5, <2>1, <2>2 DEF OwnValue
<1> QED
  BY <1>4, <1>5

LEMMA KeyCell ==
  ASSUME Ready, NEW p \in DOMAIN plan, NEW n \in DOMAIN by
  PROVE  KeyValue(p, KeyColumns[n]) = plan[p].key[n]
<1> DEFINE P == Present(p)
           s == Min(P)
<1>1. P # {} /\ P \subseteq Occurrences /\ Occurrences = 1..Len(refs) /\ Len(refs) \in Nat
  BY ReadySources, ListFacts DEF Ready, MergeInv, PlanInv, Present, Occurrences
<1>2. s \in P
  <2>1. P \subseteq Nat /\ P # {}
    BY <1>1
  <2> HIDE DEF P
  <2> QED
    BY <2>1, LeastNumber DEF Min
<1>3. s \in Occurrences /\ plan[p].pick[s] # 0
  BY <1>2 DEF Present
<1>4. by # <<>>
  OBVIOUS
<1>5. KeyAt(s, plan[p].pick[s]) = plan[p].key
  BY <1>3, <1>4 DEF Ready, CarrierInv, KeysPicked
<1>6. KeyValue(p, KeyColumns[n]) = Picked(p, s)[Resolve(tables[s], KeyColumns[n])]
  BY DEF KeyValue
<1> HIDE DEF s
<1>7. KeyAt(s, plan[p].pick[s])[n] = Picked(p, s)[Resolve(tables[s], by[n])]
  BY DEF KeyAt, RowKey, Picked
<1>8. ColumnKey(KeyColumns[n]) = ColumnKey(by[n])
  BY KeyColumnsOnce, KeyNames, ReadySources
<1>9. Resolve(tables[s], KeyColumns[n]) = Resolve(tables[s], by[n])
  BY <1>3, <1>8, KeyNames
<1> QED
  BY <1>5, <1>6, <1>7, <1>9

LEMMA FlagCell ==
  ASSUME Ready, NEW p \in DOMAIN plan, NEW n \in DOMAIN by
  PROVE  /\ FlagValue(p, Flag("FIRST", by[n])) = KeyChanges(n, p, p - 1)
         /\ FlagValue(p, Flag("LAST", by[n])) = KeyChanges(n, p, p + 1)
<1>1. \A m \in DOMAIN by : by[m][1] = "var"
  BY ReadySources, KeyNames
<1>2. \A m \in DOMAIN by : by[m][2] = by[n][2] => m = n
  BY <1>1 DEF Ready, NamesApart, KeysOnce, ColumnKey
<1> DEFINE At(c) == CHOOSE m \in DOMAIN by : c \in {Flag("FIRST", by[m]), Flag("LAST", by[m])}
<1>3. ASSUME NEW kind \in {"FIRST", "LAST"} PROVE At(Flag(kind, by[n])) = n
  <2>1. Flag(kind, by[n]) \in {Flag("FIRST", by[n]), Flag("LAST", by[n])}
    OBVIOUS
  <2>2. \A m \in DOMAIN by : Flag(kind, by[n]) \in {Flag("FIRST", by[m]), Flag("LAST", by[m])} => m = n
    BY <1>2 DEF Flag
  <2> QED
    BY <2>1, <2>2
<1>4. \A c : FlagValue(p, c) = KeyChanges(At(c), p, IF c[1] = "FIRST" THEN p - 1 ELSE p + 1)
  BY DEF FlagValue
<1>5. Flag("FIRST", by[n])[1] = "FIRST" /\ Flag("LAST", by[n])[1] = "LAST"
  BY DEF Flag
<1> HIDE DEF At
<1>6. At(Flag("FIRST", by[n])) = n /\ At(Flag("LAST", by[n])) = n
  BY <1>3
<1> QED
  BY <1>4, <1>5, <1>6

LEMMA InCell ==
  ASSUME Ready, NEW p \in DOMAIN plan, NEW s \in Occurrences, refs[s].in # NoVar, Naming(refs[s].in) = {s}
  PROVE  InValue(p, refs[s].in) = IF plan[p].pick[s] # 0 THEN 1 ELSE 0
<1> DEFINE v == refs[s].in
<1>1. s \in Int
  BY ReadySources, ListFacts DEF Occurrences
<1>2. Min({s}) = s /\ Max({s}) = s
  BY <1>1 DEF Min, Max
<1>3. {t \in Occurrences : refs[t].in = v} = {s}
  <2>1. \A t \in Occurrences : refs[t].in = v => t \in Naming(v)
    BY DEF Naming
  <2> QED
    BY <2>1
<1> QED
  BY <1>2, <1>3 DEF InValue

(* a row that a source shows has a key *)
LEMMA ShownIsNotAbsent ==
  ASSUME Ready, NEW p \in DOMAIN plan, NEW s \in Occurrences
  PROVE  /\ Shows(p, s) = Absent <=> plan[p].pick[s] = 0
         /\ plan[p].pick[s] # 0 => Shows(p, s).row = Picked(p, s)
<1>1. plan[p].key # <<>>
  <2>1. CASE by = <<>>
    <3>1. plan[p].key = <<p>>
      BY <2>1 DEF Ready, MergeInv, PlanInv
    <3> QED
      BY <3>1
  <2>2. CASE by # <<>>
    <3>1. plan[p].key \in Keyed
      BY <2>2, ReadySources, KeysAreFinite DEF Ready, MergeInv, PlanInv
    <3>2. DOMAIN by = 1..Len(by) /\ Len(by) \in Nat /\ by \in Seq(ToSet(by))
      BY ReadySources, ListFacts DEF IsList
    <3>3. Len(by) >= 1
      BY <2>2, <3>2
    <3>4. 1 \in DOMAIN plan[p].key
      BY <3>1, <3>2, <3>3 DEF Keyed
    <3> QED
      BY <3>4
  <2> QED
    BY <2>1, <2>2
<1> DEFINE k == plan[p].key
           r == Picked(p, s)
<1>2. Absent.key = <<>> /\ [key |-> k, row |-> r].key = k /\ [key |-> k, row |-> r].row = r
  BY DEF Absent
<1>3. Shows(p, s) = IF plan[p].pick[s] = 0 THEN Absent ELSE [key |-> k, row |-> r]
  BY DEF Shows
<1> HIDE DEF k, r
<1>4. k # <<>> /\ r = Picked(p, s)
  BY <1>1 DEF k, r
<1> QED
  BY <1>2, <1>3, <1>4

CarrierAt(p, c) == Carrier.rows[p][Resolve(Carrier, c)]

LEMMA CarrierShowsOwn ==
  ASSUME Ready, NEW p \in DOMAIN plan, NEW s \in Occurrences, NEW c \in Columns(tables[s]), ~IsBy(c)
  PROVE  CarrierAt(p, c) = IF Shows(p, s) = Absent THEN Null ELSE Shows(p, s).row[c]
<1>1. c \in ToSet(Own)
  BY OwnColumnsOnce
<1>2. /\ c \in ToSet(Carrier.cols) /\ c \notin ToSet(FlagColumns(by))
      /\ c \notin ToSet(KeyColumns) /\ c \notin ToSet(InColumns)
  BY <1>1, CarrierColumns
<1>3. CarrierAt(p, c) = OwnValue(p, c)
  BY <1>2, CarrierResolves, CarrierCells DEF CarrierAt
<1> QED
  BY <1>3, OwnCell, ShownIsNotAbsent

LEMMA CarrierShowsIn ==
  ASSUME Ready, NEW p \in DOMAIN plan, NEW s \in Occurrences, refs[s].in # NoVar, Naming(refs[s].in) = {s}
  PROVE  CarrierAt(p, refs[s].in) = IF Shows(p, s) = Absent THEN 0 ELSE 1
<1> DEFINE c == refs[s].in
<1>1. c \in ToSet(InColumns)
  BY InColumnsOnce
<1>2. c \in ToSet(Carrier.cols) /\ c \notin ToSet(FlagColumns(by)) /\ c \notin ToSet(KeyColumns)
  BY <1>1, CarrierColumns
<1>3. CarrierAt(p, c) = InValue(p, c)
  BY <1>1, <1>2, CarrierResolves, CarrierCells DEF CarrierAt
<1> QED
  BY <1>3, InCell, ShownIsNotAbsent

LEMMA CarrierShowsKey ==
  ASSUME Ready, NEW p \in DOMAIN plan, NEW n \in DOMAIN by
  PROVE  CarrierAt(p, by[n]) = plan[p].key[n]
<1> DEFINE c == KeyColumns[n]
<1>1. c \in ToSet(KeyColumns)
  BY KeyColumnsOnce DEF ToSet
<1>2. c \in ToSet(Carrier.cols) /\ c \notin ToSet(FlagColumns(by))
  BY <1>1, CarrierColumns
<1>3. CarrierAt(p, by[n]) = KeyValue(p, c)
  BY <1>1, <1>2, CarrierResolves, CarrierCells DEF CarrierAt
<1> QED
  BY <1>3, KeyCell

LEMMA CarrierShowsFlags ==
  ASSUME Ready, NEW p \in DOMAIN plan, NEW n \in DOMAIN by
  PROVE  /\ CarrierAt(p, Flag("FIRST", by[n])) = 1 <=> p = 1 \/ CarrierAt(p - 1, by[n]) # CarrierAt(p, by[n])
         /\ CarrierAt(p, Flag("LAST", by[n])) = 1 <=>
              p = Len(plan) \/ CarrierAt(p + 1, by[n]) # CarrierAt(p, by[n])
<1>1. DOMAIN plan = 1..Len(plan) /\ Len(plan) \in Nat
  BY OwnElements DEF Ready, MergeInv, PlanInv
<1>2. ASSUME NEW kind \in {"FIRST", "LAST"}
      PROVE  CarrierAt(p, Flag(kind, by[n])) = FlagValue(p, Flag(kind, by[n]))
  <2>1. Flag(kind, by[n]) \in ToSet(FlagColumns(by))
    BY CarrierColumns
  <2>2. Flag(kind, by[n]) \in ToSet(Carrier.cols)
    BY <2>1, CarrierColumns
  <2> QED
    BY <2>1, <2>2, CarrierResolves, CarrierCells DEF CarrierAt
<1>3. /\ CarrierAt(p, Flag("FIRST", by[n])) = KeyChanges(n, p, p - 1)
      /\ CarrierAt(p, Flag("LAST", by[n])) = KeyChanges(n, p, p + 1)
  BY <1>2, FlagCell
<1>4. p - 1 \notin DOMAIN plan <=> p = 1
  BY <1>1
<1>5. p + 1 \notin DOMAIN plan <=> p = Len(plan)
  BY <1>1
<1>6. \A q \in DOMAIN plan : CarrierAt(q, by[n]) = plan[q].key[n]
  BY CarrierShowsKey
<1>7. \A q : KeyChanges(n, p, q) = 1 <=> q \notin DOMAIN plan \/ plan[p].key[n] # plan[q].key[n]
  BY DEF KeyChanges
<1> QED
  BY <1>3, <1>4, <1>5, <1>6, <1>7

LEMMA ReadyShowsMerge ==
  ASSUME Ready
  PROVE  CarrierShowsMerge
<1> SUFFICES ASSUME phase = "done" PROVE CarrierShowsMerge
  BY DEF CarrierShowsMerge
<1>1. result.inputs[refs[1].name].table = Carrier
  BY DEF Ready, CarrierInv, CarrierKept
<1>2. Cardinality(Keys(Columns(Carrier))) = Len(Carrier.cols)
  BY CarrierColumns, KeysOfList DEF Columns
<1>3. Len(Carrier.rows) = Len(plan)
  BY CarrierCells
<1>4. \A p \in DOMAIN plan, s \in Occurrences :
        /\ \A c \in Columns(tables[s]) :
             ~IsBy(c) => CarrierAt(p, c) = IF Shows(p, s) = Absent THEN Null ELSE Shows(p, s).row[c]
        /\ refs[s].in # NoVar /\ Naming(refs[s].in) = {s} =>
             CarrierAt(p, refs[s].in) = IF Shows(p, s) = Absent THEN 0 ELSE 1
  BY CarrierShowsOwn, CarrierShowsIn
<1>5. \A p \in DOMAIN plan, n \in DOMAIN by :
        /\ CarrierAt(p, by[n]) = plan[p].key[n]
        /\ CarrierAt(p, Flag("FIRST", by[n])) = 1 <=> p = 1 \/ CarrierAt(p - 1, by[n]) # CarrierAt(p, by[n])
        /\ CarrierAt(p, Flag("LAST", by[n])) = 1 <=>
             p = Len(plan) \/ CarrierAt(p + 1, by[n]) # CarrierAt(p, by[n])
  BY CarrierShowsKey, CarrierShowsFlags
<1>6. \A p, c : CarrierAt(p, c) = Carrier.rows[p][Resolve(Carrier, c)]
  BY DEF CarrierAt
<1> DEFINE r == result.inputs[refs[1].name].table
<1>7. /\ Cardinality(Keys(Columns(r))) = Len(r.cols) /\ Len(r.rows) = Len(plan)
      /\ \A p, c : CarrierAt(p, c) = r.rows[p][Resolve(r, c)]
  BY <1>1, <1>2, <1>3, <1>6
<1> DEFINE At(p, c) == r.rows[p][Resolve(r, c)]
           Row(p) == [s \in Occurrences |-> Shows(p, s)]
<1>8. \A p, c : At(p, c) = CarrierAt(p, c)
  BY <1>7
<1>9. \A p : \A s \in Occurrences : Row(p)[s] = Shows(p, s)
  OBVIOUS
<1> HIDE DEF r, At, Row
<1>10. \A p \in DOMAIN plan, s \in Occurrences :
         /\ \A c \in Columns(tables[s]) :
              ~IsBy(c) => At(p, c) = IF Row(p)[s] = Absent THEN Null ELSE Row(p)[s].row[c]
         /\ refs[s].in # NoVar /\ Naming(refs[s].in) = {s} =>
              At(p, refs[s].in) = IF Row(p)[s] = Absent THEN 0 ELSE 1
  BY <1>4, <1>8, <1>9
<1>11. \A p \in DOMAIN plan, n \in DOMAIN by :
         /\ At(p, by[n]) = plan[p].key[n]
         /\ At(p, Flag("FIRST", by[n])) = 1 <=> p = 1 \/ At(p - 1, by[n]) # At(p, by[n])
         /\ At(p, Flag("LAST", by[n])) = 1 <=> p = Len(plan) \/ At(p + 1, by[n]) # At(p, by[n])
  BY <1>5, <1>8
<1> QED
  BY ONLY <1>7, <1>10, <1>11 DEF CarrierShowsMerge, r, At, Row

(* Every step keeps what was checked, the keys of the plan and the carrier *)

LEMMA RequestStays ==
  ASSUME UNCHANGED request
  PROVE  refs' = refs /\ by' = by /\ Occurrences' = Occurrences /\ Internal' = Internal
BY DEF refs, by, Occurrences, Internal

LEMMA InputsStay ==
  ASSUME UNCHANGED <<request, inputs>>
  PROVE  (\A s : Input(s)' = Input(s)) /\ Ambiguous' = Ambiguous
<1>1. refs' = refs /\ by' = by /\ Occurrences' = Occurrences
  BY RequestStays
<1>2. \A s : Input(s)' = Input(s)
  BY <1>1 DEF Input
<1>3. \A s : Provided(s)' = Provided(s)
  BY <1>1, <1>2 DEF Provided
<1> QED
  BY <1>1, <1>2, <1>3 DEF Ambiguous

LEMMA CheckedStays ==
  ASSUME Checked, UNCHANGED <<request, inputs, tables>>,
         phase' \in {phase, "failed"} \/ {phase, phase'} \subseteq {"shape", "emit", "done"}
  PROVE  Checked'
<1>1. refs' = refs /\ Occurrences' = Occurrences /\ Internal' = Internal
  BY RequestStays
<1>2. (\A s : Input(s)' = Input(s)) /\ Ambiguous' = Ambiguous
  BY InputsStay
<1> QED
  BY <1>1, <1>2 DEF Checked

LEMMA KeysPickedStay ==
  ASSUME KeysPicked, UNCHANGED <<request, tables, plan>>
  PROVE  KeysPicked'
BY SourcesStay, GroupsUnchanged DEF KeysPicked

(* the carrier is made of the request, the sources and the plan *)
LEMMA CarrierStays ==
  ASSUME UNCHANGED <<request, tables, plan>>
  PROVE  Carrier' = Carrier
<1>1. refs' = refs /\ by' = by /\ Occurrences' = Occurrences /\ \A s : RowsOf(s)' = RowsOf(s)
  BY SourcesStay
<1>2. (\A p, s : Picked(p, s)' = Picked(p, s)) /\ \A p : Present(p)' = Present(p)
  BY <1>1 DEF Picked, Present
<1>3. \A c : IsBy(c)' = IsBy(c)
  BY <1>1 DEF IsBy
<1>4. \A s : OwnColumns(s)' = OwnColumns(s)
  BY <1>1, <1>3 DEF OwnColumns
<1>5. KeyColumns' = KeyColumns
  BY <1>1 DEF KeyColumns
<1>6. \A v : Naming(v)' = Naming(v)
  BY <1>1 DEF Naming
<1>7. InColumns' = InColumns
  BY <1>1, <1>6 DEF InColumns
<1>8. \A p, c : KeyValue(p, c)' = KeyValue(p, c)
  BY <1>2 DEF KeyValue
<1>9. \A p, c : Owners(c, p)' = Owners(c, p)
  BY <1>2 DEF Owners
<1>10. \A p, c : OwnValue(p, c)' = OwnValue(p, c)
  BY <1>2, <1>9 DEF OwnValue
<1>11. \A p, v : InValue(p, v)' = InValue(p, v)
  BY <1>1, <1>6 DEF InValue
<1>12. \A n, p, q : KeyChanges(n, p, q)' = KeyChanges(n, p, q)
  BY DEF KeyChanges
<1>13. \A p, c : FlagValue(p, c)' = FlagValue(p, c)
  BY <1>1, <1>12 DEF FlagValue
<1> DEFINE flags == ToSet(FlagColumns(by))
           ValueAt(p, c) == IF c \in flags THEN FlagValue(p, c)
                            ELSE IF c \in ToSet(KeyColumns) THEN KeyValue(p, c)
                            ELSE IF c \in ToSet(InColumns) THEN InValue(p, c) ELSE OwnValue(p, c)
           cols == KeyColumns \o Joined([s \in Occurrences |-> OwnColumns(s)]) \o InColumns \o FlagColumns(by)
<1>14. \A p, c : ValueAt(p, c)' = ValueAt(p, c)
  BY <1>1, <1>5, <1>7, <1>8, <1>10, <1>11, <1>13
<1>15. cols' = cols
  BY <1>1, <1>4, <1>5, <1>7
<1>16. Carrier = [cols |-> cols, rows |-> [p \in DOMAIN plan |-> [c \in ToSet(cols) |-> ValueAt(p, c)]],
                  type |-> tables[1].type]
  BY DEF Carrier
<1>17. Carrier' = [cols |-> cols', rows |-> [p \in DOMAIN plan' |-> [c \in ToSet(cols') |-> ValueAt(p, c)']],
                   type |-> tables'[1].type]
  BY DEF Carrier
<1> HIDE DEF cols, ValueAt
<1> QED
  BY <1>14, <1>15, <1>16, <1>17

(* a step that leaves the sources and the plan alone, before the carrier *)
LEMMA WorkKeepsCarrier ==
  ASSUME CarrierInv, UNCHANGED <<request, inputs, tables, plan>>, phase' # "done",
         phase' \in {phase, "failed"} \/ {phase, phase'} \subseteq {"shape", "emit", "done"}
  PROVE  CarrierInv'
BY CheckedStays, KeysPickedStay DEF CarrierInv, CarrierKept

LEMMA FailKeepsCarrier ==
  ASSUME CarrierInv, NEW code, Fail(code)
  PROVE  CarrierInv'
BY WorkKeepsCarrier DEF Fail

LEMMA ResolutionKeepsCarrier ==
  ASSUME MergeInv, CarrierInv, Resolution
  PROVE  CarrierInv'
<1>1. CASE \E code : Fail(code)
  BY <1>1, FailKeepsCarrier
<1>2. CASE ~\E code : Fail(code)
  <2>1. phase = "resolve" /\ phase' = "ownership" /\ UNCHANGED <<request, tables, plan>>
    BY <1>2 DEF Resolution
  <2>2. Checked'
    BY <2>1 DEF CarrierInv, Checked
  <2>3. KeysPicked'
    BY <2>1, KeysPickedStay DEF CarrierInv
  <2> QED
    BY <2>1, <2>2, <2>3 DEF CarrierInv, CarrierKept
<1> QED
  BY <1>1, <1>2

LEMMA OwnershipKeepsCarrier ==
  ASSUME MergeInv, CarrierInv, Ownership
  PROVE  CarrierInv'
<1>1. CASE Fail("MERGE_DUPLICATE_COLUMN")
  BY <1>1, FailKeepsCarrier
<1>2. CASE ~Fail("MERGE_DUPLICATE_COLUMN")
  <2>1. /\ phase = "ownership" /\ phase' = "shape" /\ UNCHANGED <<request, inputs, tables, plan>>
        /\ (\A s \in Occurrences : Input(s).kind = "table") => ~Ambiguous
    BY <1>2 DEF Ownership
  <2>2. tables = <<>> /\ tables' = <<>> /\ DOMAIN tables' = {}
    BY <2>1 DEF CarrierInv, Checked
  <2>3. Occurrences' = Occurrences /\ (\A s : Input(s)' = Input(s)) /\ Ambiguous' = Ambiguous
    BY <2>1, RequestStays, InputsStay
  <2>4. Checked'
    BY <2>1, <2>2, <2>3 DEF Checked
  <2>5. KeysPicked'
    BY <2>1, KeysPickedStay DEF CarrierInv
  <2> QED
    BY <2>1, <2>4, <2>5 DEF CarrierInv, CarrierKept
<1> QED
  BY <1>1, <1>2

LEMMA ShapeKeepsCarrier ==
  ASSUME MergeInv, CarrierInv, ShapeOccurrence
  PROVE  CarrierInv'
<1>1. CASE \E code : Fail(code)
  BY <1>1, FailKeepsCarrier
<1>2. CASE ~\E code : Fail(code)
  <2> DEFINE s == Len(tables) + 1
             t == Shape(Input(s).table, refs[s].opts)
  <2>1. /\ phase = "shape" /\ tables' = Append(tables, t) /\ UNCHANGED <<request, phase, inputs, plan>>
        /\ Input(s).kind = "table" /\ ~Collides(Columns(t), Internal, Input(s).prep)
    BY <1>2 DEF ShapeOccurrence
  <2>2. tables \in Seq(ToSet(tables)) /\ plan = <<>>
    BY <2>1 DEF MergeInv, TablesInv
  <2> HIDE DEF t
  <2>3. /\ DOMAIN tables' = 1..s /\ DOMAIN tables = 1..Len(tables) /\ Len(tables) \in Nat
        /\ tables'[s] = t /\ \A u \in 1..Len(tables) : tables'[u] = tables[u]
    BY <2>1, <2>2, OneMore
  <2>4. \A u \in DOMAIN tables' : u \in DOMAIN tables \/ u = s
    BY <2>3
  <2>5. /\ refs' = refs /\ Occurrences' = Occurrences /\ Internal' = Internal
        /\ (\A u : Input(u)' = Input(u)) /\ Ambiguous' = Ambiguous
    BY <2>1, RequestStays, InputsStay
  <2>6. t = Shape(Input(s).table, refs[s].opts)
    BY DEF t
  <2>7. \A u \in DOMAIN tables' : /\ Input(u).kind = "table" /\ tables'[u] = Shape(Input(u).table, refs[u].opts)
                                  /\ ~Collides(Columns(tables'[u]), Internal, Input(u).prep)
    <3> SUFFICES ASSUME NEW u \in DOMAIN tables'
                 PROVE  /\ Input(u).kind = "table" /\ tables'[u] = Shape(Input(u).table, refs[u].opts)
                        /\ ~Collides(Columns(tables'[u]), Internal, Input(u).prep)
      OBVIOUS
    <3>1. CASE u = s
      BY <2>1, <2>3, <2>6, <3>1
    <3>2. CASE u \in DOMAIN tables
      <4>1. tables'[u] = tables[u]
        BY <2>3, <3>2
      <4> QED
        BY <2>1, <3>2, <4>1 DEF CarrierInv, Checked
    <3> QED
      BY <2>4, <3>1, <3>2
  <2>8. (\A u \in Occurrences : Input(u).kind = "table") => ~Ambiguous
    BY <2>1 DEF CarrierInv, Checked
  <2>9. Checked'
    BY <2>1, <2>5, <2>7, <2>8 DEF Checked
  <2>10. KeysPicked' /\ CarrierKept'
    BY <2>1, <2>2 DEF KeysPicked, CarrierKept
  <2> QED
    BY <2>9, <2>10 DEF CarrierInv
<1> QED
  BY <1>1, <1>2

LEMMA AlignKeepsCarrier ==
  ASSUME MergeInv, CarrierInv, Align
  PROVE  CarrierInv'
<1>1. CASE Fail("BY_PRECONDITION_FAILED")
  BY <1>1, FailKeepsCarrier
<1>2. CASE ~Fail("BY_PRECONDITION_FAILED")
  <2>1. phase = "shape" /\ phase' = "emit" /\ UNCHANGED <<request, inputs, tables, plan>>
    BY <1>2 DEF Align
  <2> QED
    BY <2>1, WorkKeepsCarrier
<1> QED
  BY <1>1, <1>2

(* the group of a key has rows of that key *)
LEMMA GroupRowKeepsCarrier ==
  ASSUME MergeInv, CarrierInv, EmitGroupRow
  PROVE  CarrierInv'
<1> DEFINE k == Head(keys)
           o == Offset(k)
           e == [key |-> k, pick |-> [s \in Occurrences |-> PickInGroup(s, k, o)]]
<1>1. phase = "emit" /\ plan' = Append(plan, e) /\ UNCHANGED <<request, phase, inputs, tables>>
  BY DEF EmitGroupRow
<1>2. Sources /\ o \in Nat /\ plan \in Seq(ToSet(plan))
  BY <1>1, OffsetIsNumber DEF MergeInv, Sources, PlanInv
<1>3. e.key = k /\ \A s \in Occurrences : e.pick[s] = PickInGroup(s, k, o)
  OBVIOUS
<1> HIDE DEF o, k, e
<1>4. /\ DOMAIN plan' = 1..(Len(plan) + 1) /\ DOMAIN plan = 1..Len(plan) /\ Len(plan) \in Nat
      /\ plan'[Len(plan) + 1] = e /\ \A p \in 1..Len(plan) : plan'[p] = plan[p]
  BY <1>1, <1>2, OneMore
<1>5. by' = by /\ Occurrences' = Occurrences /\ \A s, i : KeyAt(s, i)' = KeyAt(s, i)
  BY <1>1, SourcesStay, GroupsUnchanged
<1>6. ASSUME NEW s \in Occurrences, e.pick[s] # 0
      PROVE  KeyAt(s, e.pick[s]) = e.key
  <2>1. PickInGroup(s, k, o) \in RowsWith(s, k)
    BY <1>2, <1>3, <1>6, PickedRow
  <2> QED
    BY <1>3, <2>1 DEF RowsWith
<1>7. \A p \in DOMAIN plan' : p \in DOMAIN plan \/ p = Len(plan) + 1
  BY <1>4
<1>8. KeysPicked'
  <2> SUFFICES ASSUME by # <<>>, NEW p \in DOMAIN plan', NEW s \in Occurrences, plan'[p].pick[s] # 0
               PROVE  KeyAt(s, plan'[p].pick[s]) = plan'[p].key
    BY <1>5 DEF KeysPicked
  <2>1. CASE p \in DOMAIN plan
    <3>1. plan'[p] = plan[p]
      BY <1>4, <2>1
    <3> QED
      BY <2>1, <3>1 DEF CarrierInv, KeysPicked
  <2>2. CASE p = Len(plan) + 1
    BY <1>4, <1>6, <2>2
  <2> QED
    BY <1>7, <2>1, <2>2
<1>9. Checked'
  BY <1>1, CheckedStays DEF CarrierInv
<1> QED
  BY <1>1, <1>8, <1>9 DEF CarrierInv, CarrierKept

LEMMA OrdinalRowKeepsCarrier ==
  ASSUME MergeInv, CarrierInv, EmitOrdinalRow
  PROVE  CarrierInv'
<1>1. phase = "emit" /\ by = <<>> /\ UNCHANGED <<request, phase, inputs, tables>>
  BY DEF EmitOrdinalRow, MoreOrdinals
<1>2. by' = <<>>
  BY <1>1, RequestStays
<1>3. Checked'
  BY <1>1, CheckedStays DEF CarrierInv
<1> QED
  BY <1>1, <1>2, <1>3 DEF CarrierInv, KeysPicked, CarrierKept

LEMMA RenderKeepsCarrier ==
  ASSUME MergeInv, CarrierInv, Render
  PROVE  CarrierInv'
<1> DEFINE first   == refs[1].name
           carrier == [kind |-> "table", table |-> Carrier,
                       prep |-> Provenance(Input(1).prep, "prepared_merge")]
           ready   == [d \in OtherInputs \cup {first} |-> IF d = first THEN carrier ELSE inputs[d]]
<1>1. CASE Fail("PREPARATION_PROVENANCE_CONFLICT")
  BY <1>1, FailKeepsCarrier
<1>2. CASE ~Fail("PREPARATION_PROVENANCE_CONFLICT")
  <2>1. /\ phase = "emit" /\ phase' = "done" /\ UNCHANGED <<request, inputs, tables, plan>>
        /\ result'.inputs = ready
    BY <1>2 DEF Render
  <2>2. ready[first] = carrier
    OBVIOUS
  <2>3. carrier.table = Carrier
    OBVIOUS
  <2> HIDE DEF ready, carrier
  <2>4. result'.inputs[first].table = Carrier
    BY <2>1, <2>2, <2>3
  <2>5. refs'[1].name = first /\ Carrier' = Carrier
    BY <2>1, RequestStays, CarrierStays
  <2>6. CarrierKept'
    BY <2>4, <2>5 DEF CarrierKept
  <2>7. Checked' /\ KeysPicked'
    BY <2>1, CheckedStays, KeysPickedStay DEF CarrierInv
  <2> QED
    BY <2>6, <2>7 DEF CarrierInv
<1> QED
  BY <1>1, <1>2

LEMMA MergeKeepsCarrier == Spec => []CarrierInv
<1>1. Init => CarrierInv
  BY DEF Init, CarrierInv, Checked, KeysPicked, CarrierKept
<1>2. MergeInv /\ CarrierInv /\ [Next]_vars => CarrierInv'
  <2> SUFFICES ASSUME MergeInv, CarrierInv, [Next]_vars PROVE CarrierInv'
    OBVIOUS
  <2>1. CASE UNCHANGED vars
    <3>1. UNCHANGED <<request, phase, inputs, tables, plan, result>>
      BY <2>1 DEF vars
    <3>2. Checked' /\ KeysPicked'
      BY <3>1, CheckedStays, KeysPickedStay DEF CarrierInv
    <3>3. refs' = refs /\ Carrier' = Carrier
      BY <3>1, RequestStays, CarrierStays
    <3>4. CarrierKept'
      BY <3>1, <3>3 DEF CarrierInv, CarrierKept
    <3> QED
      BY <3>2, <3>4 DEF CarrierInv
  <2> QED
    BY <2>1, ResolutionKeepsCarrier, OwnershipKeepsCarrier, ShapeKeepsCarrier, AlignKeepsCarrier,
       GroupRowKeepsCarrier, OrdinalRowKeepsCarrier, RenderKeepsCarrier DEF Next, Returned
<1> QED
  BY <1>1, <1>2, MergeKeepsTypes, PTL DEF Spec

(* For every set of requests: the carrier that a finished call hands on    *)
(* shows row by row and cell by cell what the streams showed, when no two  *)
(* columns of a source share a name, BY names a column once, no column and *)
(* no IN= variable is named like a FIRST. or LAST. variable, and no source *)
(* is the carrier of an earlier MERGE.                                     *)
THEOREM CarrierShowsStreams == Spec => [](NamesApart /\ Unclaimed => CarrierShowsMerge)
<1>1. MergeInv /\ CarrierInv => (NamesApart /\ Unclaimed => CarrierShowsMerge)
  <2> SUFFICES ASSUME MergeInv, CarrierInv, NamesApart, Unclaimed, phase = "done" PROVE CarrierShowsMerge
    BY DEF CarrierShowsMerge
  <2>1. Ready
    BY DEF Ready
  <2> QED
    BY <2>1, ReadyShowsMerge
<1> QED
  BY <1>1, MergeKeepsTypes, MergeKeepsCarrier, PTL

=============================================================================
