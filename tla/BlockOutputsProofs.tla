------------------------- MODULE BlockOutputsProofs -------------------------
(***************************************************************************)
(* The outputs of a DATA block, for every block: any statements, any       *)
(* number of targets, columns and rows, and an error in any stage.         *)
(***************************************************************************)
EXTENDS BlockOutputs, PreparedTablesProofs

-----------------------------------------------------------------------------
(* The response is complete or empty                                       *)

(* Nothing is delivered before the last stage, and the stages after        *)
(* finalization have the table of every target.  Without the second part   *)
(* a delivered response could lack the targets that were not finalized.    *)
Stages ==
  /\ phase \in Phases
  /\ code # "none" <=> phase = "refused"
  /\ phase # "delivered" => outputs = <<>>
  /\ phase \in {"metadata", "present", "delivered"} => DOMAIN filtered = ToSet(targets)
  /\ phase = "delivered" => outputs = filtered

LEMMA StagesInit == Init => Stages
BY DEF Init, Stages, Phases

(* an error in any stage before the last *)
LEMMA StagesRefuse ==
  ASSUME Stages, phase # "delivered", NEW c, c # "none", Refuse(c)
  PROVE  Stages'
BY DEF Stages, Refuse, Phases

LEMMA StagesStep == Stages /\ [Next]_vars => Stages'
<1> SUFFICES ASSUME Stages, [Next]_vars PROVE Stages'
  OBVIOUS
<1>1. CASE Validate
  <2>1. CASE phase' = "refused"
    <3>1. phase # "delivered" /\ \E c : c # "none" /\ Refuse(c)
      BY <1>1, <2>1 DEF Validate
    <3> QED
      BY <3>1, StagesRefuse
  <2>2. CASE phase' # "refused"
    BY <1>1, <2>2 DEF Validate, Refuse, Stages, Phases
  <2> QED
    BY <2>1, <2>2
<1>2. CASE PlanTargets
  <2>1. phase = "targets"
    BY <1>2 DEF PlanTargets
  <2>2. Refuse("DATASET_OPTION_INVALID") \/ Refuse("INVALID_OUTPUT_TARGETS")
          \/ (phase' = "shape" /\ UNCHANGED <<filtered, outputs, code>>)
    BY <1>2 DEF PlanTargets
  <2> QED
    BY <2>1, <2>2, StagesRefuse DEF Stages, Phases
<1>3. CASE ShapeOutputs
  <2>1. phase = "shape"
    BY <1>3 DEF ShapeOutputs
  <2>2. Refuse("RENAME_STATEMENT_INVALID") \/ Refuse("DATASET_OPTION_INVALID")
          \/ (phase' = "check" /\ UNCHANGED <<filtered, outputs, code>>)
    BY <1>3 DEF ShapeOutputs
  <2> QED
    BY <2>1, <2>2, StagesRefuse DEF Stages, Phases
<1>4. CASE CheckViews
  <2>1. phase = "check"
    BY <1>4 DEF CheckViews
  <2>2. Refuse("NAME_COLLISION") \/ (phase' = "rows" /\ UNCHANGED <<filtered, outputs, code>>)
    BY <1>4 DEF CheckViews
  <2> QED
    BY <2>1, <2>2, StagesRefuse DEF Stages, Phases
<1>5. CASE RouteRow
  <2>1. phase = "rows"
    BY <1>5 DEF RouteRow
  <2>2. Refuse("OUTPUT_TARGET_NOT_DECLARED") \/ UNCHANGED <<phase, filtered, outputs, code>>
    BY <1>5 DEF RouteRow
  <2> QED
    BY <2>1, <2>2, StagesRefuse DEF Stages, Phases
<1>6. CASE EndOfRows
  BY <1>6 DEF EndOfRows, Stages, Phases
<1>7. CASE FinalizeTarget
  <2>1. phase = "finalize"
    BY <1>7 DEF FinalizeTarget
  <2>2. Refuse("CONVERT_OUTPUT_FAILED") \/ UNCHANGED <<phase, targets, outputs, code>>
    BY <1>7 DEF FinalizeTarget
  <2> QED
    BY <2>1, <2>2, StagesRefuse DEF Stages, Phases
<1>8. CASE EndOfTargets
  BY <1>8 DEF EndOfTargets, Stages, Phases
<1>9. CASE ApplyMetadata
  <2>1. phase = "metadata"
    BY <1>9 DEF ApplyMetadata
  <2>2. Refuse("CONVERT_OUTPUT_FAILED")
          \/ /\ phase' = "present" /\ DOMAIN filtered' = DOMAIN filtered
             /\ UNCHANGED <<targets, outputs, code>>
    BY <1>9 DEF ApplyMetadata
  <2> QED
    BY <2>1, <2>2, StagesRefuse DEF Stages, Phases
<1>10. CASE Present
  <2>1. phase = "present"
    BY <1>10 DEF Present
  <2>2. Refuse("CONVERT_OUTPUT_FAILED")
          \/ (phase' = "delivered" /\ outputs' = filtered /\ UNCHANGED <<targets, filtered, code>>)
    BY <1>10 DEF Present
  <2> QED
    BY <2>1, <2>2, StagesRefuse DEF Stages, Phases
<1>11. CASE Ended \/ UNCHANGED vars
  BY <1>11 DEF Ended, vars, Stages
<1> QED
  BY <1>1, <1>2, <1>3, <1>4, <1>5, <1>6, <1>7, <1>8, <1>9, <1>10, <1>11 DEF Next

(* An error in any stage, also at the second of several targets, leaves a  *)
(* response without outputs, and a response without an error has the table *)
(* of every target.                                                        *)
THEOREM ResponseIsAllOrNothing == Spec => []AllTargetsOrNone
<1>1. Stages => AllTargetsOrNone
  BY DEF Stages, AllTargetsOrNone, Delivered
<1> QED
  BY <1>1, StagesInit, StagesStep, PTL DEF Spec

-----------------------------------------------------------------------------
(* Columns and targets                                                     *)

LEMMA UniqueSelected ==
  ASSUME NEW s, IsList(s), UniqueKeys(s), NEW I \in SUBSET DOMAIN s
  PROVE  UniqueKeys(Selected(s, I))
<1> DEFINE c == Selected(s, I)
           L == Numbered(I)
<1>1. /\ L \in [DOMAIN c -> I] /\ \A p \in DOMAIN c : c[p] = s[L[p]]
      /\ \A p, q \in DOMAIN c : p # q => L[p] # L[q]
  BY SelectedList
<1> HIDE DEF c, L
<1> QED
  BY <1>1 DEF UniqueKeys, c

LEMMA VisibleColumns ==
  ASSUME NEW cols, IsList(cols), NEW hidden
  PROVE  LET V == Visible(cols, hidden)
         IN  /\ IsList(V) /\ UniqueKeys(V) /\ ToSet(V) \subseteq ToSet(cols)
             /\ Keys(ToSet(V)) = Keys(ToSet(cols)) \ Keys(hidden)
<1> DEFINE I == {i \in DOMAIN cols : /\ ColumnKey(cols[i]) \notin Keys(hidden)
                                     /\ \A j \in 1..(i - 1) : ColumnKey(cols[j]) # ColumnKey(cols[i])}
           V == Visible(cols, hidden)
           L == Numbered(I)
<1>1. DOMAIN cols = 1..Len(cols) /\ Len(cols) \in Nat
  BY ListFacts
<1>2. I \in SUBSET DOMAIN cols
  OBVIOUS
<1>3. \A i, j \in I : i # j => ColumnKey(cols[i]) # ColumnKey(cols[j])
  <2> SUFFICES ASSUME NEW i \in I, NEW j \in I, i # j PROVE ColumnKey(cols[i]) # ColumnKey(cols[j])
    OBVIOUS
  <2>1. i \in 1..(j - 1) \/ j \in 1..(i - 1)
    BY <1>1
  <2> QED
    BY <2>1
<1>4. ASSUME NEW i \in DOMAIN cols, ColumnKey(cols[i]) \notin Keys(hidden)
      PROVE  \E j \in I : ColumnKey(cols[j]) = ColumnKey(cols[i])
  <2> DEFINE S == {j \in DOMAIN cols : ColumnKey(cols[j]) = ColumnKey(cols[i])}
  <2>1. S \subseteq Nat /\ S # {}
    BY <1>1
  <2>2. PICK m \in S : \A n \in S : m <= n
    <3> HIDE DEF S
    <3> QED
      BY <2>1, LeastNumber
  <2>3. \A j \in 1..(m - 1) : ColumnKey(cols[j]) # ColumnKey(cols[m])
    BY <1>1, <2>2
  <2> QED
    BY <1>4, <2>2, <2>3
<1>5. V = Selected(cols, I)
  BY DEF Visible
<1> HIDE DEF I
<1>6. /\ IsList(V) /\ ToSet(V) = {cols[i] : i \in I}
      /\ L \in [DOMAIN V -> I] /\ \A p \in DOMAIN V : V[p] = cols[L[p]]
      /\ \A p, q \in DOMAIN V : p # q => L[p] # L[q]
  BY <1>2, <1>5, SelectedList
<1> HIDE DEF V, L
<1>7. UniqueKeys(V)
  BY <1>3, <1>6 DEF UniqueKeys
<1>8. ToSet(V) \subseteq ToSet(cols)
  BY <1>2, <1>6 DEF ToSet
<1>9. Keys(ToSet(V)) = Keys(ToSet(cols)) \ Keys(hidden)
  <2>1. \A k \in Keys(ToSet(V)) : k \in Keys(ToSet(cols)) /\ k \notin Keys(hidden)
    BY <1>6, <1>8 DEF Keys, I
  <2>2. ASSUME NEW k \in Keys(ToSet(cols)), k \notin Keys(hidden) PROVE k \in Keys(ToSet(V))
    <3>1. PICK i \in DOMAIN cols : k = ColumnKey(cols[i])
      BY DEF Keys, ToSet
    <3>2. PICK j \in I : ColumnKey(cols[j]) = k
      BY <1>4, <2>2, <3>1
    <3> QED
      BY <1>6, <3>2 DEF Keys
  <2> QED
    BY <2>1, <2>2
<1> QED
  BY <1>6, <1>7, <1>8, <1>9 DEF V

LEMMA ProjectedList ==
  ASSUME NEW cols, IsList(cols), NEW p
  PROVE  LET I == {i \in DOMAIN cols : Survives(cols[i], p)}
             K == Surviving(cols, p)
             P == Projected(cols, p)
         IN  /\ IsList(P) /\ IsList(K) /\ DOMAIN P = DOMAIN K /\ K = Selected(cols, I)
             /\ \A n \in DOMAIN P : P[n] = Renamed(K[n], p.rename)
             /\ ToSet(K) = {cols[i] : i \in I}
<1> DEFINE I == {i \in DOMAIN cols : Survives(cols[i], p)}
           K == Surviving(cols, p)
           P == Projected(cols, p)
<1>1. K = Selected(cols, I)
  BY DEF Surviving
<1>2. IsList(K) /\ ToSet(K) = {cols[i] : i \in I}
  BY <1>1, SelectedList
<1>3. P = [n \in DOMAIN K |-> Renamed(K[n], p.rename)]
  BY DEF Projected
<1> HIDE DEF K, P
<1>4. DOMAIN K = 1..Len(K) /\ Len(K) \in Nat
  BY <1>2, ListFacts
<1>5. P = [n \in 1..Len(K) |-> P[n]]
  BY <1>3, <1>4
<1>6. IsList(P)
  BY <1>4, <1>5, MappedList
<1> QED
  BY <1>1, <1>2, <1>3, <1>6 DEF K, P

LEMMA UniqueNames ==
  ASSUME NEW names, IsList(names)
  PROVE  IsList(UniqueTargets(names))
<1> DEFINE I == {i \in DOMAIN names : \A j \in 1..(i - 1) : DatasetKey(names[j]) # DatasetKey(names[i])}
<1>1. UniqueTargets(names) = Selected(names, I) /\ I \in SUBSET DOMAIN names
  BY DEF UniqueTargets
<1> HIDE DEF I
<1> QED
  BY <1>1, SelectedList

LEMMA ListsOfBlock ==
  ASSUME block \in Blocks
  PROVE  /\ IsList(block.data) /\ IsList(block.explicit) /\ IsList(block.outputs) /\ IsList(block.source)
         /\ IsList(block.writes) /\ IsList(block.rows) /\ IsList(block.keep) /\ IsList(block.drop)
         /\ IsList(block.rename)
         /\ UniqueKeys(block.source)
         /\ \A i \in DOMAIN block.outputs : IsList(block.outputs[i].refs)
         /\ \A i \in DOMAIN block.rows : IsList(block.rows[i].fired)
         /\ \A i \in DOMAIN block.rename : IsList(block.rename[i])
BY BlocksAssumption DEF ToSet

(* the references of a list of statements *)
LEMMA ListOfReferences ==
  ASSUME NEW statements, IsList(statements), \A i \in DOMAIN statements : IsList(statements[i].refs)
  PROVE  /\ IsList(RefsOf(statements))
         /\ \A n \in DOMAIN RefsOf(statements) :
              \E i \in DOMAIN statements : RefsOf(statements)[n] \in ToSet(statements[i].refs)
         /\ \A i \in DOMAIN statements : ToSet(statements[i].refs) \subseteq ToSet(RefsOf(statements))
<1> DEFINE parts == [i \in DOMAIN statements |-> statements[i].refs]
           V == UNION {ToSet(statements[i].refs) : i \in DOMAIN statements}
           L == PlacesInTurn(parts)
           R == RefsOf(statements)
<1>1. DOMAIN statements = 1..Len(statements) /\ Len(statements) \in Nat
  BY ListFacts
<1>2. parts = [i \in 1..Len(statements) |-> parts[i]] /\ DOMAIN parts = DOMAIN statements
  BY <1>1
<1>3. IsList(parts) /\ Len(parts) = Len(statements)
  <2> HIDE DEF parts
  <2> QED
    BY <1>1, <1>2, MappedList
<1>4. \A i \in DOMAIN parts : parts[i] \in Seq(V) /\ parts[i] = statements[i].refs
  <2> SUFFICES ASSUME NEW i \in DOMAIN parts PROVE parts[i] \in Seq(V)
    OBVIOUS
  <2>1. parts[i] \in Seq(ToSet(parts[i])) /\ ToSet(parts[i]) \subseteq V
    BY DEF IsList
  <2> HIDE DEF parts, V
  <2> QED
    BY <2>1
<1>5. DOMAIN parts = 1..Len(parts) /\ Len(parts) \in Nat /\ parts = [i \in 1..Len(parts) |-> parts[i]]
  BY <1>1, <1>2, <1>3
<1>6. R = Joined(parts)
  BY DEF RefsOf
<1> HIDE DEF parts, V
<1>7. /\ R \in Seq(V)
      /\ \A p \in DOMAIN R : /\ R[p] = parts[L[p][1]][L[p][2]]
                             /\ L[p][1] \in DOMAIN parts /\ L[p][2] \in DOMAIN parts[L[p][1]]
      /\ \A k \in DOMAIN parts : \A n \in DOMAIN parts[k] : \E p \in DOMAIN R : L[p] = <<k, n>>
  <2>1. parts \in Seq(Seq(V))
    BY <1>2, <1>4, <1>5
  <2> HIDE DEF R
  <2> QED
    BY ONLY <1>6, <2>1, JoinedInOrder
<1> HIDE DEF R, L
<1>8. IsList(R)
  BY <1>7, SequencesAreLists
<1>9. ASSUME NEW n \in DOMAIN R
      PROVE  \E i \in DOMAIN statements : R[n] \in ToSet(statements[i].refs)
  <2>1. /\ L[n][1] \in DOMAIN statements /\ R[n] = statements[L[n][1]].refs[L[n][2]]
        /\ L[n][2] \in DOMAIN statements[L[n][1]].refs
    BY <1>2, <1>4, <1>7
  <2> QED
    BY <2>1 DEF ToSet
<1>10. \A i \in DOMAIN statements : \A n \in DOMAIN statements[i].refs :
          \E p \in DOMAIN R : R[p] = statements[i].refs[n]
  <2> SUFFICES ASSUME NEW i \in DOMAIN statements, NEW n \in DOMAIN statements[i].refs
               PROVE  \E p \in DOMAIN R : R[p] = statements[i].refs[n]
    OBVIOUS
  <2>1. i \in DOMAIN parts /\ parts[i] = statements[i].refs
    BY <1>2, <1>4
  <2>2. PICK p \in DOMAIN R : L[p] = <<i, n>>
    BY <1>7, <2>1
  <2> QED
    BY <1>7, <2>1, <2>2
<1> QED
  BY <1>8, <1>9, <1>10 DEF R, ToSet

LEMMA NamesList ==
  ASSUME NEW references, IsList(references)
  PROVE  IsList(NamesOf(references)) /\ DOMAIN NamesOf(references) = DOMAIN references
<1>1. DOMAIN references = 1..Len(references) /\ Len(references) \in Nat
  BY ListFacts
<1>2. NamesOf(references) = [i \in 1..Len(references) |-> NamesOf(references)[i]]
  BY <1>1 DEF NamesOf
<1> QED
  BY <1>1, <1>2, MappedList

LEMMA ResolvedList ==
  ASSUME block \in Blocks
  PROVE  IsList(ResolvedTargets)
<1>1. CASE block.explicit # <<>>
  BY <1>1, ListsOfBlock DEF ResolvedTargets
<1>2. CASE block.explicit = <<>>
  <2> DEFINE I == {i \in DOMAIN block.outputs : ~block.outputs[i].inline}
  <2>1. TopOutputs = Selected(block.outputs, I)
    BY DEF TopOutputs
  <2>2. /\ IsList(TopOutputs)
        /\ \A p \in DOMAIN TopOutputs : \E i \in DOMAIN block.outputs : TopOutputs[p] = block.outputs[i]
    <3>1. I \in SUBSET DOMAIN block.outputs
      OBVIOUS
    <3> HIDE DEF I
    <3> QED
      BY <2>1, <3>1, SelectedList, ListsOfBlock
  <2>3. IsList(RefsOf(TopOutputs))
    BY <2>2, ListsOfBlock, ListOfReferences
  <2>4. IsList(NamesOf(block.data) \o NamesOf(RefsOf(TopOutputs)))
    BY <2>3, NamesList, ListsOfBlock, JoinedLists
  <2> QED
    BY <1>2, <2>4, UniqueNames DEF ResolvedTargets
<1> QED
  BY <1>1, <1>2

-----------------------------------------------------------------------------
(* Row views                                                               *)

IsView(v) == v = [row |-> v.row, cols |-> v.cols, owned |-> v.owned] /\ IsList(v.cols)

LEMMA NamesOfView ==
  ASSUME NEW v, IsView(v)
  PROVE  IsList(ViewNames(v)) /\ DOMAIN ViewNames(v) = DOMAIN v.cols
<1>1. DOMAIN v.cols = 1..Len(v.cols) /\ Len(v.cols) \in Nat
  BY ListFacts DEF IsView
<1>2. ViewNames(v) = [i \in 1..Len(v.cols) |-> ViewNames(v)[i]] /\ DOMAIN ViewNames(v) = DOMAIN v.cols
  BY <1>1 DEF ViewNames
<1> QED
  BY <1>1, <1>2, MappedList

LEMMA ViewParts ==
  ASSUME NEW r, NEW c, NEW o, NEW C, NEW O
  PROVE  [[row |-> r, cols |-> c, owned |-> o] EXCEPT !.cols = C, !.owned = O]
           = [row |-> r, cols |-> C, owned |-> O]
<1>1. [[row |-> r, cols |-> c, owned |-> o] EXCEPT !.cols = C] = [row |-> r, cols |-> C, owned |-> o]
  OBVIOUS
<1>2. [[row |-> r, cols |-> C, owned |-> o] EXCEPT !.owned = O] = [row |-> r, cols |-> C, owned |-> O]
  OBVIOUS
<1> QED
  BY <1>1, <1>2

RenamedBindings(kept, pairs) ==
  [i \in DOMAIN kept |-> [kept[i] EXCEPT !.name = Renamed(kept[i].name, pairs)]]
Bindings(names) == [i \in DOMAIN names |-> Binding(names[i])]
OwnedAtStart(n, written) ==
  [k \in written \cup Keys(ToSet(OwnedColumns)) |-> IF k \in written THEN <<"step", k, n>> ELSE Null]

(* The names that a projected view shows are the projected names of the    *)
(* view: the check for collisions looks at what the view will show.        *)
LEMMA ProjectedNames ==
  ASSUME NEW v, IsView(v), NEW p
  PROVE  LET w == ProjectedView(v, p)
             I == {i \in DOMAIN v.cols : Survives(v.cols[i].name, p)}
             kept == KeptBindings(v, p)
         IN  /\ IsView(w) /\ ViewNames(w) = Projected(ViewNames(v), p)
             /\ kept = Selected(v.cols, I) /\ IsList(kept)
             /\ I \in SUBSET DOMAIN v.cols /\ w.cols = RenamedBindings(kept, p.rename) /\ w.row = v.row
<1> DEFINE w == ProjectedView(v, p)
           I == {i \in DOMAIN v.cols : Survives(v.cols[i].name, p)}
           kept == KeptBindings(v, p)
           names == ViewNames(v)
           K == Surviving(names, p)
           P == Projected(names, p)
<1>1. kept = Selected(v.cols, I) /\ I \in SUBSET DOMAIN v.cols
  BY DEF KeptBindings
<1>2. /\ w.cols = [i \in DOMAIN kept |-> [kept[i] EXCEPT !.name = Renamed(kept[i].name, p.rename)]]
      /\ w.row = v.row /\ w = [row |-> w.row, cols |-> w.cols, owned |-> w.owned]
  <2> DEFINE C == [i \in DOMAIN kept |-> [kept[i] EXCEPT !.name = Renamed(kept[i].name, p.rename)]]
  <2>1. \E O : w = [v EXCEPT !.cols = C, !.owned = O]
    BY DEF ProjectedView
  <2> HIDE DEF w, C
  <2>2. PICK O : w = [v EXCEPT !.cols = C, !.owned = O]
    BY <2>1
  <2>3. w = [row |-> v.row, cols |-> C, owned |-> O]
    BY <2>2, ViewParts DEF IsView
  <2> QED
    BY <2>3 DEF C
<1>3. names = [i \in DOMAIN v.cols |-> v.cols[i].name]
  BY DEF ViewNames
<1>4. K = Selected(names, I)
  BY <1>3 DEF Surviving
<1> HIDE DEF w, kept, I
<1>6. /\ IsList(kept) /\ DOMAIN kept = DOMAIN Numbered(I)
      /\ \A i \in DOMAIN kept : Numbered(I)[i] \in I /\ kept[i] = v.cols[Numbered(I)[i]]
  BY <1>1, SelectedList DEF IsView
<1>7. /\ DOMAIN K = DOMAIN Numbered(I)
      /\ \A i \in DOMAIN K : K[i] = names[Numbered(I)[i]]
  <2>1. IsList(names) /\ I \in SUBSET DOMAIN names
    BY <1>1, NamesOfView
  <2> HIDE DEF K, names
  <2> QED
    BY <1>4, <2>1, SelectedList
<1>8. P = [i \in DOMAIN K |-> Renamed(K[i], p.rename)]
  BY DEF Projected
<1> HIDE DEF K, P
<1>9. DOMAIN kept = 1..Len(kept) /\ Len(kept) \in Nat
  BY <1>6, ListFacts
<1>10. w.cols = [i \in 1..Len(kept) |-> w.cols[i]]
  BY <1>2, <1>9
<1>11. IsView(w)
  BY <1>2, <1>9, <1>10, MappedList DEF IsView
<1>12. ASSUME NEW i \in DOMAIN kept
       PROVE  w.cols[i].name = P[i]
  <2>1. K[i] = v.cols[Numbered(I)[i]].name /\ kept[i] = v.cols[Numbered(I)[i]]
    BY <1>1, <1>3, <1>6, <1>7
  <2>2. w.cols[i] = [kept[i] EXCEPT !.name = Renamed(kept[i].name, p.rename)]
    BY <1>2
  <2> QED
    BY <1>6, <1>7, <1>8, <2>1, <2>2
<1>13. ViewNames(w) = [i \in DOMAIN kept |-> w.cols[i].name]
  BY <1>2 DEF ViewNames
<1>14. ViewNames(w) = P
  BY <1>6, <1>7, <1>8, <1>12, <1>13
<1> QED
  BY <1>1, <1>2, <1>6, <1>11, <1>14 DEF w, P, kept, I, RenamedBindings

LEMMA ListOfWrites ==
  ASSUME block \in Blocks
  PROVE  LET written == [i \in DOMAIN block.writes |-> block.writes[i].column]
         IN  IsList(written) /\ IsList(OwnedColumns) /\ UniqueKeys(OwnedColumns) /\ IsList(Slots)
             /\ Keys(ToSet(OwnedColumns)) = Keys(ToSet(written)) \ Keys(ToSet(block.source))
             /\ ToSet(OwnedColumns) \subseteq ToSet(written)
<1> DEFINE written == [i \in DOMAIN block.writes |-> block.writes[i].column]
<1>1. DOMAIN block.writes = 1..Len(block.writes) /\ Len(block.writes) \in Nat
  BY ListsOfBlock, ListFacts
<1>2. written = [i \in 1..Len(block.writes) |-> written[i]]
  BY <1>1
<1>3. OwnedColumns = Visible(written, ToSet(block.source)) /\ Slots = block.source \o written
  BY DEF OwnedColumns, Slots
<1> HIDE DEF written
<1>4. IsList(written)
  BY <1>1, <1>2, MappedList
<1>5. IsList(Slots)
  BY <1>3, <1>4, ListsOfBlock, JoinedLists
<1> QED
  BY <1>3, <1>4, <1>5, VisibleColumns DEF written

LEMMA ShapedAreUnique ==
  ASSUME block \in Blocks, NEW t
  PROVE  IsList(ShapedColumns(t)) /\ UniqueKeys(ShapedColumns(t))
<1>1. IsList(Slots)
  BY ListOfWrites
<1>2. IsList(UnfilteredBase)
  BY <1>1, VisibleColumns, ProjectedList DEF UnfilteredBase
<1>3. IsList(UnfilteredOf(t))
  BY <1>2, VisibleColumns, ProjectedList DEF UnfilteredOf, Base
<1> QED
  BY <1>3, VisibleColumns DEF ShapedColumns

LEMMA StartingView ==
  ASSUME block \in Blocks, NEW n, NEW written
  PROVE  LET v == RowView(n, written)
             names == block.source \o OwnedColumns
         IN  /\ IsView(v) /\ IsList(names) /\ v.row = n
             /\ v.cols = Bindings(names) /\ v.owned = OwnedAtStart(n, written)
<1> DEFINE v == RowView(n, written)
           names == block.source \o OwnedColumns
           cells == [k \in written \cup Keys(ToSet(OwnedColumns)) |->
                       IF k \in written THEN <<"step", k, n>> ELSE Null]
           bindings == [i \in DOMAIN names |-> Binding(names[i])]
<1>1. IsList(names)
  BY ListsOfBlock, ListOfWrites, JoinedLists
<1>2. v = [row |-> n, cols |-> bindings, owned |-> cells]
  BY DEF RowView
<1> HIDE DEF v, cells, names
<1>3. DOMAIN names = 1..Len(names) /\ Len(names) \in Nat
  BY <1>1, ListFacts
<1>4. bindings = [i \in 1..Len(names) |-> bindings[i]]
  BY <1>3
<1> HIDE DEF bindings
<1>5. IsList(bindings)
  BY <1>3, <1>4, MappedList
<1>6. v.row = n /\ v.cols = bindings /\ v.owned = cells
  BY <1>2
<1>7. IsView(v)
  BY <1>2, <1>5, <1>6 DEF IsView
<1> QED
  BY <1>1, <1>6, <1>7 DEF v, cells, names, bindings, Bindings, OwnedAtStart

LEMMA BuiltAreUnique ==
  ASSUME block \in Blocks, ~ViewsCollide, NEW t \in ToSet(targets),
         IsList(columns[t]), UniqueKeys(columns[t])
  PROVE  IsList(BuiltColumns(t)) /\ UniqueKeys(BuiltColumns(t))
<1> DEFINE v == RowView(1, {})
           w == ProjectedView(v, RunProjection)
           names == ViewNames(TargetView(t, v))
           I == {i \in DOMAIN names : names[i][1] = "var"}
<1>1. CASE columns[t] # <<>>
  BY <1>1 DEF BuiltColumns
<1>2. CASE columns[t] = <<>>
  <2>1. BuiltColumns(t) = Selected(names, I) /\ I \in SUBSET DOMAIN names
    BY <1>2 DEF BuiltColumns
  <2>2. IsView(w)
    BY StartingView, ProjectedNames
  <2>3. TargetView(t, v) = ProjectedView(w, OptionsOf(t))
    BY DEF TargetView
  <2>4. UniqueKeys(Projected(ViewNames(w), OptionsOf(t)))
    BY DEF ViewsCollide, ViewCollides, ToSet
  <2> HIDE DEF w, I, v
  <2>5. names = Projected(ViewNames(w), OptionsOf(t)) /\ IsList(names)
    BY <2>2, <2>3, ProjectedNames, NamesOfView
  <2> HIDE DEF names
  <2> QED
    BY <2>1, <2>4, <2>5, UniqueSelected, SelectedList
<1> QED
  BY <1>1, <1>2

(* what the runtime builds depends on the block and the plan only *)
LEMMA SameBuiltColumns ==
  ASSUME UNCHANGED <<block, columns>>, NEW t
  PROVE  BuiltColumns(t)' = BuiltColumns(t)
<1>1. block' = block /\ columns' = columns
  OBVIOUS
<1>2. OptionsOf(t)' = OptionsOf(t)
  BY <1>1 DEF OptionsOf, References, RefsOf
<1>3. RowView(1, {})' = RowView(1, {})
  BY <1>1 DEF RowView, OwnedColumns, Binding
<1>4. RunProjection' = RunProjection
  BY <1>1 DEF RunProjection
<1> QED
  BY <1>1, <1>2, <1>3, <1>4 DEF BuiltColumns, TargetView

-----------------------------------------------------------------------------
(* Every stage leaves what the next one reads                              *)

(* A stage has not touched what later stages write; the columns of a       *)
(* builder are of distinct names, from the moment it exists; and a row has *)
(* a cell for each of them.  TypeOK alone does not say that the plan and   *)
(* the builders are there when finalization reads them.                    *)
Staged ==
  /\ block \in Blocks /\ phase \in Phases
  /\ IsList(targets) /\ next \in 1..(Len(block.rows) + 1)
  /\ phase = "shape" => columns = <<>>
  /\ phase \in {"validate", "targets"} => targets = <<>> /\ columns = <<>>
  /\ phase \in {"validate", "targets", "shape", "check"} => built = <<>> /\ filtered = <<>>
  /\ phase = "rows" => filtered = <<>>
  /\ phase \in {"check", "rows", "finalize", "metadata", "present", "delivered"} =>
       DOMAIN columns = ToSet(targets)
  /\ phase \in {"rows", "finalize", "metadata", "present", "delivered"} => DOMAIN built = ToSet(targets)
PlannedColumns ==
  /\ columns = <<>> \/ DOMAIN columns = ToSet(targets)
  /\ \A t \in DOMAIN columns : IsList(columns[t]) /\ UniqueKeys(columns[t])
BuiltRows ==
  /\ built = <<>> \/ DOMAIN built = ToSet(targets)
  /\ \A t \in DOMAIN built :
       /\ IsList(BuiltColumns(t)) /\ UniqueKeys(BuiltColumns(t)) /\ IsList(built[t])
       /\ \A i \in DOMAIN built[t] : DOMAIN built[t][i] = ToSet(BuiltColumns(t))
IsOutputTable(f) == f = [cols |-> f.cols, labels |-> f.labels, rows |-> f.rows] /\ UniqueKeys(f.cols)
IsBeginning(S, s) == \E n \in 0..Len(s) : S = {s[i] : i \in 1..n}
FilteredTables == IsBeginning(DOMAIN filtered, targets) /\ \A t \in DOMAIN filtered : IsOutputTable(filtered[t])
Prepared == Staged /\ PlannedColumns /\ BuiltRows /\ FilteredTables

LEMMA PreparedInit == Init => Prepared
<1> SUFFICES ASSUME Init PROVE Prepared
  OBVIOUS
<1>1. IsList(<<>>) /\ Len(<<>>) = 0 /\ DOMAIN <<>> = {}
  BY DEF IsList
<1>2. Len(block.rows) \in Nat
  BY ListsOfBlock, ListFacts DEF Init
<1>3. Staged
  BY <1>1, <1>2 DEF Init, Staged, Phases
<1>4. PlannedColumns /\ BuiltRows
  BY <1>1 DEF Init, PlannedColumns, BuiltRows
<1>5. FilteredTables
  <2>1. targets = <<>> /\ filtered = <<>>
    BY DEF Init
  <2>2. 0 \in 0..Len(targets) /\ DOMAIN filtered = {targets[i] : i \in 1..0}
    BY <1>1, <2>1
  <2> QED
    BY <1>1, <2>1, <2>2 DEF FilteredTables, IsBeginning
<1> QED
  BY <1>3, <1>4, <1>5 DEF Prepared

LEMMA SameBuilt ==
  ASSUME BuiltRows, UNCHANGED <<block, targets, columns, built>>
  PROVE  BuiltRows'
<1>1. \A t : BuiltColumns(t)' = BuiltColumns(t)
  BY SameBuiltColumns
<1> QED
  BY <1>1 DEF BuiltRows

LEMMA PreparedRefuse ==
  ASSUME Prepared, NEW c, Refuse(c)
  PROVE  Prepared'
<1>1. BuiltRows'
  BY SameBuilt DEF Prepared, Refuse
<1> QED
  BY <1>1 DEF Prepared, Refuse, Staged, PlannedColumns, FilteredTables, Phases

LEMMA PreparedShape ==
  ASSUME Prepared, ShapeOutputs
  PROVE  Prepared'
<1>1. CASE \E c : Refuse(c)
  BY <1>1, PreparedRefuse
<1>2. CASE ~ \E c : Refuse(c)
  <2>1. /\ phase = "shape" /\ phase' = "check"
        /\ columns' = [t \in ToSet(targets) |-> ShapedColumns(t)]
        /\ UNCHANGED <<block, targets, next, built, filtered>>
    BY <1>2 DEF ShapeOutputs
  <2>2. built = <<>> /\ filtered = <<>> /\ block \in Blocks
    BY <2>1 DEF Prepared, Staged
  <2>3. Staged'
    BY <2>1, <2>2 DEF Prepared, Staged, Phases
  <2>4. PlannedColumns'
    BY <2>1, <2>2, ShapedAreUnique DEF PlannedColumns
  <2>5. BuiltRows'
    BY <2>1, <2>2 DEF BuiltRows
  <2>6. FilteredTables'
    BY <2>1 DEF Prepared, FilteredTables
  <2> QED
    BY <2>3, <2>4, <2>5, <2>6 DEF Prepared
<1> QED
  BY <1>1, <1>2

LEMMA PreparedCheck ==
  ASSUME Prepared, CheckViews
  PROVE  Prepared'
<1>1. CASE ViewsCollide
  BY <1>1, PreparedRefuse DEF CheckViews
<1>2. CASE ~ViewsCollide
  <2>1. /\ phase = "check" /\ phase' = "rows" /\ built' = [t \in ToSet(targets) |-> <<>>]
        /\ UNCHANGED <<block, targets, columns, next, filtered>>
    BY <1>2 DEF CheckViews
  <2>2. filtered = <<>> /\ block \in Blocks /\ DOMAIN columns = ToSet(targets)
    BY <2>1 DEF Prepared, Staged
  <2>3. Staged'
    BY <2>1, <2>2 DEF Prepared, Staged, Phases
  <2>4. PlannedColumns' /\ FilteredTables'
    BY <2>1 DEF Prepared, PlannedColumns, FilteredTables
  <2>5. \A t \in ToSet(targets) : IsList(BuiltColumns(t)) /\ UniqueKeys(BuiltColumns(t))
    BY <1>2, <2>2, BuiltAreUnique DEF Prepared, PlannedColumns
  <2>6. \A t : BuiltColumns(t)' = BuiltColumns(t)
    BY <2>1, SameBuiltColumns
  <2>7. IsList(<<>>) /\ DOMAIN <<>> = {}
    BY DEF IsList
  <2>8. BuiltRows'
    BY <2>1, <2>5, <2>6, <2>7 DEF BuiltRows
  <2> QED
    BY <2>3, <2>4, <2>8 DEF Prepared
<1> QED
  BY <1>1, <1>2

LEMMA JoinedIsList ==
  ASSUME NEW parts, IsList(parts), \A i \in DOMAIN parts : IsList(parts[i])
  PROVE  IsList(Joined(parts))
<1> DEFINE V == UNION {ToSet(parts[i]) : i \in DOMAIN parts}
<1>1. \A i \in DOMAIN parts : parts[i] \in Seq(V)
  <2> SUFFICES ASSUME NEW i \in DOMAIN parts PROVE parts[i] \in Seq(V)
    OBVIOUS
  <2>1. parts[i] \in Seq(ToSet(parts[i])) /\ ToSet(parts[i]) \subseteq V
    BY DEF IsList
  <2> HIDE DEF V
  <2> QED
    BY <2>1
<1> HIDE DEF V
<1>2. DOMAIN parts = 1..Len(parts) /\ Len(parts) \in Nat /\ parts = [i \in 1..Len(parts) |-> parts[i]]
  BY ListFacts
<1>3. parts \in Seq(Seq(V))
  BY <1>1, <1>2
<1>4. Joined(parts) \in Seq(V)
  BY ONLY <1>3, JoinedInOrder
<1> QED
  BY <1>4, SequencesAreLists

LEMMA RouteIsList ==
  ASSUME block \in Blocks, NEW n \in DOMAIN block.rows
  PROVE  IsList(Route(block.rows[n]))
<1> DEFINE fired == block.rows[n].fired
           parts == [j \in DOMAIN fired |-> Reached(block.outputs[fired[j]])]
<1>1. IsList(<<DefaultTarget>>)
  BY DEF IsList, ToSet
<1>2. IsList(fired) /\ \A j \in DOMAIN fired : fired[j] \in DOMAIN block.outputs
  BY BlocksAssumption DEF ToSet
<1>3. DOMAIN fired = 1..Len(fired) /\ Len(fired) \in Nat
  BY <1>2, ListFacts
<1>4. parts = [j \in 1..Len(fired) |-> parts[j]]
  BY <1>3
<1>5. \A j \in DOMAIN parts : IsList(parts[j])
  <2> SUFFICES ASSUME NEW j \in DOMAIN fired PROVE IsList(Reached(block.outputs[fired[j]]))
    OBVIOUS
  <2>1. IsList(block.outputs[fired[j]].refs)
    BY <1>2, ListsOfBlock
  <2>2. IsList(UniqueTargets(NamesOf(block.outputs[fired[j]].refs)))
    BY <2>1, NamesList, UniqueNames
  <2> QED
    BY <1>1, <2>2 DEF Reached
<1>6. Route(block.rows[n]) = IF SuppressImplicit THEN Joined(parts) ELSE <<DefaultTarget>>
  BY DEF Route
<1> HIDE DEF parts
<1>7. IsList(Joined(parts))
  BY <1>3, <1>4, <1>5, MappedList, JoinedIsList
<1> QED
  BY <1>1, <1>6, <1>7

LEMMA PreparedRoute ==
  ASSUME Prepared, RouteRow
  PROVE  Prepared'
<1> DEFINE route == Route(block.rows[next])
           here(t) == {i \in DOMAIN route : DatasetKey(route[i]) = DatasetKey(t)}
           new(t) == [i \in 1..Cardinality(here(t)) |-> CellsOf(t, next)]
<1>1. CASE \E i \in DOMAIN route : ~Among(route[i], targets)
  BY <1>1, PreparedRefuse DEF RouteRow
<1>2. CASE ~ \E i \in DOMAIN route : ~Among(route[i], targets)
  <2>1. /\ phase = "rows" /\ next \in DOMAIN block.rows /\ next' = next + 1
        /\ built' = [t \in ToSet(targets) |-> built[t] \o new(t)]
        /\ UNCHANGED <<block, phase, targets, columns, filtered>>
    BY <1>2 DEF RouteRow
  <2>2. block \in Blocks /\ DOMAIN built = ToSet(targets)
    BY <2>1 DEF Prepared, Staged
  <2>3. DOMAIN block.rows = 1..Len(block.rows) /\ Len(block.rows) \in Nat
    BY <2>2, ListsOfBlock, ListFacts
  <2>4. IsList(route)
    BY <2>1, <2>2, RouteIsList
  <2>5. ASSUME NEW t \in ToSet(targets)
        PROVE  /\ IsList(built[t] \o new(t))
               /\ \A i \in DOMAIN (built[t] \o new(t)) : DOMAIN (built[t] \o new(t))[i] = ToSet(BuiltColumns(t))
    <3>1. IsFiniteSet(DOMAIN route)
      BY <2>4, ListFacts
    <3>2. Cardinality(here(t)) \in Nat
      <4>1. here(t) \subseteq DOMAIN route
        OBVIOUS
      <4> HIDE DEF route, here
      <4> QED
        BY <3>1, <4>1, FS_Subset, FS_CardinalityType
    <3>3. DOMAIN CellsOf(t, next) = ToSet(BuiltColumns(t))
      BY DEF CellsOf
    <3> DEFINE many == Cardinality(here(t))
               cells == CellsOf(t, next)
               more == [i \in 1..many |-> cells]
    <3>4. new(t) = more
      OBVIOUS
    <3> HIDE DEF many, cells, route, here, new
    <3>5. DOMAIN cells = ToSet(BuiltColumns(t)) /\ many \in Nat
      BY <3>2, <3>3 DEF many, cells
    <3>6. more = [i \in 1..many |-> more[i]] /\ \A i \in DOMAIN more : more[i] = cells
      OBVIOUS
    <3> HIDE DEF more
    <3>7. IsList(more)
      BY <3>5, <3>6, MappedList
    <3>8. /\ IsList(built[t]) /\ DOMAIN built[t] = 1..Len(built[t]) /\ Len(built[t]) \in Nat
          /\ \A i \in DOMAIN built[t] : DOMAIN built[t][i] = ToSet(BuiltColumns(t))
      BY <2>2, ListFacts DEF Prepared, BuiltRows
    <3>9. DOMAIN more = 1..Len(more) /\ Len(more) \in Nat
      BY <3>7, ListFacts
    <3>10. /\ IsList(built[t] \o more) /\ DOMAIN (built[t] \o more) = 1..(Len(built[t]) + Len(more))
           /\ \A i \in DOMAIN (built[t] \o more) :
                (built[t] \o more)[i] = IF i <= Len(built[t]) THEN built[t][i] ELSE more[i - Len(built[t])]
      BY <3>7, <3>8, JoinedLists
    <3>11. ASSUME NEW i \in DOMAIN (built[t] \o more)
           PROVE  DOMAIN (built[t] \o more)[i] = ToSet(BuiltColumns(t))
      <4>1. CASE i <= Len(built[t])
        BY <3>8, <3>10, <4>1
      <4>2. CASE ~(i <= Len(built[t]))
        <5>1. i - Len(built[t]) \in DOMAIN more
          BY <3>8, <3>9, <3>10, <4>2
        <5> QED
          BY <3>5, <3>6, <3>10, <4>2, <5>1
      <4> QED
        BY <4>1, <4>2
    <3> QED
      BY <3>4, <3>10, <3>11
  <2> HIDE DEF new
  <2>6. \A t : BuiltColumns(t)' = BuiltColumns(t)
    BY <2>1, SameBuiltColumns
  <2>7. BuiltRows'
    BY <2>1, <2>2, <2>5, <2>6 DEF Prepared, BuiltRows
  <2>8. Staged'
    BY <2>1, <2>2, <2>3 DEF Prepared, Staged, Phases
  <2>9. PlannedColumns' /\ FilteredTables'
    BY <2>1 DEF Prepared, PlannedColumns, FilteredTables
  <2> QED
    BY <2>7, <2>8, <2>9 DEF Prepared
<1> QED
  BY <1>1, <1>2

LEMMA OutsideColumns ==
  ASSUME NEW cols, IsList(cols), UniqueKeys(cols), NEW hidden
  PROVE  LET O == Outside(cols, hidden)
         IN  /\ IsList(O) /\ UniqueKeys(O) /\ ToSet(O) \subseteq ToSet(cols)
             /\ \A c \in ToSet(O) : ColumnKey(c) \notin Keys(hidden)
<1> DEFINE I == {i \in DOMAIN cols : ColumnKey(cols[i]) \notin Keys(hidden)}
<1>1. Outside(cols, hidden) = Selected(cols, I) /\ I \in SUBSET DOMAIN cols
  BY DEF Outside
<1>2. \A i \in I : i \in DOMAIN cols /\ ColumnKey(cols[i]) \notin Keys(hidden)
  OBVIOUS
<1> HIDE DEF I
<1>3. ToSet(Outside(cols, hidden)) = {cols[i] : i \in I}
  BY <1>1, SelectedList
<1> QED
  BY <1>1, <1>2, <1>3, SelectedList, UniqueSelected DEF ToSet

(* the next target is the first one that has no table yet *)
LEMMA NextTarget ==
  ASSUME IsList(targets), IsBeginning(DOMAIN filtered, targets), DOMAIN filtered # ToSet(targets)
  PROVE  LET m == Min({i \in DOMAIN targets : targets[i] \notin DOMAIN filtered})
         IN  m \in DOMAIN targets /\ IsBeginning(DOMAIN filtered \cup {targets[m]}, targets)
<1> DEFINE S == {i \in DOMAIN targets : targets[i] \notin DOMAIN filtered}
           m == Min(S)
<1>1. DOMAIN targets = 1..Len(targets) /\ Len(targets) \in Nat
  BY ListFacts
<1>2. PICK n \in 0..Len(targets) : DOMAIN filtered = {targets[i] : i \in 1..n}
  BY DEF IsBeginning
<1>3. S # {}
  BY <1>1, <1>2 DEF ToSet
<1>4. m \in S /\ \A i \in S : m <= i
  <2>1. \E i \in S : \A j \in S : i <= j
    <3>1. S \subseteq Nat
      BY <1>1
    <3> HIDE DEF S
    <3> QED
      BY <1>3, <3>1, LeastNumber
  <2> HIDE DEF S
  <2> QED
    BY <2>1 DEF Min
<1> HIDE DEF m
<1>5. n < m
  BY <1>1, <1>2, <1>4
<1>6. \A i \in 1..(m - 1) : targets[i] \in DOMAIN filtered
  BY <1>1, <1>4
<1>7. DOMAIN filtered \cup {targets[m]} = {targets[i] : i \in 1..m}
  <2>1. \A x \in DOMAIN filtered : \E i \in 1..m : x = targets[i]
    BY <1>1, <1>2, <1>4, <1>5
  <2>2. \A i \in 1..m : targets[i] \in DOMAIN filtered \/ i = m
    BY <1>1, <1>4, <1>6
  <2>3. m \in 1..m
    BY <1>1, <1>4
  <2> QED
    BY <2>1, <2>2, <2>3
<1>8. m \in 0..Len(targets) /\ m \in DOMAIN targets
  BY <1>1, <1>4
<1> QED
  BY <1>7, <1>8 DEF IsBeginning, m

LEMMA PreparedFinalize ==
  ASSUME Prepared, FinalizeTarget
  PROVE  Prepared'
<1> DEFINE t == targets[Min({i \in DOMAIN targets : targets[i] \notin DOMAIN filtered})]
<1>1. CASE \E c : Refuse(c)
  BY <1>1, PreparedRefuse
<1>2. CASE ~ \E c : Refuse(c)
  <2>1. /\ phase = "finalize" /\ DOMAIN filtered # ToSet(targets)
        /\ filtered' = [u \in DOMAIN filtered \cup {t} |-> IF u = t THEN FinalizedTable(t) ELSE filtered[u]]
        /\ UNCHANGED <<block, phase, targets, columns, next, built>>
    BY <1>2 DEF FinalizeTarget
  <2>2. t \in ToSet(targets) /\ IsBeginning(DOMAIN filtered \cup {t}, targets)
    BY <2>1, NextTarget DEF Prepared, Staged, FilteredTables, ToSet
  <2>3. DOMAIN built = ToSet(targets)
    BY <2>1 DEF Prepared, Staged
  <2>4. IsOutputTable(FinalizedTable(t))
    <3>1. UniqueKeys(Unhidden(t))
      BY <2>2, <2>3, OutsideColumns DEF Prepared, BuiltRows, Unhidden
    <3> QED
      BY <3>1 DEF IsOutputTable, FinalizedTable
  <2> HIDE DEF t
  <2>5. FilteredTables'
    BY <2>1, <2>2, <2>4 DEF Prepared, FilteredTables
  <2>6. BuiltRows'
    BY <2>1, SameBuilt DEF Prepared
  <2>7. Staged' /\ PlannedColumns'
    BY <2>1 DEF Prepared, Staged, PlannedColumns, Phases
  <2> QED
    BY <2>5, <2>6, <2>7 DEF Prepared
<1> QED
  BY <1>1, <1>2

LEMMA PreparedMetadata ==
  ASSUME Prepared, ApplyMetadata
  PROVE  Prepared'
<1>1. CASE \E c : Refuse(c)
  BY <1>1, PreparedRefuse
<1>2. CASE ~ \E c : Refuse(c)
  <2>1. /\ phase = "metadata" /\ phase' = "present"
        /\ filtered' = [t \in DOMAIN filtered |-> [filtered[t] EXCEPT !.labels = LabelsOf(t)]]
        /\ UNCHANGED <<block, targets, columns, next, built>>
    BY <1>2 DEF ApplyMetadata
  <2>2. ASSUME NEW t \in DOMAIN filtered
        PROVE  IsOutputTable([filtered[t] EXCEPT !.labels = LabelsOf(t)])
    <3>1. ASSUME NEW f, IsOutputTable(f), NEW L
          PROVE  IsOutputTable([f EXCEPT !.labels = L])
      BY <3>1 DEF IsOutputTable
    <3> QED
      BY <3>1 DEF Prepared, FilteredTables
  <2>3. FilteredTables'
    BY <2>1, <2>2 DEF Prepared, FilteredTables
  <2>4. BuiltRows'
    BY <2>1, SameBuilt DEF Prepared
  <2>5. Staged' /\ PlannedColumns'
    BY <2>1 DEF Prepared, Staged, PlannedColumns, Phases
  <2> QED
    BY <2>3, <2>4, <2>5 DEF Prepared
<1> QED
  BY <1>1, <1>2

(* a step that changes none of the tables *)
LEMMA PreparedMoves ==
  ASSUME Prepared, UNCHANGED <<block, targets, columns, next, built, filtered>>, Staged'
  PROVE  Prepared'
BY SameBuilt DEF Prepared, PlannedColumns, FilteredTables

LEMMA PreparedTargets ==
  ASSUME Prepared, PlanTargets
  PROVE  Prepared'
<1>1. CASE \E c : Refuse(c)
  BY <1>1, PreparedRefuse
<1>2. CASE ~ \E c : Refuse(c)
  <2>1. /\ phase = "targets" /\ phase' = "shape" /\ targets' = ResolvedTargets
        /\ UNCHANGED <<block, columns, next, built, filtered>>
    BY <1>2 DEF PlanTargets
  <2>2. block \in Blocks /\ columns = <<>> /\ built = <<>> /\ filtered = <<>>
    BY <2>1 DEF Prepared, Staged
  <2>3. IsList(ResolvedTargets)
    BY <2>2, ResolvedList
  <2>4. Staged'
    BY <2>1, <2>2, <2>3 DEF Prepared, Staged, Phases
  <2>5. IsBeginning(DOMAIN <<>>, ResolvedTargets) /\ DOMAIN <<>> = {}
    <3>1. 0 \in 0..Len(ResolvedTargets)
      BY <2>3, ListFacts
    <3>2. {} = {ResolvedTargets[i] : i \in 1..0} /\ DOMAIN <<>> = {}
      OBVIOUS
    <3> QED
      BY <3>1, <3>2 DEF IsBeginning
  <2>6. PlannedColumns' /\ BuiltRows' /\ FilteredTables'
    BY <2>1, <2>2, <2>5 DEF PlannedColumns, BuiltRows, FilteredTables
  <2> QED
    BY <2>4, <2>6 DEF Prepared
<1> QED
  BY <1>1, <1>2

LEMMA PreparedStep == Prepared /\ [Next]_vars => Prepared'
<1> SUFFICES ASSUME Prepared, [Next]_vars PROVE Prepared'
  OBVIOUS
<1>1. CASE Validate
  <2>1. CASE \E c : Refuse(c)
    BY <2>1, PreparedRefuse
  <2>2. CASE ~ \E c : Refuse(c)
    <3>1. /\ phase = "validate" /\ phase' = "targets"
          /\ UNCHANGED <<block, targets, columns, next, built, filtered>>
      BY <1>1, <2>2 DEF Validate
    <3>2. Staged'
      BY <3>1 DEF Prepared, Staged, Phases
    <3> QED
      BY <3>1, <3>2, PreparedMoves
  <2> QED
    BY <2>1, <2>2
<1>2. CASE EndOfRows
  <2>1. Staged' /\ UNCHANGED <<block, targets, columns, next, built, filtered>>
    BY <1>2 DEF EndOfRows, Prepared, Staged, Phases
  <2> QED
    BY <2>1, PreparedMoves
<1>3. CASE EndOfTargets
  <2>1. Staged' /\ UNCHANGED <<block, targets, columns, next, built, filtered>>
    BY <1>3 DEF EndOfTargets, Prepared, Staged, Phases
  <2> QED
    BY <2>1, PreparedMoves
<1>4. CASE Present
  <2>1. CASE \E c : Refuse(c)
    BY <2>1, PreparedRefuse
  <2>2. CASE ~ \E c : Refuse(c)
    <3>1. Staged' /\ UNCHANGED <<block, targets, columns, next, built, filtered>>
      BY <1>4, <2>2 DEF Present, Prepared, Staged, Phases
    <3> QED
      BY <3>1, PreparedMoves
  <2> QED
    BY <2>1, <2>2
<1>5. CASE Ended \/ UNCHANGED vars
  <2>1. UNCHANGED vars
    BY <1>5 DEF Ended
  <2>2. Staged'
    BY <2>1 DEF vars, Prepared, Staged
  <2> QED
    BY <2>1, <2>2, PreparedMoves DEF vars
<1> QED
  BY <1>1, <1>2, <1>3, <1>4, <1>5, PreparedTargets, PreparedShape, PreparedCheck, PreparedRoute,
     PreparedFinalize, PreparedMetadata DEF Next

(* Every stage finds what it reads: the planned columns and the builder of *)
(* every target, tables for a beginning of the targets, and in no table    *)
(* two columns of one name, whichever way they were renamed.               *)
THEOREM StagesAreTyped == Spec => []TypeOK
<1>1. Prepared => TypeOK
  <2> SUFFICES ASSUME Prepared PROVE TypeOK
    OBVIOUS
  <2>1. DOMAIN <<>> = {}
    OBVIOUS
  <2>2. /\ DOMAIN columns \in {{}, ToSet(targets)} /\ DOMAIN built \in {{}, ToSet(targets)}
        /\ phase \in Phases /\ next \in 1..(Len(block.rows) + 1)
    BY <2>1 DEF Prepared, Staged, PlannedColumns, BuiltRows
  <2>3. \A t \in DOMAIN built : \A i \in DOMAIN built[t] : DOMAIN built[t][i] = ToSet(BuiltColumns(t))
    BY DEF Prepared, BuiltRows
  <2>4. /\ \E n \in 0..Len(targets) : DOMAIN filtered = {targets[i] : i \in 1..n}
        /\ \A t \in DOMAIN filtered : UniqueKeys(filtered[t].cols)
    BY DEF Prepared, FilteredTables, IsBeginning, IsOutputTable
  <2> QED
    BY <2>2, <2>3, <2>4 DEF TypeOK
<1> QED
  BY <1>1, PreparedInit, PreparedStep, PTL DEF Spec

-----------------------------------------------------------------------------
(* Automatic variables stay inside                                         *)

(* What is hidden stays hidden, what a hidden column is renamed to is      *)
(* hidden too, and a RENAME of other columns hides nothing more.           *)
LEMMA ExcludingHides ==
  ASSUME NEW hidden, NEW pairs, IsList(pairs)
  PROVE  /\ hidden \subseteq Excluding(hidden, pairs)
         /\ \A n \in DOMAIN pairs :
              ColumnKey(pairs[n][1]) \in Keys(hidden) => pairs[n][2] \in Excluding(hidden, pairs)
         /\ (\A n \in DOMAIN pairs : ColumnKey(pairs[n][1]) \notin Keys(hidden)) =>
              Excluding(hidden, pairs) = hidden
<1> DEFINE N == Len(pairs)
           Adds(n, S) == IF ColumnKey(pairs[n][1]) \in Keys(S) THEN S \cup {pairs[n][2]} ELSE S
           Unfold(f) == [n \in 0..N |-> IF n = 0 THEN hidden
                                        ELSE IF ColumnKey(pairs[n][1]) \in Keys(f[n - 1])
                                             THEN f[n - 1] \cup {pairs[n][2]}
                                        ELSE f[n - 1]]
           after == CHOOSE f : f = Unfold(f)
           V == SUBSET (hidden \cup {pairs[n][2] : n \in DOMAIN pairs})
           Step == [n \in 1..N |-> [S \in V |-> Adds(n, S)]]
<1>1. DOMAIN pairs = 1..N /\ N \in Nat
  BY ListFacts
<1>2. Excluding(hidden, pairs) = after[N]
  BY DEF Excluding
<1>3. hidden \in V /\ Step \in [1..N -> [V -> V]]
  <2>1. ASSUME NEW n \in 1..N, NEW S \in V PROVE Adds(n, S) \in V
    BY <1>1
  <2> HIDE DEF V, Adds
  <2>2. Step \in [1..N -> [V -> V]]
    BY <2>1
  <2> QED
    BY <2>2 DEF V
<1>4. \A n \in 1..N : \A S \in V : Step[n][S] = Adds(n, S)
  OBVIOUS
<1> HIDE DEF V, Step
<1>5. PICK f : Follows(f, N, V, hidden, Step)
  <2> HIDE DEF N
  <2> QED
    BY ONLY <1>1, <1>3, Recursion
<1>6. f \in [0..N -> V] /\ f[0] = hidden /\ \A n \in 1..N : f[n] = Adds(n, f[n - 1])
  <2>1. f \in [0..N -> V] /\ f[0] = hidden /\ \A n \in 1..N : f[n] = Step[n][f[n - 1]]
    BY <1>5 DEF Follows
  <2>2. \A n \in 1..N : f[n - 1] \in V
    BY <1>1, <2>1
  <2> HIDE DEF Adds, N
  <2> QED
    BY <1>4, <2>1, <2>2
<1>7. f = Unfold(f)
  <2>1. f = [n \in 0..N |-> f[n]]
    BY <1>6
  <2>2. \A n \in 0..N : f[n] = Unfold(f)[n]
    <3> HIDE DEF N
    <3> SUFFICES ASSUME NEW n \in 0..N PROVE f[n] = Unfold(f)[n]
      OBVIOUS
    <3>1. n = 0 \/ n \in 1..N
      BY <1>1
    <3>2. CASE n = 0
      BY <1>6, <3>2
    <3>3. CASE n \in 1..N
      <4>1. n # 0
        BY <3>3
      <4>2. f[n] = Adds(n, f[n - 1])
        BY <1>6, <3>3
      <4> QED
        BY <4>1, <4>2
    <3> QED
      BY <3>1, <3>2, <3>3
  <2> HIDE DEF N
  <2> QED
    BY <2>1, <2>2
<1>8. after = Unfold(after)
  <2> HIDE DEF Unfold
  <2> QED
    BY <1>7
<1> HIDE DEF after
<1> HIDE DEF N
<1>9. after[0] = hidden /\ \A n \in 1..N : after[n] = Adds(n, after[n - 1])
  <2>1. after[0] = hidden
    BY <1>1, <1>8
  <2>2. ASSUME NEW n \in 1..N PROVE after[n] = Adds(n, after[n - 1])
    <3>1. n # 0 /\ n \in 0..N
      BY <1>1
    <3> QED
      BY <1>8, <3>1
  <2> QED
    BY <2>1, <2>2
<1>10. \A n \in 0..N : \A k \in 0..n : after[k] \subseteq after[n]
  <2> DEFINE S == {n \in 0..N : \A k \in 0..n : after[k] \subseteq after[n]}
  <2>1. 0 \in S
    BY <1>1
  <2>2. ASSUME NEW n \in 1..N, n - 1 \in S PROVE n \in S
    <3>1. after[n - 1] \subseteq after[n]
      BY <1>9
    <3>2. ASSUME NEW k \in 0..n PROVE after[k] \subseteq after[n]
      <4>1. k = n \/ k \in 0..(n - 1)
        BY <1>1
      <4> QED
        BY <2>2, <3>1, <4>1
    <3> QED
      BY <1>1, <3>2
  <2> HIDE DEF S
  <2>3. \A n \in 0..N : n \in S
    BY ONLY <1>1, <2>1, <2>2, InductTo
  <2> QED
    BY <2>3 DEF S
<1>11. hidden \subseteq after[N]
  BY <1>1, <1>9, <1>10
<1>12. ASSUME NEW n \in DOMAIN pairs, ColumnKey(pairs[n][1]) \in Keys(hidden)
       PROVE  pairs[n][2] \in after[N]
  <2>1. n \in 1..N /\ n - 1 \in 0..N /\ n \in 0..N /\ N \in 0..N /\ n \in 0..N /\ 0 \in 0..(n - 1)
    BY <1>1
  <2>2. hidden \subseteq after[n - 1]
    BY <1>9, <1>10, <2>1
  <2>3. ColumnKey(pairs[n][1]) \in Keys(after[n - 1])
    BY <1>12, <2>2 DEF Keys
  <2>4. pairs[n][2] \in after[n]
    BY <1>9, <2>1, <2>3
  <2> QED
    BY <1>10, <2>1, <2>4
<1>13. ASSUME \A n \in DOMAIN pairs : ColumnKey(pairs[n][1]) \notin Keys(hidden)
       PROVE  after[N] = hidden
  <2> DEFINE S == {n \in 0..N : after[n] = hidden}
  <2>1. 0 \in S
    BY <1>1, <1>9
  <2>2. ASSUME NEW n \in 1..N, n - 1 \in S PROVE n \in S
    <3>1. n \in 0..N /\ n \in DOMAIN pairs
      BY <1>1
    <3> QED
      BY <1>9, <1>13, <2>2, <3>1
  <2> HIDE DEF S
  <2>3. 0..N \subseteq S
    BY ONLY <1>1, <2>1, <2>2, InductTo
  <2> QED
    BY <1>1, <2>3 DEF S
<1> QED
  BY <1>2, <1>11, <1>12, <1>13

(* the column that a hidden one is renamed to is hidden *)
LEMMA RenamedIsHidden ==
  ASSUME NEW hidden, NEW pairs, IsList(pairs), NEW c, ColumnKey(c) \in Keys(hidden)
  PROVE  ColumnKey(Renamed(c, pairs)) \in Keys(Excluding(hidden, pairs))
<1> DEFINE hits == {n \in DOMAIN pairs : ColumnKey(pairs[n][1]) = ColumnKey(c)}
<1>1. CASE hits = {}
  <2>1. Renamed(c, pairs) = c
    BY <1>1 DEF Renamed
  <2> QED
    BY <2>1, ExcludingHides DEF Keys
<1>2. CASE hits # {}
  <2>1. Renamed(c, pairs) = pairs[Max(hits)][2]
    BY <1>2 DEF Renamed
  <2>2. DOMAIN pairs = 1..Len(pairs) /\ Len(pairs) \in Nat
    BY ListFacts
  <2>3. Max(hits) \in hits
    <3>1. hits \subseteq DOMAIN pairs /\ IsFiniteSet(DOMAIN pairs)
      BY ListFacts
    <3> HIDE DEF hits
    <3>2. IsFiniteSet(hits) /\ hits \subseteq Nat
      BY <2>2, <3>1, FS_Subset
    <3>3. \E m \in hits : \A n \in hits : n <= m
      BY <1>2, <3>2, GreatestNumber
    <3>4. \E m \in hits : \A n \in hits : m >= n
      BY <3>2, <3>3
    <3> QED
      BY <3>4 DEF Max
  <2>4. Max(hits) \in DOMAIN pairs /\ ColumnKey(pairs[Max(hits)][1]) \in Keys(hidden)
    BY <2>3
  <2> HIDE DEF hits
  <2> QED
    BY <2>1, <2>4, ExcludingHides DEF Keys
<1> QED
  BY <1>1, <1>2

(* an owned value comes from the old name of a binding, or else from its   *)
(* new name, or it stays                                                   *)
LEMMA ProjectedOwned ==
  ASSUME NEW v, IsView(v), NEW p
  PROVE  LET w == ProjectedView(v, p)
             kept == KeptBindings(v, p)
         IN  /\ DOMAIN v.owned \subseteq DOMAIN w.owned
             /\ \A k \in DOMAIN w.owned :
                  \/ k \in DOMAIN v.owned /\ w.owned[k] = v.owned[k]
                  \/ \E i \in DOMAIN kept :
                       /\ ColumnKey(Renamed(kept[i].name, p.rename)) = k
                       /\ \/ /\ ColumnKey(kept[i].name) \in DOMAIN v.owned
                             /\ w.owned[k] = v.owned[ColumnKey(kept[i].name)]
                          \/ k \in DOMAIN v.owned /\ w.owned[k] = v.owned[k]
<1> DEFINE w == ProjectedView(v, p)
           kept == KeptBindings(v, p)
           New(i) == ColumnKey(Renamed(kept[i].name, p.rename))
           Old(i) == ColumnKey(kept[i].name)
           moved == {i \in DOMAIN kept : {Old(i), New(i)} \cap DOMAIN v.owned # {}}
           Moved(i) == v.owned[IF Old(i) \in DOMAIN v.owned THEN Old(i) ELSE New(i)]
           C == [i \in DOMAIN kept |-> [kept[i] EXCEPT !.name = Renamed(kept[i].name, p.rename)]]
           O == [k \in DOMAIN v.owned \cup {New(i) : i \in moved} |->
                   IF \E i \in moved : New(i) = k
                   THEN Moved(CHOOSE i \in moved : New(i) = k) ELSE v.owned[k]]
<1>1. w = [v EXCEPT !.cols = C, !.owned = O]
  BY DEF ProjectedView
<1> HIDE DEF w, C, O
<1>2. w.owned = O
  <2>1. w = [row |-> v.row, cols |-> C, owned |-> O]
    BY <1>1, ViewParts DEF IsView
  <2> QED
    BY <2>1
<1>3. DOMAIN O = DOMAIN v.owned \cup {New(i) : i \in moved}
  BY DEF O
<1>4. ASSUME NEW k \in DOMAIN O
      PROVE  \/ k \in DOMAIN v.owned /\ O[k] = v.owned[k]
             \/ \E i \in DOMAIN kept :
                  /\ New(i) = k
                  /\ \/ Old(i) \in DOMAIN v.owned /\ O[k] = v.owned[Old(i)]
                     \/ k \in DOMAIN v.owned /\ O[k] = v.owned[k]
  <2> DEFINE m == CHOOSE i \in moved : New(i) = k
  <2>1. O[k] = IF \E i \in moved : New(i) = k THEN Moved(m) ELSE v.owned[k]
    BY DEF O
  <2>2. CASE \E i \in moved : New(i) = k
    <3>1. m \in moved /\ New(m) = k
      <4> HIDE DEF moved, New
      <4> QED
        BY <2>2
    <3>2. O[k] = Moved(m)
      BY <2>1, <2>2
    <3> HIDE DEF m, kept
    <3>3. m \in DOMAIN kept /\ (Old(m) \in DOMAIN v.owned \/ New(m) \in DOMAIN v.owned)
      BY <3>1
    <3> HIDE DEF New, Old, moved
    <3> QED
      BY <3>1, <3>2, <3>3
  <2>3. CASE ~ \E i \in moved : New(i) = k
    <3>1. O[k] = v.owned[k]
      BY <2>1, <2>3
    <3>2. k \in DOMAIN v.owned
      <4> HIDE DEF moved, New
      <4> QED
        BY <1>3, <2>3
    <3> QED
      BY <3>1, <3>2
  <2> QED
    BY <2>2, <2>3
<1>5. DOMAIN v.owned \subseteq DOMAIN O
  BY <1>3
<1> HIDE DEF kept
<1> QED
  BY <1>2, <1>4, <1>5 DEF w, kept

Automatic(cell) == cell # Null /\ cell[2] \in Keys(block.internal)
Computed == {block.writes[i].column : i \in DOMAIN block.writes}

(* In a view that H covers, what came from an automatic variable is found  *)
(* under names of H only.                                                  *)
Covers(H, v) ==
  /\ IsView(v)
  /\ \A k \in DOMAIN v.owned : Automatic(v.owned[k]) =>
       /\ k \in Keys(H)
       /\ k \in Keys(Computed) => k \in Keys(block.internal)
  /\ \A i \in DOMAIN v.cols :
       /\ v.cols[i] = [name |-> v.cols[i].name, key |-> v.cols[i].key, source |-> v.cols[i].source]
       /\ v.cols[i].key \in Keys(block.internal) => ColumnKey(v.cols[i].name) \in Keys(H)
       /\ v.cols[i].source \/ v.cols[i].key \in Keys(Computed) \cap DOMAIN v.owned

(* a RENAME that makes no computed column *)
Aside(pairs) == \A n \in DOMAIN pairs : ColumnKey(pairs[n][2]) \notin Keys(Computed)

LEMMA RenamedAside ==
  ASSUME NEW pairs, IsList(pairs), Aside(pairs), NEW c,
         ColumnKey(Renamed(c, pairs)) \in Keys(Computed)
  PROVE  Renamed(c, pairs) = c
<1> DEFINE hits == {n \in DOMAIN pairs : ColumnKey(pairs[n][1]) = ColumnKey(c)}
<1>1. hits # {} => Max(hits) \in DOMAIN pairs
  <2> SUFFICES ASSUME hits # {} PROVE Max(hits) \in DOMAIN pairs
    OBVIOUS
  <2>1. hits \subseteq DOMAIN pairs /\ IsFiniteSet(DOMAIN pairs)
    BY ListFacts
  <2> HIDE DEF hits
  <2>2. IsFiniteSet(hits) /\ hits \subseteq Nat
    BY <2>1, ListFacts, FS_Subset
  <2>3. \E m \in hits : \A n \in hits : n <= m
    BY <2>2, GreatestNumber
  <2>4. \E m \in hits : \A n \in hits : m >= n
    BY <2>2, <2>3
  <2> QED
    BY <2>1, <2>4 DEF Max
<1>2. Renamed(c, pairs) = IF hits = {} THEN c ELSE pairs[Max(hits)][2]
  BY DEF Renamed
<1> HIDE DEF hits
<1> QED
  BY <1>1, <1>2 DEF Aside

LEMMA CoversProjected ==
  ASSUME NEW H, NEW v, Covers(H, v), NEW p, IsList(p.rename), Aside(p.rename)
  PROVE  Covers(Excluding(H, p.rename), ProjectedView(v, p))
<1> DEFINE w == ProjectedView(v, p)
           kept == KeptBindings(v, p)
           E == Excluding(H, p.rename)
           I == {i \in DOMAIN v.cols : Survives(v.cols[i].name, p)}
           N(i) == Renamed(kept[i].name, p.rename)
<1>1. IsView(v)
  BY DEF Covers
<1>2. /\ IsView(w) /\ kept = Selected(v.cols, I) /\ I \in SUBSET DOMAIN v.cols
      /\ w.cols = RenamedBindings(kept, p.rename)
  BY <1>1, ProjectedNames
<1>3. \A i \in DOMAIN kept : \E n \in DOMAIN v.cols : kept[i] = v.cols[n]
  <2> HIDE DEF kept, I
  <2>1. IsList(v.cols)
    BY <1>1 DEF IsView
  <2> QED
    BY <1>2, <2>1, SelectedList
<1>4. /\ DOMAIN v.owned \subseteq DOMAIN w.owned
      /\ \A k \in DOMAIN w.owned :
           \/ k \in DOMAIN v.owned /\ w.owned[k] = v.owned[k]
           \/ \E i \in DOMAIN kept :
                /\ ColumnKey(N(i)) = k
                /\ \/ ColumnKey(kept[i].name) \in DOMAIN v.owned /\ w.owned[k] = v.owned[ColumnKey(kept[i].name)]
                   \/ k \in DOMAIN v.owned /\ w.owned[k] = v.owned[k]
  BY <1>1, ProjectedOwned
<1> HIDE DEF w, kept, E, N
<1>5. Keys(H) \subseteq Keys(E)
  BY ExcludingHides DEF E, Keys
<1>6. \A i \in DOMAIN kept : ColumnKey(kept[i].name) \in Keys(H) => ColumnKey(N(i)) \in Keys(E)
  BY RenamedIsHidden DEF E, N
<1>7. \A i \in DOMAIN kept : ColumnKey(N(i)) \in Keys(Computed) => N(i) = kept[i].name
  BY RenamedAside DEF N
<1>8. ASSUME NEW k \in DOMAIN w.owned, Automatic(w.owned[k])
      PROVE  k \in Keys(E) /\ (k \in Keys(Computed) => k \in Keys(block.internal))
  <2>1. CASE k \in DOMAIN v.owned /\ w.owned[k] = v.owned[k]
    BY <1>5, <1>8, <2>1 DEF Covers
  <2>2. ASSUME NEW i \in DOMAIN kept, ColumnKey(N(i)) = k, ColumnKey(kept[i].name) \in DOMAIN v.owned,
               w.owned[k] = v.owned[ColumnKey(kept[i].name)]
        PROVE  k \in Keys(E) /\ (k \in Keys(Computed) => k \in Keys(block.internal))
    <3>1. /\ ColumnKey(kept[i].name) \in Keys(H)
          /\ ColumnKey(kept[i].name) \in Keys(Computed) => ColumnKey(kept[i].name) \in Keys(block.internal)
      BY <1>8, <2>2 DEF Covers
    <3>2. k \in Keys(Computed) => k = ColumnKey(kept[i].name)
      BY <1>7, <2>2
    <3> QED
      BY <1>6, <2>2, <3>1, <3>2
  <2> QED
    BY <1>4, <2>1, <2>2
<1>9. ASSUME NEW i \in DOMAIN w.cols
      PROVE  /\ w.cols[i] = [name |-> w.cols[i].name, key |-> w.cols[i].key, source |-> w.cols[i].source]
             /\ w.cols[i].key \in Keys(block.internal) => ColumnKey(w.cols[i].name) \in Keys(E)
             /\ w.cols[i].source \/ w.cols[i].key \in Keys(Computed) \cap DOMAIN w.owned
  <2>1. i \in DOMAIN kept /\ w.cols[i] = [kept[i] EXCEPT !.name = N(i)]
    BY <1>2 DEF RenamedBindings, N
  <2>2. PICK n \in DOMAIN v.cols : kept[i] = v.cols[n]
    BY <1>3, <2>1
  <2>3. /\ kept[i] = [name |-> kept[i].name, key |-> kept[i].key, source |-> kept[i].source]
        /\ kept[i].key \in Keys(block.internal) => ColumnKey(kept[i].name) \in Keys(H)
        /\ kept[i].source \/ kept[i].key \in Keys(Computed) \cap DOMAIN v.owned
    BY <2>2 DEF Covers
  <2>4. w.cols[i] = [name |-> N(i), key |-> kept[i].key, source |-> kept[i].source]
    <3>1. ASSUME NEW a, NEW b, NEW c, NEW d
          PROVE  [[name |-> a, key |-> b, source |-> c] EXCEPT !.name = d] = [name |-> d, key |-> b, source |-> c]
      OBVIOUS
    <3> QED
      BY <2>1, <2>3, <3>1
  <2>5. w.cols[i].name = N(i) /\ w.cols[i].key = kept[i].key /\ w.cols[i].source = kept[i].source
    BY <2>4
  <2> QED
    BY <1>4, <1>6, <2>1, <2>3, <2>4, <2>5
<1> QED
  BY <1>2, <1>8, <1>9 DEF Covers, w, E

LEMMA CoveredCell ==
  ASSUME NEW H, NEW v, Covers(H, v), NEW c, ColumnKey(c) \notin Keys(H)
  PROVE  ~Automatic(CellOf(v, c))
<1> DEFINE found == {i \in DOMAIN v.cols : ColumnKey(v.cols[i].name) = ColumnKey(c)}
           f == CHOOSE i \in found : TRUE
           b == v.cols[f]
<1>1. CellOf(v, c) = IF found = {} THEN Null
                     ELSE IF ~b.source THEN v.owned[b.key]
                     ELSE IF ColumnKey(c) \in DOMAIN v.owned THEN v.owned[ColumnKey(c)]
                     ELSE <<"row", b.key, v.row>>
  BY DEF CellOf
<1>2. CASE found = {}
  BY <1>1, <1>2 DEF Automatic
<1>3. CASE found # {}
  <2>1. f \in found
    <3> HIDE DEF found
    <3> QED
      BY <1>3
  <2>2. f \in DOMAIN v.cols /\ ColumnKey(b.name) = ColumnKey(c)
    BY <2>1
  <2> HIDE DEF found, f
  <2>3. /\ b.key \notin Keys(block.internal)
        /\ b.source \/ b.key \in Keys(Computed) \cap DOMAIN v.owned
    BY <2>2 DEF Covers
  <2>4. ColumnKey(c) \in DOMAIN v.owned => ~Automatic(v.owned[ColumnKey(c)])
    BY DEF Covers
  <2>5. b.key \in Keys(Computed) \cap DOMAIN v.owned => ~Automatic(v.owned[b.key])
    BY <2>3 DEF Covers
  <2>6. <<"row", b.key, v.row>>[2] = b.key
    OBVIOUS
  <2> HIDE DEF b
  <2>7. ~Automatic(<<"row", b.key, v.row>>)
    BY <2>3, <2>6 DEF Automatic
  <2> QED
    BY <1>1, <1>3, <2>3, <2>4, <2>5, <2>7
<1> QED
  BY <1>2, <1>3

LEMMA BindingParts ==
  ASSUME NEW c
  PROVE  LET b == Binding(c)
         IN  /\ b = [name |-> b.name, key |-> b.key, source |-> b.source]
             /\ b.name = c /\ b.key = ColumnKey(c) /\ (b.source <=> c \in ToSet(block.source))
BY DEF Binding

LEMMA StartCovers ==
  ASSUME block \in Blocks, NEW n, NEW written
  PROVE  Covers(block.internal, RowView(n, written))
<1> DEFINE v == RowView(n, written)
           names == block.source \o OwnedColumns
<1>1. IsView(v) /\ IsList(names) /\ v.cols = Bindings(names) /\ v.owned = OwnedAtStart(n, written)
  BY StartingView
<1>2. ToSet(names) = ToSet(block.source) \cup ToSet(OwnedColumns)
  BY ListsOfBlock, ListOfWrites, JoinedLists
<1>3. ToSet(OwnedColumns) \subseteq Computed
  <2>1. ToSet([i \in DOMAIN block.writes |-> block.writes[i].column]) = Computed
    BY DEF ToSet, Computed
  <2> QED
    BY <2>1, ListOfWrites
<1> HIDE DEF v, names
<1>4. ASSUME NEW k \in DOMAIN v.owned, Automatic(v.owned[k])
      PROVE  k \in Keys(block.internal)
  <2>1. v.owned[k] # Null /\ (v.owned[k] = <<"step", k, n>> \/ v.owned[k] = Null)
    BY <1>1, <1>4 DEF Automatic, OwnedAtStart
  <2>2. v.owned[k][2] = k
    BY <2>1
  <2> QED
    BY <1>4, <2>2 DEF Automatic
<1>5. ASSUME NEW i \in DOMAIN v.cols
      PROVE  /\ v.cols[i] = [name |-> v.cols[i].name, key |-> v.cols[i].key, source |-> v.cols[i].source]
             /\ v.cols[i].key = ColumnKey(v.cols[i].name)
             /\ v.cols[i].source \/ v.cols[i].key \in Keys(Computed) \cap DOMAIN v.owned
  <2>1. i \in DOMAIN names /\ v.cols[i] = Binding(names[i])
    BY <1>1 DEF Bindings
  <2>2. names[i] \in ToSet(block.source) \/ names[i] \in ToSet(OwnedColumns)
    BY <1>2, <2>1 DEF ToSet
  <2>3. names[i] \in ToSet(OwnedColumns) => ColumnKey(names[i]) \in Keys(Computed) \cap DOMAIN v.owned
    BY <1>1, <1>3 DEF Keys, OwnedAtStart
  <2> QED
    BY <2>1, <2>2, <2>3, BindingParts
<1> QED
  BY <1>1, <1>4, <1>5 DEF Covers, v

(* No RENAME of the step or of a target makes the name of a computed       *)
(* column, and the step has one RENAME at most.                            *)
RenamesAside ==
  /\ Len(block.rename) <= 1 /\ \A i \in DOMAIN block.rename : Aside(block.rename[i])
  /\ \A r \in ToSet(block.data \o RefsOf(block.outputs)) : Aside(r.opts.rename)

(* the references to a target, and the one that speaks for it              *)
LEMMA ReferencesOfTarget ==
  ASSUME block \in Blocks, NEW t
  PROVE  LET R == References(t)
         IN  /\ IsList(R) /\ ToSet(R) \subseteq ToSet(block.data \o RefsOf(block.outputs))
             /\ \A n \in DOMAIN R : HasLists(R[n].opts)
             /\ (\A n \in DOMAIN R : ~HasTargetOptions(R[n].opts)) => OptionsOf(t) = NoProjection
             /\ (\E n \in DOMAIN R : HasTargetOptions(R[n].opts)) =>
                  \E n \in DOMAIN R : HasTargetOptions(R[n].opts) /\ OptionsOf(t) = R[n].opts
<1> DEFINE all == block.data \o RefsOf(block.outputs)
           I == {i \in DOMAIN all : DatasetKey(all[i].name) = DatasetKey(t)}
           R == References(t)
           with == {i \in DOMAIN R : HasTargetOptions(R[i].opts)}
<1>1. /\ IsList(RefsOf(block.outputs))
      /\ \A n \in DOMAIN RefsOf(block.outputs) :
           \E i \in DOMAIN block.outputs : RefsOf(block.outputs)[n] \in ToSet(block.outputs[i].refs)
  BY ListsOfBlock, ListOfReferences
<1>2. IsList(all) /\ ToSet(all) = ToSet(block.data) \cup ToSet(RefsOf(block.outputs))
  BY <1>1, ListsOfBlock, JoinedLists
<1>3. \A r \in ToSet(all) : HasLists(r.opts)
  <2>1. \A r \in ToSet(block.data) : HasLists(r.opts)
    BY BlocksAssumption DEF ToSet
  <2>2. \A i \in DOMAIN block.outputs : \A r \in ToSet(block.outputs[i].refs) : HasLists(r.opts)
    BY BlocksAssumption DEF ToSet
  <2>3. \A r \in ToSet(RefsOf(block.outputs)) : HasLists(r.opts)
    BY <1>1, <2>2 DEF ToSet
  <2> HIDE DEF all
  <2> QED
    BY <1>2, <2>1, <2>3
<1>4. R = Selected(all, I) /\ I \in SUBSET DOMAIN all
  BY DEF References
<1>5. OptionsOf(t) = IF with = {} THEN NoProjection ELSE R[Min(with)].opts
  BY DEF OptionsOf
<1> HIDE DEF all, I, R
<1>6. IsList(R) /\ ToSet(R) \subseteq ToSet(all)
  <2>1. ToSet(R) = {all[i] : i \in I} /\ IsList(R)
    BY <1>2, <1>4, SelectedList
  <2> QED
    BY <1>4, <2>1 DEF ToSet
<1>7. \A n \in DOMAIN R : HasLists(R[n].opts)
  BY <1>3, <1>6 DEF ToSet
<1>8. ASSUME NEW n \in with
      PROVE  \E m \in DOMAIN R : HasTargetOptions(R[m].opts) /\ OptionsOf(t) = R[m].opts
  <2>1. with \subseteq DOMAIN R /\ DOMAIN R = 1..Len(R) /\ Len(R) \in Nat /\ with # {}
    BY <1>6, <1>8, ListFacts
  <2>2. \A m \in with : HasTargetOptions(R[m].opts)
    OBVIOUS
  <2> HIDE DEF with
  <2>3. with \subseteq Nat
    BY <2>1
  <2>4. \E m \in with : \A k \in with : m <= k
    BY <2>1, <2>3, LeastNumber
  <2>5. Min(with) \in with
    BY <2>4 DEF Min
  <2> QED
    BY <1>5, <2>1, <2>2, <2>5
<1>9. (\A n \in DOMAIN R : ~HasTargetOptions(R[n].opts)) => OptionsOf(t) = NoProjection
  BY <1>5
<1> QED
  BY <1>6, <1>7, <1>8, <1>9 DEF R, all

LEMMA OptionsOfTarget ==
  ASSUME block \in Blocks, NEW t
  PROVE  /\ IsList(OptionsOf(t).rename)
         /\ \/ OptionsOf(t).rename = <<>>
            \/ \E r \in ToSet(block.data \o RefsOf(block.outputs)) : OptionsOf(t).rename = r.opts.rename
<1>1. CASE OptionsOf(t) = NoProjection
  <2>1. IsList(<<>>)
    BY DEF IsList
  <2> QED
    BY <1>1, <2>1 DEF NoProjection
<1>2. CASE OptionsOf(t) # NoProjection
  <2>1. PICK n \in DOMAIN References(t) : OptionsOf(t) = References(t)[n].opts
    BY <1>2, ReferencesOfTarget
  <2>2. References(t)[n] \in ToSet(block.data \o RefsOf(block.outputs)) /\ HasLists(References(t)[n].opts)
    BY ReferencesOfTarget DEF ToSet
  <2> QED
    BY <2>1, <2>2 DEF HasLists
<1> QED
  BY <1>1, <1>2

(* The runtime hides as much as the plan does: with one RENAME statement   *)
(* the two rename alike.                                                   *)
LEMMA TargetCovers ==
  ASSUME block \in Blocks, RenamesAside, NEW t, NEW n, NEW written
  PROVE  Covers(HiddenOf(t), TargetView(t, RowView(n, written)))
<1>1. /\ IsList(RunProjection.rename) /\ Aside(RunProjection.rename)
      /\ RunProjection.rename = PlannedProjection.rename
  <2>1. /\ RunProjection.rename = IF block.rename = <<>> THEN <<>> ELSE Last(block.rename)
        /\ PlannedProjection.rename = IF block.rename = <<>> THEN <<>> ELSE block.rename[1]
    BY DEF RunProjection, PlannedProjection, FirstOf
  <2>2. IsList(<<>>) /\ DOMAIN <<>> = {}
    BY DEF IsList
  <2>3. CASE block.rename = <<>>
    BY <2>1, <2>2, <2>3 DEF Aside
  <2>4. CASE block.rename # <<>>
    <3>1. block.rename \in Seq(ToSet(block.rename)) /\ Len(block.rename) <= 1
      BY ListsOfBlock DEF IsList, RenamesAside
    <3>2. Len(block.rename) = 1 /\ 1 \in DOMAIN block.rename
      <4>1. Len(block.rename) \in Nat /\ DOMAIN block.rename = 1..Len(block.rename)
        BY ListsOfBlock, ListFacts
      <4>2. Len(block.rename) # 0 /\ Len(block.rename) <= 1
        BY <2>4, <3>1, EmptySeq
      <4> DEFINE m == Len(block.rename)
      <4> HIDE DEF m
      <4>3. m \in Nat /\ m # 0 /\ m <= 1
        BY <4>1, <4>2 DEF m
      <4>4. m = 1
        BY ONLY <4>3
      <4> QED
        BY <4>1, <4>4 DEF m
    <3>3. Last(block.rename) = block.rename[1]
      BY <3>2 DEF Last
    <3> QED
      BY <2>1, <2>4, <3>2, <3>3, ListsOfBlock DEF RenamesAside
  <2> QED
    BY <2>3, <2>4
<1>2. Covers(Hidden, ProjectedView(RowView(n, written), RunProjection))
  BY <1>1, StartCovers, CoversProjected DEF Hidden
<1>3. IsList(OptionsOf(t).rename) /\ Aside(OptionsOf(t).rename)
  <2>1. DOMAIN <<>> = {}
    OBVIOUS
  <2> QED
    BY <2>1, OptionsOfTarget DEF RenamesAside, Aside
<1> QED
  BY <1>2, <1>3, CoversProjected DEF HiddenOf, TargetView

CellsInside ==
  \A t \in DOMAIN built : \A i \in DOMAIN built[t] : \A c \in ToSet(BuiltColumns(t)) :
    ColumnKey(c) \notin Keys(HiddenOf(t)) => ~Automatic(built[t][i][c])
NamesInside == \A t \in DOMAIN filtered : Keys(ToSet(filtered[t].cols)) \cap Keys(block.internal) = {}
TablesInside ==
  \A t \in DOMAIN filtered : \A i \in DOMAIN filtered[t].rows : \A c \in DOMAIN filtered[t].rows[i] :
    ~Automatic(filtered[t].rows[i][c])
Inside == NamesInside /\ (RenamesAside => CellsInside /\ TablesInside)

(* what is hidden depends on the block only *)
LEMMA SameHidden ==
  ASSUME block' = block
  PROVE  /\ \A t : HiddenOf(t)' = HiddenOf(t)
         /\ RenamesAside' <=> RenamesAside
<1>1. ASSUME NEW t PROVE HiddenOf(t)' = HiddenOf(t)
  <2>1. OptionsOf(t)' = OptionsOf(t)
    BY DEF OptionsOf, References, RefsOf
  <2>2. Hidden' = Hidden
    BY DEF Hidden, PlannedProjection
  <2> QED
    BY <2>1, <2>2 DEF HiddenOf
<1>2. RenamesAside' <=> RenamesAside
  BY DEF RenamesAside, Aside, Computed, RefsOf
<1> QED
  BY <1>1, <1>2

LEMMA CellsKept ==
  ASSUME CellsInside, UNCHANGED <<block, columns, built>>
  PROVE  CellsInside'
<1>1. /\ \A t : HiddenOf(t)' = HiddenOf(t)
      /\ \A t : BuiltColumns(t)' = BuiltColumns(t)
  BY SameHidden, SameBuiltColumns
<1> QED
  BY <1>1 DEF CellsInside, Automatic

LEMMA TablesKept ==
  ASSUME UNCHANGED <<block, filtered>>
  PROVE  (NamesInside => NamesInside') /\ (TablesInside => TablesInside')
BY DEF NamesInside, TablesInside, Automatic

LEMMA InsideKept ==
  ASSUME Inside, UNCHANGED <<block, columns, built, filtered>>
  PROVE  Inside'
BY SameHidden, CellsKept, TablesKept DEF Inside

LEMMA InsideEmpty ==
  ASSUME block' = block, built' = <<>>, filtered' = <<>>
  PROVE  Inside'
<1>1. DOMAIN <<>> = {}
  OBVIOUS
<1> QED
  BY <1>1 DEF Inside, NamesInside, CellsInside, TablesInside

LEMMA InsideRoute ==
  ASSUME Prepared, Inside, RouteRow
  PROVE  Inside'
<1> DEFINE route == Route(block.rows[next])
           here(t) == {i \in DOMAIN route : DatasetKey(route[i]) = DatasetKey(t)}
           new(t) == [i \in 1..Cardinality(here(t)) |-> CellsOf(t, next)]
<1>1. CASE \E e : Refuse(e)
  BY <1>1, InsideKept DEF Refuse
<1>2. CASE ~ \E e : Refuse(e)
  <2>1. /\ phase = "rows" /\ next \in DOMAIN block.rows
        /\ built' = [t \in ToSet(targets) |-> built[t] \o new(t)]
        /\ UNCHANGED <<block, targets, columns, filtered>>
    BY <1>2 DEF RouteRow
  <2>2. block \in Blocks /\ DOMAIN built = ToSet(targets)
    BY <2>1 DEF Prepared, Staged
  <2>3. IsList(route)
    BY <2>1, <2>2, RouteIsList
  <2>4. ASSUME RenamesAside, NEW t \in ToSet(targets), NEW i \in DOMAIN (built[t] \o new(t)),
               NEW c \in ToSet(BuiltColumns(t)), ColumnKey(c) \notin Keys(HiddenOf(t))
        PROVE  ~Automatic((built[t] \o new(t))[i][c])
    <3>1. IsFiniteSet(DOMAIN route)
      BY <2>3, ListFacts
    <3>2. Cardinality(here(t)) \in Nat
      <4>1. here(t) \subseteq DOMAIN route
        OBVIOUS
      <4> HIDE DEF route, here
      <4> QED
        BY <3>1, <4>1, FS_Subset, FS_CardinalityType
    <3> DEFINE many == Cardinality(here(t))
               cells == CellsOf(t, next)
               more == [n \in 1..many |-> cells]
               view == TargetView(t, RowView(next, block.rows[next].written))
    <3>3. new(t) = more
      OBVIOUS
    <3>4. cells[c] = CellOf(view, c)
      BY DEF CellsOf
    <3>5. Covers(HiddenOf(t), view)
      BY <2>2, <2>4, TargetCovers
    <3> HIDE DEF many, cells, view, route, here, new
    <3>6. ~Automatic(cells[c])
      BY <2>4, <3>4, <3>5, CoveredCell
    <3>7. more = [n \in 1..many |-> more[n]] /\ (\A n \in DOMAIN more : more[n] = cells) /\ many \in Nat
      BY <3>2 DEF many
    <3> HIDE DEF more
    <3>8. IsList(more) /\ IsList(built[t])
      BY <2>2, <3>7, MappedList DEF Prepared, BuiltRows
    <3>9. DOMAIN more = 1..Len(more) /\ Len(more) \in Nat /\ DOMAIN built[t] = 1..Len(built[t]) /\ Len(built[t]) \in Nat
      BY <3>8, ListFacts
    <3>10. /\ DOMAIN (built[t] \o more) = 1..(Len(built[t]) + Len(more))
           /\ \A n \in DOMAIN (built[t] \o more) :
                (built[t] \o more)[n] = IF n <= Len(built[t]) THEN built[t][n] ELSE more[n - Len(built[t])]
      BY <3>8, JoinedLists
    <3>11. i \in DOMAIN (built[t] \o more)
      BY <3>3
    <3>12. CASE i <= Len(built[t])
      <4>1. i \in DOMAIN built[t] /\ (built[t] \o more)[i] = built[t][i]
        BY <3>9, <3>10, <3>11, <3>12
      <4>2. ~Automatic(built[t][i][c])
        BY <2>2, <2>4, <4>1 DEF Inside, CellsInside
      <4> QED
        BY <3>3, <4>1, <4>2
    <3>13. CASE ~(i <= Len(built[t]))
      <4>1. i - Len(built[t]) \in DOMAIN more
        BY <3>9, <3>10, <3>11, <3>13
      <4>2. (built[t] \o more)[i] = cells
        BY <3>7, <3>10, <3>11, <3>13, <4>1
      <4> QED
        BY <3>3, <3>6, <4>2
    <3> QED
      BY <3>12, <3>13
  <2> HIDE DEF new
  <2>5. /\ \A t : BuiltColumns(t)' = BuiltColumns(t)
        /\ \A t : HiddenOf(t)' = HiddenOf(t)
        /\ RenamesAside' <=> RenamesAside
    BY <2>1, SameBuiltColumns, SameHidden
  <2>6. RenamesAside => CellsInside'
    BY <2>1, <2>4, <2>5 DEF CellsInside, Automatic
  <2> QED
    BY <2>1, <2>5, <2>6, TablesKept DEF Inside
<1> QED
  BY <1>1, <1>2

LEMMA HiddenCovers ==
  ASSUME block \in Blocks, NEW t
  PROVE  Keys(block.internal) \subseteq Keys(HiddenOf(t))
<1>1. IsList(PlannedProjection.rename)
  <2>1. PlannedProjection.rename = IF block.rename = <<>> THEN <<>> ELSE block.rename[1]
    BY DEF PlannedProjection, FirstOf
  <2>2. IsList(<<>>)
    BY DEF IsList
  <2>3. CASE block.rename # <<>>
    <3>1. block.rename \in Seq(ToSet(block.rename))
      BY ListsOfBlock DEF IsList
    <3>2. 1 \in DOMAIN block.rename
      BY <2>3, <3>1, EmptySeq
    <3> QED
      BY <2>1, <2>3, <3>2, ListsOfBlock
  <2> QED
    BY <2>1, <2>2, <2>3
<1>2. block.internal \subseteq Hidden
  BY <1>1, ExcludingHides DEF Hidden
<1>3. Hidden \subseteq HiddenOf(t)
  BY OptionsOfTarget, ExcludingHides DEF HiddenOf
<1> QED
  BY <1>2, <1>3 DEF Keys

LEMMA InsideFinalize ==
  ASSUME Prepared, Inside, FinalizeTarget
  PROVE  Inside'
<1> DEFINE t == targets[Min({i \in DOMAIN targets : targets[i] \notin DOMAIN filtered})]
<1>1. CASE \E c : Refuse(c)
  BY <1>1, InsideKept DEF Refuse
<1>2. CASE ~ \E c : Refuse(c)
  <2>1. /\ phase = "finalize" /\ DOMAIN filtered # ToSet(targets)
        /\ filtered' = [u \in DOMAIN filtered \cup {t} |-> IF u = t THEN FinalizedTable(t) ELSE filtered[u]]
        /\ UNCHANGED <<block, targets, columns, built>>
    BY <1>2 DEF FinalizeTarget
  <2>2. t \in ToSet(targets)
    BY <2>1, NextTarget DEF Prepared, Staged, FilteredTables, ToSet
  <2>3. DOMAIN built = ToSet(targets) /\ block \in Blocks
    BY <2>1 DEF Prepared, Staged
  <2>4. /\ ToSet(Unhidden(t)) \subseteq ToSet(BuiltColumns(t))
        /\ \A c \in ToSet(Unhidden(t)) : ColumnKey(c) \notin Keys(HiddenOf(t))
    BY <2>2, <2>3, OutsideColumns DEF Prepared, BuiltRows, Unhidden
  <2> DEFINE T == FinalizedTable(t)
  <2> HIDE DEF t
  <2>5. /\ T.cols = Unhidden(t)
        /\ T.rows = [i \in DOMAIN built[t] |-> [c \in ToSet(Unhidden(t)) |-> built[t][i][c]]]
    BY DEF FinalizedTable
  <2> HIDE DEF T
  <2>6. Keys(ToSet(T.cols)) \cap Keys(block.internal) = {}
    <3>1. Keys(block.internal) \subseteq Keys(HiddenOf(t))
      BY <2>3, HiddenCovers
    <3>2. \A c \in ToSet(T.cols) : ColumnKey(c) \notin Keys(block.internal)
      BY <2>4, <2>5, <3>1
    <3>3. \A k \in Keys(ToSet(T.cols)) : \E c \in ToSet(T.cols) : k = ColumnKey(c)
      BY DEF Keys
    <3> QED
      BY <3>2, <3>3
  <2>7. RenamesAside => \A i \in DOMAIN T.rows : \A c \in DOMAIN T.rows[i] : ~Automatic(T.rows[i][c])
    BY <2>2, <2>3, <2>4, <2>5 DEF Inside, CellsInside
  <2>8. filtered' = [u \in DOMAIN filtered \cup {t} |-> IF u = t THEN T ELSE filtered[u]]
    BY <2>1 DEF T
  <2>9. NamesInside'
    BY <2>1, <2>6, <2>8 DEF Inside, NamesInside
  <2>10. RenamesAside => TablesInside'
    BY <2>1, <2>7, <2>8 DEF Inside, TablesInside, Automatic
  <2> QED
    BY <2>1, <2>9, <2>10, SameHidden, CellsKept DEF Inside
<1> QED
  BY <1>1, <1>2

LEMMA InsideMetadata ==
  ASSUME Prepared, Inside, ApplyMetadata
  PROVE  Inside'
<1>1. CASE \E c : Refuse(c)
  BY <1>1, InsideKept DEF Refuse
<1>2. CASE ~ \E c : Refuse(c)
  <2>1. /\ filtered' = [t \in DOMAIN filtered |-> [filtered[t] EXCEPT !.labels = LabelsOf(t)]]
        /\ UNCHANGED <<block, targets, columns, built>>
    BY <1>2 DEF ApplyMetadata
  <2>2. ASSUME NEW t \in DOMAIN filtered
        PROVE  filtered'[t].cols = filtered[t].cols /\ filtered'[t].rows = filtered[t].rows
    <3>1. ASSUME NEW f, IsOutputTable(f), NEW L
          PROVE  LET g == [f EXCEPT !.labels = L] IN g.cols = f.cols /\ g.rows = f.rows
      BY <3>1 DEF IsOutputTable
    <3> QED
      BY <2>1, <3>1 DEF Prepared, FilteredTables
  <2>3. DOMAIN filtered' = DOMAIN filtered
    BY <2>1
  <2>4. NamesInside'
    BY <2>1, <2>2, <2>3 DEF Inside, NamesInside
  <2>5. TablesInside => TablesInside'
    BY <2>1, <2>2, <2>3 DEF TablesInside, Automatic
  <2> QED
    BY <2>1, <2>4, <2>5, SameHidden, CellsKept DEF Inside
<1> QED
  BY <1>1, <1>2

LEMMA InsideStep == Prepared /\ Inside /\ [Next]_vars => Inside'
<1> SUFFICES ASSUME Prepared, Inside, [Next]_vars PROVE Inside'
  OBVIOUS
<1>1. CASE UNCHANGED <<block, columns, built, filtered>>
  BY <1>1, InsideKept
<1>2. CASE ~ UNCHANGED <<block, columns, built, filtered>>
  <2>1. CASE ShapeOutputs
    <3>1. phase = "shape" /\ UNCHANGED <<block, built, filtered>>
      BY <1>2, <2>1 DEF ShapeOutputs, Refuse
    <3> QED
      BY <3>1, InsideEmpty DEF Prepared, Staged
  <2>2. CASE CheckViews
    <3>1. /\ phase = "check" /\ UNCHANGED <<block, targets, columns, filtered>>
          /\ built' = [t \in ToSet(targets) |-> <<>>]
      BY <1>2, <2>2 DEF CheckViews, Refuse
    <3>2. DOMAIN <<>> = {}
      OBVIOUS
    <3>3. CellsInside'
      BY <3>1, <3>2 DEF CellsInside
    <3> QED
      BY <3>1, <3>3, SameHidden, TablesKept DEF Inside
  <2>3. ~Validate /\ ~PlanTargets /\ ~EndOfRows /\ ~EndOfTargets /\ ~Present /\ ~Ended /\ ~UNCHANGED vars
    BY <1>2 DEF Validate, PlanTargets, EndOfRows, EndOfTargets, Present, Ended, Refuse, vars
  <2> QED
    BY <2>1, <2>2, <2>3, InsideRoute, InsideFinalize, InsideMetadata DEF Next
<1> QED
  BY <1>1, <1>2

(* Whatever a step keeps, drops and renames, the names of its automatic    *)
(* variables are in no output.  Their values are in none either, where no  *)
(* RENAME makes the name of a computed column and the step has one RENAME  *)
(* at most: the plan hides by name what the row view holds by binding, and *)
(* a value that was moved under another name would pass it.                *)
THEOREM AutomaticsStayInside ==
  Spec => /\ [](\A t \in DOMAIN outputs : Keys(ToSet(outputs[t].cols)) \cap Keys(block.internal) = {})
          /\ [](RenamesAside => NoInternalLeaves)
<1>1. Init => Inside
  <2>1. DOMAIN <<>> = {}
    OBVIOUS
  <2> QED
    BY <2>1 DEF Init, Inside, NamesInside, CellsInside, TablesInside
<1>2. Stages /\ Inside =>
        /\ \A t \in DOMAIN outputs : Keys(ToSet(outputs[t].cols)) \cap Keys(block.internal) = {}
        /\ RenamesAside => NoInternalLeaves
  <2> SUFFICES ASSUME Stages, Inside
               PROVE  /\ \A t \in DOMAIN outputs : Keys(ToSet(outputs[t].cols)) \cap Keys(block.internal) = {}
                      /\ RenamesAside => NoInternalLeaves
    OBVIOUS
  <2>1. outputs = filtered \/ DOMAIN outputs = {}
    BY DEF Stages
  <2> QED
    BY <2>1 DEF Inside, NamesInside, TablesInside, Automatic, NoInternalLeaves
<1> QED
  BY <1>1, <1>2, StagesInit, StagesStep, PreparedInit, PreparedStep, InsideStep, PTL DEF Spec

-----------------------------------------------------------------------------
(* The plan is executable                                                  *)

(* where each name of a projection comes from *)
ComesFrom(at, cols, p) ==
  LET P == Projected(cols, p)
  IN  /\ at \in [DOMAIN P -> DOMAIN cols]
      /\ \A n \in DOMAIN P : P[n] = Renamed(cols[at[n]], p.rename) /\ Survives(cols[at[n]], p)
      /\ \A m, n \in DOMAIN P : m # n => at[m] # at[n]
      /\ \A i \in DOMAIN cols : Survives(cols[i], p) => \E n \in DOMAIN P : at[n] = i

LEMMA ProjectedPlaces ==
  ASSUME NEW cols, IsList(cols), NEW p
  PROVE  \E at : ComesFrom(at, cols, p)
<1> DEFINE I == {i \in DOMAIN cols : Survives(cols[i], p)}
           K == Surviving(cols, p)
           P == Projected(cols, p)
           at == Numbered(I)
<1>1. /\ DOMAIN P = DOMAIN K /\ K = Selected(cols, I)
      /\ \A n \in DOMAIN P : P[n] = Renamed(K[n], p.rename)
  BY ProjectedList
<1>2. I \in SUBSET DOMAIN cols /\ \A i \in I : Survives(cols[i], p)
  OBVIOUS
<1>3. \A i \in DOMAIN cols : Survives(cols[i], p) => i \in I
  OBVIOUS
<1> HIDE DEF I, K, P, at
<1>4. /\ at \in [DOMAIN K -> I] /\ \A n \in DOMAIN K : K[n] = cols[at[n]]
      /\ \A i \in I : \E n \in DOMAIN K : at[n] = i
      /\ \A m, n \in DOMAIN K : m # n => at[m] # at[n]
  BY <1>1, <1>2, SelectedList DEF at
<1>5. at \in [DOMAIN P -> DOMAIN cols]
  BY <1>1, <1>2, <1>4
<1>6. \A n \in DOMAIN P : P[n] = Renamed(cols[at[n]], p.rename) /\ Survives(cols[at[n]], p)
  BY <1>1, <1>2, <1>4
<1>7. \A i \in DOMAIN cols : Survives(cols[i], p) => \E n \in DOMAIN P : at[n] = i
  BY <1>1, <1>3, <1>4
<1> QED
  BY <1>1, <1>4, <1>5, <1>6, <1>7 DEF P, ComesFrom

(* a RENAME that names no automatic variable, old or new *)
Spares(pairs) ==
  \A n \in DOMAIN pairs :
    ColumnKey(pairs[n][1]) \notin Keys(block.internal) /\ ColumnKey(pairs[n][2]) \notin Keys(block.internal)

(* A spelling makes no difference, and automatic variables keep to         *)
(* themselves.                                                             *)
LEMMA RenamedByKey ==
  ASSUME NEW pairs, NEW c, NEW d, ColumnKey(c) = ColumnKey(d)
  PROVE  ColumnKey(Renamed(c, pairs)) = ColumnKey(Renamed(d, pairs))
BY DEF Renamed

LEMMA SurvivesByKey ==
  ASSUME NEW p, NEW c, NEW d, ColumnKey(c) = ColumnKey(d)
  PROVE  Survives(c, p) <=> Survives(d, p)
BY DEF Survives

LEMMA RenamedSpared ==
  ASSUME NEW pairs, IsList(pairs), Spares(pairs), NEW c
  PROVE  /\ ColumnKey(c) \in Keys(block.internal) => Renamed(c, pairs) = c
         /\ ColumnKey(c) \notin Keys(block.internal) => ColumnKey(Renamed(c, pairs)) \notin Keys(block.internal)
<1> DEFINE hits == {n \in DOMAIN pairs : ColumnKey(pairs[n][1]) = ColumnKey(c)}
<1>1. ASSUME hits # {} PROVE Max(hits) \in hits
  <2>1. hits \subseteq DOMAIN pairs /\ IsFiniteSet(DOMAIN pairs)
    BY ListFacts
  <2> HIDE DEF hits
  <2>2. IsFiniteSet(hits) /\ hits \subseteq Nat
    BY <2>1, ListFacts, FS_Subset
  <2>3. \E m \in hits : \A n \in hits : n <= m
    BY <1>1, <2>2, GreatestNumber
  <2>4. \E m \in hits : \A n \in hits : m >= n
    BY <2>2, <2>3
  <2> QED
    BY <2>1, <2>4 DEF Max
<1>2. Renamed(c, pairs) = IF hits = {} THEN c ELSE pairs[Max(hits)][2]
  BY DEF Renamed
<1>3. ASSUME hits # {}
      PROVE  /\ ColumnKey(c) \notin Keys(block.internal)
             /\ ColumnKey(pairs[Max(hits)][2]) \notin Keys(block.internal)
  <2>1. Max(hits) \in DOMAIN pairs /\ ColumnKey(pairs[Max(hits)][1]) = ColumnKey(c)
    BY <1>1, <1>3
  <2> HIDE DEF hits
  <2> QED
    BY <2>1 DEF Spares
<1> HIDE DEF hits
<1> QED
  BY <1>2, <1>3

(* What the view shows besides automatic variables is in the plan, before  *)
(* and after a projection; so a collision in the view is one in the plan.  *)
LEMMA PlanCoversView ==
  ASSUME NEW R, IsList(R), UniqueKeys(R), NEW P, IsList(P),
         \A i \in DOMAIN R : ColumnKey(R[i]) \notin Keys(block.internal) =>
                               \E j \in DOMAIN P : ColumnKey(P[j]) = ColumnKey(R[i]),
         NEW p, NEW q, \A c : Survives(c, q) <=> Survives(c, p),
         q.rename = p.rename, IsList(p.rename), Spares(p.rename),
         UniqueKeys(Projected(P, p))
  PROVE  LET S == Projected(R, q)
         IN  /\ UniqueKeys(S) /\ IsList(S)
             /\ \A i \in DOMAIN S : ColumnKey(S[i]) \notin Keys(block.internal) =>
                  \E j \in DOMAIN Projected(P, p) : ColumnKey(Projected(P, p)[j]) = ColumnKey(S[i])
<1> DEFINE S == Projected(R, q)
           Q == Projected(P, p)
           A == Keys(block.internal)
<1>1. PICK at : ComesFrom(at, R, q)
  BY ProjectedPlaces
<1>2. PICK in : ComesFrom(in, P, p)
  BY ProjectedPlaces
<1>3. IsList(S) /\ UniqueKeys(Q)
  BY ProjectedList
<1>4. /\ at \in [DOMAIN S -> DOMAIN R]
      /\ \A n \in DOMAIN S : S[n] = Renamed(R[at[n]], q.rename) /\ Survives(R[at[n]], q)
      /\ \A m, n \in DOMAIN S : m # n => at[m] # at[n]
  BY <1>1 DEF ComesFrom
<1>5. /\ in \in [DOMAIN Q -> DOMAIN P]
      /\ \A n \in DOMAIN Q : Q[n] = Renamed(P[in[n]], p.rename) /\ Survives(P[in[n]], p)
      /\ \A i \in DOMAIN P : Survives(P[i], p) => \E n \in DOMAIN Q : in[n] = i
  BY <1>2 DEF ComesFrom
<1> HIDE DEF S, Q, A
<1>6. ASSUME NEW i \in DOMAIN S
      PROVE  /\ ColumnKey(R[at[i]]) \in A => ColumnKey(S[i]) = ColumnKey(R[at[i]])
             /\ ColumnKey(R[at[i]]) \notin A => ColumnKey(S[i]) \notin A
  BY <1>4, RenamedSpared DEF A
<1>7. ASSUME NEW i \in DOMAIN S, ColumnKey(R[at[i]]) \notin A
      PROVE  \E j \in DOMAIN Q : ColumnKey(P[in[j]]) = ColumnKey(R[at[i]]) /\ ColumnKey(Q[j]) = ColumnKey(S[i])
  <2>1. PICK n \in DOMAIN P : ColumnKey(P[n]) = ColumnKey(R[at[i]])
    BY <1>4, <1>7 DEF A
  <2>2. Survives(P[n], p)
    BY <1>4, <2>1, SurvivesByKey
  <2>3. PICK j \in DOMAIN Q : in[j] = n
    BY <1>5, <2>2
  <2>4. Q[j] = Renamed(P[n], p.rename) /\ S[i] = Renamed(R[at[i]], p.rename)
    BY <1>4, <1>5, <2>3
  <2> QED
    BY <2>1, <2>3, <2>4, RenamedByKey
<1>8. ASSUME NEW m \in DOMAIN S, NEW n \in DOMAIN S, m # n, ColumnKey(S[m]) = ColumnKey(S[n])
      PROVE  FALSE
  <2>1. ColumnKey(R[at[m]]) # ColumnKey(R[at[n]])
    BY <1>4, <1>8 DEF UniqueKeys
  <2>2. ColumnKey(R[at[m]]) \notin A /\ ColumnKey(R[at[n]]) \notin A
    BY <1>6, <1>8, <2>1
  <2>3. PICK i \in DOMAIN Q : ColumnKey(P[in[i]]) = ColumnKey(R[at[m]]) /\ ColumnKey(Q[i]) = ColumnKey(S[m])
    BY <1>7, <2>2
  <2>4. PICK j \in DOMAIN Q : ColumnKey(P[in[j]]) = ColumnKey(R[at[n]]) /\ ColumnKey(Q[j]) = ColumnKey(S[n])
    BY <1>7, <2>2
  <2>5. i # j
    BY <2>1, <2>3, <2>4
  <2> QED
    BY <1>3, <1>8, <2>3, <2>4, <2>5 DEF UniqueKeys
<1>9. UniqueKeys(S)
  BY <1>8 DEF UniqueKeys
<1>10. \A i \in DOMAIN S : ColumnKey(S[i]) \notin A => \E j \in DOMAIN Q : ColumnKey(Q[j]) = ColumnKey(S[i])
  BY <1>6, <1>7
<1> QED
  BY <1>3, <1>9, <1>10 DEF S, Q, A

(* The step has one KEEP, one DROP and one RENAME at most, and no RENAME   *)
(* of it or of a target names an automatic variable.                       *)
OneOfEach == Len(block.keep) <= 1 /\ Len(block.drop) <= 1 /\ Len(block.rename) <= 1
RenamesSpare ==
  /\ \A i \in DOMAIN block.rename : Spares(block.rename[i])
  /\ \A r \in ToSet(block.data \o RefsOf(block.outputs)) : Spares(r.opts.rename)

(* of one list at most the first is all *)
LEMMA OnlyList ==
  ASSUME NEW lists, IsList(lists), Len(lists) <= 1, \A i \in DOMAIN lists : IsList(lists[i])
  PROVE  /\ IsList(FirstOf(lists)) /\ ToSet(Joined(lists)) = ToSet(FirstOf(lists))
         /\ Joined(lists) = <<>> <=> FirstOf(lists) = <<>>
         /\ lists # <<>> => 1 \in DOMAIN lists /\ FirstOf(lists) = lists[1] /\ Last(lists) = lists[1]
<1> DEFINE J == Joined(lists)
           F == FirstOf(lists)
           V == UNION {ToSet(lists[i]) : i \in DOMAIN lists}
           L == PlacesInTurn(lists)
<1>1. DOMAIN lists = 1..Len(lists) /\ Len(lists) \in Nat /\ lists = [i \in 1..Len(lists) |-> lists[i]]
  BY ListFacts
<1>2. \A i \in DOMAIN lists : lists[i] \in Seq(V)
  <2> SUFFICES ASSUME NEW i \in DOMAIN lists PROVE lists[i] \in Seq(V)
    OBVIOUS
  <2>1. lists[i] \in Seq(ToSet(lists[i])) /\ ToSet(lists[i]) \subseteq V
    BY DEF IsList
  <2> HIDE DEF V
  <2> QED
    BY <2>1
<1> HIDE DEF V
<1>3. lists \in Seq(Seq(V))
  BY <1>1, <1>2
<1>4. /\ J \in Seq(V)
      /\ \A p \in DOMAIN J : /\ L[p][1] \in DOMAIN lists /\ L[p][2] \in DOMAIN lists[L[p][1]]
                             /\ J[p] = lists[L[p][1]][L[p][2]]
      /\ \A k \in DOMAIN lists : \A n \in DOMAIN lists[k] : \E p \in DOMAIN J : L[p] = <<k, n>>
  BY ONLY <1>3, JoinedInOrder
<1> HIDE DEF J, L, F
<1>5. lists = <<>> \/ (Len(lists) = 1 /\ 1 \in DOMAIN lists)
  <2> DEFINE m == Len(lists)
  <2>1. lists # <<>> => m # 0
    BY <1>3, EmptySeq
  <2>2. m \in Nat /\ m <= 1
    BY <1>1
  <2> HIDE DEF m
  <2>3. m = 0 \/ m = 1
    BY ONLY <2>2
  <2> QED
    BY <1>1, <2>1, <2>3 DEF m
<1>6. CASE lists = <<>>
  <2>1. F = <<>> /\ DOMAIN lists = {}
    BY <1>6 DEF FirstOf, F
  <2>2. DOMAIN J = {}
    BY <1>4, <2>1
  <2>3. J = <<>>
    BY <1>4, <2>2, EmptySeq
  <2>4. IsList(<<>>)
    BY DEF IsList
  <2> QED
    BY <1>6, <2>1, <2>3, <2>4 DEF J, F
<1>7. CASE lists # <<>>
  <2>1. F = lists[1] /\ DOMAIN lists = {1} /\ Last(lists) = lists[1]
    BY <1>1, <1>5, <1>7 DEF FirstOf, F, Last
  <2>2. IsList(F) /\ F \in Seq(V)
    BY <1>2, <2>1
  <2>3. \A p \in DOMAIN J : L[p][2] \in DOMAIN F /\ J[p] = F[L[p][2]]
    BY <1>4, <2>1
  <2>4. \A n \in DOMAIN F : \E p \in DOMAIN J : J[p] = F[n]
    <3> SUFFICES ASSUME NEW n \in DOMAIN F PROVE \E p \in DOMAIN J : J[p] = F[n]
      OBVIOUS
    <3>1. PICK p \in DOMAIN J : L[p] = <<1, n>>
      BY <1>4, <2>1
    <3>2. L[p][2] = n
      BY <3>1
    <3> QED
      BY <2>3, <3>2
  <2>5. ToSet(J) = ToSet(F)
    BY <2>3, <2>4 DEF ToSet
  <2>6. J = <<>> <=> F = <<>>
    <3>1. J = <<>> <=> DOMAIN J = {}
      BY <1>4, EmptySeq
    <3>2. F = <<>> <=> DOMAIN F = {}
      BY <2>2, EmptySeq
    <3> QED
      BY <2>3, <2>4, <3>1, <3>2
  <2> QED
    BY <1>5, <1>7, <2>1, <2>2, <2>5, <2>6 DEF J, F
<1> QED
  BY <1>6, <1>7

LEMMA OneProjection ==
  ASSUME block \in Blocks, OneOfEach
  PROVE  /\ \A c : Survives(c, RunProjection) <=> Survives(c, PlannedProjection)
         /\ RunProjection.rename = PlannedProjection.rename /\ IsList(PlannedProjection.rename)
         /\ RenamesSpare => Spares(PlannedProjection.rename)
<1>1. /\ IsList(block.keep) /\ \A i \in DOMAIN block.keep : IsList(block.keep[i])
      /\ IsList(block.drop) /\ \A i \in DOMAIN block.drop : IsList(block.drop[i])
      /\ IsList(block.rename) /\ \A i \in DOMAIN block.rename : IsList(block.rename[i])
  BY BlocksAssumption
<1>2. /\ RunProjection.keep = Joined(block.keep) /\ PlannedProjection.keep = FirstOf(block.keep)
      /\ RunProjection.drop = Joined(block.drop) /\ PlannedProjection.drop = FirstOf(block.drop)
      /\ RunProjection.rename = IF block.rename = <<>> THEN <<>> ELSE Last(block.rename)
      /\ PlannedProjection.rename = FirstOf(block.rename)
  BY DEF RunProjection, PlannedProjection
<1>3. /\ ToSet(Joined(block.keep)) = ToSet(FirstOf(block.keep))
      /\ Joined(block.keep) = <<>> <=> FirstOf(block.keep) = <<>>
  BY <1>1, OnlyList DEF OneOfEach
<1>4. ToSet(Joined(block.drop)) = ToSet(FirstOf(block.drop))
  BY <1>1, OnlyList DEF OneOfEach
<1>5. /\ IsList(FirstOf(block.rename))
      /\ block.rename # <<>> => /\ 1 \in DOMAIN block.rename /\ FirstOf(block.rename) = block.rename[1]
                                /\ Last(block.rename) = block.rename[1]
  BY <1>1, OnlyList DEF OneOfEach
<1>6. block.rename = <<>> => FirstOf(block.rename) = <<>>
  BY DEF FirstOf
<1>7. DOMAIN <<>> = {}
  OBVIOUS
<1>8. RenamesSpare => Spares(FirstOf(block.rename))
  BY <1>5, <1>6, <1>7 DEF RenamesSpare, Spares
<1> QED
  BY <1>2, <1>3, <1>4, <1>5, <1>6, <1>8 DEF Survives

LEMMA HidesNoMore ==
  ASSUME block \in Blocks, OneOfEach, RenamesSpare
  PROVE  ShapingHidden = block.internal
<1>1. /\ IsList(PlannedProjection.rename)
      /\ \A n \in DOMAIN PlannedProjection.rename :
           ColumnKey(PlannedProjection.rename[n][1]) \notin Keys(block.internal)
  BY OneProjection DEF Spares
<1>2. Hidden = block.internal
  BY <1>1, ExcludingHides DEF Hidden
<1> QED
  BY <1>1, <1>2, ExcludingHides DEF ShapingHidden

(* the view before any projection: every name once, and the data columns   *)
(* among the planned ones                                                  *)
LEMMA StartNames ==
  ASSUME block \in Blocks, NEW n, NEW written
  PROVE  LET R == ViewNames(RowView(n, written))
         IN  /\ R = block.source \o OwnedColumns /\ IsList(R) /\ UniqueKeys(R)
             /\ ToSet(R) \subseteq ToSet(Slots)
<1> DEFINE v == RowView(n, written)
           names == block.source \o OwnedColumns
           R == ViewNames(v)
           w == [i \in DOMAIN block.writes |-> block.writes[i].column]
<1>1. IsList(names) /\ v.cols = Bindings(names)
  BY StartingView
<1>2. names = [i \in DOMAIN names |-> names[i]]
  <2> HIDE DEF names
  <2>1. names = [i \in 1..Len(names) |-> names[i]] /\ DOMAIN names = 1..Len(names)
    BY <1>1, ListFacts
  <2> QED
    BY <2>1
<1>3. R = names
  <2> HIDE DEF names, v
  <2>1. R = [i \in DOMAIN names |-> Binding(names[i]).name]
    BY <1>1 DEF ViewNames, Bindings
  <2>2. \A i \in DOMAIN names : Binding(names[i]).name = names[i]
    BY BindingParts
  <2> QED
    BY <1>2, <2>1, <2>2
<1>4. /\ IsList(w) /\ IsList(OwnedColumns) /\ UniqueKeys(OwnedColumns)
      /\ Keys(ToSet(OwnedColumns)) = Keys(ToSet(w)) \ Keys(ToSet(block.source))
      /\ ToSet(OwnedColumns) \subseteq ToSet(w)
  BY ListOfWrites
<1>5. IsList(block.source) /\ UniqueKeys(block.source)
  BY ListsOfBlock
<1>6. Slots = block.source \o w
  BY DEF Slots
<1> HIDE DEF w, R, v
<1>7. ToSet(Slots) = ToSet(block.source) \cup ToSet(w)
  BY <1>4, <1>5, <1>6, JoinedLists
<1>8. /\ \A i \in DOMAIN names : IF i <= Len(block.source) THEN names[i] = block.source[i]
                                 ELSE names[i] = OwnedColumns[i - Len(block.source)]
      /\ DOMAIN names = 1..(Len(block.source) + Len(OwnedColumns))
      /\ ToSet(names) = ToSet(block.source) \cup ToSet(OwnedColumns)
  BY <1>4, <1>5, JoinedLists
<1>9. /\ DOMAIN block.source = 1..Len(block.source) /\ Len(block.source) \in Nat
      /\ DOMAIN OwnedColumns = 1..Len(OwnedColumns) /\ Len(OwnedColumns) \in Nat
  BY <1>4, <1>5, ListFacts
<1> HIDE DEF names
<1>10. ASSUME NEW i \in DOMAIN names, NEW j \in DOMAIN names, i < j,
              ColumnKey(names[i]) = ColumnKey(names[j])
       PROVE  FALSE
  <2>1. CASE j <= Len(block.source)
    <3>1. i \in DOMAIN block.source /\ j \in DOMAIN block.source /\ i # j
      BY <1>8, <1>9, <1>10, <2>1
    <3>2. names[i] = block.source[i] /\ names[j] = block.source[j]
      BY <1>8, <1>9, <3>1
    <3> QED
      BY <1>5, <1>10, <3>1, <3>2 DEF UniqueKeys
  <2>2. CASE i > Len(block.source)
    <3> DEFINE a == i - Len(block.source)
               b == j - Len(block.source)
    <3>1. a \in DOMAIN OwnedColumns /\ b \in DOMAIN OwnedColumns /\ a # b
      BY <1>8, <1>9, <1>10, <2>2
    <3>2. names[i] = OwnedColumns[a] /\ names[j] = OwnedColumns[b]
      BY <1>8, <1>9, <1>10, <2>2
    <3> QED
      BY <1>4, <1>10, <3>1, <3>2 DEF UniqueKeys
  <2>3. CASE i <= Len(block.source) /\ j > Len(block.source)
    <3>1. names[i] = block.source[i] /\ i \in DOMAIN block.source
      BY <1>8, <1>9, <2>3
    <3>2. names[j] = OwnedColumns[j - Len(block.source)] /\ j - Len(block.source) \in DOMAIN OwnedColumns
      BY <1>8, <1>9, <2>3
    <3>3. ColumnKey(names[i]) \in Keys(ToSet(block.source)) /\ ColumnKey(names[j]) \in Keys(ToSet(OwnedColumns))
      BY <3>1, <3>2 DEF Keys, ToSet
    <3> QED
      BY <1>4, <1>10, <3>3
  <2> QED
    BY <1>8, <1>9, <1>10, <2>1, <2>2, <2>3
<1>11. UniqueKeys(names)
  <2>1. \A i, j \in DOMAIN names : i # j => i < j \/ j < i
    BY <1>8, <1>9
  <2> QED
    BY <1>10, <2>1 DEF UniqueKeys
<1>12. ToSet(names) \subseteq ToSet(Slots)
  BY <1>4, <1>7, <1>8
<1> QED
  BY <1>1, <1>3, <1>11, <1>12 DEF names, R, v

(* What shaping accepts does not collide in the view.                      *)
LEMMA AcceptedViews ==
  ASSUME block \in Blocks, OneOfEach, RenamesSpare, IsList(targets),
         UniqueKeys(UnfilteredBase), \A t \in ToSet(targets) : UniqueKeys(UnfilteredOf(t))
  PROVE  ~ViewsCollide
<1> DEFINE v == RowView(1, {})
           R == ViewNames(v)
           P == Visible(Slots, ShapingHidden)
           w == ProjectedView(v, RunProjection)
           S == Projected(R, RunProjection)
           A == Keys(block.internal)
           U == UnfilteredBase
<1>1. /\ IsList(R) /\ UniqueKeys(R) /\ ToSet(R) \subseteq ToSet(Slots)
  BY StartNames
<1>2. ShapingHidden = block.internal
  BY HidesNoMore
<1>3. IsList(P) /\ Keys(ToSet(P)) = Keys(ToSet(Slots)) \ A
  BY <1>2, ListOfWrites, VisibleColumns
<1>4. U = Projected(P, PlannedProjection) /\ Base = Visible(U, block.internal)
  BY <1>2 DEF UnfilteredBase, Base
<1>5. IsView(v) /\ ViewNames(w) = S
  BY StartingView, ProjectedNames
<1> HIDE DEF v, R, P, w, S, A, U
<1>6. \A i \in DOMAIN R : ColumnKey(R[i]) \notin A => \E j \in DOMAIN P : ColumnKey(P[j]) = ColumnKey(R[i])
  <2> SUFFICES ASSUME NEW i \in DOMAIN R, ColumnKey(R[i]) \notin A
               PROVE  \E j \in DOMAIN P : ColumnKey(P[j]) = ColumnKey(R[i])
    OBVIOUS
  <2>1. R[i] \in ToSet(Slots)
    BY <1>1 DEF ToSet
  <2>2. ColumnKey(R[i]) \in Keys(ToSet(P))
    BY <1>3, <2>1 DEF Keys
  <2> QED
    BY <2>2 DEF Keys, ToSet
<1>7. /\ UniqueKeys(S) /\ IsList(S)
      /\ \A i \in DOMAIN S : ColumnKey(S[i]) \notin A => \E j \in DOMAIN U : ColumnKey(U[j]) = ColumnKey(S[i])
  <2>1. /\ \A c : Survives(c, RunProjection) <=> Survives(c, PlannedProjection)
        /\ RunProjection.rename = PlannedProjection.rename /\ IsList(PlannedProjection.rename)
        /\ Spares(PlannedProjection.rename)
    BY OneProjection
  <2>2. UniqueKeys(Projected(P, PlannedProjection))
    BY <1>4 DEF U
  <2> QED
    BY <1>1, <1>3, <1>4, <1>6, <2>1, <2>2, PlanCoversView DEF S, A
<1>8. IsList(U)
  BY <1>3, <1>4, ProjectedList
<1>9. IsList(Base) /\ Keys(ToSet(Base)) = Keys(ToSet(U)) \ A
  BY <1>4, <1>8, VisibleColumns DEF A
<1>10. \A i \in DOMAIN S : ColumnKey(S[i]) \notin A => \E j \in DOMAIN Base : ColumnKey(Base[j]) = ColumnKey(S[i])
  <2> SUFFICES ASSUME NEW i \in DOMAIN S, ColumnKey(S[i]) \notin A
               PROVE  \E j \in DOMAIN Base : ColumnKey(Base[j]) = ColumnKey(S[i])
    OBVIOUS
  <2>1. PICK j \in DOMAIN U : ColumnKey(U[j]) = ColumnKey(S[i])
    BY <1>7
  <2>2. ColumnKey(S[i]) \in Keys(ToSet(U))
    BY <2>1 DEF Keys, ToSet
  <2>3. ColumnKey(S[i]) \in Keys(ToSet(Base))
    BY <1>9, <2>2
  <2> QED
    BY <2>3 DEF Keys, ToSet
<1>11. ASSUME NEW t \in ToSet(targets)
       PROVE  UniqueKeys(Projected(S, OptionsOf(t)))
  <2>1. IsList(OptionsOf(t).rename) /\ Spares(OptionsOf(t).rename)
    <3>1. DOMAIN <<>> = {}
      OBVIOUS
    <3> QED
      BY <3>1, OptionsOfTarget DEF RenamesSpare, Spares
  <2>2. UniqueKeys(Projected(Base, OptionsOf(t)))
    BY DEF UnfilteredOf
  <2> QED
    BY <1>7, <1>9, <1>10, <2>1, <2>2, PlanCoversView DEF A
<1>12. ~ViewCollides(v, RunProjection)
  BY <1>7 DEF ViewCollides, S, R
<1>13. \A t \in ToSet(targets) : ~ViewCollides(w, OptionsOf(t))
  BY <1>5, <1>11 DEF ViewCollides
<1>14. \A i \in DOMAIN targets : targets[i] \in ToSet(targets)
  BY DEF ToSet
<1> QED
  BY <1>12, <1>13, <1>14 DEF ViewsCollide, v, w

(* What shaping accepted is still what it would accept; and no block was   *)
(* refused for a collision in the view.                                    *)
Accepted ==
  phase = "check" => UniqueKeys(UnfilteredBase) /\ \A t \in ToSet(targets) : UniqueKeys(UnfilteredOf(t))
Executable == OneOfEach /\ RenamesSpare => PlanIsExecutable

LEMMA SamePlan ==
  ASSUME block' = block
  PROVE  /\ UnfilteredBase' = UnfilteredBase /\ \A t : UnfilteredOf(t)' = UnfilteredOf(t)
         /\ OneOfEach' <=> OneOfEach
         /\ RenamesSpare' <=> RenamesSpare
<1>1. Slots' = Slots /\ PlannedProjection' = PlannedProjection
  BY DEF Slots, PlannedProjection
<1>2. ShapingHidden' = ShapingHidden
  BY <1>1 DEF ShapingHidden, Hidden
<1>3. UnfilteredBase' = UnfilteredBase /\ Base' = Base
  BY <1>1, <1>2 DEF UnfilteredBase, Base
<1>4. ASSUME NEW t PROVE UnfilteredOf(t)' = UnfilteredOf(t)
  <2>1. OptionsOf(t)' = OptionsOf(t)
    BY DEF OptionsOf, References, RefsOf
  <2> QED
    BY <1>3, <2>1 DEF UnfilteredOf
<1>5. (OneOfEach' <=> OneOfEach) /\ (RenamesSpare' <=> RenamesSpare)
  BY DEF OneOfEach, RenamesSpare, Spares, RefsOf
<1> QED
  BY <1>3, <1>4, <1>5

LEMMA ExecutableStep == Prepared /\ Accepted /\ Executable /\ [Next]_vars => Accepted' /\ Executable'
<1> SUFFICES ASSUME Prepared, Accepted, Executable, [Next]_vars PROVE Accepted' /\ Executable'
  OBVIOUS
<1>1. block' = block
  BY DEF Next, Validate, PlanTargets, ShapeOutputs, CheckViews, RouteRow, EndOfRows, FinalizeTarget,
         EndOfTargets, ApplyMetadata, Present, Ended, Refuse, vars
<1>2. /\ UnfilteredBase' = UnfilteredBase /\ \A t : UnfilteredOf(t)' = UnfilteredOf(t)
      /\ OneOfEach' <=> OneOfEach
      /\ RenamesSpare' <=> RenamesSpare
  BY <1>1, SamePlan
<1>3. CASE ShapeOutputs
  <2>1. CASE \E c : c # "NAME_COLLISION" /\ Refuse(c)
    BY <1>2, <2>1 DEF Refuse, Accepted, Executable, PlanIsExecutable
  <2>2. CASE ~ \E c : c # "NAME_COLLISION" /\ Refuse(c)
    <3>1. /\ UniqueKeys(UnfilteredBase) /\ \A i \in DOMAIN targets : UniqueKeys(UnfilteredOf(targets[i]))
          /\ UNCHANGED <<targets, code>>
      BY <1>3, <2>2 DEF ShapeOutputs, ProjectionCollides
    <3>2. \A t \in ToSet(targets) : UniqueKeys(UnfilteredOf(t))
      BY <3>1 DEF ToSet
    <3> QED
      BY <1>2, <3>1, <3>2 DEF Accepted, Executable, PlanIsExecutable
  <2> QED
    BY <2>1, <2>2
<1>4. CASE CheckViews
  <2>1. phase = "check" /\ phase' # "check"
    BY <1>4 DEF CheckViews, Refuse
  <2>2. OneOfEach /\ RenamesSpare => ~ViewsCollide
    BY <2>1, AcceptedViews DEF Prepared, Staged, Accepted
  <2>3. ~ViewsCollide => code' = code
    BY <1>4 DEF CheckViews
  <2> QED
    BY <1>2, <2>1, <2>2, <2>3 DEF Accepted, Executable, PlanIsExecutable
<1>5. CASE ~ShapeOutputs /\ ~CheckViews
  <2>1. UNCHANGED vars \/ (phase' # "check" /\ (code' = code \/ code' # "NAME_COLLISION"))
    BY <1>5 DEF Next, Validate, PlanTargets, RouteRow, EndOfRows, FinalizeTarget, EndOfTargets,
                ApplyMetadata, Present, Ended, Refuse
  <2> QED
    BY <1>2, <2>1 DEF vars, Accepted, Executable, PlanIsExecutable
<1> QED
  BY <1>3, <1>4, <1>5

(* Names collide in the plan or not at all: a step of one KEEP, one DROP   *)
(* and one RENAME that shaping accepts is never refused for a collision in *)
(* the row view, as long as no RENAME names an automatic variable.  The    *)
(* plan projects the data columns of a block, the view all that it holds.  *)
THEOREM AcceptedPlansRun == Spec => [](OneOfEach /\ RenamesSpare => PlanIsExecutable)
<1>1. Init => Accepted /\ Executable
  BY DEF Init, Accepted, Executable, PlanIsExecutable
<1> QED
  BY <1>1, PreparedInit, PreparedStep, ExecutableStep, PTL DEF Spec, Executable

-----------------------------------------------------------------------------
(* What is delivered is what the statements say                            *)

LEMMA ProjectedKeys ==
  ASSUME NEW cols, IsList(cols), NEW p
  PROVE  /\ \A c \in ToSet(cols) : Survives(c, p) =>
              ColumnKey(Renamed(c, p.rename)) \in Keys(ToSet(Projected(cols, p)))
         /\ \A d \in ToSet(Projected(cols, p)) :
              \E c \in ToSet(cols) : Survives(c, p) /\ d = Renamed(c, p.rename)
<1> DEFINE P == Projected(cols, p)
<1>1. PICK at : ComesFrom(at, cols, p)
  BY ProjectedPlaces
<1>2. /\ at \in [DOMAIN P -> DOMAIN cols]
      /\ \A n \in DOMAIN P : P[n] = Renamed(cols[at[n]], p.rename) /\ Survives(cols[at[n]], p)
      /\ \A i \in DOMAIN cols : Survives(cols[i], p) => \E n \in DOMAIN P : at[n] = i
  BY <1>1 DEF ComesFrom
<1> HIDE DEF P
<1>3. ASSUME NEW i \in DOMAIN cols, Survives(cols[i], p)
      PROVE  ColumnKey(Renamed(cols[i], p.rename)) \in Keys(ToSet(P))
  <2>1. PICK n \in DOMAIN P : at[n] = i
    BY <1>2, <1>3
  <2> QED
    BY <1>2, <2>1 DEF Keys, ToSet
<1> QED
  BY <1>2, <1>3 DEF P, ToSet

(* What the statements say is what the plan projects, where there is one   *)
(* of each.                                                                *)
LEMMA SaidIsPlanned ==
  ASSUME block \in Blocks, OneOfEach
  PROVE  /\ \A c : Survives(c, Said) <=> Survives(c, PlannedProjection)
         /\ Said.rename = PlannedProjection.rename
<1>1. /\ Said.keep = Joined(block.keep) /\ Said.drop = Joined(block.drop) /\ Said.rename = Joined(block.rename)
      /\ RunProjection.keep = Joined(block.keep) /\ RunProjection.drop = Joined(block.drop)
      /\ RunProjection.rename = IF block.rename = <<>> THEN <<>> ELSE Last(block.rename)
      /\ RunProjection.rename = PlannedProjection.rename
      /\ \A c : Survives(c, RunProjection) <=> Survives(c, PlannedProjection)
  BY OneProjection DEF Said, RunProjection
<1>2. \A c : Survives(c, Said) <=> Survives(c, PlannedProjection)
  BY <1>1 DEF Survives
<1>3. IsList(block.rename) /\ (\A i \in DOMAIN block.rename : IsList(block.rename[i])) /\ Len(block.rename) <= 1
  BY BlocksAssumption DEF OneOfEach
<1>4. DOMAIN block.rename = 1..Len(block.rename) /\ Len(block.rename) \in Nat
      /\ block.rename = [i \in 1..Len(block.rename) |-> block.rename[i]]
  BY <1>3, ListFacts
<1>5. CASE block.rename = <<>>
  <2>1. Joined(<<>>) = <<>>
    <3>1. <<>> \in Seq(Seq({}))
      OBVIOUS
    <3>2. Joined(<<>>) \in Seq({})
      BY <3>1, JoinedInOrder
    <3> QED
      BY <3>2
  <2> QED
    BY <1>1, <1>2, <1>5, <2>1
<1>6. CASE block.rename # <<>>
  <2> DEFINE r == block.rename[1]
  <2>1. Len(block.rename) = 1 /\ 1 \in DOMAIN block.rename
    <3>1. block.rename \in Seq(ToSet(block.rename))
      BY <1>3 DEF IsList
    <3>2. Len(block.rename) # 0
      BY <1>6, <3>1
    <3>3. Len(block.rename) \in Nat /\ Len(block.rename) <= 1 /\ DOMAIN block.rename = 1..Len(block.rename)
      BY <1>3, <1>4
    <3>4. \A n \in Nat : n <= 1 /\ n # 0 => n = 1
      OBVIOUS
    <3>5. Len(block.rename) = 1
      BY ONLY <3>2, <3>3, <3>4
    <3>6. 1 \in 1..1
      OBVIOUS
    <3> QED
      BY ONLY <3>3, <3>5, <3>6
  <2>2. block.rename = <<r>> /\ Last(block.rename) = r /\ r \in Seq(ToSet(r))
    BY <1>3, <1>4, <2>1 DEF Last, IsList
  <2> HIDE DEF r
  <2>3. Joined(<<r>>) = r
    BY <2>2, JoinedOne
  <2> QED
    BY <1>1, <1>2, <1>6, <2>2, <2>3
<1> QED
  BY <1>5, <1>6

(* References with the same options, whatever their spellings, project     *)
(* alike.                                                                  *)
LEMMA LastHit ==
  ASSUME NEW pairs, IsList(pairs), NEW c
  PROVE  LET hits == {n \in DOMAIN pairs : ColumnKey(pairs[n][1]) = ColumnKey(c)}
         IN  hits # {} => Max(hits) \in hits
<1> DEFINE hits == {n \in DOMAIN pairs : ColumnKey(pairs[n][1]) = ColumnKey(c)}
<1>1. hits \subseteq DOMAIN pairs /\ IsFiniteSet(DOMAIN pairs) /\ DOMAIN pairs \subseteq Nat
  BY ListFacts
<1> HIDE DEF hits
<1>2. ASSUME hits # {} PROVE Max(hits) \in hits
  <2>1. IsFiniteSet(hits) /\ hits \subseteq Nat
    BY <1>1, FS_Subset
  <2>2. \E m \in hits : \A n \in hits : n <= m
    BY <1>2, <2>1, GreatestNumber
  <2>3. \E m \in hits : \A n \in hits : m >= n
    BY <2>1, <2>2
  <2> QED
    BY <2>3 DEF Max
<1> QED
  BY <1>2 DEF hits

LEMMA FoldedListsAlike ==
  ASSUME NEW s, NEW r, IsList(s), IsList(r), FoldedList(s) = FoldedList(r)
  PROVE  /\ s = <<>> <=> r = <<>>
         /\ Keys(ToSet(s)) = Keys(ToSet(r))
<1>1. DOMAIN FoldedList(s) = DOMAIN s /\ DOMAIN FoldedList(r) = DOMAIN r
  BY DEF FoldedList
<1>2. DOMAIN s = DOMAIN r /\ \A i \in DOMAIN s : ColumnKey(s[i]) = ColumnKey(r[i])
  <2>1. \A i \in DOMAIN s : FoldedList(s)[i] = ColumnKey(s[i])
    BY DEF FoldedList
  <2>2. \A i \in DOMAIN r : FoldedList(r)[i] = ColumnKey(r[i])
    BY DEF FoldedList
  <2> QED
    BY <1>1, <2>1, <2>2
<1>3. Len(s) = Len(r) /\ (s = <<>> <=> Len(s) = 0) /\ (r = <<>> <=> Len(r) = 0)
  <2>1. s \in Seq(ToSet(s)) /\ r \in Seq(ToSet(r))
    BY DEF IsList
  <2> QED
    BY <1>2, <2>1
<1> QED
  BY <1>2, <1>3 DEF Keys, ToSet

LEMMA FoldedAlike ==
  ASSUME NEW a, NEW b, HasLists(a), HasLists(b), FoldedOptions(a) = FoldedOptions(b), NEW c
  PROVE  /\ Survives(c, a) <=> Survives(c, b)
         /\ ColumnKey(Renamed(c, a.rename)) = ColumnKey(Renamed(c, b.rename))
<1> DEFINE A == a.rename
           B == b.rename
           pa == [i \in DOMAIN A |-> FoldedList(A[i])]
           pb == [i \in DOMAIN B |-> FoldedList(B[i])]
           ha == {n \in DOMAIN A : ColumnKey(A[n][1]) = ColumnKey(c)}
           hb == {n \in DOMAIN B : ColumnKey(B[n][1]) = ColumnKey(c)}
<1>1. FoldedList(a.keep) = FoldedList(b.keep) /\ FoldedList(a.drop) = FoldedList(b.drop) /\ pa = pb
  BY DEF FoldedOptions
<1>2. Survives(c, a) <=> Survives(c, b)
  <2>1. (a.keep = <<>> <=> b.keep = <<>>) /\ Keys(ToSet(a.keep)) = Keys(ToSet(b.keep))
    BY <1>1, FoldedListsAlike DEF HasLists
  <2>2. Keys(ToSet(a.drop)) = Keys(ToSet(b.drop))
    BY <1>1, FoldedListsAlike DEF HasLists
  <2> QED
    BY <2>1, <2>2 DEF Survives
<1>3. IsList(A) /\ IsList(B) /\ (\A n \in DOMAIN A : DOMAIN A[n] = {1, 2}) /\ (\A n \in DOMAIN B : DOMAIN B[n] = {1, 2})
  BY DEF HasLists
<1> HIDE DEF A, B
<1>4. DOMAIN A = DOMAIN B /\ \A n \in DOMAIN A : FoldedList(A[n]) = FoldedList(B[n])
  <2>1. DOMAIN pa = DOMAIN A /\ DOMAIN pb = DOMAIN B
    OBVIOUS
  <2>2. (\A n \in DOMAIN A : pa[n] = FoldedList(A[n])) /\ \A n \in DOMAIN B : pb[n] = FoldedList(B[n])
    OBVIOUS
  <2> HIDE DEF pa, pb
  <2> QED
    BY <1>1, <2>1, <2>2
<1>5. ASSUME NEW n \in DOMAIN A
      PROVE  ColumnKey(A[n][1]) = ColumnKey(B[n][1]) /\ ColumnKey(A[n][2]) = ColumnKey(B[n][2])
  <2>1. \A k \in {1, 2} : FoldedList(A[n])[k] = ColumnKey(A[n][k]) /\ FoldedList(B[n])[k] = ColumnKey(B[n][k])
    BY <1>3, <1>4 DEF FoldedList
  <2> QED
    BY <1>4, <2>1
<1>6. ha = hb
  BY <1>4, <1>5
<1>7. /\ Renamed(c, A) = IF ha = {} THEN c ELSE A[Max(ha)][2]
      /\ Renamed(c, B) = IF hb = {} THEN c ELSE B[Max(hb)][2]
  BY DEF Renamed
<1>8. ha # {} => Max(ha) \in DOMAIN A
  BY <1>3, LastHit
<1> HIDE DEF ha, hb
<1>9. ColumnKey(Renamed(c, A)) = ColumnKey(Renamed(c, B))
  BY <1>5, <1>6, <1>7, <1>8
<1> QED
  BY <1>2, <1>9 DEF A, B

(* What the references to a target say is what the one that speaks for it  *)
(* says, where they do not conflict.                                       *)
LEMMA SaidForIsPlanned ==
  ASSUME block \in Blocks, NEW t, ~Conflicting(t), NEW c
  PROVE  /\ Survives(c, SaidFor(t)) <=> Survives(c, OptionsOf(t))
         /\ ColumnKey(Renamed(c, SaidFor(t).rename)) = ColumnKey(Renamed(c, OptionsOf(t).rename))
<1> DEFINE R == References(t)
           options == {r \in ToSet(R) : HasTargetOptions(r.opts)}
           q == CHOOSE r \in options : TRUE
<1>1. /\ \A n \in DOMAIN R : HasLists(R[n].opts)
      /\ (\A n \in DOMAIN R : ~HasTargetOptions(R[n].opts)) => OptionsOf(t) = NoProjection
      /\ (\E n \in DOMAIN R : HasTargetOptions(R[n].opts)) =>
           \E n \in DOMAIN R : HasTargetOptions(R[n].opts) /\ OptionsOf(t) = R[n].opts
  BY ReferencesOfTarget
<1>2. SaidFor(t) = IF options = {} THEN NoProjection ELSE q.opts
  BY DEF SaidFor
<1>3. \A n \in DOMAIN R : HasTargetOptions(R[n].opts) => FoldedOptions(R[n].opts) = FoldedOptions(OptionsOf(t))
  BY DEF Conflicting
<1> HIDE DEF R
<1>4. CASE options = {}
  <2>1. \A n \in DOMAIN R : ~HasTargetOptions(R[n].opts)
    BY <1>4 DEF ToSet
  <2> QED
    BY <1>1, <1>2, <1>4, <2>1
<1>5. CASE options # {}
  <2>1. q \in options
    BY <1>5
  <2>2. PICK m \in DOMAIN R : q = R[m] /\ HasTargetOptions(R[m].opts)
    BY <2>1 DEF ToSet
  <2> HIDE DEF options, q
  <2>3. PICK n \in DOMAIN R : OptionsOf(t) = R[n].opts
    BY <1>1, <2>2
  <2>4. SaidFor(t) = R[m].opts /\ FoldedOptions(R[m].opts) = FoldedOptions(OptionsOf(t))
    BY <1>2, <1>3, <1>5, <2>2
  <2> QED
    BY <1>1, <2>3, <2>4, FoldedAlike
<1> QED
  BY <1>4, <1>5

(* The columns that the statements leave, in the words of the plan.        *)
LEMMA KeptIsPlanned ==
  ASSUME block \in Blocks, OneOfEach, NEW t, ~Conflicting(t)
  PROVE  /\ \A c : c \in Kept(t) <=> /\ c \in ToSet(Visible(Slots, block.internal))
                                     /\ Survives(c, PlannedProjection)
                                     /\ Survives(Renamed(c, PlannedProjection.rename), OptionsOf(t))
         /\ \A c : FinalKey(c, t)
                     = ColumnKey(Renamed(Renamed(c, PlannedProjection.rename), OptionsOf(t).rename))
<1>1. /\ \A c : Survives(c, Said) <=> Survives(c, PlannedProjection)
      /\ Said.rename = PlannedProjection.rename
  BY SaidIsPlanned
<1>2. \A c : /\ Survives(c, SaidFor(t)) <=> Survives(c, OptionsOf(t))
             /\ ColumnKey(Renamed(c, SaidFor(t).rename)) = ColumnKey(Renamed(c, OptionsOf(t).rename))
  BY SaidForIsPlanned
<1> QED
  BY <1>1, <1>2 DEF Kept, FinalKey

LEMMA OptionsSpare ==
  ASSUME block \in Blocks, RenamesSpare, NEW t
  PROVE  IsList(OptionsOf(t).rename) /\ Spares(OptionsOf(t).rename)
<1>1. DOMAIN <<>> = {}
  OBVIOUS
<1> QED
  BY <1>1, OptionsOfTarget DEF RenamesSpare, Spares

(* The plan has a column for each one that is left, and no other; none is  *)
(* an automatic variable.                                                  *)
LEMMA ShapedKeys ==
  ASSUME block \in Blocks, OneOfEach, RenamesSpare, NEW t, ~Conflicting(t)
  PROVE  /\ Keys(ToSet(ShapedColumns(t))) = {FinalKey(c, t) : c \in Kept(t)}
         /\ Keys(ToSet(ShapedColumns(t))) \cap Keys(block.internal) = {}
         /\ HiddenOf(t) = block.internal
<1> DEFINE A == Keys(block.internal)
           p == PlannedProjection
           o == OptionsOf(t)
           B == Visible(Slots, block.internal)
           U == Projected(B, p)
           W == Projected(Base, o)
           S == ShapedColumns(t)
<1>1. /\ ShapingHidden = block.internal /\ IsList(p.rename) /\ Spares(p.rename)
      /\ IsList(o.rename) /\ Spares(o.rename)
  BY HidesNoMore, OneProjection, OptionsSpare
<1>2. Excluding(block.internal, o.rename) = block.internal /\ Excluding(block.internal, p.rename) = block.internal
  BY <1>1, ExcludingHides DEF Spares
<1>3. HiddenOf(t) = block.internal
  BY <1>2 DEF HiddenOf, Hidden
<1>4. U = UnfilteredBase /\ Base = Visible(U, block.internal) /\ S = Visible(W, block.internal)
  BY <1>1, <1>2 DEF UnfilteredBase, Base, ShapedColumns, UnfilteredOf
<1>5. /\ \A c : c \in Kept(t) <=> c \in ToSet(B) /\ Survives(c, p) /\ Survives(Renamed(c, p.rename), o)
      /\ \A c : FinalKey(c, t) = ColumnKey(Renamed(Renamed(c, p.rename), o.rename))
  BY KeptIsPlanned
<1> HIDE DEF p, o
<1>6. IsList(B) /\ Keys(ToSet(B)) = Keys(ToSet(Slots)) \ A
  BY ListOfWrites, VisibleColumns
<1> HIDE DEF B
<1>7. IsList(U)
  BY <1>6, ProjectedList
<1> HIDE DEF U
<1>8. IsList(Base) /\ Keys(ToSet(Base)) = Keys(ToSet(U)) \ A /\ ToSet(Base) \subseteq ToSet(U)
  BY <1>4, <1>7, VisibleColumns
<1>9. IsList(W)
  BY <1>8, ProjectedList
<1> HIDE DEF W
<1>10. Keys(ToSet(S)) = Keys(ToSet(W)) \ A /\ ToSet(S) \subseteq ToSet(W)
  BY <1>4, <1>9, VisibleColumns
<1> HIDE DEF S
<1>11. ASSUME NEW c \in Kept(t) PROVE FinalKey(c, t) \in Keys(ToSet(S))
  <2> DEFINE r == Renamed(c, p.rename)
  <2>1. c \in ToSet(B) /\ Survives(c, p) /\ Survives(r, o) /\ FinalKey(c, t) = ColumnKey(Renamed(r, o.rename))
    BY <1>5
  <2>2. ColumnKey(c) \notin A
    BY <1>6, <2>1 DEF Keys
  <2>3. ColumnKey(r) \in Keys(ToSet(U)) /\ ColumnKey(r) \notin A
    BY <1>1, <1>6, <2>1, <2>2, ProjectedKeys, RenamedSpared DEF U
  <2> HIDE DEF r
  <2>4. PICK e \in ToSet(Base) : ColumnKey(e) = ColumnKey(r)
    BY <1>8, <2>3 DEF Keys
  <2>5. Survives(e, o) /\ ColumnKey(Renamed(e, o.rename)) = ColumnKey(Renamed(r, o.rename))
    BY <2>1, <2>4, SurvivesByKey, RenamedByKey
  <2>6. ColumnKey(Renamed(e, o.rename)) \in Keys(ToSet(W))
    BY <1>8, <2>5, ProjectedKeys DEF W
  <2>7. ColumnKey(Renamed(e, o.rename)) \notin A
    BY <1>1, <2>3, <2>4, RenamedSpared
  <2> QED
    BY <1>10, <2>1, <2>5, <2>6, <2>7
<1>12. ASSUME NEW d \in ToSet(S) PROVE \E c \in Kept(t) : ColumnKey(d) = FinalKey(c, t)
  <2>1. PICK e \in ToSet(Base) : Survives(e, o) /\ d = Renamed(e, o.rename)
    BY <1>8, <1>10, ProjectedKeys DEF W
  <2>2. PICK c \in ToSet(B) : Survives(c, p) /\ e = Renamed(c, p.rename)
    BY <1>6, <1>8, ProjectedKeys DEF U
  <2>3. c \in Kept(t) /\ FinalKey(c, t) = ColumnKey(d)
    BY <1>5, <2>1, <2>2
  <2> QED
    BY <2>3
<1>13. Keys(ToSet(S)) = {FinalKey(c, t) : c \in Kept(t)}
  BY <1>11, <1>12 DEF Keys
<1>14. Keys(ToSet(S)) \cap A = {}
  BY <1>10
<1> QED
  BY <1>3, <1>13, <1>14 DEF S

(* What the two projections of the view show besides automatic variables   *)
(* is in the plan, and no name of it twice.                                *)
LEMMA TargetNames ==
  ASSUME block \in Blocks, OneOfEach, RenamesSpare, NEW t,
         UniqueKeys(UnfilteredBase), UniqueKeys(UnfilteredOf(t)), NEW n, NEW written
  PROVE  LET v == RowView(n, written)
             S == Projected(ViewNames(v), RunProjection)
             T == Projected(S, OptionsOf(t))
         IN  /\ IsView(v) /\ IsView(ProjectedView(v, RunProjection)) /\ IsView(TargetView(t, v))
             /\ IsList(ViewNames(v)) /\ UniqueKeys(ViewNames(v)) /\ ViewNames(v) = block.source \o OwnedColumns
             /\ UniqueKeys(S) /\ IsList(S) /\ ViewNames(ProjectedView(v, RunProjection)) = S
             /\ UniqueKeys(T) /\ IsList(T) /\ ViewNames(TargetView(t, v)) = T
             /\ \A d \in ToSet(T) : ColumnKey(d) \in Keys(block.internal) \cup Keys(ToSet(ShapedColumns(t)))
<1> DEFINE v == RowView(n, written)
           R == ViewNames(v)
           P == Visible(Slots, ShapingHidden)
           w == ProjectedView(v, RunProjection)
           S == Projected(R, RunProjection)
           T == Projected(S, OptionsOf(t))
           A == Keys(block.internal)
           U == UnfilteredBase
<1>0. R = block.source \o OwnedColumns
  BY StartNames
<1>1. /\ IsList(R) /\ UniqueKeys(R) /\ ToSet(R) \subseteq ToSet(Slots)
  BY StartNames
<1>2. ShapingHidden = block.internal
  BY HidesNoMore
<1>3. IsList(P) /\ Keys(ToSet(P)) = Keys(ToSet(Slots)) \ A
  BY <1>2, ListOfWrites, VisibleColumns
<1>4. U = Projected(P, PlannedProjection) /\ Base = Visible(U, block.internal)
  BY <1>2 DEF UnfilteredBase, Base
<1>5. IsView(v) /\ IsView(w) /\ ViewNames(w) = S
  BY StartingView, ProjectedNames
<1>6. IsView(TargetView(t, v)) /\ ViewNames(TargetView(t, v)) = T
  <2>1. TargetView(t, v) = ProjectedView(w, OptionsOf(t))
    BY DEF TargetView
  <2> HIDE DEF w, S, v
  <2> QED
    BY <1>5, <2>1, ProjectedNames
<1> HIDE DEF v, R, P, w, S, A, U
<1>7. \A i \in DOMAIN R : ColumnKey(R[i]) \notin A => \E j \in DOMAIN P : ColumnKey(P[j]) = ColumnKey(R[i])
  <2> SUFFICES ASSUME NEW i \in DOMAIN R, ColumnKey(R[i]) \notin A
               PROVE  \E j \in DOMAIN P : ColumnKey(P[j]) = ColumnKey(R[i])
    OBVIOUS
  <2>1. R[i] \in ToSet(Slots)
    BY <1>1 DEF ToSet
  <2>2. ColumnKey(R[i]) \in Keys(ToSet(P))
    BY <1>3, <2>1 DEF Keys
  <2> QED
    BY <2>2 DEF Keys, ToSet
<1>8. /\ UniqueKeys(S) /\ IsList(S)
      /\ \A i \in DOMAIN S : ColumnKey(S[i]) \notin A => \E j \in DOMAIN U : ColumnKey(U[j]) = ColumnKey(S[i])
  <2>1. /\ \A c : Survives(c, RunProjection) <=> Survives(c, PlannedProjection)
        /\ RunProjection.rename = PlannedProjection.rename /\ IsList(PlannedProjection.rename)
        /\ Spares(PlannedProjection.rename)
    BY OneProjection
  <2>2. UniqueKeys(Projected(P, PlannedProjection))
    BY <1>4 DEF U
  <2> QED
    BY <1>1, <1>3, <1>4, <1>7, <2>1, <2>2, PlanCoversView DEF S, A
<1>9. IsList(U)
  BY <1>3, <1>4, ProjectedList
<1>10. IsList(Base) /\ Keys(ToSet(Base)) = Keys(ToSet(U)) \ A
  BY <1>4, <1>9, VisibleColumns DEF A
<1>11. \A i \in DOMAIN S : ColumnKey(S[i]) \notin A => \E j \in DOMAIN Base : ColumnKey(Base[j]) = ColumnKey(S[i])
  <2> SUFFICES ASSUME NEW i \in DOMAIN S, ColumnKey(S[i]) \notin A
               PROVE  \E j \in DOMAIN Base : ColumnKey(Base[j]) = ColumnKey(S[i])
    OBVIOUS
  <2>1. PICK j \in DOMAIN U : ColumnKey(U[j]) = ColumnKey(S[i])
    BY <1>8
  <2>2. ColumnKey(S[i]) \in Keys(ToSet(U))
    BY <2>1 DEF Keys, ToSet
  <2>3. ColumnKey(S[i]) \in Keys(ToSet(Base))
    BY <1>10, <2>2
  <2> QED
    BY <2>3 DEF Keys, ToSet
<1>12. IsList(OptionsOf(t).rename) /\ Spares(OptionsOf(t).rename)
  BY OptionsSpare
<1>13. UnfilteredOf(t) = Projected(Base, OptionsOf(t)) /\ UniqueKeys(Projected(Base, OptionsOf(t)))
  BY DEF UnfilteredOf
<1>14. /\ UniqueKeys(T) /\ IsList(T)
       /\ \A i \in DOMAIN T : ColumnKey(T[i]) \notin A =>
            \E j \in DOMAIN UnfilteredOf(t) : ColumnKey(UnfilteredOf(t)[j]) = ColumnKey(T[i])
  <2> HIDE DEF T
  <2> QED
    BY <1>8, <1>10, <1>11, <1>12, <1>13, PlanCoversView DEF A, T
<1>15. Keys(ToSet(ShapedColumns(t))) = Keys(ToSet(UnfilteredOf(t))) \ A
  <2>1. Excluding(block.internal, OptionsOf(t).rename) = block.internal
    BY <1>12, ExcludingHides DEF Spares
  <2>2. IsList(UnfilteredOf(t)) /\ ShapedColumns(t) = Visible(UnfilteredOf(t), block.internal)
    BY <1>2, <1>10, <1>13, <2>1, ProjectedList DEF ShapedColumns
  <2> QED
    BY <2>2, VisibleColumns DEF A
<1> HIDE DEF T
<1>16. ASSUME NEW d \in ToSet(T) PROVE ColumnKey(d) \in A \cup Keys(ToSet(ShapedColumns(t)))
  <2>1. PICK i \in DOMAIN T : d = T[i]
    BY DEF ToSet
  <2>2. CASE ColumnKey(d) \notin A
    <3>1. PICK j \in DOMAIN UnfilteredOf(t) : ColumnKey(UnfilteredOf(t)[j]) = ColumnKey(d)
      BY <1>14, <2>1, <2>2
    <3>2. ColumnKey(d) \in Keys(ToSet(UnfilteredOf(t)))
      BY <3>1 DEF Keys, ToSet
    <3> QED
      BY <1>15, <2>2, <3>2
  <2> QED
    BY <2>2
<1> QED
  BY <1>0, <1>1, <1>5, <1>6, <1>8, <1>14, <1>16 DEF v, R, S, T, A, w

LEMMA OutsideKeys ==
  ASSUME NEW cols, IsList(cols), NEW hidden
  PROVE  /\ Keys(ToSet(Outside(cols, hidden))) = Keys(ToSet(cols)) \ Keys(hidden)
         /\ ToSet(Outside(cols, hidden)) \subseteq ToSet(cols)
<1> DEFINE I == {i \in DOMAIN cols : ColumnKey(cols[i]) \notin Keys(hidden)}
           O == Outside(cols, hidden)
<1>1. O = Selected(cols, I) /\ I \in SUBSET DOMAIN cols
  BY DEF Outside
<1>2. \A i \in DOMAIN cols : i \in I <=> ColumnKey(cols[i]) \notin Keys(hidden)
  OBVIOUS
<1> HIDE DEF I, O
<1>3. ToSet(O) = {cols[i] : i \in I}
  BY <1>1, SelectedList
<1>4. Keys(ToSet(O)) = {ColumnKey(cols[i]) : i \in I} /\ Keys(ToSet(cols)) = {ColumnKey(cols[i]) : i \in DOMAIN cols}
  BY <1>3 DEF Keys, ToSet
<1> QED
  BY <1>1, <1>2, <1>3, <1>4 DEF O, ToSet

(* A table has a column for each one that is left, and no other.           *)
LEMMA OutputKeys ==
  ASSUME block \in Blocks, OneOfEach, RenamesSpare, NEW t, ~Conflicting(t),
         UniqueKeys(UnfilteredBase), UniqueKeys(UnfilteredOf(t)), columns[t] = ShapedColumns(t)
  PROVE  /\ Keys(ToSet(Unhidden(t))) = {FinalKey(c, t) : c \in Kept(t)}
         /\ ToSet(Unhidden(t)) \subseteq ToSet(BuiltColumns(t))
<1> DEFINE A == Keys(block.internal)
           S == ShapedColumns(t)
           T == ViewNames(TargetView(t, RowView(1, {})))
<1>1. /\ Keys(ToSet(S)) = {FinalKey(c, t) : c \in Kept(t)} /\ Keys(ToSet(S)) \cap A = {}
      /\ Unhidden(t) = Outside(BuiltColumns(t), block.internal)
  BY ShapedKeys DEF Unhidden
<1>2. IsList(S)
  BY ShapedAreUnique
<1>3. CASE S # <<>>
  <2>1. BuiltColumns(t) = S
    BY <1>3 DEF BuiltColumns
  <2> HIDE DEF S
  <2> QED
    BY <1>1, <1>2, <2>1, OutsideKeys
<1>4. CASE S = <<>>
  <2> DEFINE I == {i \in DOMAIN T : T[i][1] = "var"}
             B == BuiltColumns(t)
  <2>1. B = Selected(T, I) /\ I \in SUBSET DOMAIN T
    BY <1>4 DEF BuiltColumns
  <2>2. IsList(T) /\ \A d \in ToSet(T) : ColumnKey(d) \in A \cup Keys(ToSet(S))
    BY TargetNames
  <2>3. Keys(ToSet(S)) = {}
    BY <1>4 DEF Keys, ToSet
  <2> HIDE DEF T, I, B, S, A
  <2>4. IsList(B) /\ ToSet(B) \subseteq ToSet(T)
    <3>1. IsList(B) /\ ToSet(B) = {T[i] : i \in I}
      BY <2>1, <2>2, SelectedList
    <3> QED
      BY <2>1, <3>1 DEF ToSet
  <2>5. Keys(ToSet(B)) \subseteq A
    BY <2>2, <2>3, <2>4 DEF Keys
  <2>6. /\ Keys(ToSet(Outside(B, block.internal))) = Keys(ToSet(B)) \ A
        /\ ToSet(Outside(B, block.internal)) \subseteq ToSet(B)
    BY <2>4, OutsideKeys DEF A
  <2> QED
    BY <1>1, <2>3, <2>5, <2>6 DEF B
<1> QED
  BY <1>3, <1>4

-----------------------------------------------------------------------------
(* A value follows its name                                                *)

(* the value that a binding of a view stands for *)
ValueAt(v, b) ==
  IF ~b.source THEN v.owned[b.key]
  ELSE IF ColumnKey(b.name) \in DOMAIN v.owned THEN v.owned[ColumnKey(b.name)]
  ELSE <<"row", b.key, v.row>>

LEMMA CellIsValue ==
  ASSUME NEW v, IsView(v), UniqueKeys(ViewNames(v)), NEW i \in DOMAIN v.cols,
         NEW d, ColumnKey(d) = ColumnKey(v.cols[i].name)
  PROVE  CellOf(v, d) = ValueAt(v, v.cols[i])
<1> DEFINE found == {j \in DOMAIN v.cols : ColumnKey(v.cols[j].name) = ColumnKey(d)}
           f == CHOOSE j \in found : TRUE
           b == v.cols[f]
<1>1. CellOf(v, d) = IF found = {} THEN Null
                     ELSE IF ~b.source THEN v.owned[b.key]
                     ELSE IF ColumnKey(d) \in DOMAIN v.owned THEN v.owned[ColumnKey(d)]
                     ELSE <<"row", b.key, v.row>>
  BY DEF CellOf
<1>2. i \in found
  OBVIOUS
<1>3. f \in found
  <2> HIDE DEF found
  <2> QED
    BY <1>2
<1>4. f = i
  <2>1. DOMAIN ViewNames(v) = DOMAIN v.cols /\ \A j \in DOMAIN v.cols : ViewNames(v)[j] = v.cols[j].name
    BY DEF ViewNames
  <2>2. f \in DOMAIN v.cols /\ ColumnKey(v.cols[f].name) = ColumnKey(d)
    BY <1>3
  <2> HIDE DEF f, found
  <2> QED
    BY <2>1, <2>2 DEF UniqueKeys
<1> HIDE DEF f, found
<1> QED
  BY <1>1, <1>2, <1>4 DEF ValueAt

(* a RENAME that makes no name of N *)
Apart(pairs, N) == \A n \in DOMAIN pairs : ColumnKey(pairs[n][2]) \notin N

LEMMA RenamedApart ==
  ASSUME NEW pairs, IsList(pairs), NEW N, Apart(pairs, N), NEW c, ColumnKey(Renamed(c, pairs)) \in N
  PROVE  Renamed(c, pairs) = c
<1> DEFINE hits == {n \in DOMAIN pairs : ColumnKey(pairs[n][1]) = ColumnKey(c)}
<1>1. hits # {} => Max(hits) \in DOMAIN pairs
  BY LastHit
<1>2. Renamed(c, pairs) = IF hits = {} THEN c ELSE pairs[Max(hits)][2]
  BY DEF Renamed
<1> HIDE DEF hits
<1> QED
  BY <1>1, <1>2 DEF Apart

(* Where no RENAME makes an owned name, what is owned moves with the name  *)
(* of its binding, and stays where it was.                                 *)
LEMMA OwnedMoves ==
  ASSUME NEW v, IsView(v), NEW p, UniqueKeys(Projected(ViewNames(v), p)),
         IsList(p.rename), Apart(p.rename, DOMAIN v.owned)
  PROVE  LET w == ProjectedView(v, p)
             kept == KeptBindings(v, p)
             New(i) == ColumnKey(Renamed(kept[i].name, p.rename))
             Old(i) == ColumnKey(kept[i].name)
         IN  /\ \A i \in DOMAIN kept : Old(i) \in DOMAIN v.owned =>
                  New(i) \in DOMAIN w.owned /\ w.owned[New(i)] = v.owned[Old(i)]
             /\ \A i \in DOMAIN kept : Old(i) \notin DOMAIN v.owned => New(i) \notin DOMAIN w.owned
             /\ \A k \in DOMAIN v.owned : k \in DOMAIN w.owned /\ w.owned[k] = v.owned[k]
             /\ \A k \in DOMAIN w.owned : k \in DOMAIN v.owned \/
                  \E i \in DOMAIN kept : k = New(i) /\ Old(i) \in DOMAIN v.owned
<1> DEFINE w == ProjectedView(v, p)
           kept == KeptBindings(v, p)
           New(i) == ColumnKey(Renamed(kept[i].name, p.rename))
           Old(i) == ColumnKey(kept[i].name)
           moved == {i \in DOMAIN kept : {Old(i), New(i)} \cap DOMAIN v.owned # {}}
           Moved(i) == v.owned[IF Old(i) \in DOMAIN v.owned THEN Old(i) ELSE New(i)]
           C == [i \in DOMAIN kept |-> [kept[i] EXCEPT !.name = Renamed(kept[i].name, p.rename)]]
           O == [k \in DOMAIN v.owned \cup {New(i) : i \in moved} |->
                   IF \E i \in moved : New(i) = k
                   THEN Moved(CHOOSE i \in moved : New(i) = k) ELSE v.owned[k]]
           D == DOMAIN v.owned
<1>1. w = [v EXCEPT !.cols = C, !.owned = O]
  BY DEF ProjectedView
<1>2. w.owned = O
  <2> HIDE DEF w, C, O
  <2>1. w = [row |-> v.row, cols |-> C, owned |-> O]
    BY <1>1, ViewParts DEF IsView
  <2> QED
    BY <2>1
<1>3. DOMAIN O = D \cup {New(i) : i \in moved}
  OBVIOUS
<1>4. \A i \in DOMAIN kept : New(i) \in D => New(i) = Old(i)
  <2> HIDE DEF kept
  <2> QED
    BY RenamedApart
<1>5. \A i, j \in DOMAIN kept : New(i) = New(j) => i = j
  <2> DEFINE P == Projected(ViewNames(v), p)
             I == {i \in DOMAIN v.cols : Survives(v.cols[i].name, p)}
             names == ViewNames(v)
  <2>4. P = [n \in DOMAIN Surviving(names, p) |-> Renamed(Surviving(names, p)[n], p.rename)]
    BY DEF Projected
  <2>5. DOMAIN names = DOMAIN v.cols /\ \A n \in DOMAIN v.cols : names[n] = v.cols[n].name
    BY DEF ViewNames
  <2>6. Surviving(names, p) = Selected(names, I) /\ kept = Selected(v.cols, I) /\ I \in SUBSET DOMAIN v.cols
    BY <2>5 DEF Surviving, KeptBindings
  <2>7. IsList(names) /\ IsList(v.cols)
    BY NamesOfView DEF IsView
  <2> HIDE DEF I, names, kept, P, w, C, O, moved
  <2>8. /\ DOMAIN Surviving(names, p) = DOMAIN kept
        /\ \A n \in DOMAIN kept : Surviving(names, p)[n] = kept[n].name
    <3>1. /\ Numbered(I) \in [DOMAIN kept -> I] /\ \A n \in DOMAIN kept : kept[n] = v.cols[Numbered(I)[n]]
      BY <2>6, <2>7, SelectedList
    <3>2. /\ Numbered(I) \in [DOMAIN Surviving(names, p) -> I]
          /\ \A n \in DOMAIN Surviving(names, p) : Surviving(names, p)[n] = names[Numbered(I)[n]]
      BY <2>5, <2>6, <2>7, SelectedList
    <3>3. DOMAIN kept = DOMAIN Numbered(I) /\ DOMAIN Surviving(names, p) = DOMAIN Numbered(I)
      BY <3>1, <3>2
    <3> QED
      BY <2>5, <2>6, <3>1, <3>2, <3>3
  <2>9. \A i \in DOMAIN kept : i \in DOMAIN P /\ ColumnKey(P[i]) = New(i)
    BY <2>4, <2>8
  <2> HIDE DEF New
  <2> QED
    BY <2>9 DEF UniqueKeys, P
<1>6. /\ \A i \in moved : i \in DOMAIN kept /\ Old(i) \in D /\ Moved(i) = v.owned[Old(i)]
      /\ \A i \in DOMAIN kept : Old(i) \in D => i \in moved
  <2> HIDE DEF kept, New, Old
  <2> QED
    BY <1>4
<1>7. ASSUME NEW i \in moved PROVE New(i) \in DOMAIN O /\ O[New(i)] = v.owned[Old(i)]
  <2> DEFINE m == CHOOSE j \in moved : New(j) = New(i)
  <2>1. New(i) \in DOMAIN O /\ O[New(i)] = Moved(m)
    BY <1>3, <1>7
  <2> HIDE DEF O, Moved, New, Old, kept, moved
  <2>2. m \in moved /\ New(m) = New(i)
    BY <1>7
  <2>3. m = i
    BY <1>5, <1>6, <1>7, <2>2
  <2> QED
    BY <1>6, <2>1, <2>3
<1>8. ASSUME NEW k \in D, ~ \E i \in moved : New(i) = k PROVE k \in DOMAIN O /\ O[k] = v.owned[k]
  BY <1>3, <1>8
<1> HIDE DEF O, Moved, New, Old, kept, moved, D
<1>9. \A i \in DOMAIN kept : Old(i) \notin D => New(i) \notin DOMAIN O
  BY <1>3, <1>4, <1>5, <1>6
<1>10. ASSUME NEW k \in D PROVE k \in DOMAIN O /\ O[k] = v.owned[k]
  <2>1. CASE \E i \in moved : New(i) = k
    <3>1. PICK i \in moved : New(i) = k
      BY <2>1
    <3>2. Old(i) = k
      BY <1>4, <1>6, <3>1
    <3> QED
      BY <1>7, <3>1, <3>2
  <2> QED
    BY <1>8, <2>1
<1>11. \A k \in DOMAIN O : k \in D \/ \E i \in DOMAIN kept : k = New(i) /\ Old(i) \in D
  BY <1>3, <1>6
<1>12. \A i \in DOMAIN kept : Old(i) \in D => New(i) \in DOMAIN O /\ O[New(i)] = v.owned[Old(i)]
  BY <1>6, <1>7
<1> QED
  BY <1>2, <1>9, <1>10, <1>11, <1>12 DEF w, kept, New, Old, D

(* every binding of a view stands for a value *)
Bound(v) ==
  /\ IsView(v)
  /\ \A i \in DOMAIN v.cols :
       /\ v.cols[i] = [name |-> v.cols[i].name, key |-> v.cols[i].key, source |-> v.cols[i].source]
       /\ v.cols[i].source \/ v.cols[i].key \in DOMAIN v.owned

(* A column that survives has, under its new name, the value it had.       *)
LEMMA ValuesFollow ==
  ASSUME NEW v, Bound(v), NEW p, UniqueKeys(Projected(ViewNames(v), p)),
         IsList(p.rename), Apart(p.rename, DOMAIN v.owned)
  PROVE  LET w == ProjectedView(v, p)
         IN  /\ Bound(w)
             /\ \A i \in DOMAIN v.cols : Survives(v.cols[i].name, p) =>
                  \E j \in DOMAIN w.cols : /\ w.cols[j].name = Renamed(v.cols[i].name, p.rename)
                                           /\ ValueAt(w, w.cols[j]) = ValueAt(v, v.cols[i])
<1> DEFINE w == ProjectedView(v, p)
           I == {i \in DOMAIN v.cols : Survives(v.cols[i].name, p)}
           kept == KeptBindings(v, p)
           New(i) == ColumnKey(Renamed(kept[i].name, p.rename))
           Old(i) == ColumnKey(kept[i].name)
           at == Numbered(I)
<1>1. /\ IsView(w) /\ kept = Selected(v.cols, I) /\ I \in SUBSET DOMAIN v.cols
      /\ w.cols = RenamedBindings(kept, p.rename) /\ w.row = v.row
  BY ProjectedNames DEF Bound
<1>2. /\ \A i \in DOMAIN kept : Old(i) \in DOMAIN v.owned =>
           New(i) \in DOMAIN w.owned /\ w.owned[New(i)] = v.owned[Old(i)]
      /\ \A i \in DOMAIN kept : Old(i) \notin DOMAIN v.owned => New(i) \notin DOMAIN w.owned
      /\ \A k \in DOMAIN v.owned : k \in DOMAIN w.owned /\ w.owned[k] = v.owned[k]
  BY OwnedMoves DEF Bound
<1>3. \A i \in DOMAIN v.cols : Survives(v.cols[i].name, p) => i \in I
  OBVIOUS
<1> HIDE DEF w, kept, I, at
<1>4. /\ at \in [DOMAIN kept -> I] /\ \A j \in DOMAIN kept : kept[j] = v.cols[at[j]]
      /\ \A i \in I : \E j \in DOMAIN kept : at[j] = i
  BY <1>1, SelectedList DEF at, Bound, IsView
<1>5. ASSUME NEW j \in DOMAIN kept
      PROVE  /\ w.cols[j] = [name |-> Renamed(kept[j].name, p.rename), key |-> kept[j].key, source |-> kept[j].source]
             /\ kept[j].source \/ kept[j].key \in DOMAIN v.owned
  <2>1. kept[j] = v.cols[at[j]] /\ at[j] \in DOMAIN v.cols
    BY <1>1, <1>4
  <2>2. /\ kept[j] = [name |-> kept[j].name, key |-> kept[j].key, source |-> kept[j].source]
        /\ kept[j].source \/ kept[j].key \in DOMAIN v.owned
    BY <2>1 DEF Bound
  <2>3. w.cols[j] = [kept[j] EXCEPT !.name = Renamed(kept[j].name, p.rename)]
    BY <1>1 DEF RenamedBindings
  <2> DEFINE a == kept[j].name
             b == kept[j].key
             c == kept[j].source
             d == Renamed(kept[j].name, p.rename)
  <2>4. [[name |-> a, key |-> b, source |-> c] EXCEPT !.name = d] = [name |-> d, key |-> b, source |-> c]
    <3> HIDE DEF a, b, c, d
    <3> QED
      OBVIOUS
  <2> QED
    BY <2>2, <2>3, <2>4
<1>6. DOMAIN w.cols = DOMAIN kept
  BY <1>1 DEF RenamedBindings
<1> DEFINE Made(j) ==
      /\ w.cols[j] = [name |-> w.cols[j].name, key |-> w.cols[j].key, source |-> w.cols[j].source]
      /\ w.cols[j].name = Renamed(kept[j].name, p.rename) /\ w.cols[j].key = kept[j].key
      /\ w.cols[j].source <=> kept[j].source
<1>10. ASSUME NEW j \in DOMAIN kept PROVE Made(j)
  <2>1. w.cols[j] = [name |-> Renamed(kept[j].name, p.rename), key |-> kept[j].key, source |-> kept[j].source]
    BY <1>5
  <2>2. w.cols[j].name = Renamed(kept[j].name, p.rename) /\ w.cols[j].key = kept[j].key /\ w.cols[j].source = kept[j].source
    BY <2>1
  <2> QED
    BY <2>1, <2>2
<1>7. Bound(w)
  <2> SUFFICES ASSUME NEW j \in DOMAIN kept
               PROVE  /\ w.cols[j] = [name |-> w.cols[j].name, key |-> w.cols[j].key, source |-> w.cols[j].source]
                      /\ w.cols[j].source \/ w.cols[j].key \in DOMAIN w.owned
    BY <1>1, <1>6 DEF Bound
  <2> QED
    BY <1>2, <1>5, <1>10
<1>8. ASSUME NEW j \in DOMAIN kept PROVE ValueAt(w, w.cols[j]) = ValueAt(v, kept[j])
  <2> DEFINE b == w.cols[j]
  <2>1. b.name = Renamed(kept[j].name, p.rename) /\ b.key = kept[j].key /\ (b.source <=> kept[j].source)
    BY <1>10
  <2>2. ValueAt(w, b) = IF ~b.source THEN w.owned[b.key]
                        ELSE IF ColumnKey(b.name) \in DOMAIN w.owned THEN w.owned[ColumnKey(b.name)]
                        ELSE <<"row", b.key, w.row>>
    BY DEF ValueAt
  <2>3. ValueAt(v, kept[j]) = IF ~kept[j].source THEN v.owned[kept[j].key]
                              ELSE IF Old(j) \in DOMAIN v.owned THEN v.owned[Old(j)]
                              ELSE <<"row", kept[j].key, v.row>>
    BY DEF ValueAt
  <2> HIDE DEF b, Old
  <2>4. New(j) = ColumnKey(b.name)
    BY <2>1
  <2> HIDE DEF New
  <2>5. ~kept[j].source => ValueAt(w, b) = ValueAt(v, kept[j])
    BY <1>2, <1>5, <2>1, <2>2, <2>3
  <2>6. kept[j].source /\ Old(j) \in DOMAIN v.owned => ValueAt(w, b) = ValueAt(v, kept[j])
    BY <1>2, <2>1, <2>2, <2>3, <2>4
  <2>7. kept[j].source /\ Old(j) \notin DOMAIN v.owned => ValueAt(w, b) = ValueAt(v, kept[j])
    BY <1>1, <1>2, <2>1, <2>2, <2>3, <2>4
  <2> QED
    BY <2>5, <2>6, <2>7 DEF b
<1>9. ASSUME NEW i \in DOMAIN v.cols, Survives(v.cols[i].name, p)
      PROVE  \E j \in DOMAIN w.cols : /\ w.cols[j].name = Renamed(v.cols[i].name, p.rename)
                                      /\ ValueAt(w, w.cols[j]) = ValueAt(v, v.cols[i])
  <2>1. PICK j \in DOMAIN kept : at[j] = i
    BY <1>3, <1>4, <1>9
  <2>2. kept[j] = v.cols[i] /\ w.cols[j].name = Renamed(kept[j].name, p.rename)
    BY <1>4, <1>10, <2>1
  <2> QED
    BY <1>6, <1>8, <2>2
<1> QED
  BY <1>7, <1>9 DEF w

(* Before any projection a data column is shown with its value of the row. *)
LEMMA StartValues ==
  ASSUME block \in Blocks, NEW n \in DOMAIN block.rows
  PROVE  LET v == RowView(n, block.rows[n].written)
         IN  /\ Bound(v) /\ DOMAIN v.owned \subseteq Keys(Computed)
             /\ \A c \in ToSet(Visible(Slots, block.internal)) :
                  \E i \in DOMAIN v.cols : /\ ColumnKey(v.cols[i].name) = ColumnKey(c)
                                           /\ ValueAt(v, v.cols[i]) = Current(c, n)
<1> DEFINE written == block.rows[n].written
           v == RowView(n, written)
           names == block.source \o OwnedColumns
           w == [i \in DOMAIN block.writes |-> block.writes[i].column]
           K == Keys(ToSet(block.source))
           I == {i \in DOMAIN Slots : /\ ColumnKey(Slots[i]) \notin Keys(block.internal)
                                      /\ \A j \in 1..(i - 1) : ColumnKey(Slots[j]) # ColumnKey(Slots[i])}
<1>1. /\ IsView(v) /\ IsList(names) /\ v.row = n
      /\ v.cols = Bindings(names) /\ v.owned = OwnedAtStart(n, written)
  BY StartingView
<1>2. /\ IsList(w) /\ IsList(OwnedColumns) /\ IsList(Slots)
      /\ Keys(ToSet(OwnedColumns)) = Keys(ToSet(w)) \ K /\ ToSet(OwnedColumns) \subseteq ToSet(w)
      /\ IsList(block.source)
  BY ListOfWrites, ListsOfBlock
<1>3. ToSet(w) = Computed /\ written \subseteq Keys(Computed)
  <2>1. ToSet(w) = Computed
    BY DEF ToSet, Computed
  <2>2. written \subseteq {ColumnKey(block.writes[j].column) : j \in DOMAIN block.writes}
    BY BlocksAssumption
  <2>3. Keys(Computed) = {ColumnKey(block.writes[j].column) : j \in DOMAIN block.writes}
    BY DEF Keys, Computed
  <2> QED
    BY <2>1, <2>2, <2>3
<1>4. Slots = block.source \o w /\ Visible(Slots, block.internal) = Selected(Slots, I) /\ I \in SUBSET DOMAIN Slots
  BY DEF Slots, Visible
<1>5. \A i \in I : \A j \in 1..(i - 1) : ColumnKey(Slots[j]) # ColumnKey(Slots[i])
  OBVIOUS
<1> HIDE DEF I, w, names, v, written
<1>6. DOMAIN v.owned = written \cup (Keys(ToSet(w)) \ K)
  BY <1>1, <1>2 DEF OwnedAtStart
<1>7. \A k \in DOMAIN v.owned : v.owned[k] = IF k \in written THEN <<"step", k, n>> ELSE Null
  BY <1>1 DEF OwnedAtStart
<1>8. DOMAIN v.owned \subseteq Keys(Computed)
  BY <1>3, <1>6
<1>9. ToSet(names) = ToSet(block.source) \cup ToSet(OwnedColumns)
  BY <1>2, JoinedLists DEF names
<1>10. ASSUME NEW i \in DOMAIN v.cols
       PROVE  /\ i \in DOMAIN names /\ v.cols[i] = [name |-> v.cols[i].name, key |-> v.cols[i].key, source |-> v.cols[i].source]
              /\ v.cols[i].name = names[i] /\ v.cols[i].key = ColumnKey(names[i])
              /\ v.cols[i].source <=> names[i] \in ToSet(block.source)
  <2>1. i \in DOMAIN names /\ v.cols[i] = Binding(names[i])
    BY <1>1 DEF Bindings
  <2> QED
    BY <2>1, BindingParts
<1>11. \A i \in DOMAIN names : i \in DOMAIN v.cols
  BY <1>1 DEF Bindings
<1>12. Bound(v)
  <2> SUFFICES ASSUME NEW i \in DOMAIN v.cols
               PROVE  /\ v.cols[i] = [name |-> v.cols[i].name, key |-> v.cols[i].key, source |-> v.cols[i].source]
                      /\ v.cols[i].source \/ v.cols[i].key \in DOMAIN v.owned
    BY <1>1 DEF Bound
  <2>1. names[i] \in ToSet(block.source) \/ names[i] \in ToSet(OwnedColumns)
    BY <1>9, <1>10 DEF ToSet
  <2>2. names[i] \in ToSet(OwnedColumns) => ColumnKey(names[i]) \in DOMAIN v.owned
    BY <1>2, <1>6 DEF Keys
  <2> QED
    BY <1>10, <2>1, <2>2
<1>13. ASSUME NEW c \in ToSet(Visible(Slots, block.internal))
       PROVE  \E i \in DOMAIN v.cols : /\ ColumnKey(v.cols[i].name) = ColumnKey(c)
                                       /\ ValueAt(v, v.cols[i]) = Current(c, n)
  <2>1. PICK m \in I : c = Slots[m]
    <3>0. IsList(Slots) /\ I \in SUBSET DOMAIN Slots
      BY <1>2, <1>4
    <3>1. ToSet(Selected(Slots, I)) = {Slots[i] : i \in I}
      BY <3>0, SelectedList
    <3>2. c \in ToSet(Selected(Slots, I))
      BY <1>4
    <3> QED
      BY <3>1, <3>2
  <2>2. /\ \A i \in DOMAIN block.source : Slots[i] = block.source[i]
        /\ \A i \in DOMAIN Slots : IF i <= Len(block.source) THEN Slots[i] = block.source[i]
                                   ELSE Slots[i] = w[i - Len(block.source)]
        /\ DOMAIN Slots = 1..(Len(block.source) + Len(w))
        /\ ToSet(Slots) = ToSet(block.source) \cup ToSet(w)
    BY <1>2, <1>4, JoinedLists
  <2>3. DOMAIN block.source = 1..Len(block.source) /\ Len(block.source) \in Nat /\ m \in Nat /\ m \in DOMAIN Slots
    BY <1>2, <1>4, <2>2, ListFacts
  <2>4. ColumnKey(c) \in K => c \in ToSet(block.source)
    <3> SUFFICES ASSUME ColumnKey(c) \in K PROVE c \in ToSet(block.source)
      OBVIOUS
    <3>1. PICK j \in DOMAIN block.source : ColumnKey(block.source[j]) = ColumnKey(c)
      BY DEF Keys, ToSet
    <3>2. ~(j \in 1..(m - 1))
      BY <1>5, <2>1, <2>2, <3>1
    <3>3. m \in DOMAIN block.source
      BY <2>2, <2>3, <3>1, <3>2
    <3> QED
      BY <2>1, <2>2, <3>3 DEF ToSet
  <2>5. c \in ToSet(block.source) => ColumnKey(c) \in K
    BY DEF Keys
  <2>6. Current(c, n) = IF ColumnKey(c) \in written THEN <<"step", ColumnKey(c), n>>
                        ELSE IF c \in ToSet(block.source) THEN <<"row", ColumnKey(c), n>> ELSE Null
    BY DEF Current, written
  <2>7. CASE c \in ToSet(block.source)
    <3>1. PICK i \in DOMAIN names : names[i] = c
      BY <1>9, <2>7 DEF ToSet
    <3>2. i \in DOMAIN v.cols /\ v.cols[i].name = c /\ v.cols[i].key = ColumnKey(c) /\ v.cols[i].source
      BY <1>10, <1>11, <2>7, <3>1
    <3>3. ValueAt(v, v.cols[i]) = IF ColumnKey(c) \in DOMAIN v.owned THEN v.owned[ColumnKey(c)]
                                  ELSE <<"row", ColumnKey(c), n>>
      BY <1>1, <3>2 DEF ValueAt
    <3>4. ColumnKey(c) \in DOMAIN v.owned <=> ColumnKey(c) \in written
      BY <1>6, <2>5, <2>7
    <3>5. ValueAt(v, v.cols[i]) = Current(c, n)
      BY <1>7, <2>6, <2>7, <3>3, <3>4
    <3> QED
      BY <3>2, <3>5
  <2>8. CASE c \notin ToSet(block.source)
    <3>1. ColumnKey(c) \in Keys(ToSet(OwnedColumns))
      <4>1. c \in ToSet(Slots)
        BY <2>1, <2>3 DEF ToSet
      <4> QED
        BY <1>2, <2>2, <2>4, <2>8, <4>1 DEF Keys
    <3>2. PICK e \in ToSet(OwnedColumns) : ColumnKey(e) = ColumnKey(c)
      BY <3>1 DEF Keys
    <3>3. e \notin ToSet(block.source)
      BY <2>4, <2>8, <3>2 DEF Keys
    <3>4. PICK i \in DOMAIN names : names[i] = e
      BY <1>9, <3>2 DEF ToSet
    <3>5. i \in DOMAIN v.cols /\ v.cols[i].name = e /\ v.cols[i].key = ColumnKey(c) /\ ~v.cols[i].source
      BY <1>10, <1>11, <3>2, <3>3, <3>4
    <3>6. ValueAt(v, v.cols[i]) = v.owned[ColumnKey(c)]
      BY <3>5 DEF ValueAt
    <3>7. ColumnKey(c) \in DOMAIN v.owned
      BY <1>2, <1>6, <3>1
    <3>8. ValueAt(v, v.cols[i]) = Current(c, n)
      BY <1>7, <2>6, <2>8, <3>6, <3>7
    <3> QED
      BY <3>2, <3>5, <3>8
  <2> QED
    BY <2>7, <2>8
<1> QED
  BY <1>8, <1>12, <1>13 DEF v, written

(* No RENAME of a target makes the name that a computed column has before  *)
(* or after the RENAME of the step.                                        *)
RenamesAfar ==
  \A r \in ToSet(block.data \o RefsOf(block.outputs)) :
    Apart(r.opts.rename, {ColumnKey(Renamed(c, RunProjection.rename)) : c \in Computed})

LEMMA OptionsAfar ==
  ASSUME block \in Blocks, OneOfEach, RenamesAside, RenamesAfar, NEW t
  PROVE  /\ IsList(RunProjection.rename) /\ Apart(RunProjection.rename, Keys(Computed))
         /\ IsList(OptionsOf(t).rename) /\ Apart(OptionsOf(t).rename, Keys(Computed))
         /\ Apart(OptionsOf(t).rename, {ColumnKey(Renamed(c, RunProjection.rename)) : c \in Computed})
<1>1. IsList(block.rename) /\ \A i \in DOMAIN block.rename : IsList(block.rename[i])
  BY BlocksAssumption
<1>2. /\ RunProjection.rename = PlannedProjection.rename /\ IsList(PlannedProjection.rename)
      /\ PlannedProjection.rename = FirstOf(block.rename)
  BY OneProjection DEF PlannedProjection
<1>3. DOMAIN <<>> = {}
  OBVIOUS
<1>4. block.rename # <<>> => 1 \in DOMAIN block.rename /\ FirstOf(block.rename) = block.rename[1]
  BY <1>1, OnlyList DEF OneOfEach
<1>5. block.rename = <<>> => FirstOf(block.rename) = <<>>
  BY DEF FirstOf
<1>6. Apart(FirstOf(block.rename), Keys(Computed))
  BY <1>3, <1>4, <1>5 DEF Apart, RenamesAside, Aside
<1> QED
  BY <1>2, <1>3, <1>6, OptionsOfTarget DEF RenamesAside, RenamesAfar, Aside, Apart

(* A column that is left has in a row of the target what it had in the     *)
(* row of the step, under its final name.                                  *)
LEMMA CellIsCurrent ==
  ASSUME block \in Blocks, OneOfEach, RenamesSpare, RenamesAside, RenamesAfar, NEW t, ~Conflicting(t),
         UniqueKeys(UnfilteredBase), UniqueKeys(UnfilteredOf(t)),
         NEW n \in DOMAIN block.rows, NEW c \in Kept(t), NEW d, ColumnKey(d) = FinalKey(c, t)
  PROVE  CellOf(TargetView(t, RowView(n, block.rows[n].written)), d) = Current(c, n)
<1> DEFINE p == RunProjection
           o == OptionsOf(t)
           v == RowView(n, block.rows[n].written)
           w == ProjectedView(v, p)
           x == ProjectedView(w, o)
           S == Projected(ViewNames(v), p)
           T == Projected(S, o)
           Later == {ColumnKey(Renamed(a, p.rename)) : a \in Computed}
<1>1. /\ Bound(v) /\ DOMAIN v.owned \subseteq Keys(Computed)
      /\ \A a \in ToSet(Visible(Slots, block.internal)) :
           \E i \in DOMAIN v.cols : /\ ColumnKey(v.cols[i].name) = ColumnKey(a)
                                    /\ ValueAt(v, v.cols[i]) = Current(a, n)
  BY StartValues
<1>2. /\ IsList(p.rename) /\ Apart(p.rename, Keys(Computed))
      /\ IsList(o.rename) /\ Apart(o.rename, Keys(Computed)) /\ Apart(o.rename, Later)
  BY OptionsAfar
<1>3. /\ UniqueKeys(S) /\ ViewNames(w) = S
      /\ UniqueKeys(T) /\ ViewNames(x) = T /\ x = TargetView(t, v) /\ IsView(x)
  BY TargetNames DEF TargetView
<1>4. /\ c \in ToSet(Visible(Slots, block.internal)) /\ Survives(c, p)
      /\ Survives(Renamed(c, p.rename), o)
      /\ ColumnKey(d) = ColumnKey(Renamed(Renamed(c, p.rename), o.rename))
  <2>1. /\ \A a : Survives(a, p) <=> Survives(a, PlannedProjection)
        /\ p.rename = PlannedProjection.rename
    BY OneProjection
  <2> HIDE DEF p, o
  <2> QED
    BY <2>1, KeptIsPlanned DEF o
<1> HIDE DEF p, o, v
<1>5. Apart(p.rename, DOMAIN v.owned)
  BY <1>1, <1>2 DEF Apart
<1>6. /\ Bound(w)
      /\ \A i \in DOMAIN v.cols : Survives(v.cols[i].name, p) =>
           \E j \in DOMAIN w.cols : /\ w.cols[j].name = Renamed(v.cols[i].name, p.rename)
                                    /\ ValueAt(w, w.cols[j]) = ValueAt(v, v.cols[i])
  BY <1>1, <1>2, <1>3, <1>5, ValuesFollow
<1>7. DOMAIN w.owned \subseteq Keys(Computed) \cup Later
  <2> SUFFICES ASSUME NEW k \in DOMAIN w.owned, k \notin DOMAIN v.owned PROVE k \in Later
    BY <1>1
  <2> DEFINE kept == KeptBindings(v, p)
  <2>1. PICK i \in DOMAIN kept : k = ColumnKey(Renamed(kept[i].name, p.rename)) /\ ColumnKey(kept[i].name) \in DOMAIN v.owned
    BY <1>1, <1>2, <1>3, <1>5, OwnedMoves DEF Bound
  <2> HIDE DEF kept, w
  <2>2. PICK a \in Computed : ColumnKey(a) = ColumnKey(kept[i].name)
    BY <1>1, <2>1 DEF Keys
  <2> QED
    BY <2>1, <2>2, RenamedByKey
<1>8. Apart(o.rename, DOMAIN w.owned)
  <2> HIDE DEF w, Later
  <2> QED
    BY <1>2, <1>7 DEF Apart
<1> HIDE DEF w, S, T
<1>9. /\ Bound(x)
      /\ \A i \in DOMAIN w.cols : Survives(w.cols[i].name, o) =>
           \E j \in DOMAIN x.cols : /\ x.cols[j].name = Renamed(w.cols[i].name, o.rename)
                                    /\ ValueAt(x, x.cols[j]) = ValueAt(w, w.cols[i])
  BY <1>2, <1>3, <1>6, <1>8, ValuesFollow DEF T
<1> HIDE DEF x
<1>10. PICK i \in DOMAIN v.cols : ColumnKey(v.cols[i].name) = ColumnKey(c) /\ ValueAt(v, v.cols[i]) = Current(c, n)
  BY <1>1, <1>4
<1>11. PICK j \in DOMAIN w.cols : /\ w.cols[j].name = Renamed(v.cols[i].name, p.rename)
                                  /\ ValueAt(w, w.cols[j]) = Current(c, n)
  BY <1>4, <1>6, <1>10, SurvivesByKey
<1>12. ColumnKey(w.cols[j].name) = ColumnKey(Renamed(c, p.rename))
  BY <1>10, <1>11, RenamedByKey
<1>13. PICK m \in DOMAIN x.cols : /\ x.cols[m].name = Renamed(w.cols[j].name, o.rename)
                                  /\ ValueAt(x, x.cols[m]) = Current(c, n)
  BY <1>4, <1>9, <1>11, <1>12, SurvivesByKey
<1>14. ColumnKey(x.cols[m].name) = ColumnKey(d)
  BY <1>4, <1>12, <1>13, RenamedByKey
<1>15. CellOf(x, d) = ValueAt(x, x.cols[m])
  BY <1>3, <1>14, CellIsValue
<1> QED
  BY <1>3, <1>13, <1>15 DEF v

-----------------------------------------------------------------------------
(* A row for each OUTPUT                                                   *)

LEMMA UniqueNameKeys ==
  ASSUME NEW names, IsList(names)
  PROVE  LET U == UniqueTargets(names)
         IN  /\ IsList(U)
             /\ \A p, q \in DOMAIN U : p # q => DatasetKey(U[p]) # DatasetKey(U[q])
             /\ \A x : (\E p \in DOMAIN U : DatasetKey(U[p]) = x) <=> (\E i \in DOMAIN names : DatasetKey(names[i]) = x)
<1> DEFINE I == {i \in DOMAIN names : \A j \in 1..(i - 1) : DatasetKey(names[j]) # DatasetKey(names[i])}
           U == UniqueTargets(names)
           at == Numbered(I)
<1>1. U = Selected(names, I) /\ I \in SUBSET DOMAIN names
  BY DEF UniqueTargets
<1>2. DOMAIN names = 1..Len(names) /\ Len(names) \in Nat
  BY ListFacts
<1>3. \A i, j \in I : i # j => DatasetKey(names[i]) # DatasetKey(names[j])
  <2> SUFFICES ASSUME NEW i \in I, NEW j \in I, i # j PROVE DatasetKey(names[i]) # DatasetKey(names[j])
    OBVIOUS
  <2>1. i \in 1..(j - 1) \/ j \in 1..(i - 1)
    BY <1>2
  <2> QED
    BY <2>1
<1>4. ASSUME NEW i \in DOMAIN names
      PROVE  \E j \in I : DatasetKey(names[j]) = DatasetKey(names[i])
  <2> DEFINE S == {j \in DOMAIN names : DatasetKey(names[j]) = DatasetKey(names[i])}
  <2>1. S \subseteq Nat /\ S # {}
    BY <1>2
  <2>2. PICK m \in S : \A n \in S : m <= n
    <3> HIDE DEF S
    <3> QED
      BY <2>1, LeastNumber
  <2>3. \A j \in 1..(m - 1) : DatasetKey(names[j]) # DatasetKey(names[m])
    BY <1>2, <2>2
  <2> QED
    BY <2>2, <2>3
<1> HIDE DEF I, U, at
<1>5. /\ IsList(U) /\ at \in [DOMAIN U -> I] /\ \A p \in DOMAIN U : U[p] = names[at[p]]
      /\ \A i \in I : \E p \in DOMAIN U : at[p] = i
      /\ \A p, q \in DOMAIN U : p # q => at[p] # at[q]
  BY <1>1, SelectedList DEF at
<1>6. \A p, q \in DOMAIN U : p # q => DatasetKey(U[p]) # DatasetKey(U[q])
  BY <1>3, <1>5
<1>7. ASSUME NEW p \in DOMAIN U PROVE \E i \in DOMAIN names : DatasetKey(names[i]) = DatasetKey(U[p])
  BY <1>1, <1>5
<1>8. ASSUME NEW i \in DOMAIN names PROVE \E p \in DOMAIN U : DatasetKey(U[p]) = DatasetKey(names[i])
  BY <1>4, <1>5
<1> QED
  BY <1>5, <1>6, <1>7, <1>8 DEF U

(* the request spells a target one way *)
ListsOnce ==
  \A i, j \in DOMAIN block.explicit :
    DatasetKey(block.explicit[i]) = DatasetKey(block.explicit[j]) => block.explicit[i] = block.explicit[j]

LEMMA ListOfTop ==
  ASSUME block \in Blocks
  PROVE  /\ IsList(RefsOf(TopOutputs)) /\ IsList(NamesOf(block.data) \o NamesOf(RefsOf(TopOutputs)))
         /\ block.outputs = <<>> => RefsOf(TopOutputs) = <<>>
<1> DEFINE I == {i \in DOMAIN block.outputs : ~block.outputs[i].inline}
<1>1. TopOutputs = Selected(block.outputs, I) /\ I \in SUBSET DOMAIN block.outputs
  BY DEF TopOutputs
<1> HIDE DEF I
<1>2. /\ IsList(TopOutputs)
      /\ \A p \in DOMAIN TopOutputs : \E i \in DOMAIN block.outputs : TopOutputs[p] = block.outputs[i]
  BY <1>1, SelectedList, ListsOfBlock
<1>3. /\ IsList(RefsOf(TopOutputs))
      /\ \A n \in DOMAIN RefsOf(TopOutputs) :
           \E i \in DOMAIN TopOutputs : RefsOf(TopOutputs)[n] \in ToSet(TopOutputs[i].refs)
  BY <1>2, ListsOfBlock, ListOfReferences
<1>4. IsList(NamesOf(block.data) \o NamesOf(RefsOf(TopOutputs)))
  BY <1>3, NamesList, ListsOfBlock, JoinedLists
<1>5. ASSUME block.outputs = <<>> PROVE RefsOf(TopOutputs) = <<>>
  <2>1. DOMAIN RefsOf(TopOutputs) = {}
    <3>1. DOMAIN <<>> = {}
      OBVIOUS
    <3>2. DOMAIN block.outputs = {}
      BY <1>5, <3>1
    <3>3. DOMAIN TopOutputs = {}
      BY ONLY <1>2, <3>2, ListFacts
    <3> QED
      BY ONLY <1>3, <3>3
  <2> QED
    BY <1>3, <2>1, EmptySeq DEF IsList
<1> QED
  BY <1>3, <1>4, <1>5

LEMMA TargetsSpelledOnce ==
  ASSUME block \in Blocks, ListsOnce, NEW t \in ToSet(ResolvedTargets), NEW u \in ToSet(ResolvedTargets),
         DatasetKey(t) = DatasetKey(u)
  PROVE  t = u
<1>1. CASE block.explicit # <<>>
  BY <1>1 DEF ResolvedTargets, ListsOnce, ToSet
<1>2. CASE block.explicit = <<>>
  <2> DEFINE names == NamesOf(block.data) \o NamesOf(RefsOf(TopOutputs))
             U == UniqueTargets(names)
  <2>1. ResolvedTargets = U
    BY <1>2 DEF ResolvedTargets
  <2>2. IsList(names)
    BY ListOfTop
  <2> HIDE DEF names
  <2>3. \A p, q \in DOMAIN U : p # q => DatasetKey(U[p]) # DatasetKey(U[q])
    BY <2>2, UniqueNameKeys
  <2> HIDE DEF U
  <2> QED
    BY <2>1, <2>3 DEF ToSet
<1> QED
  BY <1>1, <1>2

(* the keys of the targets that an OUTPUT statement names *)
KeysReached(o) ==
  LET Names == {DatasetKey(n) : n \in ToSet(NamesOf(o.refs))}
  IN  IF Names = {} THEN {DatasetKey(DefaultTarget)} ELSE Names

LEMMA ReachedOnce ==
  ASSUME NEW o, IsList(o.refs)
  PROVE  /\ IsList(Reached(o))
         /\ \A p, q \in DOMAIN Reached(o) : p # q => DatasetKey(Reached(o)[p]) # DatasetKey(Reached(o)[q])
         /\ \A x : (\E p \in DOMAIN Reached(o) : DatasetKey(Reached(o)[p]) = x) <=> x \in KeysReached(o)
<1> DEFINE names == NamesOf(o.refs)
           Names == {DatasetKey(n) : n \in ToSet(names)}
<1>1. IsList(names) /\ DOMAIN names = DOMAIN o.refs
  BY NamesList
<1>2. KeysReached(o) = IF Names = {} THEN {DatasetKey(DefaultTarget)} ELSE Names
  BY DEF KeysReached
<1>3. CASE o.refs = <<>>
  <2>1. Reached(o) = <<DefaultTarget>>
    BY <1>3 DEF Reached
  <2>2. IsList(<<DefaultTarget>>) /\ DOMAIN <<DefaultTarget>> = {1} /\ <<DefaultTarget>>[1] = DefaultTarget
    BY DEF IsList, ToSet
  <2>3. Names = {}
    <3>1. DOMAIN <<>> = {}
      OBVIOUS
    <3> QED
      BY <1>1, <1>3, <3>1 DEF ToSet
  <2> QED
    BY <1>2, <2>1, <2>2, <2>3
<1>4. CASE o.refs # <<>>
  <2>1. Reached(o) = UniqueTargets(names)
    BY <1>4 DEF Reached
  <2>2. DOMAIN o.refs # {}
    <3>1. o.refs = [i \in 1..Len(o.refs) |-> o.refs[i]] /\ Len(o.refs) \in Nat
      BY ListFacts
    <3>2. Len(o.refs) # 0
      BY <1>4 DEF IsList
    <3> QED
      BY <3>1, <3>2
  <2>3. Names = {DatasetKey(names[i]) : i \in DOMAIN names}
    BY DEF ToSet
  <2> HIDE DEF Names, names
  <2>4. KeysReached(o) = {DatasetKey(names[i]) : i \in DOMAIN names}
    BY <1>1, <1>2, <2>2, <2>3
  <2> QED
    BY <1>1, <2>1, <2>4, UniqueNameKeys
<1> QED
  BY <1>3, <1>4

(* where a list names x, and which of several lists do *)
NamedAt(s, x) == {p \in DOMAIN s : DatasetKey(s[p]) = x}
PartsNaming(parts, x) == {j \in DOMAIN parts : \E n \in DOMAIN parts[j] : DatasetKey(parts[j][n]) = x}

(* Of lists that name nothing twice, as many name x as x is named in all.  *)
LEMMA NamedByParts ==
  ASSUME NEW parts, IsList(parts), \A j \in DOMAIN parts : IsList(parts[j]),
         \A j \in DOMAIN parts : \A p, q \in DOMAIN parts[j] :
           p # q => DatasetKey(parts[j][p]) # DatasetKey(parts[j][q]),
         NEW x
  PROVE  Cardinality(NamedAt(Joined(parts), x)) = Cardinality(PartsNaming(parts, x))
<1> DEFINE V == UNION {ToSet(parts[i]) : i \in DOMAIN parts}
           J == Joined(parts)
           L == PlacesInTurn(parts)
           A == {p \in DOMAIN J : DatasetKey(J[p]) = x}
           B == {j \in DOMAIN parts : \E n \in DOMAIN parts[j] : DatasetKey(parts[j][n]) = x}
           f == [p \in A |-> L[p][1]]
<1>1. parts \in Seq(Seq(V))
  <2>1. \A i \in DOMAIN parts : parts[i] \in Seq(V)
    <3> SUFFICES ASSUME NEW i \in DOMAIN parts PROVE parts[i] \in Seq(V)
      OBVIOUS
    <3>1. parts[i] \in Seq(ToSet(parts[i])) /\ ToSet(parts[i]) \subseteq V
      BY DEF IsList
    <3> HIDE DEF V
    <3> QED
      BY <3>1
  <2> HIDE DEF V
  <2>2. DOMAIN parts = 1..Len(parts) /\ Len(parts) \in Nat /\ parts = [i \in 1..Len(parts) |-> parts[i]]
    BY ListFacts
  <2> QED
    BY <2>1, <2>2
<1> HIDE DEF V
<1>2. /\ DOMAIN J = 1..Cardinality(Places(parts)) /\ Cardinality(Places(parts)) \in Nat
      /\ \A p \in DOMAIN J : /\ L[p] = <<L[p][1], L[p][2]>> /\ L[p][1] \in DOMAIN parts
                             /\ L[p][2] \in DOMAIN parts[L[p][1]] /\ J[p] = parts[L[p][1]][L[p][2]]
      /\ \A k \in DOMAIN parts : \A n \in DOMAIN parts[k] : \E p \in DOMAIN J : L[p] = <<k, n>>
      /\ \A p, q \in DOMAIN J : p < q => <<L[p], L[q]>> \in InTurn(Places(parts))
  BY ONLY <1>1, JoinedInOrder
<1>3. \A j \in DOMAIN parts : DOMAIN parts[j] = 1..Len(parts[j]) /\ Len(parts[j]) \in Nat
  BY ListFacts
<1>4. IsFiniteSet(A)
  <2>1. IsFiniteSet(1..Cardinality(Places(parts))) /\ A \subseteq 1..Cardinality(Places(parts))
    BY <1>2, FS_Interval
  <2> HIDE DEF A
  <2> QED
    BY <2>1, FS_Subset
<1> HIDE DEF J, L
<1>5. f \in [A -> B]
  <2> SUFFICES ASSUME NEW p \in A PROVE L[p][1] \in B
    OBVIOUS
  <2>1. p \in DOMAIN J /\ DatasetKey(J[p]) = x
    OBVIOUS
  <2> QED
    BY <1>2, <2>1
<1>6. ASSUME NEW p \in A, NEW q \in A, f[p] = f[q], p < q PROVE FALSE
  <2>1. L[p][1] = L[q][1] /\ p \in DOMAIN J /\ q \in DOMAIN J /\ DatasetKey(J[p]) = x /\ DatasetKey(J[q]) = x
    BY <1>6
  <2>2. <<L[p], L[q]>> \in InTurn(Places(parts))
    BY <1>2, <1>6, <2>1
  <2>3. L[p][1] < L[q][1] \/ L[p][2] < L[q][2]
    BY <2>2 DEF InTurn
  <2>4. L[p][1] \in Int /\ L[p][2] \in Int /\ L[q][2] \in Int
    <3>1. DOMAIN parts = 1..Len(parts) /\ Len(parts) \in Nat
      BY ListFacts
    <3>2. L[p][1] \in DOMAIN parts /\ L[p][2] \in DOMAIN parts[L[p][1]] /\ L[q][2] \in DOMAIN parts[L[p][1]]
      BY <1>2, <2>1
    <3>3. DOMAIN parts[L[p][1]] = 1..Len(parts[L[p][1]]) /\ Len(parts[L[p][1]]) \in Nat
      BY <1>3, <3>2
    <3> QED
      BY <3>1, <3>2, <3>3
  <2>5. L[p][2] # L[q][2]
    BY <2>1, <2>3, <2>4
  <2> QED
    BY <1>2, <2>1, <2>5
<1>7. ASSUME NEW j \in B PROVE \E p \in A : f[p] = j
  <2>1. PICK n \in DOMAIN parts[j] : j \in DOMAIN parts /\ DatasetKey(parts[j][n]) = x
    BY <1>7
  <2>2. PICK p \in DOMAIN J : L[p] = <<j, n>>
    BY <1>2, <2>1
  <2>3. J[p] = parts[j][n] /\ L[p][1] = j
    BY <1>2, <2>2
  <2> QED
    BY <2>1, <2>3
<1>8. A \subseteq Int
  BY <1>2
<1> HIDE DEF A, B, f
<1>9. \A p, q \in A : f[p] = f[q] => p = q
  BY <1>6, <1>8
<1>10. f \in Bijection(A, B)
  BY <1>5, <1>7, <1>9 DEF Bijection, Injection, Surjection, IsInjective
<1>11. Cardinality(A) = Cardinality(B)
  BY <1>4, <1>10, FS_Bijection DEF ExistsBijection
<1> QED
  BY <1>11 DEF A, B, J, NamedAt, PartsNaming

(* The router sends a row to a target as often as the program says.        *)
LEMMA RoutedAsSent ==
  ASSUME block \in Blocks, ListsOnce, targets = ResolvedTargets, NEW t \in ToSet(targets),
         NEW n \in DOMAIN block.rows
  PROVE  LET route == Route(block.rows[n])
         IN  /\ Cardinality(NamedAt(route, DatasetKey(t))) = Sends(block.rows[n], t)
             /\ Sends(block.rows[n], t) \in Nat
<1> DEFINE r == block.rows[n]
           route == Route(r)
           here == NamedAt(route, DatasetKey(t))
           parts == [j \in DOMAIN r.fired |-> Reached(block.outputs[r.fired[j]])]
<1>1. Cardinality(here) \in Nat
  <2>1. IsFiniteSet(DOMAIN route) /\ here \subseteq DOMAIN route
    BY RouteIsList, ListFacts DEF NamedAt
  <2> HIDE DEF here, route
  <2> QED
    BY <2>1, FS_Subset, FS_CardinalityType
<1>2. route = IF SuppressImplicit THEN Joined(parts) ELSE <<DefaultTarget>>
  BY DEF Route
<1>3. CASE block.outputs = <<>>
  <2>1. DefaultTarget = targets[1]
    BY <1>3, ListOfTop DEF DefaultTarget
  <2>2. targets[1] \in ToSet(targets)
    <3>1. IsList(targets) /\ DOMAIN targets # {}
      BY ResolvedList DEF ToSet
    <3>2. DOMAIN targets = 1..Len(targets) /\ Len(targets) \in Nat
      BY <3>1, ListFacts
    <3> QED
      BY <3>1, <3>2 DEF ToSet
  <2>3. DatasetKey(targets[1]) = DatasetKey(t) <=> t = targets[1]
    BY <2>2, TargetsSpelledOnce
  <2>4. route = <<targets[1]>>
    BY <1>2, <1>3, <2>1 DEF SuppressImplicit
  <2>5. here = IF t = targets[1] THEN {1} ELSE {}
    <3>1. DOMAIN route = {1} /\ route[1] = targets[1]
      BY <2>4
    <3> HIDE DEF route
    <3> QED
      BY <2>3, <3>1 DEF NamedAt
  <2>6. Sends(r, t) = IF t = targets[1] THEN 1 ELSE 0
    BY <1>3 DEF Sends
  <2> HIDE DEF here, r
  <2>7. Cardinality(here) = Sends(r, t)
    BY <2>5, <2>6, FS_Singleton, FS_EmptySet
  <2> QED
    BY <1>1, <2>7 DEF here, r
<1>4. CASE block.outputs # <<>>
  <2> DEFINE x == DatasetKey(t)
             B == PartsNaming(parts, x)
             Q == {j \in DOMAIN r.fired : x \in KeysReached(block.outputs[r.fired[j]])}
  <2>1. route = Joined(parts)
    BY <1>2, <1>4 DEF SuppressImplicit
  <2>2. IsList(r.fired) /\ \A j \in DOMAIN r.fired : r.fired[j] \in DOMAIN block.outputs
    BY BlocksAssumption DEF ToSet
  <2>3. Sends(r, t) = Cardinality(Q)
    BY <1>4 DEF Sends, KeysReached
  <2>4. ASSUME NEW j \in DOMAIN r.fired
        PROVE  /\ IsList(parts[j])
               /\ \A p, q \in DOMAIN parts[j] : p # q => DatasetKey(parts[j][p]) # DatasetKey(parts[j][q])
               /\ \A y : (\E p \in DOMAIN parts[j] : DatasetKey(parts[j][p]) = y)
                           <=> y \in KeysReached(block.outputs[r.fired[j]])
    <3>1. parts[j] = Reached(block.outputs[r.fired[j]]) /\ IsList(block.outputs[r.fired[j]].refs)
      BY <2>2, ListsOfBlock
    <3> HIDE DEF r, parts
    <3> QED
      BY <3>1, ReachedOnce
  <2>5. DOMAIN parts = DOMAIN r.fired
    OBVIOUS
  <2>6. IsList(parts)
    <3>1. DOMAIN r.fired = 1..Len(r.fired) /\ Len(r.fired) \in Nat
      BY <2>2, ListFacts
    <3>2. parts = [j \in 1..Len(r.fired) |-> parts[j]]
      BY <3>1
    <3> HIDE DEF parts, r
    <3> QED
      BY <3>1, <3>2, MappedList
  <2> HIDE DEF parts, r, route
  <2>7. B = Q
    BY <2>4, <2>5 DEF PartsNaming
  <2> HIDE DEF B, Q
  <2>8. Cardinality(here) = Cardinality(B)
    <3> HIDE DEF x
    <3>1. \A j \in DOMAIN parts : IsList(parts[j])
      BY <2>4, <2>5
    <3>2. \A j \in DOMAIN parts : \A p, q \in DOMAIN parts[j] :
            p # q => DatasetKey(parts[j][p]) # DatasetKey(parts[j][q])
      BY <2>4, <2>5
    <3>3. Cardinality(NamedAt(Joined(parts), x)) = Cardinality(B)
      BY ONLY <2>6, <3>1, <3>2, NamedByParts DEF B
    <3> QED
      BY <2>1, <3>3 DEF x
  <2>9. Cardinality(here) = Sends(r, t)
    BY <2>3, <2>7, <2>8
  <2> QED
    BY <1>1, <2>9 DEF r, route
<1> QED
  BY <1>3, <1>4

(* what the program sends to a target from the first n rows *)
SentBefore(n, t) == Joined([m \in 1..n |-> [i \in 1..Sends(block.rows[m], t) |-> m]])

LEMMA SentMore ==
  ASSUME block \in Blocks, ListsOnce, targets = ResolvedTargets, NEW t \in ToSet(targets),
         NEW n \in Nat, n <= Len(block.rows)
  PROVE  LET J == SentBefore(n, t)
             A == SentBefore(n + 1, t)
             s == Sends(block.rows[n + 1], t)
         IN  /\ Len(J) \in Nat /\ DOMAIN J = 1..Len(J) /\ \A i \in DOMAIN J : J[i] \in DOMAIN block.rows
             /\ n + 1 \in DOMAIN block.rows =>
                  /\ s \in Nat /\ Len(A) = Len(J) + s /\ DOMAIN A = 1..Len(A)
                  /\ \A i \in DOMAIN J : A[i] = J[i]
                  /\ \A i \in 1..s : A[Len(J) + i] = n + 1
<1> DEFINE V == DOMAIN block.rows
           s(m) == Sends(block.rows[m], t)
           part(m) == [i \in 1..s(m) |-> m]
           parts == [m \in 1..n |-> part(m)]
           more == [m \in 1..(n + 1) |-> part(m)]
           J == SentBefore(n, t)
           A == SentBefore(n + 1, t)
<1>1. V = 1..Len(block.rows) /\ Len(block.rows) \in Nat
  BY ListsOfBlock, ListFacts
<1>2. \A m \in V : s(m) \in Nat
  BY RoutedAsSent
<1>3. J = Joined(parts) /\ A = Joined(more)
  BY DEF SentBefore
<1> HIDE DEF s, V, J, A
<1>4. \A m \in V : part(m) \in Seq(V) /\ Len(part(m)) = s(m) /\ DOMAIN part(m) = 1..s(m)
  BY <1>2
<1>5. \A m \in 1..n : m \in V
  BY <1>1
<1>6. parts \in Seq(Seq(V)) /\ Len(parts) = n /\ \A m \in 1..n : parts[m] = part(m)
  BY <1>4, <1>5
<1>7. /\ J \in Seq(V) /\ DOMAIN J = 1..Len(J) /\ Len(J) \in Nat
  <2> HIDE DEF parts
  <2>1. J \in Seq(V)
    BY ONLY <1>3, <1>6, JoinedInOrder
  <2> QED
    BY <2>1
<1>8. \A i \in DOMAIN J : J[i] \in V
  BY <1>7
<1>9. ASSUME n + 1 \in V
      PROVE  /\ s(n + 1) \in Nat /\ Len(A) = Len(J) + s(n + 1) /\ DOMAIN A = 1..Len(A)
             /\ \A i \in DOMAIN J : A[i] = J[i]
             /\ \A i \in 1..s(n + 1) : A[Len(J) + i] = n + 1
  <2>1. \A m \in 1..(n + 1) : m \in V
    BY <1>5, <1>9
  <2>2. /\ more \in Seq(Seq(V)) /\ Len(more) = n + 1 /\ DOMAIN parts = 1..n
        /\ \A m \in 1..(n + 1) : more[m] = part(m)
    BY <1>4, <2>1
  <2>3. n + 1 \in 1..(n + 1) /\ \A m \in 1..n : m \in 1..(n + 1)
    OBVIOUS
  <2>4. /\ Len(part(n + 1)) = s(n + 1) /\ DOMAIN part(n + 1) = 1..s(n + 1) /\ s(n + 1) \in Nat
        /\ \A i \in 1..s(n + 1) : part(n + 1)[i] = n + 1
    BY <1>2, <1>4, <1>9
  <2> DEFINE last == part(n + 1)
  <2>5. more[n + 1] = last /\ \A m \in DOMAIN parts : more[m] = parts[m]
    BY <1>6, <2>2, <2>3
  <2> HIDE DEF parts, more, part, last
  <2>6. /\ Len(A) = Len(J) + Len(last) /\ DOMAIN A = 1..Len(A)
        /\ \A i \in DOMAIN J : A[i] = J[i]
        /\ \A i \in DOMAIN last : A[Len(J) + i] = last[i]
    <3>1. /\ parts \in Seq(Seq(V)) /\ more \in Seq(Seq(V)) /\ Len(more) = Len(parts) + 1
          /\ \A m \in DOMAIN parts : more[m] = parts[m]
      BY ONLY <1>6, <2>2, <2>5
    <3>2. LET j == Joined(parts)
              a == Joined(more)
              e == more[Len(parts) + 1]
          IN  /\ Len(a) = Len(j) + Len(e) /\ DOMAIN a = 1..Len(a)
              /\ \A i \in DOMAIN j : a[i] = j[i]
              /\ \A i \in DOMAIN e : a[Len(j) + i] = e[i]
      BY ONLY <3>1, JoinedMore
    <3>3. more[Len(parts) + 1] = last
      BY ONLY <1>6, <2>5
    <3>4. J = Joined(parts) /\ A = Joined(more)
      BY <1>3
    <3> QED
      BY ONLY <3>2, <3>3, <3>4
  <2> QED
    BY <2>4, <2>6 DEF last
<1> QED
  BY <1>7, <1>8, <1>9 DEF V, s, J, A

(* What the later stages still know: the targets of the request, the plan  *)
(* that shaping accepted for each of them, that all rows were read, and    *)
(* that the tables hold what was built, without the hidden columns.        *)
Shaped == {"check", "rows", "finalize", "metadata", "present", "delivered"}
Reading == Shaped \ {"check"}
Planned ==
  /\ targets = <<>> \/ targets = ResolvedTargets
  /\ \A t \in ToSet(targets) : ~Conflicting(t)
  /\ phase \in {"validate", "targets", "shape", "check"} => next = 1
  /\ phase \in Shaped =>
       /\ UniqueKeys(UnfilteredBase)
       /\ \A t \in ToSet(targets) : UniqueKeys(UnfilteredOf(t)) /\ columns[t] = ShapedColumns(t)
  /\ phase \in Reading \ {"rows"} => next = Len(block.rows) + 1
(* each target has had its rows, each with the cells of its place          *)
HasRows(t) ==
  LET sent == SentBefore(next - 1, t)
  IN  /\ Len(built[t]) = Len(sent)
      /\ \A i \in DOMAIN sent : built[t][i] = CellsOf(t, sent[i])
RowsAsSent == ListsOnce /\ phase \in Reading => \A t \in ToSet(targets) : HasRows(t)
IsFinalized(t) == filtered[t].cols = Unhidden(t) /\ filtered[t].rows = FinalizedTable(t).rows
TablesAsBuilt == \A t \in DOMAIN filtered : IsFinalized(t)
Following == Planned /\ RowsAsSent /\ TablesAsBuilt

(* what is planned and sent depends on the block and the targets only *)
LEMMA SameReading ==
  ASSUME block' = block
  PROVE  /\ ResolvedTargets' = ResolvedTargets /\ (ListsOnce' <=> ListsOnce)
         /\ UnfilteredBase' = UnfilteredBase
         /\ \A t : /\ Conflicting(t)' <=> Conflicting(t)
                   /\ UnfilteredOf(t)' = UnfilteredOf(t) /\ ShapedColumns(t)' = ShapedColumns(t)
                   /\ HiddenOf(t)' = HiddenOf(t) /\ OptionsOf(t)' = OptionsOf(t)
<1>1. ResolvedTargets' = ResolvedTargets
  BY DEF ResolvedTargets, TopOutputs, RefsOf
<1>2. ListsOnce' <=> ListsOnce
  BY DEF ListsOnce
<1>3. UnfilteredBase' = UnfilteredBase /\ \A t : UnfilteredOf(t)' = UnfilteredOf(t)
  BY SamePlan
<1>4. \A t : HiddenOf(t)' = HiddenOf(t)
  BY SameHidden
<1>5. ASSUME NEW t
      PROVE  (Conflicting(t)' <=> Conflicting(t)) /\ OptionsOf(t)' = OptionsOf(t)
  <2>1. References(t)' = References(t)
    BY DEF References, RefsOf
  <2>2. OptionsOf(t)' = OptionsOf(t)
    BY <2>1 DEF OptionsOf
  <2> QED
    BY <2>1, <2>2 DEF Conflicting
<1>6. ShapingHidden' = ShapingHidden
  BY DEF ShapingHidden, Hidden, PlannedProjection
<1>7. \A t : ShapedColumns(t)' = ShapedColumns(t)
  BY <1>3, <1>5, <1>6 DEF ShapedColumns
<1> QED
  BY <1>1, <1>2, <1>3, <1>4, <1>5, <1>7

LEMMA SameCells ==
  ASSUME UNCHANGED <<block, targets, columns>>
  PROVE  /\ \A t, n : CellsOf(t, n)' = CellsOf(t, n)
         /\ \A t, n : SentBefore(n, t)' = SentBefore(n, t)
         /\ \A t : Unhidden(t)' = Unhidden(t)
<1>1. block' = block /\ targets' = targets /\ columns' = columns
  OBVIOUS
<1>2. \A t : BuiltColumns(t)' = BuiltColumns(t) /\ OptionsOf(t)' = OptionsOf(t) /\ HiddenOf(t)' = HiddenOf(t)
  BY SameBuiltColumns, SameReading
<1>3. RunProjection' = RunProjection
  BY <1>1 DEF RunProjection
<1>4. ASSUME NEW t, NEW n PROVE CellsOf(t, n)' = CellsOf(t, n)
  <2>1. RowView(n, block.rows[n].written)' = RowView(n, block.rows[n].written)
    BY <1>1 DEF RowView, OwnedColumns, Binding
  <2> QED
    BY <1>2, <1>3, <2>1 DEF CellsOf, TargetView
<1>5. DefaultTarget' = DefaultTarget
  BY <1>1 DEF DefaultTarget, TopOutputs, RefsOf
<1>6. ASSUME NEW r, NEW t PROVE Sends(r, t)' = Sends(r, t)
  BY <1>1, <1>5 DEF Sends
<1>7. \A t, n : SentBefore(n, t)' = SentBefore(n, t)
  BY <1>1, <1>6 DEF SentBefore
<1>8. \A t : Unhidden(t)' = Unhidden(t)
  BY <1>2 DEF Unhidden
<1> QED
  BY <1>4, <1>7, <1>8
LEMMA SentNothing ==
  ASSUME NEW t
  PROVE  Len(SentBefore(0, t)) = 0 /\ DOMAIN SentBefore(0, t) = {}
<1> DEFINE parts == [m \in 1..0 |-> [i \in 1..Sends(block.rows[m], t) |-> m]]
           J == Joined(parts)
<1>1. parts \in Seq(Seq(Nat)) /\ DOMAIN parts = {}
  <2>1. 1..0 = {} /\ DOMAIN parts = 1..0
    OBVIOUS
  <2>2. parts = <<>>
    <3> HIDE DEF parts
    <3>1. \A m \in DOMAIN parts : parts[m] \in Seq(Nat)
      BY <2>1
    <3> QED
      BY <2>1 DEF parts
  <2> QED
    BY <2>1, <2>2
<1> HIDE DEF parts
<1>2. /\ Len(J) = Cardinality(Places(parts)) /\ DOMAIN J = 1..Cardinality(Places(parts)) /\ Cardinality(Places(parts)) \in Nat
      /\ \A p \in DOMAIN J : PlacesInTurn(parts)[p][1] \in DOMAIN parts
  BY ONLY <1>1, JoinedInOrder
<1>3. DOMAIN J = {}
  BY <1>1, <1>2
<1>4. Len(J) = 0
  <2> HIDE DEF J
  <2> QED
    BY <1>2, <1>3
<1> QED
  BY <1>3, <1>4 DEF SentBefore, J, parts

(* a step that moves no row *)
LEMMA FollowingKept ==
  ASSUME Following, UNCHANGED <<block, targets, columns, next, built, filtered>>,
         phase' \in Shaped => phase \in Shaped,
         phase' \in Reading => phase \in Reading,
         phase' \in {"validate", "targets", "shape", "check"} => next = 1,
         phase' \in Reading \ {"rows"} => next = Len(block.rows) + 1
  PROVE  Following'
<1>1. /\ ResolvedTargets' = ResolvedTargets /\ (ListsOnce' <=> ListsOnce)
      /\ UnfilteredBase' = UnfilteredBase
      /\ \A t : /\ Conflicting(t)' <=> Conflicting(t)
                /\ UnfilteredOf(t)' = UnfilteredOf(t) /\ ShapedColumns(t)' = ShapedColumns(t)
  BY SameReading
<1>2. /\ \A t, n : CellsOf(t, n)' = CellsOf(t, n)
      /\ \A t, n : SentBefore(n, t)' = SentBefore(n, t)
      /\ \A t : Unhidden(t)' = Unhidden(t)
  BY SameCells
<1>3. Planned'
  BY <1>1 DEF Following, Planned, Shaped, Reading
<1>4. \A t : HasRows(t)' <=> HasRows(t)
  BY <1>2 DEF HasRows
<1>5. RowsAsSent'
  BY <1>1, <1>4 DEF Following, RowsAsSent, Reading, Shaped
<1>6. \A t : FinalizedTable(t)' = FinalizedTable(t)
  BY <1>2 DEF FinalizedTable
<1>7. TablesAsBuilt'
  BY <1>2, <1>6 DEF Following, TablesAsBuilt, IsFinalized
<1> QED
  BY <1>3, <1>5, <1>7 DEF Following

LEMMA FollowingRefuse ==
  ASSUME Following, NEW c, Refuse(c)
  PROVE  Following'
BY FollowingKept DEF Refuse, Shaped, Reading

LEMMA FollowingTargets ==
  ASSUME Prepared, Following, PlanTargets
  PROVE  Following'
<1>1. CASE \E c : Refuse(c)
  BY <1>1, FollowingRefuse
<1>2. CASE ~ \E c : Refuse(c)
  <2>1. /\ phase = "targets" /\ phase' = "shape" /\ targets' = ResolvedTargets
        /\ \A i \in DOMAIN ResolvedTargets : ~Conflicting(ResolvedTargets[i])
        /\ UNCHANGED <<block, columns, next, built, filtered>>
    BY <1>2 DEF PlanTargets
  <2>2. /\ ResolvedTargets' = ResolvedTargets /\ \A t : Conflicting(t)' <=> Conflicting(t)
    BY <2>1, SameReading
  <2>3. filtered' = <<>> /\ next' = 1 /\ DOMAIN <<>> = {}
    BY <2>1 DEF Prepared, Staged, Following, Planned
  <2>4. Planned'
    <3>1. \A t \in ToSet(targets') : ~Conflicting(t)'
      BY <2>1, <2>2 DEF ToSet
    <3> QED
      BY <2>1, <2>2, <2>3, <3>1 DEF Planned, Shaped, Reading
  <2> QED
    BY <2>1, <2>3, <2>4 DEF Following, RowsAsSent, TablesAsBuilt, Reading, Shaped
<1> QED
  BY <1>1, <1>2

LEMMA FollowingShape ==
  ASSUME Prepared, Following, ShapeOutputs
  PROVE  Following'
<1>1. CASE \E c : Refuse(c)
  BY <1>1, FollowingRefuse
<1>2. CASE ~ \E c : Refuse(c)
  <2>1. /\ phase = "shape" /\ phase' = "check"
        /\ columns' = [t \in ToSet(targets) |-> ShapedColumns(t)]
        /\ UniqueKeys(UnfilteredBase) /\ \A i \in DOMAIN targets : UniqueKeys(UnfilteredOf(targets[i]))
        /\ UNCHANGED <<block, targets, next, built, filtered>>
    BY <1>2 DEF ShapeOutputs, ProjectionCollides
  <2>2. /\ ResolvedTargets' = ResolvedTargets /\ UnfilteredBase' = UnfilteredBase
        /\ \A t : /\ Conflicting(t)' <=> Conflicting(t)
                  /\ UnfilteredOf(t)' = UnfilteredOf(t) /\ ShapedColumns(t)' = ShapedColumns(t)
    BY <2>1, SameReading
  <2>3. filtered' = <<>> /\ next' = 1 /\ DOMAIN <<>> = {}
    BY <2>1 DEF Prepared, Staged, Following, Planned
  <2>4. \A t \in ToSet(targets) : UniqueKeys(UnfilteredOf(t)) /\ columns'[t] = ShapedColumns(t)
    BY <2>1 DEF ToSet
  <2>5. Planned'
    BY <2>1, <2>2, <2>3, <2>4 DEF Following, Planned, Shaped, Reading
  <2> QED
    BY <2>1, <2>3, <2>5 DEF Following, RowsAsSent, TablesAsBuilt, Reading, Shaped
<1> QED
  BY <1>1, <1>2

LEMMA FollowingCheck ==
  ASSUME Prepared, Following, CheckViews
  PROVE  Following'
<1>1. CASE \E c : Refuse(c)
  BY <1>1, FollowingRefuse
<1>2. CASE ~ \E c : Refuse(c)
  <2>1. /\ phase = "check" /\ phase' = "rows" /\ built' = [t \in ToSet(targets) |-> <<>>]
        /\ UNCHANGED <<block, targets, columns, next, filtered>>
    BY <1>2 DEF CheckViews
  <2>2. /\ ResolvedTargets' = ResolvedTargets /\ UnfilteredBase' = UnfilteredBase
        /\ \A t : /\ Conflicting(t)' <=> Conflicting(t)
                  /\ UnfilteredOf(t)' = UnfilteredOf(t) /\ ShapedColumns(t)' = ShapedColumns(t)
    BY <2>1, SameReading
  <2>3. filtered' = <<>> /\ next' = 1 /\ DOMAIN <<>> = {}
    BY <2>1 DEF Prepared, Staged, Following, Planned
  <2>4. Planned'
    BY <2>1, <2>2, <2>3 DEF Following, Planned, Shaped, Reading
  <2>5. ASSUME NEW t \in ToSet(targets) PROVE HasRows(t)'
    <3>1. Len(SentBefore(0, t)) = 0 /\ DOMAIN SentBefore(0, t) = {}
      BY SentNothing
    <3>2. SentBefore(0, t)' = SentBefore(0, t) /\ built'[t] = <<>> /\ next' - 1 = 0
      BY <2>1, <2>3, SameCells
    <3>3. SentBefore(next - 1, t)' = SentBefore(0, t)
      BY <3>2 DEF SentBefore
    <3> QED
      BY <3>1, <3>2, <3>3 DEF HasRows
  <2>6. RowsAsSent'
    BY <2>1, <2>5 DEF RowsAsSent
  <2> QED
    BY <2>3, <2>4, <2>6 DEF Following, TablesAsBuilt
<1> QED
  BY <1>1, <1>2

(* the rows that a target gets from the next row of the stream *)
LEMMA OneRowMore ==
  ASSUME Prepared, Following, ListsOnce, phase = "rows", next \in DOMAIN block.rows, NEW t \in ToSet(targets)
  PROVE  LET sent == SentBefore(next, t)
             more == [i \in 1..Cardinality(NamedAt(Route(block.rows[next]), DatasetKey(t))) |-> CellsOf(t, next)]
             all == built[t] \o more
         IN  Len(all) = Len(sent) /\ \A i \in DOMAIN sent : all[i] = CellsOf(t, sent[i])
<1> DEFINE J == SentBefore(next - 1, t)
           A == SentBefore(next, t)
           s == Sends(block.rows[next], t)
           cells == CellsOf(t, next)
           more == [i \in 1..s |-> cells]
           B == built[t]
           all == B \o more
<1>1. /\ block \in Blocks /\ targets = ResolvedTargets /\ IsList(B) /\ HasRows(t)
      /\ DOMAIN block.rows = 1..Len(block.rows) /\ Len(block.rows) \in Nat
  <2>1. block \in Blocks /\ DOMAIN built = ToSet(targets) /\ (targets = <<>> \/ targets = ResolvedTargets)
    BY DEF Prepared, Staged, Following, Planned
  <2>2. targets # <<>>
    <3>1. DOMAIN <<>> = {}
      OBVIOUS
    <3> QED
      BY <3>1 DEF ToSet
  <2>3. HasRows(t)
    BY DEF Following, RowsAsSent, Reading, Shaped
  <2>4. IsList(B)
    BY <2>1 DEF Prepared, BuiltRows
  <2> QED
    BY <2>1, <2>2, <2>3, <2>4, ListsOfBlock, ListFacts
<1>2. Cardinality(NamedAt(Route(block.rows[next]), DatasetKey(t))) = s /\ s \in Nat
  BY <1>1, RoutedAsSent
<1>3. next - 1 \in Nat /\ next - 1 <= Len(block.rows) /\ (next - 1) + 1 = next
  BY <1>1
<1> HIDE DEF J, A, s, cells, B
<1>4. /\ Len(J) \in Nat /\ DOMAIN J = 1..Len(J) /\ Len(A) = Len(J) + s /\ DOMAIN A = 1..Len(A)
      /\ \A i \in DOMAIN J : A[i] = J[i]
      /\ \A i \in 1..s : A[Len(J) + i] = next
  <2> DEFINE n == next - 1
  <2>1. n \in Nat /\ n <= Len(block.rows) /\ n + 1 = next
    BY <1>3
  <2> HIDE DEF n
  <2>2. /\ Len(SentBefore(n, t)) \in Nat /\ DOMAIN SentBefore(n, t) = 1..Len(SentBefore(n, t))
        /\ Len(SentBefore(n + 1, t)) = Len(SentBefore(n, t)) + Sends(block.rows[n + 1], t)
        /\ DOMAIN SentBefore(n + 1, t) = 1..Len(SentBefore(n + 1, t))
        /\ \A i \in DOMAIN SentBefore(n, t) : SentBefore(n + 1, t)[i] = SentBefore(n, t)[i]
        /\ \A i \in 1..Sends(block.rows[n + 1], t) : SentBefore(n + 1, t)[Len(SentBefore(n, t)) + i] = n + 1
    BY <1>1, <2>1, SentMore
  <2> QED
    BY <2>1, <2>2 DEF J, A, s, n
<1>5. Len(B) = Len(J) /\ \A i \in DOMAIN J : B[i] = CellsOf(t, J[i])
  BY <1>1 DEF HasRows, J, B
<1>6. IsList(more) /\ Len(more) = s /\ DOMAIN more = 1..s /\ \A i \in 1..s : more[i] = cells
  <2>1. more = [i \in 1..s |-> more[i]] /\ DOMAIN more = 1..s /\ \A i \in 1..s : more[i] = cells
    OBVIOUS
  <2> HIDE DEF more
  <2> QED
    BY <1>2, <2>1, MappedList
<1>7. DOMAIN B = 1..Len(B) /\ Len(B) \in Nat
  BY <1>1, ListFacts
<1> HIDE DEF more
<1>8. /\ Len(all) = Len(B) + s
      /\ \A i \in DOMAIN B : all[i] = B[i]
      /\ \A i \in DOMAIN more : all[Len(B) + i] = more[i]
  <2>1. IsList(B) /\ IsList(more) /\ Len(more) = s
    BY ONLY <1>1, <1>6
  <2>2. /\ Len(B \o more) = Len(B) + Len(more)
        /\ \A i \in DOMAIN B : (B \o more)[i] = B[i]
        /\ \A i \in DOMAIN more : (B \o more)[Len(B) + i] = more[i]
    BY ONLY <2>1, JoinedLists
  <2> QED
    BY ONLY <2>1, <2>2 DEF all
<1> HIDE DEF all
<1>9. ASSUME NEW i \in DOMAIN A PROVE all[i] = CellsOf(t, A[i])
  <2>1. CASE i <= Len(J)
    <3>1. i \in DOMAIN J /\ i \in DOMAIN B
      BY <1>4, <1>5, <1>7, <2>1
    <3> QED
      BY <1>4, <1>5, <1>8, <3>1
  <2>2. CASE ~(i <= Len(J))
    <3> DEFINE m == i - Len(J)
    <3>1. m \in 1..s /\ i = Len(J) + m
      BY <1>2, <1>4, <2>2
    <3> HIDE DEF m
    <3>2. all[i] = cells
      BY <1>5, <1>6, <1>8, <3>1
    <3>3. A[i] = next
      BY <1>4, <3>1
    <3> QED
      BY <3>2, <3>3 DEF cells
  <2> QED
    BY <2>1, <2>2
<1>10. Len(all) = Len(A)
  BY <1>4, <1>5, <1>8
<1> QED
  BY <1>2, <1>9, <1>10 DEF A, all, B, more, cells

LEMMA FollowingRoute ==
  ASSUME Prepared, Following, RouteRow
  PROVE  Following'
<1> DEFINE route == Route(block.rows[next])
           new(t) == [i \in 1..Cardinality(NamedAt(route, DatasetKey(t))) |-> CellsOf(t, next)]
<1>1. CASE \E e : Refuse(e)
  BY <1>1, FollowingRefuse
<1>2. CASE ~ \E e : Refuse(e)
  <2>1. /\ phase = "rows" /\ next \in DOMAIN block.rows /\ next' = next + 1
        /\ built' = [t \in ToSet(targets) |-> built[t] \o new(t)]
        /\ UNCHANGED <<block, phase, targets, columns, filtered>>
    BY <1>2 DEF RouteRow, NamedAt
  <2>2. /\ ResolvedTargets' = ResolvedTargets /\ UnfilteredBase' = UnfilteredBase /\ (ListsOnce' <=> ListsOnce)
        /\ \A t : /\ Conflicting(t)' <=> Conflicting(t)
                  /\ UnfilteredOf(t)' = UnfilteredOf(t) /\ ShapedColumns(t)' = ShapedColumns(t)
    BY <2>1, SameReading
  <2>3. filtered' = <<>> /\ DOMAIN <<>> = {} /\ next \in Int
    <3>1. block \in Blocks
      BY DEF Prepared, Staged
    <3>2. DOMAIN block.rows = 1..Len(block.rows) /\ Len(block.rows) \in Nat
      BY <3>1, ListsOfBlock, ListFacts
    <3> QED
      BY <2>1, <3>2 DEF Prepared, Staged
  <2>4. Planned'
    BY <2>1, <2>2 DEF Following, Planned, Shaped, Reading
  <2>5. ASSUME ListsOnce, NEW t \in ToSet(targets) PROVE HasRows(t)'
    <3>1. Len(built[t] \o new(t)) = Len(SentBefore(next, t))
      BY <2>1, <2>5, OneRowMore
    <3>2. \A i \in DOMAIN SentBefore(next, t) : (built[t] \o new(t))[i] = CellsOf(t, SentBefore(next, t)[i])
      BY <2>1, <2>5, OneRowMore
    <3> HIDE DEF new
    <3>10. built'[t] = built[t] \o new(t)
      BY ONLY <2>1, t \in ToSet(targets)
    <3>3. built'[t] = built[t] \o new(t) /\ next' - 1 = next
      BY ONLY <3>10, <2>1, <2>3
    <3>4. /\ \A n : CellsOf(t, n)' = CellsOf(t, n)
          /\ \A n : SentBefore(n, t)' = SentBefore(n, t)
          /\ block' = block /\ targets' = targets
      BY <2>1, SameCells
    <3>5. SentBefore(next - 1, t)' = SentBefore(next, t)
      <4>1. DefaultTarget' = DefaultTarget
        BY <3>4 DEF DefaultTarget, TopOutputs, RefsOf
      <4>2. \A r : Sends(r, t)' = Sends(r, t)
        BY <3>4, <4>1 DEF Sends
      <4> QED
        BY <3>3, <3>4, <4>2 DEF SentBefore
    <3>6. \A n : CellsOf(t, n)' = CellsOf(t, n)
      BY <3>4
    <3> DEFINE S == SentBefore(next - 1, t)
               R == SentBefore(next, t)
    <3>7. S' = R
      BY <3>5
    <3> HIDE DEF S, R
    <3>8. Len(built'[t]) = Len(R) /\ \A i \in DOMAIN R : built'[t][i] = CellsOf(t, R[i])
      BY <3>1, <3>2, <3>3 DEF R
    <3>9. (\A i \in DOMAIN S : built[t][i] = CellsOf(t, S[i]))' /\ (Len(built[t]) = Len(S))'
      BY <3>6, <3>7, <3>8
    <3> QED
      BY <3>9 DEF HasRows, S
  <2>6. RowsAsSent'
    BY <2>1, <2>2, <2>5 DEF RowsAsSent
  <2> QED
    BY <2>3, <2>4, <2>6 DEF Following, TablesAsBuilt
<1> QED
  BY <1>1, <1>2

LEMMA FollowingFinalize ==
  ASSUME Prepared, Following, FinalizeTarget
  PROVE  Following'
<1> DEFINE t == targets[Min({i \in DOMAIN targets : targets[i] \notin DOMAIN filtered})]
<1>1. CASE \E e : Refuse(e)
  BY <1>1, FollowingRefuse
<1>2. CASE ~ \E e : Refuse(e)
  <2>1. /\ filtered' = [u \in DOMAIN filtered \cup {t} |-> IF u = t THEN FinalizedTable(t) ELSE filtered[u]]
        /\ UNCHANGED <<block, phase, targets, columns, next, built>>
    BY <1>2 DEF FinalizeTarget
  <2> HIDE DEF t
  <2>2. /\ ResolvedTargets' = ResolvedTargets /\ (ListsOnce' <=> ListsOnce)
        /\ UnfilteredBase' = UnfilteredBase
        /\ \A u : /\ Conflicting(u)' <=> Conflicting(u)
                  /\ UnfilteredOf(u)' = UnfilteredOf(u) /\ ShapedColumns(u)' = ShapedColumns(u)
    BY <2>1, SameReading
  <2>3. /\ \A u, n : CellsOf(u, n)' = CellsOf(u, n)
        /\ \A u, n : SentBefore(n, u)' = SentBefore(n, u)
        /\ \A u : Unhidden(u)' = Unhidden(u)
    BY <2>1, SameCells
  <2>4. Planned'
    BY <2>1, <2>2 DEF Following, Planned, Shaped, Reading
  <2>5. \A u : HasRows(u)' <=> HasRows(u)
    BY <2>1, <2>3 DEF HasRows
  <2>6. RowsAsSent'
    BY <2>1, <2>2, <2>5 DEF Following, RowsAsSent, Reading, Shaped
  <2>7. \A u : FinalizedTable(u)' = FinalizedTable(u)
    BY <2>1, <2>3 DEF FinalizedTable
  <2>8. FinalizedTable(t).cols = Unhidden(t)
    BY DEF FinalizedTable
  <2>9. \A u \in DOMAIN filtered' :
          filtered'[u].cols = Unhidden(u) /\ filtered'[u].rows = FinalizedTable(u).rows
    BY <2>1, <2>8 DEF Following, TablesAsBuilt, IsFinalized
  <2>10. TablesAsBuilt'
    BY <2>3, <2>7, <2>9 DEF TablesAsBuilt, IsFinalized
  <2> QED
    BY <2>4, <2>6, <2>10 DEF Following
<1> QED
  BY <1>1, <1>2

LEMMA FollowingMetadata ==
  ASSUME Prepared, Following, ApplyMetadata
  PROVE  Following'
<1>1. CASE \E e : Refuse(e)
  BY <1>1, FollowingRefuse
<1>2. CASE ~ \E e : Refuse(e)
  <2>1. /\ phase = "metadata" /\ phase' = "present"
        /\ filtered' = [t \in DOMAIN filtered |-> [filtered[t] EXCEPT !.labels = LabelsOf(t)]]
        /\ UNCHANGED <<block, targets, columns, next, built>>
    BY <1>2 DEF ApplyMetadata
  <2>2. ASSUME NEW t \in DOMAIN filtered
        PROVE  filtered'[t].cols = filtered[t].cols /\ filtered'[t].rows = filtered[t].rows
    <3>1. ASSUME NEW f, IsOutputTable(f), NEW L
          PROVE  LET g == [f EXCEPT !.labels = L] IN g.cols = f.cols /\ g.rows = f.rows
      BY <3>1 DEF IsOutputTable
    <3> QED
      BY <2>1, <3>1 DEF Prepared, FilteredTables
  <2>3. DOMAIN filtered' = DOMAIN filtered
    BY <2>1
  <2>4. /\ ResolvedTargets' = ResolvedTargets /\ (ListsOnce' <=> ListsOnce)
        /\ UnfilteredBase' = UnfilteredBase
        /\ \A u : /\ Conflicting(u)' <=> Conflicting(u)
                  /\ UnfilteredOf(u)' = UnfilteredOf(u) /\ ShapedColumns(u)' = ShapedColumns(u)
    BY <2>1, SameReading
  <2>5. /\ \A u, n : CellsOf(u, n)' = CellsOf(u, n)
        /\ \A u, n : SentBefore(n, u)' = SentBefore(n, u)
        /\ \A u : Unhidden(u)' = Unhidden(u)
    BY <2>1, SameCells
  <2>6. Planned'
    BY <2>1, <2>4 DEF Following, Planned, Shaped, Reading
  <2>7. \A u : HasRows(u)' <=> HasRows(u)
    BY <2>1, <2>5 DEF HasRows
  <2>8. RowsAsSent'
    BY <2>1, <2>4, <2>7 DEF Following, RowsAsSent, Reading, Shaped
  <2>9. \A u : FinalizedTable(u)' = FinalizedTable(u)
    BY <2>1, <2>5 DEF FinalizedTable
  <2>10. \A u \in DOMAIN filtered : IsFinalized(u)
    BY DEF Following, TablesAsBuilt
  <2>11. TablesAsBuilt'
    BY <2>2, <2>3, <2>5, <2>9, <2>10 DEF TablesAsBuilt, IsFinalized
  <2> QED
    BY <2>6, <2>8, <2>11 DEF Following
<1> QED
  BY <1>1, <1>2

LEMMA FollowingStep == Prepared /\ Following /\ [Next]_vars => Following'
<1> SUFFICES ASSUME Prepared, Following, [Next]_vars PROVE Following'
  OBVIOUS
<1>1. CASE \E e : Refuse(e)
  BY <1>1, FollowingRefuse
<1>2. CASE ~ \E e : Refuse(e)
  <2>1. CASE Validate
    <3>1. /\ phase = "validate" /\ phase' = "targets"
          /\ UNCHANGED <<block, targets, columns, next, built, filtered>>
      BY <1>2, <2>1 DEF Validate
    <3> QED
      BY <3>1, FollowingKept DEF Following, Planned, Shaped, Reading
  <2>2. CASE EndOfRows
    <3>1. /\ phase = "rows" /\ phase' = "finalize" /\ next \notin DOMAIN block.rows
          /\ UNCHANGED <<block, targets, columns, next, built, filtered>>
      BY <2>2 DEF EndOfRows
    <3>2. DOMAIN block.rows = 1..Len(block.rows) /\ Len(block.rows) \in Nat /\ next \in 1..(Len(block.rows) + 1)
      BY ListsOfBlock, ListFacts DEF Prepared, Staged
    <3>3. next = Len(block.rows) + 1
      BY <3>1, <3>2
    <3> QED
      BY <3>1, <3>3, FollowingKept DEF Shaped, Reading
  <2>3. CASE EndOfTargets
    <3>1. /\ phase = "finalize" /\ phase' = "metadata"
          /\ UNCHANGED <<block, targets, columns, next, built, filtered>>
      BY <2>3 DEF EndOfTargets
    <3>2. next = Len(block.rows) + 1
      BY <3>1 DEF Following, Planned, Shaped, Reading
    <3> QED
      BY <3>1, <3>2, FollowingKept DEF Shaped, Reading
  <2>4. CASE Present
    <3>1. /\ phase = "present" /\ phase' = "delivered"
          /\ UNCHANGED <<block, targets, columns, next, built, filtered>>
      BY <1>2, <2>4 DEF Present
    <3>2. next = Len(block.rows) + 1
      BY <3>1 DEF Following, Planned, Shaped, Reading
    <3> QED
      BY <3>1, <3>2, FollowingKept DEF Shaped, Reading
  <2>5. CASE UNCHANGED vars
    <3>1. UNCHANGED <<block, phase, targets, columns, next, built, filtered>>
      BY <2>5 DEF vars
    <3>2. /\ phase \in {"validate", "targets", "shape", "check"} => next = 1
          /\ phase \in Reading \ {"rows"} => next = Len(block.rows) + 1
      BY DEF Following, Planned
    <3> QED
      BY <3>1, <3>2, FollowingKept
  <2> QED
    BY <2>1, <2>2, <2>3, <2>4, <2>5, FollowingTargets, FollowingShape, FollowingCheck, FollowingRoute,
       FollowingFinalize, FollowingMetadata DEF Next, Ended
<1> QED
  BY <1>1, <1>2

(* the table of a target at the end *)
LEMMA TableOfTarget ==
  ASSUME Stages, Prepared, Following, Delivered, OneOfEach, RenamesSpare, RenamesAside, RenamesAfar, ListsOnce,
         NEW t \in ToSet(targets)
  PROVE  LET out == outputs[t]
         IN  /\ Keys(ToSet(out.cols)) = {FinalKey(c, t) : c \in Kept(t)}
             /\ Len(out.rows) = Len(SentTo(t))
             /\ \A i \in DOMAIN out.rows : \A c \in Kept(t) : \A d \in ToSet(out.cols) :
                  ColumnKey(d) = FinalKey(c, t) => out.rows[i][d] = Current(c, SentTo(t)[i])
<1> DEFINE out == outputs[t]
           N == Len(block.rows)
           sent == SentTo(t)
           U == ToSet(Unhidden(t))
<1>1. /\ phase = "delivered" /\ block \in Blocks /\ out = filtered[t] /\ t \in DOMAIN filtered
      /\ IsList(built[t])
  BY DEF Delivered, Stages, Prepared, Staged, BuiltRows
<1>2. DOMAIN block.rows = 1..N /\ N \in Nat
  BY <1>1, ListsOfBlock, ListFacts
<1>3. /\ targets = ResolvedTargets /\ ~Conflicting(t)
      /\ UniqueKeys(UnfilteredBase) /\ UniqueKeys(UnfilteredOf(t)) /\ columns[t] = ShapedColumns(t)
      /\ next = N + 1 /\ HasRows(t) /\ IsFinalized(t)
  <2>1. targets # <<>>
    <3>1. DOMAIN <<>> = {}
      OBVIOUS
    <3> QED
      BY <3>1 DEF ToSet
  <2>2. HasRows(t) /\ IsFinalized(t)
    BY <1>1 DEF Following, RowsAsSent, TablesAsBuilt, Reading, Shaped
  <2> QED
    BY <1>1, <2>1, <2>2 DEF Following, Planned, Reading, Shaped
<1>4. sent = SentBefore(N, t) /\ next - 1 = N
  BY <1>2, <1>3 DEF SentTo, SentBefore
<1>5. Keys(U) = {FinalKey(c, t) : c \in Kept(t)} /\ U \subseteq ToSet(BuiltColumns(t))
  BY <1>1, <1>3, OutputKeys
<1>6. out.cols = Unhidden(t) /\ out.rows = [i \in DOMAIN built[t] |-> [c \in U |-> built[t][i][c]]]
  <2>1. FinalizedTable(t).rows = [i \in DOMAIN built[t] |-> [c \in U |-> built[t][i][c]]]
    BY DEF FinalizedTable
  <2> QED
    BY <1>1, <1>3, <2>1 DEF IsFinalized
<1>7. /\ Len(built[t]) = Len(sent) /\ \A i \in DOMAIN sent : built[t][i] = CellsOf(t, sent[i])
  BY <1>3, <1>4 DEF HasRows
<1>8. DOMAIN sent = 1..Len(sent) /\ \A i \in DOMAIN sent : sent[i] \in DOMAIN block.rows
  BY <1>1, <1>2, <1>3, <1>4, SentMore
<1>9. DOMAIN built[t] = 1..Len(built[t]) /\ Len(built[t]) \in Nat
  BY <1>1, ListFacts
<1> DEFINE table == out.rows
<1>10. table = [i \in 1..Len(built[t]) |-> table[i]]
  BY <1>6, <1>9
<1>11. Len(table) = Len(sent)
  <2> HIDE DEF table
  <2> QED
    BY <1>7, <1>9, <1>10, MappedList
<1>12. ASSUME NEW i \in DOMAIN table, NEW c \in Kept(t), NEW d \in U, ColumnKey(d) = FinalKey(c, t)
       PROVE  table[i][d] = Current(c, sent[i])
  <2>1. i \in DOMAIN sent /\ i \in DOMAIN built[t]
    BY <1>6, <1>7, <1>8, <1>9
  <2>2. table[i][d] = built[t][i][d]
    BY <1>6, <2>1
  <2>3. built[t][i] = CellsOf(t, sent[i]) /\ sent[i] \in DOMAIN block.rows /\ d \in ToSet(BuiltColumns(t))
    BY <1>5, <1>7, <1>8, <2>1
  <2> DEFINE n == sent[i]
  <2> HIDE DEF n, table, sent, U
  <2>4. CellsOf(t, n)[d] = CellOf(TargetView(t, RowView(n, block.rows[n].written)), d)
    BY <2>3 DEF CellsOf
  <2>5. CellOf(TargetView(t, RowView(n, block.rows[n].written)), d) = Current(c, n)
    <3>1. n \in DOMAIN block.rows
      BY <2>3 DEF n
    <3> QED
      BY <1>1, <1>3, <1>12, <3>1, CellIsCurrent
  <2> QED
    BY <2>2, <2>3, <2>4, <2>5 DEF n
<1> QED
  BY <1>5, <1>6, <1>11, <1>12

(* What an accepted block delivers is what its statements say: a target    *)
(* has the columns that KEEP, DROP and RENAME leave of the data columns, a *)
(* row for each OUTPUT that reached it, in the order of the stream, and in *)
(* it the value that the column had in that row.  This holds for a block   *)
(* with at most one statement of each kind (of several, the plan and the   *)
(* row view read different ones), where no RENAME names an automatic       *)
(* variable or makes a name that a computed column has, before or after    *)
(* the RENAME of the step (a value could stay behind under it), and where  *)
(* the request spells a target in one way.                                 *)
THEOREM RowsProjected ==
  Spec => [](OneOfEach /\ RenamesSpare /\ RenamesAside /\ RenamesAfar /\ ListsOnce => ProjectedRows)
<1>1. Init => Following
  <2>1. DOMAIN <<>> = {} /\ ToSet(<<>>) = {}
    BY DEF ToSet
  <2> QED
    BY <2>1 DEF Init, Following, Planned, RowsAsSent, TablesAsBuilt, Shaped, Reading
<1>2. Stages /\ Prepared /\ Following =>
        (OneOfEach /\ RenamesSpare /\ RenamesAside /\ RenamesAfar /\ ListsOnce => ProjectedRows)
  BY TableOfTarget DEF ProjectedRows
<1> QED
  BY <1>1, <1>2, StagesInit, StagesStep, PreparedInit, PreparedStep, FollowingStep, PTL DEF Spec

-----------------------------------------------------------------------------
(* A label follows its column                                              *)

(* where each entry of a projected list of labels comes from *)
EntriesFrom(at, entries, p) ==
  LET P == ProjectedLabels(entries, p)
  IN  /\ at \in [DOMAIN P -> DOMAIN entries]
      /\ \A n \in DOMAIN P : /\ P[n][1] = Renamed(entries[at[n]][1], p.rename) /\ P[n][2] = entries[at[n]][2]
                             /\ Survives(entries[at[n]][1], p)
      /\ \A m, n \in DOMAIN P : m < n => at[m] < at[n]
      /\ \A i \in DOMAIN entries : Survives(entries[i][1], p) => \E n \in DOMAIN P : at[n] = i

LEMMA ProjectedEntries ==
  ASSUME NEW entries, IsList(entries), NEW p
  PROVE  IsList(ProjectedLabels(entries, p)) /\ \E at : EntriesFrom(at, entries, p)
<1> DEFINE I == {i \in DOMAIN entries : Survives(entries[i][1], p)}
           K == Selected(entries, I)
           P == ProjectedLabels(entries, p)
           at == Numbered(I)
           N == Len(K)
<1>1. P = [i \in DOMAIN K |-> <<Renamed(K[i][1], p.rename), K[i][2]>>]
  BY DEF ProjectedLabels
<1>2. I \in SUBSET DOMAIN entries /\ \A i \in I : Survives(entries[i][1], p)
  OBVIOUS
<1>3. \A i \in DOMAIN entries : Survives(entries[i][1], p) => i \in I
  OBVIOUS
<1> HIDE DEF I, P
<1>4. /\ IsList(K) /\ at \in [DOMAIN K -> I] /\ \A n \in DOMAIN K : K[n] = entries[at[n]]
      /\ \A i \in I : \E n \in DOMAIN K : at[n] = i
      /\ \A m, n \in DOMAIN K : m < n => at[m] < at[n]
  BY <1>2, SelectedList
<1> HIDE DEF K, at
<1>5. DOMAIN K = 1..N /\ N \in Nat
  BY <1>4, ListFacts
<1>6. /\ DOMAIN P = DOMAIN K
      /\ \A n \in DOMAIN P : P[n][1] = Renamed(K[n][1], p.rename) /\ P[n][2] = K[n][2]
      /\ P = [i \in 1..N |-> P[i]]
  BY <1>1, <1>5
<1>7. IsList(P)
  BY <1>5, <1>6, MappedList
<1>8. at \in [DOMAIN P -> DOMAIN entries]
  BY <1>2, <1>4, <1>6
<1>9. \A n \in DOMAIN P : /\ P[n][1] = Renamed(entries[at[n]][1], p.rename) /\ P[n][2] = entries[at[n]][2]
                          /\ Survives(entries[at[n]][1], p)
  <2> SUFFICES ASSUME NEW n \in DOMAIN P
               PROVE  /\ P[n][1] = Renamed(entries[at[n]][1], p.rename) /\ P[n][2] = entries[at[n]][2]
                      /\ Survives(entries[at[n]][1], p)
    OBVIOUS
  <2>1. n \in DOMAIN K /\ P[n][1] = Renamed(K[n][1], p.rename) /\ P[n][2] = K[n][2]
    BY <1>6
  <2>2. at[n] \in I /\ K[n] = entries[at[n]]
    BY <1>4, <2>1
  <2>3. Survives(entries[at[n]][1], p)
    BY <1>2, <2>2
  <2>4. P[n][1] = Renamed(entries[at[n]][1], p.rename) /\ P[n][2] = entries[at[n]][2]
    BY <2>1, <2>2
  <2> QED
    BY <2>3, <2>4
<1>10. \A i \in DOMAIN entries : Survives(entries[i][1], p) => \E n \in DOMAIN P : at[n] = i
  BY <1>3, <1>4, <1>6
<1>11. EntriesFrom(at, entries, p)
  BY <1>4, <1>6, <1>8, <1>9, <1>10 DEF EntriesFrom, P
<1> QED
  BY <1>7, <1>11 DEF P

LEMMA GreatestIs ==
  ASSUME NEW S, S # {}, S \subseteq Nat, IsFiniteSet(S)
  PROVE  Max(S) \in S /\ \A n \in S : n <= Max(S)
<1>1. \E m \in S : \A n \in S : n <= m
  BY GreatestNumber
<1>2. \E m \in S : \A n \in S : m >= n
  BY <1>1
<1>3. Max(S) \in S /\ \A n \in S : Max(S) >= n
  BY <1>2 DEF Max
<1> QED
  BY <1>3

(* the last of the selected members is that with the greatest number *)
LEMMA LastSelected ==
  ASSUME NEW s, IsList(s), NEW I \in SUBSET DOMAIN s
  PROVE  /\ Selected(s, I) = <<>> <=> I = {}
         /\ I # {} => Max(I) \in I /\ (\A i \in I : i <= Max(I)) /\ Last(Selected(s, I)) = s[Max(I)]
<1> DEFINE c == Selected(s, I)
           L == Numbered(I)
           N == Len(c)
<1>1. /\ IsList(c) /\ L \in [DOMAIN c -> I] /\ \A p \in DOMAIN c : c[p] = s[L[p]]
      /\ \A i \in I : \E p \in DOMAIN c : L[p] = i
      /\ \A p, q \in DOMAIN c : p < q => L[p] < L[q]
  BY SelectedList
<1>2. /\ DOMAIN s \subseteq Nat /\ IsFiniteSet(DOMAIN s)
  BY ListFacts
<1>3. I \subseteq Nat /\ IsFiniteSet(I)
  BY <1>2, FS_Subset
<1> HIDE DEF c, L
<1>4. DOMAIN c = 1..N /\ N \in Nat /\ c \in Seq(ToSet(c))
  BY <1>1, ListFacts DEF IsList
<1>5. c = <<>> <=> I = {}
  <2>1. c = <<>> <=> N = 0
    BY <1>4
  <2>2. N = 0 <=> I = {}
    BY <1>1, <1>4
  <2> QED
    BY <2>1, <2>2
<1>6. ASSUME I # {}
      PROVE  Max(I) \in I /\ (\A i \in I : i <= Max(I)) /\ Last(c) = s[Max(I)]
  <2>1. Max(I) \in I /\ \A i \in I : i <= Max(I)
    BY <1>3, <1>6, GreatestIs
  <2>2. N \in DOMAIN c /\ L[N] \in I
    BY <1>1, <1>4, <1>6
  <2>3. \A p \in DOMAIN c : p <= N /\ L[p] \in Nat
    BY <1>1, <1>3, <1>4
  <2>4. \A p \in DOMAIN c : L[p] <= L[N]
    <3> SUFFICES ASSUME NEW p \in DOMAIN c PROVE L[p] <= L[N]
      OBVIOUS
    <3>1. p = N \/ p < N
      BY <1>4
    <3>2. CASE p = N
      BY <2>3, <3>2
    <3>3. CASE p < N
      BY <1>1, <2>2, <2>3, <3>3
    <3> QED
      BY <3>1, <3>2, <3>3
  <2>5. \A i \in I : i <= L[N]
    BY <1>1, <2>4
  <2>6. Max(I) \in Nat /\ L[N] \in Nat /\ Max(I) <= L[N] /\ L[N] <= Max(I)
    BY <1>3, <2>1, <2>2, <2>5
  <2>7. L[N] = Max(I)
    BY <2>6
  <2>8. Last(c) = c[N]
    BY DEF Last
  <2> QED
    BY <1>1, <2>1, <2>2, <2>7, <2>8
<1> QED
  BY <1>5, <1>6 DEF c

(* Columns whose projected names are alike are one. *)
LEMMA ProjectedApart ==
  ASSUME NEW cols, IsList(cols), NEW p, UniqueKeys(Projected(cols, p)),
         NEW a \in ToSet(cols), NEW b \in ToSet(cols), Survives(a, p), Survives(b, p),
         ColumnKey(Renamed(a, p.rename)) = ColumnKey(Renamed(b, p.rename))
  PROVE  a = b
<1> DEFINE P == Projected(cols, p)
<1>0. PICK at : ComesFrom(at, cols, p)
  BY ProjectedPlaces
<1>1. /\ \A n \in DOMAIN P : P[n] = Renamed(cols[at[n]], p.rename)
      /\ \A i \in DOMAIN cols : Survives(cols[i], p) => \E n \in DOMAIN P : at[n] = i
  BY <1>0 DEF ComesFrom
<1> HIDE DEF P
<1>2. PICK i \in DOMAIN cols, j \in DOMAIN cols : cols[i] = a /\ cols[j] = b
  BY DEF ToSet
<1>3. PICK m \in DOMAIN P, n \in DOMAIN P : at[m] = i /\ at[n] = j
  BY <1>1, <1>2
<1>4. ColumnKey(P[m]) = ColumnKey(P[n])
  BY <1>1, <1>2, <1>3
<1>5. m = n
  BY <1>4 DEF UniqueKeys, P
<1> QED
  BY <1>2, <1>3, <1>5

Entries == block.given \o block.labels
(* the entries that both projections of a target leave, and a column that  *)
(* both leave with the name it has then                                    *)
EntriesLeft(t) == ProjectedLabels(ProjectedLabels(Entries, PlannedProjection), OptionsOf(t))
Stays(c, t) == Survives(c, PlannedProjection) /\ Survives(Renamed(c, PlannedProjection.rename), OptionsOf(t))
FinalName(c, t) == Renamed(Renamed(c, PlannedProjection.rename), OptionsOf(t).rename)

LEMMA EntriesList ==
  ASSUME block \in Blocks
  PROVE  IsList(Entries) /\ ToSet(Entries) = ToSet(block.given) \cup ToSet(block.labels)
<1>1. IsList(block.given) /\ IsList(block.labels)
  BY BlocksAssumption
<1> QED
  BY <1>1, JoinedLists DEF Entries

LEMMA EntriesOfTarget ==
  ASSUME block \in Blocks, NEW t
  PROVE  LET Q == EntriesLeft(t)
         IN  /\ IsList(Q)
             /\ \E at \in [DOMAIN Q -> DOMAIN Entries] :
                  /\ \A n \in DOMAIN Q : /\ Q[n][1] = FinalName(Entries[at[n]][1], t)
                                         /\ Q[n][2] = Entries[at[n]][2] /\ Stays(Entries[at[n]][1], t)
                  /\ \A m, n \in DOMAIN Q : m < n => at[m] < at[n]
                  /\ \A i \in DOMAIN Entries : Stays(Entries[i][1], t) => \E n \in DOMAIN Q : at[n] = i
<1> DEFINE p == PlannedProjection
           o == OptionsOf(t)
           E == Entries
           P == ProjectedLabels(E, p)
           Q == EntriesLeft(t)
<1>1. /\ Q = ProjectedLabels(P, o)
      /\ \A c : Stays(c, t) <=> Survives(c, p) /\ Survives(Renamed(c, p.rename), o)
      /\ \A c : FinalName(c, t) = Renamed(Renamed(c, p.rename), o.rename)
  BY DEF EntriesLeft, Stays, FinalName
<1>2. IsList(E)
  BY EntriesList
<1> HIDE DEF p, o, E, Q
<1>3. IsList(P) /\ \E f : EntriesFrom(f, E, p)
  BY <1>2, ProjectedEntries
<1>4. PICK f : EntriesFrom(f, E, p)
  BY <1>3
<1>5. /\ f \in [DOMAIN P -> DOMAIN E]
      /\ \A n \in DOMAIN P : /\ P[n][1] = Renamed(E[f[n]][1], p.rename) /\ P[n][2] = E[f[n]][2]
                             /\ Survives(E[f[n]][1], p)
      /\ \A m, n \in DOMAIN P : m < n => f[m] < f[n]
      /\ \A i \in DOMAIN E : Survives(E[i][1], p) => \E n \in DOMAIN P : f[n] = i
  BY <1>4 DEF EntriesFrom
<1> HIDE DEF P
<1>6. IsList(Q) /\ \E g : EntriesFrom(g, P, o)
  BY <1>1, <1>3, ProjectedEntries
<1>7. PICK g : EntriesFrom(g, P, o)
  BY <1>6
<1>8. /\ g \in [DOMAIN Q -> DOMAIN P]
      /\ \A n \in DOMAIN Q : /\ Q[n][1] = Renamed(P[g[n]][1], o.rename) /\ Q[n][2] = P[g[n]][2]
                             /\ Survives(P[g[n]][1], o)
      /\ \A m, n \in DOMAIN Q : m < n => g[m] < g[n]
      /\ \A i \in DOMAIN P : Survives(P[i][1], o) => \E n \in DOMAIN Q : g[n] = i
  BY <1>1, <1>7 DEF EntriesFrom
<1> DEFINE at == [n \in DOMAIN Q |-> f[g[n]]]
<1>9. at \in [DOMAIN Q -> DOMAIN E] /\ \A n \in DOMAIN Q : g[n] \in DOMAIN P /\ at[n] = f[g[n]]
  BY <1>5, <1>8
<1> HIDE DEF at
<1>10. ASSUME NEW n \in DOMAIN Q
       PROVE  /\ Q[n][1] = FinalName(E[at[n]][1], t)
              /\ Q[n][2] = E[at[n]][2] /\ Stays(E[at[n]][1], t)
  <2> DEFINE k == g[n]
  <2>1. k \in DOMAIN P /\ at[n] = f[k]
    BY <1>9
  <2>2. Q[n][1] = Renamed(P[k][1], o.rename) /\ Q[n][2] = P[k][2] /\ Survives(P[k][1], o)
    BY <1>8
  <2> HIDE DEF k
  <2>3. P[k][1] = Renamed(E[f[k]][1], p.rename) /\ P[k][2] = E[f[k]][2] /\ Survives(E[f[k]][1], p)
    BY <1>5, <2>1
  <2> QED
    BY <1>1, <2>1, <2>2, <2>3
<1>11. ASSUME NEW m \in DOMAIN Q, NEW n \in DOMAIN Q, m < n PROVE at[m] < at[n]
  BY <1>5, <1>8, <1>9, <1>11
<1>12. ASSUME NEW i \in DOMAIN E, Stays(E[i][1], t) PROVE \E n \in DOMAIN Q : at[n] = i
  <2>1. PICK k \in DOMAIN P : f[k] = i
    BY <1>1, <1>5, <1>12
  <2>2. Survives(P[k][1], o)
    BY <1>1, <1>5, <1>12, <2>1
  <2>3. PICK n \in DOMAIN Q : g[n] = k
    BY <1>8, <2>2
  <2> QED
    BY <1>9, <2>1, <2>3
<1>13. /\ \A n \in DOMAIN Q : /\ Q[n][1] = FinalName(E[at[n]][1], t)
                              /\ Q[n][2] = E[at[n]][2] /\ Stays(E[at[n]][1], t)
       /\ \A m, n \in DOMAIN Q : m < n => at[m] < at[n]
       /\ \A i \in DOMAIN E : Stays(E[i][1], t) => \E n \in DOMAIN Q : at[n] = i
  BY <1>10, <1>11, <1>12
<1> QED
  BY <1>6, <1>9, <1>13 DEF E, Q

(* Two columns that are left have different names in the end, and an       *)
(* output has no name that is not one of theirs.                           *)
LEMMA FinalNamesApart ==
  ASSUME block \in Blocks, OneOfEach, RenamesSpare, NEW t, ~Conflicting(t),
         UniqueKeys(UnfilteredBase), UniqueKeys(UnfilteredOf(t)),
         NEW a \in Kept(t), NEW b \in Kept(t), FinalKey(a, t) = FinalKey(b, t)
  PROVE  a = b
<1> DEFINE A == Keys(block.internal)
           p == PlannedProjection
           o == OptionsOf(t)
           B == Visible(Slots, block.internal)
           U == Projected(B, p)
           r(c) == Renamed(c, p.rename)
<1>1. /\ ShapingHidden = block.internal /\ IsList(p.rename) /\ Spares(p.rename)
  BY HidesNoMore, OneProjection
<1>2. U = UnfilteredBase /\ Base = Visible(U, block.internal) /\ UnfilteredOf(t) = Projected(Base, o)
  BY <1>1 DEF UnfilteredBase, Base, UnfilteredOf
<1>3. \A c \in Kept(t) : /\ c \in ToSet(B) /\ Survives(c, p) /\ Survives(r(c), o)
                         /\ FinalKey(c, t) = ColumnKey(Renamed(r(c), o.rename))
  BY KeptIsPlanned
<1>4. IsList(B) /\ Keys(ToSet(B)) = Keys(ToSet(Slots)) \ A
  BY ListOfWrites, VisibleColumns
<1> HIDE DEF B, p, o
<1>5. IsList(U) /\ UniqueKeys(U)
  BY <1>2, <1>4, ProjectedList
<1>6. \A c \in Kept(t) : \E u \in ToSet(U) : u = r(c)
  <2> SUFFICES ASSUME NEW c \in Kept(t) PROVE \E u \in ToSet(U) : u = r(c)
    OBVIOUS
  <2>0. c \in ToSet(B) /\ Survives(c, p)
    BY <1>3
  <2>1. PICK f : ComesFrom(f, B, p)
    BY <1>4, ProjectedPlaces
  <2>2. PICK i \in DOMAIN B : B[i] = c
    BY <2>0 DEF ToSet
  <2>3. PICK n \in DOMAIN U : f[n] = i /\ U[n] = Renamed(B[f[n]], p.rename)
    BY <2>0, <2>1, <2>2 DEF ComesFrom
  <2> HIDE DEF U
  <2>4. U[n] = r(c) /\ U[n] \in ToSet(U)
    BY <2>2, <2>3 DEF ToSet
  <2> QED
    BY <2>4
<1> HIDE DEF U
<1>7. IsList(Base) /\ Keys(ToSet(Base)) = Keys(ToSet(U)) \ A /\ ToSet(Base) \subseteq ToSet(U)
  BY <1>2, <1>5, VisibleColumns
<1>8. \A c \in Kept(t) : r(c) \in ToSet(Base)
  <2> SUFFICES ASSUME NEW c \in Kept(t) PROVE r(c) \in ToSet(Base)
    OBVIOUS
  <2>1. r(c) \in ToSet(U) /\ ColumnKey(c) \notin A
    BY <1>3, <1>4, <1>6 DEF Keys
  <2>2. ColumnKey(r(c)) \in Keys(ToSet(Base))
    BY <1>1, <1>7, <2>1, RenamedSpared DEF Keys
  <2>3. PICK e \in ToSet(Base) : ColumnKey(e) = ColumnKey(r(c))
    BY <2>2 DEF Keys
  <2>4. e = r(c)
    BY <1>5, <1>7, <2>1, <2>3 DEF UniqueKeys, ToSet
  <2> QED
    BY <2>4
<1>9. r(a) = r(b)
  BY <1>2, <1>3, <1>7, <1>8, ProjectedApart
<1>10. UniqueKeys(Projected(B, p))
  BY <1>5 DEF U
<1> QED
  BY <1>3, <1>4, <1>9, <1>10, ProjectedApart

LEMMA OutputNames ==
  ASSUME block \in Blocks, OneOfEach, RenamesSpare, NEW t, ~Conflicting(t),
         UniqueKeys(UnfilteredBase), UniqueKeys(UnfilteredOf(t)), columns[t] = ShapedColumns(t),
         NEW d \in ToSet(Unhidden(t))
  PROVE  \E c \in Kept(t) : d = FinalName(c, t)
<1> DEFINE p == PlannedProjection
           o == OptionsOf(t)
           B == Visible(Slots, block.internal)
           S == ShapedColumns(t)
<1>1. ShapingHidden = block.internal /\ IsList(B)
  BY HidesNoMore, ListOfWrites, VisibleColumns
<1>2. /\ UnfilteredBase = Projected(B, p) /\ Base = Visible(UnfilteredBase, ShapingHidden)
      /\ UnfilteredOf(t) = Projected(Base, o)
      /\ S = Visible(UnfilteredOf(t), Excluding(ShapingHidden, o.rename))
  BY <1>1 DEF UnfilteredBase, Base, UnfilteredOf, ShapedColumns
<1>3. /\ \A c : c \in Kept(t) <=> c \in ToSet(B) /\ Survives(c, p) /\ Survives(Renamed(c, p.rename), o)
      /\ \A c : FinalName(c, t) = Renamed(Renamed(c, p.rename), o.rename)
  BY KeptIsPlanned DEF FinalName
<1>4. ToSet(Unhidden(t)) \subseteq ToSet(BuiltColumns(t)) /\ Keys(ToSet(Unhidden(t))) = Keys(ToSet(S))
  BY OutputKeys, ShapedKeys
<1> HIDE DEF p, o, B, S
<1>5. S # <<>>
  <2>1. ColumnKey(d) \in Keys(ToSet(S))
    BY <1>4 DEF Keys
  <2> QED
    BY <2>1 DEF Keys, ToSet
<1>6. d \in ToSet(S)
  <2>1. BuiltColumns(t) = S
    BY <1>5 DEF BuiltColumns, S
  <2> QED
    BY <1>4, <2>1
<1>7. IsList(UnfilteredBase)
  BY <1>1, <1>2, ProjectedList
<1>8. IsList(Base) /\ ToSet(Base) \subseteq ToSet(UnfilteredBase)
  BY <1>2, <1>7, VisibleColumns
<1>9. IsList(UnfilteredOf(t))
  BY <1>2, <1>8, ProjectedList
<1>10. d \in ToSet(UnfilteredOf(t))
  BY <1>2, <1>6, <1>9, VisibleColumns
<1>11. PICK e \in ToSet(Base) : Survives(e, o) /\ d = Renamed(e, o.rename)
  BY <1>2, <1>8, <1>10, ProjectedKeys
<1>12. PICK c \in ToSet(B) : Survives(c, p) /\ e = Renamed(c, p.rename)
  BY <1>1, <1>2, <1>8, <1>11, ProjectedKeys
<1> QED
  BY <1>3, <1>11, <1>12

(* Every label that the source came with is for a column of the step, a    *)
(* label names a column as the step spells it, and where the projections   *)
(* of a target leave no label, no column of it has the name that a label   *)
(* of the source is for: there the labels of the source stay as they were. *)
LabelsNamed(entries) == \A e \in ToSet(entries) : ColumnKey(e[1]) \in Keys(ToSet(Slots) \cup block.internal)
LabelsSpelled ==
  \A e \in ToSet(Entries) : \A c \in ToSet(Visible(Slots, block.internal)) :
    ColumnKey(e[1]) = ColumnKey(c) => e[1] = c
NoLabelReturns(t) ==
  EntriesLeft(t) = <<>> => \A e \in ToSet(block.given) : \A c \in Kept(t) : ColumnKey(e[1]) # FinalKey(c, t)

(* An entry that is left has the name of a column in the end if and only   *)
(* if it is for that column.                                               *)
LEMMA EntryIsFor ==
  ASSUME block \in Blocks, OneOfEach, RenamesSpare, NEW t, ~Conflicting(t),
         UniqueKeys(UnfilteredBase), UniqueKeys(UnfilteredOf(t)), LabelsNamed(Entries), LabelsSpelled,
         NEW c \in Kept(t), NEW e \in ToSet(Entries), Stays(e[1], t)
  PROVE  FinalName(e[1], t) = FinalName(c, t) <=> ColumnKey(e[1]) = ColumnKey(c)
<1> DEFINE A == Keys(block.internal)
           V == Visible(Slots, block.internal)
           p == PlannedProjection
           o == OptionsOf(t)
           x == e[1]
<1>1. /\ \A b : b \in Kept(t) <=> b \in ToSet(V) /\ Stays(b, t)
      /\ \A b : FinalKey(b, t) = ColumnKey(FinalName(b, t))
      /\ \A b : FinalName(b, t) = Renamed(Renamed(b, p.rename), o.rename)
  BY KeptIsPlanned DEF Stays, FinalName
<1>2. IsList(p.rename) /\ Spares(p.rename) /\ IsList(o.rename) /\ Spares(o.rename)
  BY OneProjection, OptionsSpare
<1>3. Keys(ToSet(V)) = Keys(ToSet(Slots)) \ A
  BY ListOfWrites, VisibleColumns
<1> HIDE DEF V, p, o
<1>4. ASSUME ColumnKey(x) = ColumnKey(c) PROVE FinalName(x, t) = FinalName(c, t)
  BY <1>1, <1>4 DEF LabelsSpelled, V
<1>5. ASSUME FinalName(x, t) = FinalName(c, t) PROVE ColumnKey(x) = ColumnKey(c)
  <2>1. ColumnKey(c) \notin A
    BY <1>1, <1>3 DEF Keys
  <2>2. ColumnKey(Renamed(c, p.rename)) \notin A
    BY <1>2, <2>1, RenamedSpared
  <2>3. ColumnKey(FinalName(c, t)) \notin A
    BY <1>1, <1>2, <2>2, RenamedSpared
  <2>4. ColumnKey(x) \notin A
    <3> SUFFICES ASSUME ColumnKey(x) \in A PROVE FALSE
      OBVIOUS
    <3>1. Renamed(x, p.rename) = x /\ Renamed(x, o.rename) = x
      BY <1>2, RenamedSpared
    <3>2. FinalName(x, t) = x
      BY <1>1, <3>1
    <3> QED
      BY <1>5, <2>3, <3>2
  <2>5. ColumnKey(x) \in Keys(ToSet(V))
    BY <1>3, <2>4 DEF LabelsNamed, Keys
  <2>6. PICK y \in ToSet(V) : ColumnKey(x) = ColumnKey(y)
    BY <2>5 DEF Keys
  <2>7. x = y
    BY <2>6 DEF LabelsSpelled, V
  <2>8. x \in Kept(t) /\ FinalKey(x, t) = FinalKey(c, t)
    BY <1>1, <1>5, <2>6, <2>7
  <2> QED
    BY <2>8, FinalNamesApart
<1> QED
  BY <1>4, <1>5

(* The last label that is said of a column is that of its final name.      *)
LEMMA LabelFollows ==
  ASSUME block \in Blocks, OneOfEach, RenamesSpare, NEW t, ~Conflicting(t),
         UniqueKeys(UnfilteredBase), UniqueKeys(UnfilteredOf(t)), columns[t] = ShapedColumns(t),
         LabelsNamed(Entries), LabelsSpelled, NoLabelReturns(t), filtered[t].cols = Unhidden(t),
         NEW c \in Kept(t), NEW d \in ToSet(Unhidden(t)), ColumnKey(d) = FinalKey(c, t)
  PROVE  LET L == LabelsOf(t)
         IN  IF LabelSaid(c) = <<>> THEN d \notin DOMAIN L
             ELSE d \in DOMAIN L /\ L[d] = Last(LabelSaid(c))[2]
<1> DEFINE E == Entries
           Q == EntriesLeft(t)
           H == {i \in DOMAIN E : ColumnKey(E[i][1]) = ColumnKey(c)}
           W == {n \in DOMAIN Q : Q[n][1] = d}
           D == LabelEntries(t)
           L == LabelsOf(t)
<1>1. D = (IF Q = <<>> THEN block.given ELSE Q) /\ LabelSaid(c) = Selected(E, H)
  BY DEF LabelEntries, EntriesLeft, LabelSaid, Entries
<1>2. /\ d \in DOMAIN L <=> {i \in DOMAIN D : D[i][1] = d} # {}
      /\ d \in DOMAIN L => L[d] = D[Max({i \in DOMAIN D : D[i][1] = d})][2]
  BY DEF LabelsOf
<1>3. IsList(E) /\ IsList(Q)
  BY EntriesList, EntriesOfTarget
<1>4. PICK at \in [DOMAIN Q -> DOMAIN E] :
        /\ \A n \in DOMAIN Q : /\ Q[n][1] = FinalName(E[at[n]][1], t)
                               /\ Q[n][2] = E[at[n]][2] /\ Stays(E[at[n]][1], t)
        /\ \A m, n \in DOMAIN Q : m < n => at[m] < at[n]
        /\ \A i \in DOMAIN E : Stays(E[i][1], t) => \E n \in DOMAIN Q : at[n] = i
  BY EntriesOfTarget
<1>5. d = FinalName(c, t)
  <2>1. PICK b \in Kept(t) : d = FinalName(b, t)
    BY OutputNames
  <2>2. FinalKey(b, t) = FinalKey(c, t)
    BY <2>1, KeptIsPlanned DEF FinalName
  <2> QED
    BY <2>1, <2>2, FinalNamesApart
<1>6. Stays(c, t)
  BY KeptIsPlanned DEF Stays
<1> HIDE DEF D, L, Q, E
<1>7. \A n \in DOMAIN Q : n \in W <=> at[n] \in H
  <2> SUFFICES ASSUME NEW n \in DOMAIN Q PROVE Q[n][1] = d <=> ColumnKey(E[at[n]][1]) = ColumnKey(c)
    BY <1>4
  <2>1. E[at[n]] \in ToSet(Entries) /\ Stays(E[at[n]][1], t) /\ Q[n][1] = FinalName(E[at[n]][1], t)
    BY <1>4 DEF ToSet, E
  <2> QED
    BY <1>5, <2>1, EntryIsFor
<1>8. \A i \in H : Stays(E[i][1], t)
  <2>1. \A i \in H : E[i] \in ToSet(Entries) /\ ColumnKey(E[i][1]) = ColumnKey(c)
    BY DEF ToSet, E
  <2>2. c \in ToSet(Visible(Slots, block.internal))
    BY KeptIsPlanned
  <2>3. \A i \in H : E[i][1] = c
    BY <2>1, <2>2 DEF LabelsSpelled
  <2> QED
    BY <1>6, <2>3
<1>9. H \in SUBSET DOMAIN E /\ W \subseteq DOMAIN Q
  OBVIOUS
<1>10. W \subseteq Nat /\ IsFiniteSet(W) /\ DOMAIN E \subseteq Nat
  BY <1>3, <1>9, ListFacts, FS_Subset
<1> HIDE DEF H, W
<1>11. CASE H # {}
  <2> DEFINE h == Max(H)
             m == Max(W)
  <2>1. h \in H /\ (\A i \in H : i <= h) /\ LabelSaid(c) # <<>> /\ Last(LabelSaid(c)) = E[h]
    BY <1>1, <1>3, <1>9, <1>11, LastSelected
  <2> HIDE DEF h
  <2>2. PICK n \in DOMAIN Q : at[n] = h
    BY <1>4, <1>8, <1>9, <2>1
  <2>3. n \in W
    BY <1>7, <2>1, <2>2
  <2>4. m \in W /\ n <= m
    BY <1>10, <2>3, GreatestIs
  <2> HIDE DEF m
  <2>5. at[m] \in H /\ at[m] <= h
    BY <1>7, <1>9, <2>1, <2>4
  <2>6. n < m => at[n] < at[m]
    BY <1>4, <1>9, <2>4
  <2>7. h \in Nat /\ at[m] \in Nat /\ n \in Nat /\ m \in Nat
    BY <1>9, <1>10, <2>1, <2>3, <2>4, <2>5
  <2>8. m = n
    BY <2>2, <2>4, <2>5, <2>6, <2>7
  <2>9. Q[m][2] = E[h][2]
    BY <1>4, <2>2, <2>8
  <2>10. Q # <<>>
    <3>1. DOMAIN <<>> = {}
      OBVIOUS
    <3> QED
      BY <2>2, <3>1
  <2>11. D = Q /\ {i \in DOMAIN D : D[i][1] = d} = W
    BY <1>1, <2>10 DEF W
  <2>12. d \in DOMAIN L /\ L[d] = Q[m][2]
    BY <1>2, <2>3, <2>11 DEF m
  <2> QED
    BY <2>1, <2>9, <2>12 DEF L
<1>12. CASE H = {}
  <2>1. LabelSaid(c) = <<>>
    BY <1>1, <1>3, <1>9, <1>12, LastSelected
  <2>2. W = {}
    BY <1>7, <1>9, <1>12
  <2>3. {i \in DOMAIN D : D[i][1] = d} = {}
    <3>1. CASE Q = <<>>
      <4>1. D = block.given
        BY <1>1, <3>1
      <4>2. \A e \in ToSet(block.given) : ColumnKey(e[1]) # ColumnKey(d)
        BY <3>1 DEF NoLabelReturns, Q
      <4> QED
        BY <4>1, <4>2 DEF ToSet
    <3>2. CASE Q # <<>>
      BY <1>1, <2>2, <3>2 DEF W
    <3> QED
      BY <3>1, <3>2
  <2> QED
    BY <1>2, <2>1, <2>3 DEF L
<1> QED
  BY <1>11, <1>12

(* What the later stages still know: the LABEL statement names columns of  *)
(* the step, and the labels of a table are those of its entries.           *)
Labelled ==
  /\ phase \notin {"validate", "refused"} => ~Unknown(Sources(block.labels))
  /\ phase \in {"present", "delivered"} => \A t \in DOMAIN filtered : filtered[t].labels = LabelsOf(t)

LEMMA SameLabels ==
  ASSUME block' = block, NEW t, filtered'[t].cols = filtered[t].cols
  PROVE  LabelsOf(t)' = LabelsOf(t)
<1> DEFINE With(D, c) == {i \in DOMAIN D : D[i][1] = c}
           F(S, D) == [c \in {d \in S : With(D, d) # {}} |-> D[Max(With(D, c))][2]]
<1>1. LabelEntries(t)' = LabelEntries(t)
  <2>1. OptionsOf(t)' = OptionsOf(t)
    BY SameReading
  <2> QED
    BY <2>1 DEF LabelEntries, PlannedProjection
<1>2. LabelsOf(t) = F(ToSet(filtered[t].cols), LabelEntries(t))
  BY DEF LabelsOf
<1>3. LabelsOf(t)' = F(ToSet(filtered'[t].cols), LabelEntries(t)')
  BY DEF LabelsOf
<1> HIDE DEF F
<1> QED
  BY <1>1, <1>2, <1>3

LEMMA LabelledMetadata ==
  ASSUME Prepared, Labelled, ApplyMetadata
  PROVE  Labelled'
<1>1. CASE \E c : Refuse(c)
  BY <1>1 DEF Refuse, Labelled
<1>2. CASE ~ \E c : Refuse(c)
  <2>1. /\ phase = "metadata" /\ phase' = "present" /\ block' = block
        /\ filtered' = [t \in DOMAIN filtered |-> [filtered[t] EXCEPT !.labels = LabelsOf(t)]]
    BY <1>2 DEF ApplyMetadata
  <2>2. ~Unknown(Sources(block.labels))'
    BY <2>1 DEF Labelled, Unknown, Known, Sources
  <2>3. ASSUME NEW t \in DOMAIN filtered
        PROVE  filtered'[t].labels = LabelsOf(t) /\ filtered'[t].cols = filtered[t].cols
    <3>1. ASSUME NEW f, IsOutputTable(f), NEW L
          PROVE  LET g == [f EXCEPT !.labels = L] IN g.cols = f.cols /\ g.labels = L
      BY <3>1 DEF IsOutputTable
    <3> QED
      BY <2>1, <3>1 DEF Prepared, FilteredTables
  <2>4. \A t \in DOMAIN filtered : LabelsOf(t)' = LabelsOf(t)
    BY <2>1, <2>3, SameLabels
  <2>5. DOMAIN filtered' = DOMAIN filtered
    BY <2>1
  <2> QED
    BY <2>2, <2>3, <2>4, <2>5 DEF Labelled
<1> QED
  BY <1>1, <1>2

LEMMA LabelledStep == Prepared /\ Labelled /\ [Next]_vars => Labelled'
<1> SUFFICES ASSUME Prepared, Labelled, [Next]_vars PROVE Labelled'
  OBVIOUS
<1>1. CASE \E c : Refuse(c)
  BY <1>1 DEF Refuse, Labelled
<1>2. CASE ~ \E c : Refuse(c)
  <2> DEFINE early == {"targets", "shape", "check", "rows", "finalize", "metadata"}
  <2>1. CASE phase' \in early /\ block' = block /\ ~Unknown(Sources(block.labels))
    <3>1. ~Unknown(Sources(block.labels))'
      BY <2>1 DEF Unknown, Known, Sources
    <3> QED
      BY <2>1, <3>1 DEF Labelled
  <2>2. CASE UNCHANGED <<block, filtered>> /\ phase' \in {"validate", "refused", "present", "delivered"}
             /\ (phase' \in {"present", "delivered"} => phase \in {"present", "delivered"})
    <3>1. (Unknown(Sources(block.labels)) <=> Unknown(Sources(block.labels))')
      BY <2>2 DEF Unknown, Known, Sources
    <3>2. \A t : LabelsOf(t)' = LabelsOf(t)
      BY <2>2, SameLabels
    <3> QED
      BY <2>2, <3>1, <3>2 DEF Labelled
  <2>3. CASE Validate
    BY <1>2, <2>1, <2>3 DEF Validate, ColumnFaults
  <2>4. CASE PlanTargets
    BY <1>2, <2>1, <2>4 DEF PlanTargets, Labelled
  <2>5. CASE ShapeOutputs
    BY <1>2, <2>1, <2>5 DEF ShapeOutputs, Labelled
  <2>6. CASE CheckViews
    BY <1>2, <2>1, <2>6 DEF CheckViews, Labelled
  <2>7. CASE RouteRow
    <3>1. phase = "rows" /\ UNCHANGED <<block, phase>>
      BY <1>2, <2>7 DEF RouteRow
    <3> QED
      BY <2>1, <3>1 DEF Labelled
  <2>8. CASE EndOfRows
    BY <2>1, <2>8 DEF EndOfRows, Labelled
  <2>9. CASE FinalizeTarget
    <3>1. phase = "finalize" /\ UNCHANGED <<block, phase>>
      BY <1>2, <2>9 DEF FinalizeTarget
    <3> QED
      BY <2>1, <3>1 DEF Labelled
  <2>10. CASE EndOfTargets
    BY <2>1, <2>10 DEF EndOfTargets, Labelled
  <2>11. CASE Present
    BY <1>2, <2>2, <2>11 DEF Present
  <2>12. CASE Ended \/ UNCHANGED vars
    <3>1. UNCHANGED <<block, phase, filtered>>
      BY <2>12 DEF Ended, vars
    <3>2. CASE phase \in early
      BY <2>1, <3>1, <3>2 DEF Labelled
    <3>3. CASE phase \notin early
      BY <2>2, <3>1, <3>3 DEF Prepared, Staged, Phases
    <3> QED
      BY <3>2, <3>3
  <2> QED
    BY <2>3, <2>4, <2>5, <2>6, <2>7, <2>8, <2>9, <2>10, <2>11, <2>12, LabelledMetadata DEF Next
<1> QED
  BY <1>1, <1>2

LEMMA LabelsAreNamed ==
  ASSUME block \in Blocks, ~Unknown(Sources(block.labels)), LabelsNamed(block.given)
  PROVE  LabelsNamed(Entries)
<1>1. Known \subseteq Keys(ToSet(Slots) \cup block.internal)
  <2> DEFINE writes == [i \in DOMAIN block.writes |-> block.writes[i].column]
  <2>1. ToSet(Slots) = ToSet(block.source) \cup ToSet(writes)
    <3>1. IsList(block.source) /\ IsList(block.writes)
      BY ListsOfBlock
    <3>2. DOMAIN block.writes = 1..Len(block.writes)
      BY <3>1, ListFacts
    <3>3. IsList(writes)
      <4>1. writes = [i \in 1..Len(block.writes) |-> writes[i]]
        BY <3>2
      <4> HIDE DEF writes
      <4> QED
        BY <3>1, <4>1, MappedList, ListFacts
    <3> QED
      BY <3>1, <3>3, JoinedLists DEF Slots
  <2>2. \A i \in DOMAIN block.writes : block.writes[i].column \in ToSet(writes)
    BY DEF ToSet
  <2> HIDE DEF writes
  <2> QED
    BY <2>1, <2>2 DEF Known, Keys
<1>2. \A i \in DOMAIN block.labels : ColumnKey(block.labels[i][1]) \in Known
  BY DEF Unknown, Sources
<1>3. \A e \in ToSet(block.labels) : ColumnKey(e[1]) \in Keys(ToSet(Slots) \cup block.internal)
  BY <1>1, <1>2 DEF ToSet
<1> QED
  BY <1>3, EntriesList DEF LabelsNamed

(* A delivered column has the last label that was said of it, by the LABEL *)
(* statement or by the source, under whatever name it has in the end, and  *)
(* a column of which none was said has none.  This holds for a block with  *)
(* at most one KEEP, DROP and RENAME, no RENAME of which names an          *)
(* automatic variable; where labels are spelled as the columns are (the    *)
(* metadata goes by exact names, projections do not); where those of the   *)
(* source are for columns of the step; and where no target loses all its   *)
(* labels while the source has one for a name that a column of it gets.    *)
THEOREM LabelsStayWithColumns ==
  Spec => [](OneOfEach /\ RenamesSpare /\ LabelsNamed(block.given) /\ LabelsSpelled
               /\ (\A t \in ToSet(targets) : NoLabelReturns(t)) => LabelsFollowColumns)
<1>1. Init => Following
  <2>1. DOMAIN <<>> = {} /\ ToSet(<<>>) = {}
    BY DEF ToSet
  <2> QED
    BY <2>1 DEF Init, Following, Planned, RowsAsSent, TablesAsBuilt, Shaped, Reading
<1>2. Init => Labelled
  BY DEF Init, Labelled
<1>3. Stages /\ Prepared /\ Following /\ Labelled =>
        (OneOfEach /\ RenamesSpare /\ LabelsNamed(block.given) /\ LabelsSpelled
           /\ (\A t \in ToSet(targets) : NoLabelReturns(t)) => LabelsFollowColumns)
  <2> SUFFICES ASSUME Stages, Prepared, Following, Labelled, Delivered, OneOfEach, RenamesSpare,
                      LabelsNamed(block.given), LabelsSpelled,
                      NEW t \in ToSet(targets), NoLabelReturns(t),
                      NEW c \in Kept(t), NEW d \in ToSet(outputs[t].cols), ColumnKey(d) = FinalKey(c, t)
               PROVE  IF LabelSaid(c) = <<>> THEN d \notin DOMAIN outputs[t].labels
                      ELSE d \in DOMAIN outputs[t].labels /\ outputs[t].labels[d] = Last(LabelSaid(c))[2]
    BY DEF LabelsFollowColumns
  <2>1. /\ phase = "delivered" /\ block \in Blocks /\ outputs[t] = filtered[t] /\ t \in DOMAIN filtered
    BY DEF Delivered, Stages, Prepared, Staged
  <2>2. targets # <<>>
    <3>1. DOMAIN <<>> = {}
      OBVIOUS
    <3> QED
      BY <3>1 DEF ToSet
  <2>3. /\ ~Conflicting(t) /\ UniqueKeys(UnfilteredBase) /\ UniqueKeys(UnfilteredOf(t))
        /\ columns[t] = ShapedColumns(t) /\ filtered[t].cols = Unhidden(t)
    BY <2>1, <2>2 DEF Following, Planned, TablesAsBuilt, IsFinalized, Reading, Shaped
  <2>4. outputs[t].labels = LabelsOf(t) /\ LabelsNamed(Entries)
    BY <2>1, LabelsAreNamed DEF Labelled
  <2> QED
    BY <2>1, <2>3, <2>4, LabelFollows
<1> QED
  BY <1>1, <1>2, <1>3, StagesInit, StagesStep, PreparedInit, PreparedStep, FollowingStep, LabelledStep, PTL DEF Spec

=============================================================================
