---------------------------- MODULE BlockOutputs ----------------------------
(***************************************************************************)
(* How the rows of one DATA block become its output tables: the stages of  *)
(* PipelineCoordinator._execute_typed_block around the row loop, with the  *)
(* target planner, the shaping plan, the projection of the runtime and     *)
(* ExecutionOutputHandoffService.finalize_typed.                           *)
(*                                                                         *)
(* KEEP, DROP and RENAME are read twice.  The planner projects the NAMES   *)
(* of the columns before anything runs; the runtime projects every ROW     *)
(* VIEW and is then asked for the planned names.  A cell is where its      *)
(* value comes from: <<"row", column, n>> is the n-th row of the prepared  *)
(* stream, <<"step", column, n>> what the step computed in that row.       *)
(***************************************************************************)
EXTENDS PreparedTables

CONSTANT
  Blocks   \* the block after input preparation:
           \* data, explicit  references of DATA, targets of the request
           \* outputs         OUTPUT statements, [refs, inline], in order
           \* source          the columns of the prepared stream
           \* internal        IN=, END=, FIRST. and LAST. variables
           \* writes          columns the step defines, [column, else]
           \* keep, drop, rename   the lists of each such statement
           \* labels          pairs of the LABEL statement
           \* given           labels that the first source came with
           \* rows            [written, fired]: what each row did

UniqueKeys(cs) == \A i, j \in DOMAIN cs : i # j => ColumnKey(cs[i]) # ColumnKey(cs[j])

(* A RENAME that repeats a column spells it in one way: of two spellings   *)
(* the projection of a row view takes whichever its hash map meets first.  *)
RenamedOneWay(pairs) ==
  \A i, j \in DOMAIN pairs :
    ColumnKey(pairs[i][1]) = ColumnKey(pairs[j][1]) => pairs[i][1] = pairs[j][1]

HasLists(o) ==
  /\ IsList(o.keep) /\ IsList(o.drop) /\ IsList(o.rename)
  /\ \A n \in DOMAIN o.rename : DOMAIN o.rename[n] = {1, 2}
  /\ RenamedOneWay(o.rename)

(* The stream has one column of a name, what the program lists are lists,  *)
(* a row can only fire OUTPUT statements that the block has, and write     *)
(* columns that a statement of the block defines.                          *)
ASSUME BlocksAssumption ==
  \A b \in Blocks :
    /\ UniqueKeys(b.source)
    /\ IsList(b.data) /\ IsList(b.explicit) /\ IsList(b.outputs) /\ IsList(b.source)
    /\ IsList(b.writes) /\ IsList(b.keep) /\ IsList(b.drop) /\ IsList(b.rename)
    /\ IsList(b.labels) /\ IsList(b.given) /\ IsList(b.rows)
    /\ \A i \in DOMAIN b.keep : IsList(b.keep[i])
    /\ \A i \in DOMAIN b.drop : IsList(b.drop[i])
    /\ \A i \in DOMAIN b.rename : IsList(b.rename[i]) /\ RenamedOneWay(b.rename[i])
    /\ \A i \in DOMAIN b.outputs : IsList(b.outputs[i].refs)
    /\ \A i \in DOMAIN b.data : HasLists(b.data[i].opts)
    /\ \A i \in DOMAIN b.outputs : \A j \in DOMAIN b.outputs[i].refs : HasLists(b.outputs[i].refs[j].opts)
    /\ \A i \in DOMAIN b.rows :
         /\ IsList(b.rows[i].fired) /\ ToSet(b.rows[i].fired) \subseteq DOMAIN b.outputs
         /\ b.rows[i].written \subseteq {ColumnKey(b.writes[j].column) : j \in DOMAIN b.writes}

VARIABLES
  block,      \* the block being run
  phase,      \* the stage that comes next
  targets,    \* output_plan.targets
  columns,    \* target -> projected_columns_by_target
  next,       \* the row the runtime reads next
  built,      \* target -> the rows of its OutputBuilderAccumulator
  filtered,   \* target -> table, as far as finalization has come
  outputs,    \* target -> [cols, rows, labels]: the outputs of the response
  code        \* the code of the error that ended the block, or "none"

vars == <<block, phase, targets, columns, next, built, filtered, outputs, code>>

Phases == {"validate", "targets", "shape", "check", "rows", "finalize", "metadata", "present",
           "delivered", "refused"}

NoProjection == [keep |-> <<>>, drop |-> <<>>, rename |-> <<>>, in |-> NoVar]

Init ==
  /\ block \in Blocks
  /\ phase = "validate"
  /\ targets = <<>> /\ columns = <<>>
  /\ next = 1 /\ built = <<>> /\ filtered = <<>>
  /\ outputs = <<>> /\ code = "none"

(* stop_on_errors: a stage with an error ends the block without outputs *)
(* mutant: the targets that are ready stay in the response *)
RefuseLate(c) ==
  /\ phase' = "refused" /\ code' = c /\ outputs' = filtered
  /\ UNCHANGED <<block, targets, columns, next, built, filtered>>
Refuse(c) ==
  /\ phase' = "refused" /\ code' = c
  /\ UNCHANGED <<block, targets, columns, next, built, filtered, outputs>>

-----------------------------------------------------------------------------
(* Projections                                                             *)

(* _project_output_columns; [keep, drop, rename] is a projection           *)
Survives(c, p) ==
  /\ p.keep = <<>> \/ ColumnKey(c) \in Keys(ToSet(p.keep))
  /\ ColumnKey(c) \notin Keys(ToSet(p.drop))
Renamed(c, pairs) ==
  LET hits == {n \in DOMAIN pairs : ColumnKey(pairs[n][1]) = ColumnKey(c)}
  IN  IF hits = {} THEN c ELSE pairs[Max(hits)][2]
Surviving(cols, p) == Selected(cols, {i \in DOMAIN cols : Survives(cols[i], p)})
Projected(cols, p) ==
  LET kept == Surviving(cols, p) IN [i \in DOMAIN kept |-> Renamed(kept[i], p.rename)]

(* _filter_excluded_output_columns: and one spelling of a name             *)
Visible(cols, hidden) ==
  Selected(cols, {i \in DOMAIN cols : /\ ColumnKey(cols[i]) \notin Keys(hidden)
                                      /\ \A j \in 1..(i - 1) : ColumnKey(cols[j]) # ColumnKey(cols[i])})

(* what a hidden column is renamed to is hidden, one pair after the other  *)
Excluding(hidden, pairs) ==
  LET after[n \in 0..Len(pairs)] ==
        IF n = 0 THEN hidden
        ELSE IF ColumnKey(pairs[n][1]) \in Keys(after[n - 1]) THEN after[n - 1] \cup {pairs[n][2]}
        ELSE after[n - 1]
  IN  after[Len(pairs)]

(* _typed_name_list, _typed_rename_map: the first statement of its kind    *)
FirstOf(lists) == IF lists = <<>> THEN <<>> ELSE lists[1]
PlannedProjection ==
  [keep |-> FirstOf(block.keep), drop |-> FirstOf(block.drop), rename |-> FirstOf(block.rename)]

(* The runtime collects all KEEP and all DROP statements and keeps the     *)
(* last RENAME.                                                            *)
RunProjection ==
  [keep |-> Joined(block.keep), drop |-> Joined(block.drop),
   rename |-> IF block.rename = <<>> THEN <<>> ELSE Last(block.rename)]

-----------------------------------------------------------------------------
(* Validation                                                              *)

TopOutputs == Selected(block.outputs, {i \in DOMAIN block.outputs : ~block.outputs[i].inline})
RefsOf(statements) == Joined([i \in DOMAIN statements |-> statements[i].refs])
NamesOf(references) == [i \in DOMAIN references |-> references[i].name]

(* _merge_unique_targets, resolve_typed_output_targets *)
UniqueTargets(names) ==
  Selected(names, {i \in DOMAIN names : \A j \in 1..(i - 1) : DatasetKey(names[j]) # DatasetKey(names[i])})
ResolvedTargets ==
  IF block.explicit # <<>> THEN block.explicit
  ELSE UniqueTargets(NamesOf(block.data) \o NamesOf(RefsOf(TopOutputs)))

Reserved == \E i \in DOMAIN ResolvedTargets : DatasetKey(ResolvedTargets[i]) = "dictionary"
RepeatedData == Len(UniqueTargets(NamesOf(block.data))) < Len(block.data)

(* the columns a statement may name: of the sources, automatic ones, and   *)
(* those that a statement or a THEN action defines; ELSE is not looked at  *)
Known ==
  Keys(ToSet(block.source) \cup block.internal)
  \cup {ColumnKey(block.writes[i].column) : i \in {j \in DOMAIN block.writes : ~block.writes[j].else}}
Unknown(cs) == \E i \in DOMAIN cs : ColumnKey(cs[i]) \notin Known

(* _validate_rename_statement_contract, by exact spelling                  *)
Sources(pairs) == [i \in DOMAIN pairs |-> pairs[i][1]]
Circular(pairs) == \E i, j \in DOMAIN pairs : pairs[i][1] = pairs[j][2] /\ pairs[i][2] = pairs[j][1]
InvalidRename(pairs) ==
  \/ \E i, j \in DOMAIN pairs : i # j /\ pairs[i][2] = pairs[j][2]
  \/ Circular(pairs)
  \/ Unknown(Sources(pairs))

(* validate_typed; of several faulty statements the first in the program   *)
(* is reported, which this leaves open                                     *)
ColumnFaults ==
  \/ \E i \in DOMAIN (block.keep \o block.drop) : Unknown((block.keep \o block.drop)[i])
  \/ Unknown(Sources(block.labels))
RenameFaults == \E i \in DOMAIN block.rename : InvalidRename(block.rename[i])
Validate ==
  /\ phase = "validate"
  /\ \/ Reserved /\ Refuse("RESERVED_OUTPUT_TARGET")
     \/ RepeatedData /\ ~Reserved /\ Refuse("DUPLICATE_DATA_TARGET")
     \/ ~Reserved /\ ~RepeatedData /\ ColumnFaults /\ Refuse("COLUMN_NOT_FOUND")
     \/ ~Reserved /\ ~RepeatedData /\ RenameFaults /\ Refuse("RENAME_STATEMENT_INVALID")
     \/ /\ ~Reserved /\ ~RepeatedData /\ ~ColumnFaults /\ ~RenameFaults
        /\ phase' = "targets"
        /\ UNCHANGED <<block, targets, columns, next, built, filtered, outputs, code>>

-----------------------------------------------------------------------------
(* Targets                                                                 *)

(* plan_typed_output_targets: the references of DATA, then of the OUTPUT   *)
(* statements, in the order of the program, that name a registered target  *)
Among(n, names) == \E i \in DOMAIN names : DatasetKey(names[i]) = DatasetKey(n)
References(n) ==
  LET all == block.data \o RefsOf(block.outputs)
  IN  Selected(all, {i \in DOMAIN all : DatasetKey(all[i].name) = DatasetKey(n)})

HasTargetOptions(o) == [o EXCEPT !.in = NoVar] # NoProjection
FoldedList(cs) == [i \in DOMAIN cs |-> ColumnKey(cs[i])]
FoldedOptions(o) ==
  <<FoldedList(o.keep), FoldedList(o.drop), [i \in DOMAIN o.rename |-> FoldedList(o.rename[i])]>>

(* the first reference with options speaks for the target *)
OptionsOf(n) ==
  LET with == {i \in DOMAIN References(n) : HasTargetOptions(References(n)[i].opts)}
  IN  IF with = {} THEN NoProjection ELSE References(n)[Min(with)].opts
Conflicting(n) ==
  \E i \in DOMAIN References(n) :
    LET o == References(n)[i].opts
    IN  o.in # NoVar \/ (HasTargetOptions(o) /\ FoldedOptions(o) # FoldedOptions(OptionsOf(n)))

(* rewrite_typed_block and the check for a block without targets *)
PlanTargets ==
  /\ phase = "targets"
  /\ IF \E i \in DOMAIN ResolvedTargets : Conflicting(ResolvedTargets[i])
     THEN Refuse("DATASET_OPTION_INVALID")
     ELSE IF ResolvedTargets = <<>> THEN Refuse("INVALID_OUTPUT_TARGETS")
     ELSE /\ phase' = "shape"
          /\ targets' = ResolvedTargets
          /\ UNCHANGED <<block, columns, next, built, filtered, outputs, code>>

(* default_target and suppress_implicit_output *)
DefaultTarget == IF RefsOf(TopOutputs) # <<>> THEN RefsOf(TopOutputs)[1].name ELSE targets[1]
SuppressImplicit == block.outputs # <<>>

-----------------------------------------------------------------------------
(* Shaping                                                                 *)

(* build_typed_slot_registry: the columns of the source, then those the    *)
(* step defines                                                            *)
Slots == block.source \o [i \in DOMAIN block.writes |-> block.writes[i].column]

(* _typed_internal_output_names; plan_typed_shaping goes over the pairs    *)
(* once more.  A prepared SET or MERGE statement has no options left, so   *)
(* a RENAME= of the source hides nothing here.                             *)
Hidden == Excluding(block.internal, PlannedProjection.rename)
ShapingHidden == Excluding(Hidden, PlannedProjection.rename)
HiddenOf(t) == Excluding(Hidden, OptionsOf(t).rename)

UnfilteredBase == Projected(Visible(Slots, ShapingHidden), PlannedProjection)
Base == Visible(UnfilteredBase, ShapingHidden)
UnfilteredOf(t) == Projected(Base, OptionsOf(t))
ShapedColumns(t) == Visible(UnfilteredOf(t), Excluding(ShapingHidden, OptionsOf(t).rename))

(* has_output_projection_collision *)
(* mutant: names are compared by spelling *)
CollidesBySpelling(cols) == Cardinality(ToSet(cols)) < Len(cols)
ProjectionCollides(cols) == ~UniqueKeys(cols)

(* plan_typed_shaping *)
ShapeOutputs ==
  /\ phase = "shape"
  /\ IF ProjectionCollides(UnfilteredBase) THEN Refuse("RENAME_STATEMENT_INVALID")
     ELSE IF \E i \in DOMAIN targets : ProjectionCollides(UnfilteredOf(targets[i]))
     THEN Refuse("DATASET_OPTION_INVALID")
     ELSE /\ phase' = "check"
          /\ columns' = [t \in ToSet(targets) |-> ShapedColumns(t)]
          /\ UNCHANGED <<block, targets, next, built, filtered, outputs, code>>

-----------------------------------------------------------------------------
(* The row view of the runtime                                             *)

(* The columns of the stream are bound to it; a column the step defines    *)
(* and the stream has not is owned by the view, missing until written.     *)
(* A value written in this row is owned, whatever its column is bound to.  *)
OwnedColumns == Visible([i \in DOMAIN block.writes |-> block.writes[i].column], ToSet(block.source))
Binding(c) == [name |-> c, key |-> ColumnKey(c), source |-> c \in ToSet(block.source)]
RowView(n, written) ==
  LET names == block.source \o OwnedColumns
  IN  [row |-> n,
       cols |-> [i \in DOMAIN names |-> Binding(names[i])],
       owned |-> [k \in written \cup Keys(ToSet(OwnedColumns)) |->
                    IF k \in written THEN <<"step", k, n>> ELSE Null]]

ViewNames(v) == [i \in DOMAIN v.cols |-> v.cols[i].name]
ViewCollides(v, p) == ~UniqueKeys(Projected(ViewNames(v), p))

KeptBindings(v, p) == Selected(v.cols, {i \in DOMAIN v.cols : Survives(v.cols[i].name, p)})

(* project_columns: a binding moves to its new name, and with it the owned *)
(* value of its old name or, if there is none, that of its NEW name; what  *)
(* was owned before stays                                                  *)
(* mutant: a value keeps to its old name *)
ProjectedViewByBinding(v, p) ==
  LET kept == KeptBindings(v, p)
  IN  [v EXCEPT !.cols = [i \in DOMAIN kept |-> [kept[i] EXCEPT !.name = Renamed(kept[i].name, p.rename)]]]
ProjectedView(v, p) ==
  LET kept == KeptBindings(v, p)
      New(i) == ColumnKey(Renamed(kept[i].name, p.rename))
      Old(i) == ColumnKey(kept[i].name)
      moved == {i \in DOMAIN kept : {Old(i), New(i)} \cap DOMAIN v.owned # {}}
      Moved(i) == v.owned[IF Old(i) \in DOMAIN v.owned THEN Old(i) ELSE New(i)]
  IN  [v EXCEPT !.cols = [i \in DOMAIN kept |-> [kept[i] EXCEPT !.name = Renamed(kept[i].name, p.rename)]],
                !.owned = [k \in DOMAIN v.owned \cup {New(i) : i \in moved} |->
                             IF \E i \in moved : New(i) = k
                             THEN Moved(CHOOSE i \in moved : New(i) = k) ELSE v.owned[k]]]

(* project_output_view: the statements, then the options of the target     *)
TargetView(t, v) == ProjectedView(ProjectedView(v, RunProjection), OptionsOf(t))

(* LogicalRowView.resolve and resolve_logical_value: a name the view does  *)
(* not have is a missing value                                             *)
CellOf(v, c) ==
  LET found == {i \in DOMAIN v.cols : ColumnKey(v.cols[i].name) = ColumnKey(c)}
      b == v.cols[CHOOSE i \in found : TRUE]
  IN  IF found = {} THEN Null
      ELSE IF ~b.source THEN v.owned[b.key]
      ELSE IF ColumnKey(c) \in DOMAIN v.owned THEN v.owned[ColumnKey(c)]
      ELSE <<"row", b.key, v.row>>

(* OutputBuilderAccumulator: the planned columns, or, where none is        *)
(* planned, what the view shows.  The statement of a prepared stream no    *)
(* longer names its IN= variables, so the runtime knows only FIRST. and    *)
(* LAST.                                                                   *)
BuiltColumns(t) ==
  IF columns[t] # <<>> THEN columns[t]
  ELSE LET names == ViewNames(TargetView(t, RowView(1, {})))
       IN  Selected(names, {i \in DOMAIN names : names[i][1] = "var"})

(* ensure_output_target_shape_from_view, before any row is read            *)
ViewsCollide ==
  LET v == RowView(1, {})
  IN  \E i \in DOMAIN targets :
        ViewCollides(v, RunProjection) \/ ViewCollides(ProjectedView(v, RunProjection), OptionsOf(targets[i]))

(* mutant: a target without planned columns gets no builder *)
CheckPlannedViews ==
  /\ phase = "check" /\ ~ViewsCollide
  /\ phase' = "rows" /\ built' = [t \in {u \in ToSet(targets) : columns[u] # <<>>} |-> <<>>]
  /\ UNCHANGED <<block, targets, columns, next, filtered, outputs, code>>
CheckViews ==
  /\ phase = "check"
  /\ IF ViewsCollide THEN Refuse("NAME_COLLISION")
     ELSE /\ phase' = "rows"
          /\ built' = [t \in ToSet(targets) |-> <<>>]
          /\ UNCHANGED <<block, targets, columns, next, filtered, outputs, code>>

-----------------------------------------------------------------------------
(* Rows                                                                    *)

(* route_typed_output and the implicit OUTPUT: the targets a row goes to   *)
Reached(o) == IF o.refs = <<>> THEN <<DefaultTarget>> ELSE UniqueTargets(NamesOf(o.refs))
Route(r) ==
  IF SuppressImplicit THEN Joined([j \in DOMAIN r.fired |-> Reached(block.outputs[r.fired[j]])])
  ELSE <<DefaultTarget>>

CellsOf(t, n) ==
  LET v == TargetView(t, RowView(n, block.rows[n].written))
  IN  [c \in ToSet(BuiltColumns(t)) |-> CellOf(v, c)]

(* output_router, append_projected_row_to_target; WHERE=, FIRSTOBS= and    *)
(* OBS= of a target are in RowRuntime                                      *)
RouteRow ==
  /\ phase = "rows" /\ next \in DOMAIN block.rows
  /\ LET route == Route(block.rows[next])
     IN  IF \E i \in DOMAIN route : ~Among(route[i], targets) THEN Refuse("OUTPUT_TARGET_NOT_DECLARED")
         ELSE /\ built' = [t \in ToSet(targets) |->
                            LET here == {i \in DOMAIN route : DatasetKey(route[i]) = DatasetKey(t)}
                            IN  built[t] \o [i \in 1..Cardinality(here) |-> CellsOf(t, next)]]
              /\ next' = next + 1
              /\ UNCHANGED <<block, phase, targets, columns, filtered, outputs, code>>

EndOfRows ==
  /\ phase = "rows" /\ next \notin DOMAIN block.rows
  /\ phase' = "finalize"
  /\ UNCHANGED <<block, targets, columns, next, built, filtered, outputs, code>>

-----------------------------------------------------------------------------
(* Finalization                                                            *)

(* _apply_output_stage_options, one target after the other: the schema of  *)
(* the sources is restored, which may fail, and hidden columns leave       *)
(* mutant: only the automatic variables themselves are hidden *)
Outside(cols, hidden) == Selected(cols, {i \in DOMAIN cols : ColumnKey(cols[i]) \notin Keys(hidden)})
UnhiddenNames(t) == Outside(BuiltColumns(t), block.internal)
Unhidden(t) == Outside(BuiltColumns(t), HiddenOf(t))
FinalizedTable(t) ==
  LET cols == Unhidden(t)
  IN  [cols |-> cols, labels |-> <<>>,
       rows |-> [i \in DOMAIN built[t] |-> [c \in ToSet(cols) |-> built[t][i][c]]]]

FinalizeTarget ==
  /\ phase = "finalize" /\ DOMAIN filtered # ToSet(targets)
  /\ LET t == targets[Min({i \in DOMAIN targets : targets[i] \notin DOMAIN filtered})]
     IN  \/ Refuse("CONVERT_OUTPUT_FAILED")
         \/ /\ filtered' = [u \in DOMAIN filtered \cup {t} |->
                              IF u = t THEN FinalizedTable(t) ELSE filtered[u]]
            /\ UNCHANGED <<block, phase, targets, columns, next, built, outputs, code>>

EndOfTargets ==
  /\ phase = "finalize" /\ DOMAIN filtered = ToSet(targets)
  /\ phase' = "metadata"
  /\ UNCHANGED <<block, targets, columns, next, built, filtered, outputs, code>>

(* _project_column_labels; a later entry of a name replaces an earlier one *)
ProjectedLabels(entries, p) ==
  LET kept == Selected(entries, {i \in DOMAIN entries : Survives(entries[i][1], p)})
  IN  [i \in DOMAIN kept |-> <<Renamed(kept[i][1], p.rename), kept[i][2]>>]
(* mutant: the labels do not see the options of the target *)
StatementLabels(t) ==
  LET entries == ProjectedLabels(block.given \o block.labels, PlannedProjection)
  IN  IF entries = <<>> THEN block.given ELSE entries
(* where no label is left, the metadata of the first source stays as it is *)
LabelEntries(t) ==
  LET entries == ProjectedLabels(ProjectedLabels(block.given \o block.labels, PlannedProjection), OptionsOf(t))
  IN  IF entries = <<>> THEN block.given ELSE entries

(* _apply_arrow_metadata: the label of a field, by the exact name.  Here   *)
(* fields have no label before; one in the metadata of a source's field is *)
(* kept where no entry replaces it.                                        *)
LabelsOf(t) ==
  LET entries == LabelEntries(t)
      With(c) == {i \in DOMAIN entries : entries[i][1] = c}
  IN  [c \in {d \in ToSet(filtered[t].cols) : With(d) # {}} |-> entries[Max(With(c))][2]]

(* _apply_typed_output_metadata *)
ApplyMetadata ==
  /\ phase = "metadata"
  /\ \/ Refuse("CONVERT_OUTPUT_FAILED")
     \/ /\ phase' = "present"
        /\ filtered' = [t \in DOMAIN filtered |-> [filtered[t] EXCEPT !.labels = LabelsOf(t)]]
        /\ UNCHANGED <<block, targets, columns, next, built, outputs, code>>

(* _coerce_public_execute_outputs *)
Present ==
  /\ phase = "present"
  /\ \/ Refuse("CONVERT_OUTPUT_FAILED")
     \/ /\ phase' = "delivered" /\ outputs' = filtered
        /\ UNCHANGED <<block, targets, columns, next, built, filtered, code>>

Ended == phase \in {"delivered", "refused"} /\ UNCHANGED vars

Next ==
  \/ Validate \/ PlanTargets \/ ShapeOutputs \/ CheckViews \/ RouteRow \/ EndOfRows
  \/ FinalizeTarget \/ EndOfTargets \/ ApplyMetadata \/ Present \/ Ended

Spec == Init /\ [][Next]_vars

-----------------------------------------------------------------------------
(* Properties                                                              *)

(* Every stage leaves what the next one reads: planned columns and rows    *)
(* for every target, finalized tables for a prefix of the targets.         *)
TypeOK ==
  /\ phase \in Phases
  /\ next \in 1..(Len(block.rows) + 1)
  /\ DOMAIN columns \in {{}, ToSet(targets)} /\ DOMAIN built \in {{}, ToSet(targets)}
  /\ \A t \in DOMAIN built : \A i \in DOMAIN built[t] : DOMAIN built[t][i] = ToSet(BuiltColumns(t))
  /\ \E n \in 0..Len(targets) : DOMAIN filtered = {targets[i] : i \in 1..n}
  /\ \A t \in DOMAIN filtered : UniqueKeys(filtered[t].cols)

(* What the statements of the block say, whichever part reads them: the    *)
(* data columns that KEEP, DROP and RENAME leave, and the value each has   *)
(* in a row.                                                               *)
Said == [keep |-> Joined(block.keep), drop |-> Joined(block.drop), rename |-> Joined(block.rename)]
SaidFor(t) ==
  LET options == {r \in ToSet(References(t)) : HasTargetOptions(r.opts)}
  IN  IF options = {} THEN NoProjection ELSE (CHOOSE r \in options : TRUE).opts
Kept(t) ==
  {c \in ToSet(Visible(Slots, block.internal)) :
     Survives(c, Said) /\ Survives(Renamed(c, Said.rename), SaidFor(t))}
FinalKey(c, t) == ColumnKey(Renamed(Renamed(c, Said.rename), SaidFor(t).rename))
Current(c, n) ==
  IF ColumnKey(c) \in block.rows[n].written THEN <<"step", ColumnKey(c), n>>
  ELSE IF c \in ToSet(block.source) THEN <<"row", ColumnKey(c), n>> ELSE Null
Sends(r, t) ==
  IF block.outputs = <<>> THEN IF t = targets[1] THEN 1 ELSE 0
  ELSE LET Names(j) == {DatasetKey(n) : n \in ToSet(NamesOf(block.outputs[r.fired[j]].refs))}
       IN  Cardinality({j \in DOMAIN r.fired :
             DatasetKey(t) \in IF Names(j) = {} THEN {DatasetKey(DefaultTarget)} ELSE Names(j)})
SentTo(t) ==
  Joined([n \in DOMAIN block.rows |-> [i \in 1..Sends(block.rows[n], t) |-> n]])

Delivered == phase = "delivered"

(* docs/syntax.md, OUTPUT, KEEP / DROP and RENAME: a target has a row for  *)
(* each OUTPUT that reached it, in order, and a column for each data       *)
(* column that is left, under its new name and with the value it had in    *)
(* that row.  The plan and the row view must agree on names, and a value   *)
(* must follow its name through two projections.                           *)
ProjectedRows ==
  Delivered => \A t \in ToSet(targets) :
    LET out == outputs[t]
    IN  /\ Keys(ToSet(out.cols)) = {FinalKey(c, t) : c \in Kept(t)}
        /\ Len(out.rows) = Len(SentTo(t))
        /\ \A i \in DOMAIN out.rows : \A c \in Kept(t) : \A d \in ToSet(out.cols) :
             ColumnKey(d) = FinalKey(c, t) => out.rows[i][d] = Current(c, SentTo(t)[i])

(* docs/design.md: automatic variables and their renamed aliases never     *)
(* reach an output, neither their names nor their values, whichever of the *)
(* two layers lets them through.                                           *)
NoInternalLeaves ==
  \A t \in DOMAIN outputs :
    /\ Keys(ToSet(outputs[t].cols)) \cap Keys(block.internal) = {}
    /\ \A i \in DOMAIN outputs[t].rows : \A c \in DOMAIN outputs[t].rows[i] :
         LET cell == outputs[t].rows[i][c]
         IN  cell # Null => cell[2] \notin Keys(block.internal)

(* An error in any stage, also at the second of several targets, leaves a  *)
(* response without outputs; a response without an error has every target. *)
AllTargetsOrNone ==
  /\ code # "none" => outputs = <<>>
  /\ Delivered => code = "none" /\ DOMAIN outputs = ToSet(targets)

(* What shaping accepts the runtime can project: names collide in the plan *)
(* or not at all.                                                          *)
PlanIsExecutable == code # "NAME_COLLISION"

(* A column keeps its label through both projections, and no column gets   *)
(* the label of another one.                                               *)
LabelSaid(c) ==
  LET entries == block.given \o block.labels
  IN  Selected(entries, {i \in DOMAIN entries : ColumnKey(entries[i][1]) = ColumnKey(c)})
LabelsFollowColumns ==
  Delivered => \A t \in ToSet(targets) : \A c \in Kept(t) : \A d \in ToSet(outputs[t].cols) :
    ColumnKey(d) = FinalKey(c, t) =>
      IF LabelSaid(c) = <<>> THEN d \notin DOMAIN outputs[t].labels
      ELSE d \in DOMAIN outputs[t].labels /\ outputs[t].labels[d] = Last(LabelSaid(c))[2]
=============================================================================
