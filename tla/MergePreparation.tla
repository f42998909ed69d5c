-------------------------- MODULE MergePreparation --------------------------
(***************************************************************************)
(* How a MERGE statement becomes one prepared table: input resolution and  *)
(* the MERGE branch of ExecutionInputPreparationService.prepare.           *)
(*                                                                         *)
(* The sources are looked up and their schemas checked, every occurrence   *)
(* is shaped by its options, the rows are aligned into a selection plan of *)
(* row numbers (one output row per EmitGroupRow or EmitOrdinalRow), and    *)
(* the plan is rendered into a carrier that replaces all the sources; the  *)
(* statement becomes a SET of that carrier.                                *)
(*                                                                         *)
(* By the time of resolution an input is an Arrow table or, when the       *)
(* caller's payload only exposes an Arrow stream, something else: the rest *)
(* of this module calls the second a "stream".                             *)
(***************************************************************************)
EXTENDS PreparedTables

CONSTANT
  Requests    \* [refs, by, end, explicit]: the MERGE statements and inputs to prepare

(* A MERGE without sources is left alone, and is not prepared here; what   *)
(* the caller gives as tables are tables.                                  *)
ASSUME RequestsAssumption ==
  \A r \in Requests :
    /\ 1 \in DOMAIN r.refs
    /\ r.refs \in Seq(ToSet(r.refs)) /\ r.by \in Seq(ToSet(r.by))
    /\ \A s \in DOMAIN r.refs : r.refs[s].opts.firstobs \in Int /\ r.refs[s].opts.obs \in Int
    /\ \A d \in DOMAIN r.explicit :
         r.explicit[d].kind = "table" => IsTable(r.explicit[d].table, Cells)

VARIABLES
  request,    \* the request being prepared
  phase,      \* the step of prepare that comes next
  inputs,     \* dataset name -> [kind, table, prep]: resolved_inputs
  tables,     \* occurrence -> shaped table: source_infos
  keys,       \* BY keys still to be emitted, in order: ordered_keys
  plan,       \* emitted rows: [key, pick], pick[s] a row number or 0 for None
  result      \* [code, inputs, refs, warned]: InputPreparationResult

vars == <<request, phase, inputs, tables, keys, plan, result>>

refs == request.refs
by == request.by
Occurrences == DOMAIN refs
Input(s) == InputOf(inputs, refs[s].name)
Internal == InternalNames(refs, {request.end}, by)
IsBy(c) == ColumnKey(c) \in Keys(ToSet(by))

NoResult == [code |-> "none", inputs |-> <<>>, refs |-> <<>>, warned |-> FALSE]
Init ==
  /\ request \in Requests
  /\ phase = "resolve"
  /\ inputs = <<>> /\ tables = <<>> /\ keys = <<>> /\ plan = <<>>
  /\ result = NoResult

(* _failed_preparation_result: no carrier and no statement                 *)
Fail(code) ==
  /\ phase' = "failed"
  /\ result' = [NoResult EXCEPT !.code = code]
  /\ UNCHANGED <<request, inputs, tables, keys, plan>>

-----------------------------------------------------------------------------
(* Resolution and schema                                                   *)

(* resolve_typed: every source is found and its options fit its schema     *)
Resolution ==
  /\ phase = "resolve"
  /\ LET found == ResolvedInputs(request.explicit, {refs[s].name : s \in Occurrences})
         Table(s) == InputOf(found, refs[s].name)
     IN  IF \E s \in Occurrences : ~HasInput(found, refs[s].name) THEN Fail("SET_NOT_FOUND")
         ELSE IF \E s \in Occurrences : Table(s).kind = "table"
                                        /\ ShapeFails(Table(s).table, refs[s].opts)
              THEN Fail("DATASET_OPTION_INVALID")
         ELSE /\ phase' = "ownership" /\ inputs' = found
              /\ UNCHANGED <<request, tables, keys, plan, result>>

(* analyze_merge_schema_ownership over the lineage, which is complete when *)
(* every source is a table: an ordinary column has one provider            *)
Provided(s) ==
  {k \in Keys(ToSet(Shape(Input(s).table, refs[s].opts).cols)) : k[1] = "var"} \ Keys(ToSet(by))
Ambiguous == \E s, t \in Occurrences : s # t /\ Provided(s) \cap Provided(t) # {}

Ownership ==
  /\ phase = "ownership"
  /\ IF (\A s \in Occurrences : Input(s).kind = "table") /\ Ambiguous
     THEN Fail("MERGE_DUPLICATE_COLUMN")
     ELSE phase' = "shape" /\ UNCHANGED <<request, inputs, tables, keys, plan, result>>

(* One occurrence of _prepare_merge_arrow_input_if_supported (BY) or       *)
(* _prepare_merge_arrow_input_without_by.  A stream leaves the Arrow path, *)
(* and the row path it falls back to refuses options and cannot load it.   *)
ShapeOccurrence ==
  /\ phase = "shape" /\ Len(tables) < Len(refs)
  /\ LET s == Len(tables) + 1
         t == Shape(Input(s).table, refs[s].opts)
     IN  IF Input(s).kind # "table"
         THEN Fail(IF \E u \in Occurrences : HasOptions(refs[u].opts)
                   THEN "DATASET_OPTION_INVALID" ELSE "IO_INPUT_ERROR")
         ELSE IF Collides(Columns(t), Internal, Input(s).prep) THEN Fail("INTERNAL_VAR_COLLISION")
         ELSE IF \E n \in DOMAIN by : ~HasColumn(t, by[n]) THEN Fail("BY_PRECONDITION_FAILED")
         ELSE /\ tables' = Append(tables, t)
              /\ UNCHANGED <<request, phase, inputs, keys, plan, result>>

-----------------------------------------------------------------------------
(* Alignment                                                               *)

RowsOf(s) == tables[s].rows
KeyAt(s, i) == RowKey(tables[s], by, RowsOf(s)[i])
(* grouped_sources: the rows of a source with one key, in row order        *)
Group(s, k) == Numbered({i \in DOMAIN RowsOf(s) : KeyAt(s, i) = k})
AllKeys == UNION {{KeyAt(s, i) : i \in DOMAIN RowsOf(s)} : s \in Occurrences}
KeyOrder == {e \in AllKeys \X AllKeys : KeyPrecedes(e[1], e[2])}

(* _promote_mixed_string_tables and                                        *)
(* _merge_by_schema_incompatibility_diagnostic                             *)
ByTypes == {tables[s].type : s \in Occurrences} \ {"null"}
TypesAgree == Cardinality(ByTypes) <= 1 \/ ByTypes = {"string", "large_string"}

Align ==
  /\ phase = "shape" /\ Len(tables) = Len(refs)
  /\ IF by # <<>> /\ ~TypesAgree THEN Fail("BY_PRECONDITION_FAILED")
     ELSE /\ phase' = "emit"
          /\ keys' = IF by = <<>> THEN <<>> ELSE Listed(AllKeys, KeyOrder)
          /\ UNCHANGED <<request, inputs, tables, plan, result>>

(* _build_arrow_merge_by_selection_plan: the row with this offset in the   *)
(* group of the first key; a source whose group is shorter repeats its     *)
(* last row, one without the key gives None                                *)
GroupLength(k) == Max({Len(Group(s, k)) : s \in Occurrences})
Offset(k) == Cardinality({p \in DOMAIN plan : plan[p].key = k})
(* mutant: a short group is not carried *)
PickWithoutCarry(s, k, offset) ==
  LET g == Group(s, k) IN IF offset < Len(g) THEN g[offset + 1] ELSE 0
PickInGroup(s, k, offset) ==
  LET g == Group(s, k)
  IN  IF g = <<>> THEN 0 ELSE g[IF offset < Len(g) THEN offset + 1 ELSE Len(g)]

EmitGroupRow ==
  /\ phase = "emit" /\ keys # <<>>
  /\ LET k == Head(keys)
         o == Offset(k)
     IN  /\ plan' = Append(plan, [key |-> k, pick |-> [s \in Occurrences |-> PickInGroup(s, k, o)]])
         /\ keys' = IF o + 1 = GroupLength(k) THEN Tail(keys) ELSE keys
  /\ UNCHANGED <<request, phase, inputs, tables, result>>

(* _build_arrow_merge_ordinal_selection_plan: without BY, by row number    *)
(* mutant: off by one *)
MoreOrdinalsInclusive ==
  by = <<>> /\ Len(plan) <= Max({Len(RowsOf(s)) : s \in Occurrences})
MoreOrdinals == by = <<>> /\ Len(plan) < Max({Len(RowsOf(s)) : s \in Occurrences})
EmitOrdinalRow ==
  /\ phase = "emit" /\ MoreOrdinals
  /\ LET n == Len(plan) + 1
     IN  plan' = Append(plan, [key  |-> <<n>>,
                               pick |-> [s \in Occurrences |-> IF n <= Len(RowsOf(s)) THEN n ELSE 0]])
  /\ UNCHANGED <<request, phase, inputs, tables, keys, result>>

-----------------------------------------------------------------------------
(* The carrier                                                             *)

Picked(p, s) == RowsOf(s)[plan[p].pick[s]]
Present(p) == {s \in Occurrences : plan[p].pick[s] # 0}
OwnColumns(s) == Selected(tables[s].cols, {i \in DOMAIN tables[s].cols : ~IsBy(tables[s].cols[i])})

(* a BY column has the spelling of the first source and the value of the   *)
(* first source present in the row                                         *)
KeyColumns == [n \in DOMAIN by |-> Resolve(tables[1], by[n])]
(* mutant: always the first source *)
FirstKeyValue(p, c) ==
  IF plan[p].pick[1] = 0 THEN Null ELSE Picked(p, 1)[Resolve(tables[1], c)]
KeyValue(p, c) == LET s == Min(Present(p)) IN Picked(p, s)[Resolve(tables[s], c)]

(* an ordinary column is taken from a source that has it; without BY a     *)
(* later source overwrites an earlier one                                  *)
Owners(c, p) == {s \in Present(p) : HasColumn(tables[s], c)}
OwnValue(p, c) ==
  IF Owners(c, p) = {} THEN Null
  ELSE LET s == Max(Owners(c, p)) IN Picked(p, s)[Resolve(tables[s], c)]

(* IN=: one column per variable, in the spelling of the first occurrence   *)
(* that names it.  With BY it tells of that occurrence, without BY of the  *)
(* last one with this spelling.                                            *)
Naming(v) == {s \in Occurrences : refs[s].in # NoVar /\ ColumnKey(refs[s].in) = ColumnKey(v)}
InValue(p, v) ==
  LET s == IF by # <<>> THEN Min(Naming(v)) ELSE Max({t \in Occurrences : refs[t].in = v})
  IN  IF plan[p].pick[s] # 0 THEN 1 ELSE 0
InColumns ==
  LET named == Numbered({s \in Occurrences : refs[s].in # NoVar /\ s = Min(Naming(refs[s].in))})
  IN  [n \in DOMAIN named |-> refs[named[n]].in]

(* FIRST.x and LAST.x: this BY column differs from the row before or after *)
KeyChanges(n, p, other) ==
  IF other \notin DOMAIN plan \/ plan[p].key[n] # plan[other].key[n] THEN 1 ELSE 0
FlagValue(p, c) ==
  LET n == CHOOSE n \in DOMAIN by : c \in {Flag("FIRST", by[n]), Flag("LAST", by[n])}
  IN  KeyChanges(n, p, IF c[1] = "FIRST" THEN p - 1 ELSE p + 1)

Carrier ==
  LET own   == Joined([s \in Occurrences |-> OwnColumns(s)])
      flags == FlagColumns(by)
      ValueAt(p, c) == IF c \in ToSet(flags) THEN FlagValue(p, c)
                       ELSE IF c \in ToSet(KeyColumns) THEN KeyValue(p, c)
                       ELSE IF c \in ToSet(InColumns) THEN InValue(p, c) ELSE OwnValue(p, c)
      cols  == KeyColumns \o own \o InColumns \o flags
  IN  [cols |-> cols,
       rows |-> [p \in DOMAIN plan |-> [c \in ToSet(cols) |-> ValueAt(p, c)]],
       type |-> tables[1].type]

(* RUNTIME_MERGE_REPEATED_BY_VALUES                                        *)
Repeats == \E k \in AllKeys : Cardinality({s \in Occurrences : Len(Group(s, k)) >= 2}) >= 2

(* The sources leave the inputs under every spelling, the carrier enters   *)
(* under the first source's name, and the statement becomes SET of it.     *)
(* mutant: sources leave under the statement's spelling only *)
OtherSpellings ==
  {d \in DOMAIN inputs : \A s \in Occurrences : d # refs[s].name}
SourceKeys == {DatasetKey(refs[s].name) : s \in Occurrences}
OtherInputs == {d \in DOMAIN inputs : DatasetKey(d) \notin SourceKeys}
Render ==
  /\ phase = "emit" /\ keys = <<>> /\ ~MoreOrdinals
  /\ LET first   == refs[1].name
         carrier == [kind |-> "table", table |-> Carrier,
                     prep |-> Provenance(Input(1).prep, "prepared_merge")]
         ready   == [d \in OtherInputs \cup {first} |-> IF d = first THEN carrier ELSE inputs[d]]
     IN  IF \E p, q \in PreparedKinds(ready) : p # q
         THEN Fail("PREPARATION_PROVENANCE_CONFLICT")
         ELSE /\ phase' = "done"
              /\ result' = [code   |-> "ok",
                            inputs |-> ready,
                            refs   |-> <<[name |-> first, opts |-> NoOptions, in |-> NoVar]>>,
                            warned |-> by # <<>> /\ Repeats]
              /\ UNCHANGED <<request, inputs, tables, keys, plan>>

(* prepare has returned *)
Returned == phase \in {"done", "failed"} /\ UNCHANGED vars

Next ==
  \/ Resolution \/ Ownership \/ ShapeOccurrence \/ Align
  \/ EmitGroupRow \/ EmitOrdinalRow \/ Render \/ Returned

Spec == Init /\ [][Next]_vars

-----------------------------------------------------------------------------
(* Properties                                                              *)

(* A plan only picks rows that exist, its keys are in order, every row     *)
(* shows at least one source, and no more occurrences are shaped than the  *)
(* statement has.                                                          *)
TypeOK ==
  /\ phase \in {"resolve", "ownership", "shape", "emit", "done", "failed"}
  /\ Len(tables) <= Len(refs)
  /\ \A p \in DOMAIN plan : /\ \A s \in Occurrences : plan[p].pick[s] \in 0..Len(RowsOf(s))
                            /\ Present(p) # {}
                            /\ p > 1 => ~KeyPrecedes(plan[p].key, plan[p - 1].key)
  /\ \A k \in ToSet(keys) : plan # <<>> => ~KeyPrecedes(k, plan[Len(plan)].key)
  /\ phase \in {"done", "failed"} <=> result.code # "none"

(* The stream a source is to the contract: the rows of the shaped table in *)
(* BY order, rows of one key in table order                                *)
Stream(s) ==
  LET t == IF by = <<>> THEN tables[s] ELSE SortTable(tables[s], by)
  IN  [i \in DOMAIN t.rows |->
         [key |-> IF by = <<>> THEN <<i>> ELSE RowKey(t, by, t.rows[i]), row |-> t.rows[i]]]
(* no row of a source: no key is empty *)
Absent == [key |-> <<>>, row |-> <<>>]
Shows(p, s) == IF plan[p].pick[s] = 0 THEN Absent ELSE [key |-> plan[p].key, row |-> Picked(p, s)]
RowsRead(s) == Cardinality({plan[p].pick[s] : p \in DOMAIN plan} \ {0})
Unread(s) == LET all == Stream(s) IN SubSeq(all, RowsRead(s) + 1, Len(all))

Aligned == phase \in {"emit", "done"} \/ result.code = "PREPARATION_PROVENANCE_CONFLICT"
Stage == IF ~Aligned THEN "waiting" ELSE IF phase = "emit" THEN "reading" ELSE "finished"
UnreadRows == IF ~Aligned THEN <<>> ELSE [s \in Occurrences |-> Unread(s)]
HeldRows ==
  IF ~Aligned THEN <<>>
  ELSE [s \in Occurrences |-> IF plan = <<>> THEN Absent ELSE Shows(Len(plan), s)]
EmittedRows ==
  IF ~Aligned THEN <<>> ELSE [p \in DOMAIN plan |-> [s \in Occurrences |-> Shows(p, s)]]
Merge == INSTANCE MatchMerge WITH
  Before <- KeyPrecedes, stage <- Stage, unread <- UnreadRows, held <- HeldRows, emitted <- EmittedRows

(* Grouping each source into a dictionary, sorting the union of the keys   *)
(* and counting offsets inside a group comes to reading sorted streams one *)
(* row at a time: every row of every source is read exactly once, in order,*)
(* and only a source that has run out of a key repeats its last row.       *)
RefinesMatchMerge == Merge!Spec

(* What the carrier shows is what the streams showed, column by column: no *)
(* value of one source hides a value of another, a missing source shows    *)
(* missing values, IN= tells whether a source is present when a row is     *)
(* carried forward and when it is not there, and FIRST. and LAST. mark     *)
(* where a BY column changes from row to row.                              *)
CarrierShowsMerge ==
  phase = "done" =>
    LET carrier  == result.inputs[refs[1].name].table
        At(p, c) == carrier.rows[p][Resolve(carrier, c)]
        Row(p)   == [s \in Occurrences |-> Shows(p, s)]
    IN  /\ Cardinality(Keys(Columns(carrier))) = Len(carrier.cols)
        /\ Len(carrier.rows) = Len(plan)
        /\ \A p \in DOMAIN plan, s \in Occurrences :
             /\ \A c \in Columns(tables[s]) :
                  ~IsBy(c) => At(p, c) = IF Row(p)[s] = Absent THEN Null ELSE Row(p)[s].row[c]
             /\ refs[s].in # NoVar /\ Naming(refs[s].in) = {s} =>
                  At(p, refs[s].in) = IF Row(p)[s] = Absent THEN 0 ELSE 1
        /\ \A p \in DOMAIN plan, n \in DOMAIN by :
             /\ At(p, by[n]) = plan[p].key[n]
             /\ At(p, Flag("FIRST", by[n])) = 1 <=> p = 1 \/ At(p - 1, by[n]) # At(p, by[n])
             /\ At(p, Flag("LAST", by[n])) = 1 <=> p = Len(plan) \/ At(p + 1, by[n]) # At(p, by[n])

(* The runtime is handed one stream for the statement: a single reference, *)
(* stripped of the options that were applied, to the only input left under *)
(* any spelling of a source; the caller's other inputs are untouched, and  *)
(* one kind of prepared input is among them.  A failure hands on nothing.  *)
OneCarrier ==
  /\ phase = "done" =>
       /\ Len(result.refs) = 1 /\ ~HasOptions(result.refs[1].opts)
       /\ {d \in DOMAIN result.inputs : DatasetKey(d) \in SourceKeys} = {result.refs[1].name}
       /\ \A d \in DOMAIN request.explicit :
            DatasetKey(d) \notin SourceKeys =>
              d \in DOMAIN result.inputs /\ result.inputs[d] = request.explicit[d]
       /\ \E d \in DOMAIN result.inputs :
            PreparedKinds(result.inputs) = {result.inputs[d].prep}
  /\ phase = "failed" => result.inputs = <<>> /\ result.refs = <<>>

=============================================================================
