--------------------------- MODULE SetPreparation ---------------------------
(***************************************************************************)
(* How a SET statement becomes one prepared stream: input resolution, the  *)
(* SET branch of ExecutionInputPreparationService.prepare, the LAG and     *)
(* LEAD columns of prepare_typed, and the native ingress behind it.        *)
(*                                                                         *)
(* A plain SET of several tables is concatenated.  A SET with BY, options  *)
(* or automatic variables is prepared: the inputs are sorted, each         *)
(* occurrence is shaped and marked, the occurrences are put together in BY *)
(* order, and the result replaces the sources; the statement becomes a SET *)
(* of that carrier.  type is the Arrow type of all columns of a table.     *)
(***************************************************************************)
EXTENDS NativeIngress

CONSTANT
  Requests   \* [refs, by, end, indsname, lags, explicit]: the SET statements and inputs
             \* lags: the LAG/LEAD calls of the block, [column, step, default, helper, owned]

(* A SET without sources is left alone, and is not prepared here; what the *)
(* caller gives as tables are tables; the names in an INDSNAME= column are *)
(* not sorted by; a flag has a name.                                       *)
ASSUME RequestsAssumption ==
  \A r \in Requests :
    /\ 1 \in DOMAIN r.refs
    /\ IsList(r.refs) /\ IsList(r.by) /\ IsList(r.lags)
    /\ \A s \in DOMAIN r.refs : r.refs[s].opts.firstobs \in Int /\ r.refs[s].opts.obs \in Int
    /\ \A d \in DOMAIN r.explicit :
         r.explicit[d].kind = "table" => IsTable(r.explicit[d].table, Cells)
    /\ r.indsname # NoVar => \A n \in DOMAIN r.by : ColumnKey(r.by[n]) # ColumnKey(r.indsname)
    /\ NoVar \notin ToSet(FlagColumns(r.by))

VARIABLES
  request,    \* the request being prepared
  phase,      \* the step of prepare_typed that comes next
  inputs,     \* dataset name -> [kind, table, prep]: current_inputs
  tables,     \* occurrence -> shaped and marked table: prepared_tables
  sources,    \* the references of the statement, as rewritten so far
  result      \* [code, inputs, refs]: what the runtime is given

vars == <<request, phase, inputs, tables, sources, result>>

refs == request.refs
by == request.by
Occurrences == DOMAIN refs
First == refs[1].name
Names == {refs[s].name : s \in Occurrences}
SourceKeys == {DatasetKey(n) : n \in Names}
Input(s) == inputs[refs[s].name]
Internal == InternalNames(refs, {request.end, request.indsname}, by)

NoResult == [code |-> "none", inputs |-> <<>>, refs |-> <<>>]
Init ==
  /\ request \in Requests
  /\ phase = "resolve"
  /\ inputs = <<>> /\ tables = <<>>
  /\ sources = refs
  /\ result = NoResult

(* _failed_preparation_result: no carrier and no statement                 *)
Fail(code) ==
  /\ phase' = "failed"
  /\ result' = [NoResult EXCEPT !.code = code]
  /\ UNCHANGED <<request, inputs, tables, sources>>

Continue(next) == phase' = next /\ UNCHANGED <<request, tables, sources, result>>

-----------------------------------------------------------------------------
(* Resolution and schema                                                   *)

(* resolve_typed: every source is found and its options fit its schema     *)
Resolution ==
  /\ phase = "resolve"
  /\ LET found == ResolvedInputs(request.explicit, Names)
     IN  IF \E n \in Names : ~HasInput(found, n) THEN Fail("SET_NOT_FOUND")
         ELSE IF \E s \in Occurrences :
                   LET source == found[refs[s].name]
                   IN  source.kind = "table" /\ ShapeFails(source.table, refs[s].opts)
              THEN Fail("DATASET_OPTION_INVALID")
         ELSE inputs' = found /\ Continue("collisions")

(* _detect_set_input_internal_variable_collisions *)
Collisions ==
  /\ phase = "collisions"
  /\ IF \E s \in Occurrences :
          /\ Input(s).kind = "table"
          /\ Collides(Columns(Shape(Input(s).table, refs[s].opts)), Internal, Input(s).prep)
     THEN Fail("INTERNAL_VAR_COLLISION")
     ELSE Continue("schema") /\ UNCHANGED inputs

(* _set_schema_incompatibility_diagnostic after                            *)
(* _promote_mixed_string_tables: a shared column has one type              *)
TypesOf(key, ts) ==
  {ts[m].type : m \in {n \in DOMAIN ts : key \in Keys(Columns(ts[n]))}} \ {"null"}
Incompatible(ts) ==
  \E key \in UNION {Keys(Columns(ts[m])) : m \in DOMAIN ts} \ Keys(Internal) :
    Cardinality(TypesOf(key, ts)) > 1 /\ TypesOf(key, ts) # {"string", "large_string"}

Optioned == \E s \in Occurrences : HasOptions(refs[s].opts)
AllTables == \A s \in Occurrences : Input(s).kind = "table"
Schema ==
  /\ phase = "schema"
  /\ IF ~Optioned /\ AllTables /\ Incompatible([s \in Occurrences |-> Input(s).table])
     THEN Fail("SET_SCHEMA_INCOMPATIBLE")
     ELSE Continue("order") /\ UNCHANGED inputs

-----------------------------------------------------------------------------
(* Order                                                                   *)

(* pa.concat_tables: the union of the columns by exact name, and the rows  *)
(* one table after the other with missing values where a table lacks one   *)
Widened(ts) ==
  Joined([m \in DOMAIN ts |->
            Selected(ts[m].cols,
                     {i \in DOMAIN ts[m].cols : \A n \in 1..(m - 1) : ts[m].cols[i] \notin Columns(ts[n])})])
(* mutant: a table keeps to its own columns *)
NarrowConcat(ts) ==
  [cols |-> Widened(ts), type |-> ts[1].type, rows |-> Joined([m \in DOMAIN ts |-> ts[m].rows])]
Concat(ts) ==
  LET cols == Widened(ts)
      Wide(t) == [i \in DOMAIN t.rows |->
                    [c \in ToSet(cols) |-> IF c \in Columns(t) THEN t.rows[i][c] ELSE Null]]
  IN  [cols |-> cols, type |-> ts[1].type, rows |-> Joined([m \in DOMAIN ts |-> Wide(ts[m])])]

(* the sources leave the inputs under the spellings of the statement, and  *)
(* the carrier enters under the first of them                              *)
Replaced(table) ==
  [d \in (DOMAIN inputs \ Names) \cup {First} |->
     IF d = First
     THEN [kind |-> "table", table |-> table, prep |-> Provenance(inputs[First].prep, "prepared_set")]
     ELSE inputs[d]]

Repeated == Cardinality(SourceKeys) < Len(refs)
AskedIn == \E s \in Occurrences : refs[s].in # NoVar
Unprepared ==
  request.lags = <<>> /\ by = <<>> /\ ~Repeated /\ request.end = NoVar /\ request.indsname = NoVar

(* _try_interleave_set_inputs *)
Concatenable == Unprepared /\ Len(refs) > 1 /\ ~AskedIn /\ ~Optioned /\ AllTables

(* _sort_inputs_by_by_keys: every table, by the BY columns it has          *)
SortedByActive(t) ==
  LET Found(b) == t.cols[Min(Spellings(t, b))]
      active   == Selected(by, {n \in DOMAIN by : HasColumn(t, by[n])})
  IN  SortTable(t, [n \in DOMAIN active |-> Found(active[n])])
SortedInputs ==
  [d \in DOMAIN inputs |->
     IF inputs[d].kind # "table" THEN inputs[d]
     ELSE [kind |-> "table", table |-> SortedByActive(inputs[d].table), prep |-> inputs[d].prep]]

(* should_prepare_set_rows; a single source that is a carrier is complete  *)
PreparesRows ==
  /\ ~Unprepared \/ Optioned \/ AskedIn
  /\ ~(Len(refs) = 1 /\ Input(1).prep = "prepared_set")

Order ==
  /\ phase = "order"
  /\ inputs' = IF Concatenable THEN Replaced(Concat([s \in Occurrences |-> Input(s).table]))
               ELSE IF by # <<>> THEN SortedInputs
               ELSE inputs
  /\ Continue(IF PreparesRows THEN "shape" ELSE "collapse")

-----------------------------------------------------------------------------
(* The carrier                                                             *)

(* _set_arrow_column for each of cs: its values are set, and the column is *)
(* appended where the table has none of that name; given[i][c] is the new  *)
(* value in row i                                                          *)
Put(t, cs, given) ==
  [t EXCEPT !.cols = @ \o Selected(cs, {n \in DOMAIN cs : /\ cs[n] \notin Columns(t)
                                                          /\ \A m \in 1..(n - 1) : cs[m] # cs[n]}),
            !.rows = [i \in DOMAIN @ |-> [c \in Columns(t) \cup ToSet(cs) |->
                                            IF c \in ToSet(cs) THEN given[i][c] ELSE t.rows[i][c]]]]

(* every IN= variable of the statement, compared as spelled                *)
(* mutant: any IN= of the occurrence sets every variable *)
InAnyFlag(s, v) == IF refs[s].in # NoVar THEN 1 ELSE 0
InFlag(s, v) == IF refs[s].in = v THEN 1 ELSE 0
InVars == Selected([s \in Occurrences |-> refs[s].in], {s \in Occurrences : refs[s].in # NoVar})
Marked(s, t) ==
  LET flagged == Put(t, InVars, [i \in DOMAIN t.rows |-> [v \in ToSet(InVars) |-> InFlag(s, v)]])
  IN  IF request.indsname = NoVar THEN flagged
      ELSE Put(flagged, <<request.indsname>>,
               [i \in DOMAIN t.rows |-> [v \in {request.indsname} |-> refs[s].name]])

(* One occurrence of _prepare_set_arrow_inputs_if_supported.  A stream     *)
(* leaves the Arrow path, and prepare_set_rows refuses options and cannot  *)
(* load it.                                                                *)
ShapeOccurrence ==
  /\ phase = "shape" /\ Len(tables) < Len(refs)
  /\ LET s == Len(tables) + 1
         t == Shape(Input(s).table, refs[s].opts)
     IN  IF Input(s).kind # "table"
         THEN Fail(IF Optioned THEN "DATASET_OPTION_INVALID" ELSE "IO_INPUT_ERROR")
         ELSE IF Collides(Columns(t), Internal, Input(s).prep) THEN Fail("INTERNAL_VAR_COLLISION")
         ELSE /\ tables' = Append(tables, Marked(s, t))
              /\ UNCHANGED <<request, phase, inputs, sources, result>>

(* sort_by with the order of sources and rows as the last keys, END=, and  *)
(* the flags, which a carrier without rows does not get                    *)
(* mutant: the sources are taken to be in order already *)
Unordered(t) == t
Ordered(t) == SortTable(t, by)
Carrier ==
  LET ordered == Ordered(Concat(tables))
      n       == Len(ordered.rows)
      ended   == IF request.end = NoVar THEN ordered
                 ELSE Put(ordered, <<request.end>>,
                          [i \in 1..n |-> [v \in {request.end} |-> IF i = n THEN 1 ELSE 0]])
  IN  IF by = <<>> \/ n = 0 THEN ended ELSE WithFlags(ended, by)

Combine ==
  /\ phase = "shape" /\ Len(tables) = Len(refs)
  /\ IF Incompatible(tables) THEN Fail("SET_SCHEMA_INCOMPATIBLE")
     ELSE IF \E n \in DOMAIN by : ~HasColumn(Concat(tables), by[n]) THEN Fail("BY_PRECONDITION_FAILED")
     ELSE inputs' = Replaced(Carrier) /\ Continue("collapse")

(* _collapse_prepared_set_statement, _update_typed_prepared_source         *)
(* mutant: the reference keeps its options *)
CarrierRefWithOptions == refs[1]
CarrierRef == [name |-> First, opts |-> NoOptions, in |-> NoVar]
OtherSourceLeft ==
  \E d \in DOMAIN inputs : DatasetKey(d) \in SourceKeys /\ DatasetKey(d) # DatasetKey(First)
Collapse ==
  /\ phase = "collapse"
  /\ IF \E p, q \in PreparedKinds(inputs) : p # q THEN Fail("PREPARATION_PROVENANCE_CONFLICT")
     ELSE /\ sources' = IF inputs[First].prep = "prepared_set" /\ ~OtherSourceLeft
                        THEN <<CarrierRef>> ELSE sources
          /\ phase' = "helpers"
          /\ UNCHANGED <<request, inputs, tables, result>>

-----------------------------------------------------------------------------
(* LAG and LEAD                                                            *)

(* the calls whose value is a column of the input, not of the row loop     *)
Owned == Selected(request.lags, {n \in DOMAIN request.lags : request.lags[n].owned})
HelperColumns == [n \in DOMAIN Owned |-> Owned[n].helper]
CallOf(h) == Owned[Max({n \in DOMAIN Owned : Owned[n].helper = h})]
NoneOwned == \A n \in DOMAIN request.lags : ~request.lags[n].owned

(* target_index_for_spec, over the rows of the whole carrier               *)
(* mutant: the first row is out of reach *)
HelperValueAfterFirst(rows, i, l, c) ==
  IF i + l.step > 1 /\ i + l.step \in DOMAIN rows THEN rows[i + l.step][c] ELSE l.default
HelperValue(rows, i, l, c) ==
  IF i + l.step \in DOMAIN rows THEN rows[i + l.step][c] ELSE l.default

(* _materialize_lag_lead_arrow_input_if_supported *)
Columnar(t) == \A n \in DOMAIN Owned : HasColumn(t, Owned[n].column)
WithHelpers(t) ==
  Put(t, HelperColumns,
      [i \in DOMAIN t.rows |-> [h \in ToSet(HelperColumns) |->
         HelperValue(t.rows, i, CallOf(h), Resolve(t, CallOf(h).column))]])

(* materialize_lag_lead_columns over loaded rows: a column nobody has is   *)
(* missing in every row, and without rows there are no columns             *)
RowHelperValue(t, i, l) ==
  IF HasColumn(t, l.column) THEN HelperValue(t.rows, i, l, Resolve(t, l.column))
  ELSE IF i + l.step \in DOMAIN t.rows THEN Null ELSE l.default
WithRowHelpers(t) ==
  IF t.rows = <<>> THEN [t EXCEPT !.cols = <<>>]
  ELSE Put(t, HelperColumns,
           [i \in DOMAIN t.rows |-> [h \in ToSet(HelperColumns) |-> RowHelperValue(t, i, CallOf(h))]])

(* _materialize_lag_lead_rewrite_inputs; here every spelling of the        *)
(* sources leaves the inputs.  A carrier that stands beside another        *)
(* spelling of a source stays columnar in the code; the requests spell an  *)
(* explicit input as the statement does, or have no helpers.               *)
Helpers ==
  /\ phase = "helpers"
  /\ LET t       == SortTable(Concat([s \in DOMAIN sources |-> inputs[sources[s].name].table]), by)
         helped  == IF Len(sources) = 1 /\ Columnar(t) THEN WithHelpers(t) ELSE WithRowHelpers(t)
         keys    == {DatasetKey(sources[s].name) : s \in DOMAIN sources}
         carrier == [kind |-> "table", table |-> helped, prep |-> Provenance(inputs[First].prep, "prepared_set")]
         helpedInputs == IF NoneOwned THEN inputs
                         ELSE [d \in {e \in DOMAIN inputs : DatasetKey(e) \notin keys} \cup {First} |->
                                 IF d = First THEN carrier ELSE inputs[d]]
     IN  IF \E p, q \in PreparedKinds(helpedInputs) : p # q THEN Fail("PREPARATION_PROVENANCE_CONFLICT")
         ELSE inputs' = helpedInputs /\ Continue("ingress")

-----------------------------------------------------------------------------
(* Ingress                                                                 *)

Ingress ==
  /\ phase = "ingress"
  /\ IF Refusal(inputs, sources) # "none" THEN Fail(Refusal(inputs, sources))
     ELSE /\ phase' = "done"
          /\ result' = [code |-> "ok", inputs |-> inputs, refs |-> Normalized(inputs, sources)]
          /\ UNCHANGED <<request, inputs, tables, sources>>

(* build_payload has returned *)
Returned == phase \in {"done", "failed"} /\ UNCHANGED vars

Next ==
  \/ Resolution \/ Collisions \/ Schema \/ Order
  \/ ShapeOccurrence \/ Combine \/ Collapse \/ Helpers \/ Ingress \/ Returned

Spec == Init /\ [][Next]_vars

-----------------------------------------------------------------------------
(* Properties                                                              *)

(* Every row of every table has the table's columns, no more occurrences   *)
(* are shaped than the statement has, and only a returned call has a       *)
(* result.                                                                 *)
WellFormed(t) == \A i \in DOMAIN t.rows : t.cols # <<>> => DOMAIN t.rows[i] = Columns(t)
TypeOK ==
  /\ phase \in {"resolve", "collisions", "schema", "order", "shape", "collapse", "helpers",
                "ingress", "done", "failed"}
  /\ Len(tables) <= Len(refs)
  /\ \A s \in DOMAIN tables : WellFormed(tables[s])
  /\ \A d \in DOMAIN inputs : inputs[d].kind = "table" => WellFormed(inputs[d].table)
  /\ phase \in {"done", "failed"} <=> result.code # "none"

(* The contract.  A source is a stream: its rows, in BY order as far as    *)
(* the table has the BY columns, shaped by its options.  SET reads all     *)
(* lines of all streams by key, a line without a BY column last, lines of  *)
(* one key stream by stream and in stream order.                           *)
Source(s) == InputOf(request.explicit, refs[s].name)
Tabular == phase = "done" /\ \A s \in Occurrences : Source(s).kind = "table"
Stream(s) ==
  LET t == Source(s).table
  IN  Shape(SortTable(t, Selected(by, {n \in DOMAIN by : HasColumn(t, by[n])})), refs[s].opts)
Lines == UNION {{<<s, i>> : i \in DOMAIN Stream(s).rows} : s \in Occurrences}
Cell(l, c) ==
  LET t == Stream(l[1]) IN IF HasColumn(t, c) THEN t.rows[l[2]][Resolve(t, c)] ELSE Null
LineBefore(l, m) ==
  LET Key(n) == [b \in DOMAIN by |-> Cell(n, by[b])]
  IN  \/ KeyPrecedes(Key(l), Key(m))
      \/ Key(l) = Key(m) /\ (l[1] < m[1] \/ (l[1] = m[1] /\ l[2] < m[2]))
Place(l) == 1 + Cardinality({m \in Lines : LineBefore(m, l)})

(* What the runtime reads: the inputs of the references, one after the     *)
(* other, a column by the first of its spellings.                          *)
Given == Concat([n \in DOMAIN result.refs |-> result.inputs[result.refs[n].name].table])
Reads(p, c) == Given.rows[p][Given.cols[Min(Spellings(Given, c))]]

(* docs/syntax.md: SET puts tables one below the other, and with BY        *)
(* merge-sorts them.  Every selected row of every source reaches the       *)
(* runtime exactly once, at its place, under one column per name, whatever *)
(* the sources were sorted, shaped, respelled or repeated into before.     *)
InterleavesStreams ==
  Tabular =>
    /\ Len(Given.rows) = Cardinality(Lines)
    /\ \A l \in Lines, s \in Occurrences : \A c \in Columns(Stream(s)) :
         HasColumn(Given, c) /\ Reads(Place(l), c) = Cell(l, c)

(* IN=, INDSNAME= and END= are columns of the carrier like FIRST. and      *)
(* LAST.: in every row they must tell of the stream the row came from, of  *)
(* the last row of all streams, and of the neighbours after the sort.  An  *)
(* IN= variable written in two spellings is left out.                      *)
OneSpelling(v) == \A t \in Occurrences : refs[t].in # NoVar /\ ColumnKey(refs[t].in) = ColumnKey(v) => refs[t].in = v
AutomaticsTell ==
  Tabular =>
    \A l \in Lines :
      LET p == Place(l)
          Changes(b, q) == q \notin DOMAIN Given.rows \/ Reads(q, b) # Reads(p, b)
      IN  /\ \A v \in ToSet(InVars) : OneSpelling(v) => (Reads(p, v) = 1 <=> refs[l[1]].in = v)
          /\ request.indsname # NoVar => Reads(p, request.indsname) = refs[l[1]].name
          /\ request.end # NoVar => (Reads(p, request.end) = 1 <=> p = Len(Given.rows))
          /\ \A b \in ToSet(by) : /\ Reads(p, Flag("FIRST", b)) = 1 <=> Changes(b, p - 1)
                                  /\ Reads(p, Flag("LAST", b)) = 1 <=> Changes(b, p + 1)

(* docs/syntax.md: lag is the previous row's value and lead the next       *)
(* row's, over the rows of all streams in the order they are read, across  *)
(* BY groups and sources and never across the rows the options removed.    *)
HelpersLookAcross ==
  Tabular =>
    \A p \in DOMAIN Given.rows, n \in DOMAIN Owned :
      LET q == p + Owned[n].step
      IN  HasColumn(Given, Owned[n].column) =>
            Reads(p, Owned[n].helper) =
              IF q \in DOMAIN Given.rows THEN Reads(q, Owned[n].column) ELSE Owned[n].default

(* The native ingress refuses nothing that preparation accepted: one       *)
(* reference without options is left for a carrier, and it is the carrier  *)
(* that the reference finds (unless the caller claims that an input is     *)
(* prepared).  It needs a caller who spells inputs as the statement does:  *)
(* another spelling stays in the inputs and is found first.                *)
PreparedIsAccepted ==
  (\A d \in DOMAIN request.explicit : request.explicit[d].prep = "none") =>
    result.code \notin {"INPUT_OPTION_NOT_PREPARED", "PREPARED_INPUT_OPTION_REMAINING",
                        "PREPARED_INPUT_CONTRACT_INVALID"}
=============================================================================
