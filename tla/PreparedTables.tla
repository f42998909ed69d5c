--------------------------- MODULE PreparedTables ---------------------------
(***************************************************************************)
(* The tables that input preparation works on, and the steps SET and MERGE *)
(* share: resolving a column name, applying the options of a dataset       *)
(* reference, sorting by the BY columns, and marking BY groups.            *)
(*                                                                         *)
(* A table is the names of its columns, in order, and its rows; a row maps *)
(* every column to a value.  A column name is <<kind, name, spelling>>:    *)
(* kind is "var", "FIRST" or "LAST", and two names that differ only in     *)
(* spelling are the same column to the language.  BY values are numbers or *)
(* Null; type is the Arrow type of the BY columns.  The two letter cases   *)
(* in which a FIRST. or LAST. column is stored are one column here.        *)
(***************************************************************************)
EXTENDS SequencesExt, Listings

CONSTANTS
  Null,     \* a missing value
  NoVar     \* no automatic variable is asked for

(* missing is not a number *)
ASSUME NullAssumption == Null \notin Int

IsList(s) == s \in Seq(ToSet(s))

-----------------------------------------------------------------------------
(* Names                                                                   *)

(* _column_key: case-insensitive identity *)
ColumnKey(c) == <<c[1], c[2]>>
Keys(cs) == {ColumnKey(c) : c \in cs}
Columns(t) == ToSet(t.cols)

(* a table has its columns in every row, with values in V *)
IsTable(t, V) ==
  /\ DOMAIN t = {"cols", "rows", "type"}
  /\ t.cols \in Seq(Columns(t))
  /\ t.rows \in Seq([Columns(t) -> V])
Cells == Int \cup {Null}

(* _dataset_key of a dataset name <<name, spelling>> *)
DatasetKey(n) == n[1]

(* _resolve_arrow_table_column_name: the exact spelling, else the first    *)
(* column with the same key                                                *)
Spellings(t, c) == {i \in DOMAIN t.cols : ColumnKey(t.cols[i]) = ColumnKey(c)}
HasColumn(t, c) == Spellings(t, c) # {}
Resolve(t, c) ==
  IF c \in Columns(t) THEN c ELSE t.cols[CHOOSE i \in Spellings(t, c) : \A j \in Spellings(t, c) : i <= j]

(* _resolve_source_input_ref: the same for a dataset among the inputs      *)
HasInput(inputs, n) == \E d \in DOMAIN inputs : DatasetKey(d) = DatasetKey(n)
InputOf(inputs, n) ==
  IF n \in DOMAIN inputs THEN inputs[n]
  ELSE inputs[CHOOSE d \in DOMAIN inputs : DatasetKey(d) = DatasetKey(n)]

(* resolve_input_names: the caller's inputs, and every name of the         *)
(* statement under its own spelling                                        *)
ResolvedInputs(explicit, names) ==
  [n \in DOMAIN explicit \cup {m \in names : HasInput(explicit, m)} |-> InputOf(explicit, n)]

-----------------------------------------------------------------------------
(* Options of a dataset reference: DROP=/KEEP= as the column keys dropped, *)
(* WHERE= as a column and the values it admits, RENAME= as at most one     *)
(* pair, FIRSTOBS= and OBS=.                                               *)

NoOptions == [drop |-> {}, where |-> <<>>, rename |-> <<>>, firstobs |-> 1, obs |-> -1]

(* _has_dataset_reference_options; IN= is not one of them *)
HasOptions(o) == o # NoOptions

Without(t, ks) == Selected(t.cols, {i \in DOMAIN t.cols : ColumnKey(t.cols[i]) \notin ks})
Window(rows, o) ==
  SubSeq(rows, o.firstobs,
         IF o.obs < 0 \/ o.firstobs - 1 + o.obs > Len(rows) THEN Len(rows)
         ELSE o.firstobs - 1 + o.obs)

(* try_apply_dataset_reference_options_to_arrow_table: keep and drop, then *)
(* WHERE=, then RENAME=, then the window                                   *)
Shape(t, o) ==
  LET kept  == Without(t, o.drop)
      held  == IF o.where = <<>> THEN t.rows
               ELSE Selected(t.rows, {i \in DOMAIN t.rows : t.rows[i][Resolve(t, o.where[1])] \in o.where[2]})
      New(c) == IF o.rename # <<>> /\ ColumnKey(c) = ColumnKey(o.rename[1]) THEN o.rename[2] ELSE c
      Old(c) == CHOOSE b \in ToSet(kept) : New(b) = c
      cols  == [i \in DOMAIN kept |-> New(kept[i])]
  IN  [t EXCEPT !.cols = cols,
                !.rows = LET w == Window(held, o)
                         IN  [i \in DOMAIN w |-> [c \in ToSet(cols) |-> w[i][Old(c)]]]]

(* _project_arrow_schema_for_dataset_options: what makes the options of a  *)
(* reference invalid, found on the schema before any row is read           *)
ShapeFails(t, o) ==
  LET kept == [t EXCEPT !.cols = Without(t, o.drop)]
  IN  \/ o.where # <<>> /\ ~HasColumn(kept, o.where[1])
      \/ o.rename # <<>> /\ ~HasColumn(kept, o.rename[1])
      \/ o.firstobs < 1

-----------------------------------------------------------------------------
(* Order and groups                                                        *)

(* missing values sort after every other value *)
Precedes(v, w) == v # Null /\ (w = Null \/ v < w)
KeyPrecedes(k, l) ==
  \E n \in DOMAIN k : Precedes(k[n], l[n]) /\ \A m \in 1..(n - 1) : k[m] = l[m]

RowKey(t, by, r) == [n \in DOMAIN by |-> r[Resolve(t, by[n])]]

(* Table.sort_by, which is stable: rows of one key stay in table order     *)
KeyedRows(t, by) == {<<RowKey(t, by, t.rows[i]), i>> : i \in DOMAIN t.rows}
Stably(K) ==
  {e \in K \X K : \/ KeyPrecedes(e[1][1], e[2][1])
                  \/ e[1][1] = e[2][1] /\ e[1][2] < e[2][2]}
SortTable(t, by) ==
  LET K     == KeyedRows(t, by)
      order == Listed(K, Stably(K))
  IN  [t EXCEPT !.rows = [p \in DOMAIN t.rows |-> t.rows[order[p][2]]]]

(* annotate_by_group_flags, _annotate_arrow_by_group_flags: each BY column *)
(* is compared with itself in the rows around; other is the row before for *)
(* FIRST. and the row after for LAST.                                      *)
Flag(kind, b) == <<kind, b[2], b[3]>>
FlagColumns(by) ==
  [n \in 1..(2 * Len(by)) |-> Flag(IF n % 2 = 1 THEN "FIRST" ELSE "LAST", by[(n + 1) \div 2])]
Differs(t, b, i, other) ==
  IF other \notin DOMAIN t.rows \/ t.rows[i][Resolve(t, b)] # t.rows[other][Resolve(t, b)] THEN 1 ELSE 0
WithFlags(t, by) ==
  LET flags == FlagColumns(by)
      FlagOf(c, i) ==
        LET b == CHOOSE b \in ToSet(by) : c \in {Flag("FIRST", b), Flag("LAST", b)}
        IN  Differs(t, b, i, IF c[1] = "FIRST" THEN i - 1 ELSE i + 1)
  IN  [t EXCEPT !.cols = t.cols \o flags,
                !.rows = [i \in DOMAIN t.rows |->
                            [c \in Columns(t) \cup ToSet(flags) |->
                               IF c \in ToSet(flags) THEN FlagOf(c, i) ELSE t.rows[i][c]]]]

(* _collect_internal_variable_names and                                    *)
(* _detect_internal_variable_collision_in_schema                           *)
InternalNames(refs, others, by) ==
  ({refs[i].in : i \in DOMAIN refs} \cup others \cup ToSet(FlagColumns(by))) \ {NoVar}
Collides(cs, internal, prep) == prep # "prepared_merge" /\ Keys(cs) \cap Keys(internal) # {}

(* _prepared_provenance: a prepared source keeps its kind *)
Provenance(prep, kind) == IF prep = "none" THEN kind ELSE prep
(* _preparation_kind, _aggregate_preparation_provenance *)
PreparedKinds(inputs) == {inputs[d].prep : d \in DOMAIN inputs} \ {"none"}
=============================================================================
