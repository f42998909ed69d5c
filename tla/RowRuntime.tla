----------------------------- MODULE RowRuntime -----------------------------
(***************************************************************************)
(* The native row loop of limulus: execute_block in                        *)
(* native/limulus_native/src/runtime/mod.rs.                               *)
(*                                                                         *)
(* A DATA block arrives as a FLAT list of statements; IF ... THEN DO, ELSE *)
(* DO and DO loops are closed by END statements which the interpreter      *)
(* finds by counting.  The loop reads every row of every SET stream,       *)
(* restores the RETAIN variables, raises the automatic variables, applies  *)
(* WHERE, runs the statements and appends output rows to per-target        *)
(* builders.  The builders are exported only when the whole loop ends.     *)
(*                                                                         *)
(* One step of the model is one statement.  The call stack of              *)
(* execute_typed_statement_range is the variable stack: one frame per      *)
(* nested range, its cursor, where it stops, the ELSE chain it is in and   *)
(* the DO loop it belongs to.                                              *)
(*                                                                         *)
(* A value is Null or a number.  Columns are names; formats, text, dates,  *)
(* arrays, apply() callbacks and LAG queues are left out.  IN= and         *)
(* INDSNAME= reach the loop as columns of the prepared input.              *)
(***************************************************************************)
EXTENDS Integers, Sequences, FiniteSets

CONSTANTS
  Programs,  \* lowered DATA blocks
  Inputs,    \* sequences of SET streams; a stream is a sequence of rows
  Null,      \* a missing value
  NoLoop     \* a range that is not the body of a DO loop

VARIABLES
  prog,      \* the block being run
  streams,   \* its registered SET inputs
  status,    \* "reading", "executing", "exported" or "failed"
  pos,       \* stream and row last read, and global_row_index
  row,       \* the logical row view of the current row
  stack,     \* frames of execute_typed_statement_range
  retained,  \* retain_values
  sums,      \* sum_totals
  outs,      \* rows of each output builder
  counts,    \* dataset_option_survivor_counts
  cur,       \* history: what the current row did so far
  log        \* history: what every row that passed WHERE did

vars == <<prog, streams, status, pos, row, stack, retained, sums, outs,
          counts, cur, log>>

-----------------------------------------------------------------------------
(* Statements                                                              *)

(* e is an expression; an action that cannot be lowered is a Fault *)
Assign(c, e)    == [op |-> "ASSIGN", col |-> c, val |-> e]
Sum(c, e)       == [op |-> "SUM", col |-> c, val |-> e]
Output(ts)      == [op |-> "OUTPUT", to |-> ts]
Delete          == [op |-> "DELETE"]
Stop            == [op |-> "STOP"]
SubsetIf(q)     == [op |-> "SUBSET IF", cond |-> q]
If(q, a)        == [op |-> "IF", cond |-> q, act |-> a]
ElseIf(q, a)    == [op |-> "ELSE IF", cond |-> q, act |-> a]
Else(a)         == [op |-> "ELSE", act |-> a]
Do(c, lo, hi)   == [op |-> "DO", col |-> c, lo |-> lo, hi |-> hi]
End             == [op |-> "END"]
DoGroup         == [op |-> "DO GROUP"]           \* the action of THEN DO
Fault(k)        == [op |-> "FAULT", kind |-> k]  \* a Deferred payload

(* Expressions and conditions; Bad is a condition whose evaluation fails.  *)
Lit(v)     == [k |-> "lit", v |-> v]
Col(c)     == [k |-> "col", c |-> c]
Plus(a, b) == [k |-> "plus", a |-> a, b |-> b]
Bad        == [k |-> "bad"]
Is(c, v)   == [k |-> "is", c |-> c, v |-> v]
Always     == [k |-> "always"]

(* The frontend reads an inline action that holds a "+" as a SUM: its      *)
(* target is everything before the first "+".                              *)
InlineAssign(c, e) ==
  IF e.k = "plus" THEN Sum(c \o " = " \o e.a.c, e.b) ELSE Assign(c, e)

(* The tokens of a RETAIN statement are all names, initial values too.     *)
RetainNames(tokens) == {tokens[i] : i \in DOMAIN tokens}

KindOf(s) == IF s.op = "FAULT" THEN s.kind ELSE s.op
IsElse(s) == KindOf(s) \in {"ELSE IF", "ELSE"}
Inline(s) == IF s.op \in {"IF", "ELSE IF", "ELSE"} THEN s.act ELSE s

Statements == prog.stmts
Targets == DOMAIN prog.options

(* plan_typed_output_targets: a structured OUTPUT anywhere                 *)
SuppressImplicitOutput ==
  \E i \in DOMAIN Statements : Inline(Statements[i]).op = "OUTPUT"

(* collect_typed_mutable_column_names *)
WrittenColumns(p) ==
  LET writes == {Inline(p.stmts[i]) : i \in DOMAIN p.stmts}
  IN  p.retain
      \cup {s.col : s \in {w \in writes : w.op \in {"ASSIGN", "SUM"}}}
      \cup {s.col : s \in {w \in writes : w.op = "DO"}}
MutableColumns == WrittenColumns(prog)

InputColumns(in) == UNION {UNION {DOMAIN in[s][i] : i \in DOMAIN in[s]} : s \in DOMAIN in}
SourceColumns == InputColumns(streams)
Columns == SourceColumns \cup MutableColumns

-----------------------------------------------------------------------------
(* The logical row view                                                    *)

Put(f, c, v) == [x \in DOMAIN f \cup {c} |-> IF x = c THEN v ELSE f[x]]

(* resolve: automatic values first, then what the row owns, then the       *)
(* source cell                                                             *)
Value(r, c) ==
  IF c \in DOMAIN r.auto THEN r.auto[c]
  ELSE IF c \in DOMAIN r.owned THEN r.owned[c]
  ELSE IF c \in DOMAIN r.src THEN r.src[c]
  ELSE Null

Visible(r) == DOMAIN r.src \cup DOMAIN r.owned

(* store_runtime_scalar: the value, and the mark that this row wrote it    *)
Store(r, c, v) ==
  [r EXCEPT !.owned = Put(r.owned, c, v), !.written = r.written \cup {c}]

(* scalar_eq: NULL is coerced to 0 when the other operand is a number      *)
Zeroed(v) == IF v = Null THEN 0 ELSE v
SameValue(a, b) == a = b \/ Zeroed(a) = Zeroed(b)

Holds(r, q) == q = Always \/ (q.k = "is" /\ SameValue(Value(r, q.c), q.v))

Atom(r, e) == IF e.k = "lit" THEN e.v ELSE Value(r, e.c)

(* arithmetic propagates NULL *)
Eval(r, e) ==
  IF e.k # "plus" THEN Atom(r, e)
  ELSE IF Null \in {Atom(r, e.a), Atom(r, e.b)} THEN Null
  ELSE Atom(r, e.a) + Atom(r, e.b)

-----------------------------------------------------------------------------
(* The automatic values and the start of a row                             *)

Bit(b) == IF b THEN 1 ELSE 0
FirstName(c) == "first." \o c
LastName(c)  == "last." \o c

Total == LET upto[s \in 0..Len(streams)] ==
               IF s = 0 THEN 0 ELSE upto[s - 1] + Len(streams[s])
         IN  upto[Len(streams)]

Merge(f, g) == [x \in DOMAIN f \cup DOMAIN g |-> IF x \in DOMAIN g THEN g[x] ELSE f[x]]

(* _N_, _ERROR_ and the END= flag *)
Automatics(n) ==
  [x \in {"_N_", "_ERROR_"} \cup ({prog.end} \ {""}) |->
     IF x = "_N_" THEN n ELSE IF x = "_ERROR_" THEN 0 ELSE Bit(n = Total)]

(* mutant: the owned values of the last row are not cleared *)
ResetRowKeepingOwned(s, i, n) ==
  [src     |-> streams[s][i],
   owned   |-> Merge([c \in MutableColumns \ DOMAIN streams[s][i] |-> Null], row.owned),
   written |-> {},
   auto    |-> Automatics(n)]

(* reset_row_layout and reset_automatic_scalars: nothing of the last row   *)
(* stays; columns of the program that are no source column are absent      *)
ResetRow(s, i, n) ==
  [src     |-> streams[s][i],
   owned   |-> [c \in MutableColumns \ DOMAIN streams[s][i] |-> Null],
   written |-> {},
   auto    |-> Automatics(n)]

(* RETAIN restores only a variable that has no value in this row           *)
Restore(r) ==
  LET back == {c \in prog.retain \cap DOMAIN retained : Value(r, c) = Null}
  IN  [src     |-> r.src,
       owned   |-> Merge(r.owned, [c \in back |-> retained[c]]),
       written |-> back,
       auto    |-> r.auto]

(* mutant: FIRST.c compares with what the statements left of the last row *)
SameAsLastProcessed(r, s, j, c) ==
  /\ j \in DOMAIN streams[s]
  /\ SameValue(Value(r, c), IF j = pos.row /\ log # <<>> THEN log[Len(log)].final[c]
                                                       ELSE streams[s][j][c])

(* FIRST.c and LAST.c compare with the neighbours in the same stream       *)
SameAsNeighbour(r, s, j, c) ==
  j \in DOMAIN streams[s] /\ SameValue(Value(r, c), streams[s][j][c])

WithGroupFlags(r, s, i) ==
  LET first(c) == Bit(~SameAsNeighbour(r, s, i - 1, c))
      last(c)  == Bit(~SameAsNeighbour(r, s, i + 1, c))
      flags == [x \in {FirstName(c) : c \in prog.by} \cup {LastName(c) : c \in prog.by} |->
                  IF \E c \in prog.by : x = FirstName(c)
                    THEN first(CHOOSE c \in prog.by : x = FirstName(c))
                    ELSE last(CHOOSE c \in prog.by : x = LastName(c))]
  IN  [r EXCEPT !.auto = Merge(r.auto, flags)]

NewRow(s, i, n) == WithGroupFlags(Restore(ResetRow(s, i, n)), s, i)

Snapshot(r) == [c \in Columns \cup DOMAIN r.auto |-> Value(r, c)]

-----------------------------------------------------------------------------
(* Blocks of statements                                                    *)

(* find_typed_matching_end counts these as openers.  An IF, ELSE IF or     *)
(* ELSE whose whole payload is deferred is not one of them.                *)
Opens(s) ==
  \/ s.op \in {"IF", "ELSE IF", "ELSE"} /\ s.act.op \in {"DO GROUP", "DO"}
  \/ KindOf(s) = "DO"

Openers(i, j) == Cardinality({k \in i..j : Opens(Statements[k])})
Ends(i, j) == Cardinality({k \in i..j : Statements[k].op = "END"})

(* mutant: the first END closes the block *)
NearestEnd(i, stop) ==
  {e \in (i + 1)..(stop - 1) :
     /\ Statements[e].op = "END"
     /\ \A d \in (i + 1)..(e - 1) : Statements[d].op # "END"}

(* the ENDs before stop that close the block opened at i: one, or none     *)
MatchingEnd(i, stop) ==
  {e \in (i + 1)..(stop - 1) :
     /\ Statements[e].op = "END"
     /\ Ends(i + 1, e) = 1 + Openers(i + 1, e)
     /\ \A d \in (i + 1)..(e - 1) : Ends(i + 1, d) < 1 + Openers(i + 1, d)}

EndOf(i, stop) == CHOOSE e \in MatchingEnd(i, stop) : TRUE

Frame(pc, stop, loop) == [pc |-> pc, stop |-> stop, chain |-> "none", loop |-> loop]

Top == stack[Len(stack)]
Below == SubSeq(stack, 1, Len(stack) - 1)
At(f) == Statements[f.pc]
InRange(f) == f.pc < f.stop
InChain(f) == f.chain # "none" /\ InRange(f) /\ IsElse(At(f))

(* the cursor of the innermost range moves to p, its ELSE chain to c       *)
Goto(p, c) == Append(Below, [Top EXCEPT !.pc = p, !.chain = c])

-----------------------------------------------------------------------------
(* Output                                                                  *)

(* the columns KEEP and KEEP= leave of the row *)
Kept(names, keep) == IF keep = {} THEN names ELSE names \cap keep
Projected(t) ==
  [c \in Kept(Kept(Visible(row), prog.keep), prog.options[t].keep) |-> Value(row, c)]

Windowed(t) == prog.options[t].firstobs # Null \/ prog.options[t].obs # Null
FirstObs(t) == IF prog.options[t].firstobs = Null THEN 1 ELSE prog.options[t].firstobs

(* output_target_passes_options: WHERE= on the projected row, then the     *)
(* place among the rows that passed it                                     *)
PassesWhere(t) ==
  LET q == prog.options[t].where
  IN  q = Always \/ SameValue(Projected(t)[q.c], q.v)
PassesWindow(t) ==
  LET place == counts[t] + 1
  IN  ~Windowed(t) \/ ( /\ place >= FirstObs(t)
                        /\ prog.options[t].obs = Null
                             \/ place < FirstObs(t) + prog.options[t].obs )

Rejects(t) == t \in Targets => prog.options[t].firstobs = 0

(* mutant: OBS= counts the rows that fail WHERE= too *)
RouteCountingAll(ts) ==
  /\ outs' = [t \in Targets |-> IF t \in ts /\ PassesWhere(t) /\ PassesWindow(t)
                                  THEN Append(outs[t], Projected(t)) ELSE outs[t]]
  /\ counts' = [t \in Targets |-> IF t \in ts /\ Windowed(t) THEN counts[t] + 1 ELSE counts[t]]

(* append_projected_row_to_target for every target of ts.  The history     *)
(* notes what was offered to each target before its options.               *)
Route(ts) ==
  /\ outs' = [t \in Targets |-> IF t \in ts /\ PassesWhere(t) /\ PassesWindow(t)
                                  THEN Append(outs[t], Projected(t)) ELSE outs[t]]
  /\ counts' = [t \in Targets |-> IF t \in ts /\ PassesWhere(t) /\ Windowed(t)
                                    THEN counts[t] + 1 ELSE counts[t]]

Offered(ts) ==
  [t \in Targets |-> IF t \in ts THEN Append(cur.offered[t], Projected(t)) ELSE cur.offered[t]]

(* route_typed_output: no name means the default target; a name twice is   *)
(* one append                                                              *)
RoutedTo(a) == IF a.to = {} THEN {prog.default} ELSE a.to

-----------------------------------------------------------------------------
(* The row loop                                                            *)

NoRow == [src |-> <<>>, owned |-> <<>>, written |-> {}, auto |-> <<>>]

Fresh(r) ==
  [start |-> Snapshot(r), added |-> <<>>, offered |-> [t \in Targets |-> <<>>]]

(* Input preparation leaves several streams only to a SET without BY and   *)
(* END=; any other SET reaches the loop as one prepared stream.            *)
Prepared(p, in) == Len(in) = 1 \/ (p.by = {} /\ p.end = "")

Flags(p) == {FirstName(c) : c \in p.by} \cup {LastName(c) : c \in p.by}

(* No two automatic variables share a name, and none shares it with a      *)
(* column.  Preparation refuses a column named like END=, FIRST. or LAST.; *)
(* any other column an automatic variable hides is left out here.          *)
ASSUME NamesAssumption ==
  \A p \in Programs :
    /\ {"_N_", "_ERROR_"} \cap (Flags(p) \cup {p.end}) = {}
    /\ p.end \notin Flags(p)
    /\ \A b, c \in p.by : FirstName(b) # LastName(c)
    /\ \A b, c \in p.by : FirstName(b) = FirstName(c) \/ LastName(b) = LastName(c) => b = c
    /\ \A in \in Inputs :
         ({"_N_", "_ERROR_"} \cup ({p.end} \ {""}) \cup Flags(p))
           \cap (InputColumns(in) \cup WrittenColumns(p)) = {}

(* The rows of an input are rows, and a BY variable is a column of each of *)
(* them: preparation refuses any other.                                    *)
ASSUME InputsAssumption ==
  \A in \in Inputs :
    /\ DOMAIN in = 1..Len(in) /\ Len(in) \in Nat
    /\ \A s \in DOMAIN in : DOMAIN in[s] = 1..Len(in[s]) /\ Len(in[s]) \in Nat
    /\ \A p \in Programs : Prepared(p, in) =>
         \A s \in DOMAIN in : \A i \in DOMAIN in[s] : p.by \subseteq DOMAIN in[s][i]

(* A program is a list of statements; options that are not given are Null. *)
ASSUME ProgramsAssumption ==
  \A p \in Programs :
    /\ DOMAIN p.stmts = 1..Len(p.stmts) /\ Len(p.stmts) \in Nat
    /\ \A t \in DOMAIN p.options : {p.options[t].firstobs, p.options[t].obs} \subseteq Nat \cup {Null}

(* Cells and literals are numbers or Null. *)
Scalar == Int \cup {Null}
Expressions(a) ==
  IF a.op \in {"ASSIGN", "SUM"} THEN {a.val} ELSE IF a.op = "DO" THEN {a.lo, a.hi} ELSE {}
Parts(e) == IF e.k = "plus" THEN {e.a, e.b} ELSE {e}

ASSUME ValuesAssumption ==
  /\ Null \notin Int
  /\ \A p \in Programs : \A i \in DOMAIN p.stmts :
       \A e \in Expressions(Inline(p.stmts[i])) : \A a \in Parts(e) : a.k = "lit" => a.v \in Scalar
  /\ \A in \in Inputs : \A s \in DOMAIN in : \A i \in DOMAIN in[s] :
       \A c \in DOMAIN in[s][i] : in[s][i][c] \in Scalar

Init ==
  /\ prog \in Programs
  /\ streams \in {in \in Inputs : Prepared(prog, in)}
  /\ status = "reading"
  /\ pos = [stream |-> 1, row |-> 0, n |-> 0]
  /\ row = NoRow
  /\ stack = <<>>
  /\ retained = <<>>
  /\ sums = <<>>
  /\ outs = [t \in Targets |-> <<>>]
  /\ counts = [t \in Targets |-> 0]
  /\ cur = Fresh(NoRow)
  /\ log = <<>>

block == <<prog, streams>>
carried == <<retained, sums, outs, counts>>

(* A diagnostic returns before export_output_streams.                      *)
Fail ==
  /\ status' = "failed"
  /\ UNCHANGED <<block, pos, row, stack, carried, cur, log>>

(* mutant: only rows that pass WHERE are counted *)
NextSurvivor == [stream |-> pos.stream, row |-> pos.row + 1, n |-> Len(log) + 1]
NextPos == [stream |-> pos.stream, row |-> pos.row + 1, n |-> pos.n + 1]

(* The next row of the stream up to the first statement.  A row that fails *)
(* WHERE is left before RETAIN saves anything.                             *)
ReadRow ==
  LET p == NextPos
      r == NewRow(p.stream, p.row, p.n)
  IN  /\ status = "reading"
      /\ pos.stream \in DOMAIN streams
      /\ pos.row < Len(streams[pos.stream])
      /\ pos' = p
      /\ row' = r
      /\ \/ /\ prog.where = Bad
            /\ status' = "failed"
            /\ UNCHANGED <<stack, cur>>
         \/ /\ prog.where # Bad
            /\ ~Holds(r, prog.where)
            /\ UNCHANGED <<status, stack, cur>>
         \/ /\ prog.where # Bad
            /\ Holds(r, prog.where)
            /\ status' = "executing"
            /\ stack' = <<Frame(1, Len(Statements) + 1, NoLoop)>>
            /\ cur' = Fresh(r)
      /\ UNCHANGED <<block, carried, log>>

NextStream ==
  /\ status = "reading"
  /\ pos.stream \in DOMAIN streams
  /\ pos.row = Len(streams[pos.stream])
  /\ pos' = [stream |-> pos.stream + 1, row |-> 0, n |-> pos.n]
  /\ UNCHANGED <<block, status, row, stack, carried, cur, log>>

Export ==
  /\ status = "reading"
  /\ pos.stream \notin DOMAIN streams
  /\ status' = "exported"
  /\ UNCHANGED <<block, pos, row, stack, carried, cur, log>>

(* mutant: STOP inside a block ends the row only *)
AfterRowOfTopLevel(fate) ==
  IF fate = "stopped" /\ Len(stack) = 1 THEN "exported" ELSE "reading"
AfterRow(fate) == IF fate = "stopped" THEN "exported" ELSE "reading"

(* The end of a row: RETAIN saves the value of every retained name, also   *)
(* of a deleted row; the implicit OUTPUT follows unless the row is deleted *)
(* or the program has an OUTPUT; STOP leaves the loop and exports.         *)
FinishRow(fate) ==
  LET ts == IF fate = "deleted" \/ SuppressImplicitOutput THEN {} ELSE {prog.default}
      entry == [stream |-> pos.stream, row |-> pos.row, fate |-> fate,
                start |-> cur.start, final |-> Snapshot(row),
                added |-> cur.added, offered |-> Offered(ts)]
  IN  /\ retained' = [c \in prog.retain |-> Value(row, c)]
      /\ UNCHANGED <<block, pos, row, sums>>
      /\ IF \E t \in ts : Rejects(t)
           THEN /\ status' = "failed"
                /\ UNCHANGED <<stack, outs, counts, cur, log>>
           ELSE /\ Route(ts)
                /\ status' = AfterRow(fate)
                /\ stack' = <<>>
                /\ log' = Append(log, entry)
                /\ UNCHANGED cur

-----------------------------------------------------------------------------
(* Simple statements, in sequence or as the action of IF, ELSE IF or ELSE. *)
(* The cursor then moves to p and the ELSE chain to c.                     *)

Assignment(a, p, c) ==
  /\ a.op = "ASSIGN"
  /\ row' = Store(row, a.col, Eval(row, a.val))
  /\ stack' = Goto(p, c)
  /\ UNCHANGED <<block, status, pos, carried, cur, log>>

(* mutant: the accumulator is never read *)
SumBaseOfRow(a) == Zeroed(Value(row, a.col))

(* apply_sum_update.  A seeded NULL that this row never wrote is absent and *)
(* takes the accumulator; a written NULL and a NULL cell reset it.         *)
SumBase(a) ==
  LET absent == a.col \notin DOMAIN row.src /\ a.col \notin row.written
  IN  IF absent THEN IF a.col \in DOMAIN sums THEN sums[a.col] ELSE 0
                ELSE Zeroed(Value(row, a.col))

SumUpdate(a, p, c) ==
  LET step  == Zeroed(Eval(row, a.val))
      total == SumBase(a) + step
      sofar == IF a.col \in DOMAIN cur.added THEN cur.added[a.col] ELSE 0
  IN  /\ a.op = "SUM"
      /\ sums' = Put(sums, a.col, total)
      /\ row' = Store(row, a.col, total)
      /\ cur' = [cur EXCEPT !.added = Put(cur.added, a.col, sofar + step)]
      /\ stack' = Goto(p, c)
      /\ UNCHANGED <<block, status, pos, retained, outs, counts, log>>

RouteOutput(a, p, c) ==
  /\ a.op = "OUTPUT"
  /\ \A t \in RoutedTo(a) : ~Rejects(t)
  /\ Route(RoutedTo(a))
  /\ cur' = [cur EXCEPT !.offered = Offered(RoutedTo(a))]
  /\ stack' = Goto(p, c)
  /\ UNCHANGED <<block, status, pos, row, retained, sums, log>>

DeleteRow(a) == a.op = "DELETE" /\ FinishRow("deleted")
StopLoop(a)  == a.op = "STOP" /\ FinishRow("stopped")

(* a deferred action and an OUTPUT to a rejected target *)
ActionFails(a) ==
  /\ a.op = "FAULT" \/ (a.op = "OUTPUT" /\ \E t \in RoutedTo(a) : Rejects(t))
  /\ Fail

Perform(a, p, c) ==
  \/ Assignment(a, p, c)
  \/ SumUpdate(a, p, c)
  \/ RouteOutput(a, p, c)
  \/ DeleteRow(a)
  \/ StopLoop(a)
  \/ ActionFails(a)

(* mutant: the body may run on to the end of the enclosing range *)
EnterGroupOpenEnded(c) ==
  LET e == EndOf(Top.pc, Top.stop)
  IN  /\ stack' = Append(Goto(e + 1, c), Frame(Top.pc + 1, Top.stop, NoLoop))
      /\ UNCHANGED <<block, status, pos, row, carried, cur, log>>

(* execute_typed_do_range and execute_typed_do_action: the block opened at *)
(* pc runs in a frame of its own and the cursor waits behind its END.      *)
EnterGroup(c) ==
  LET e == EndOf(Top.pc, Top.stop)
  IN  /\ stack' = Append(Goto(e + 1, c), Frame(Top.pc + 1, e, NoLoop))
      /\ UNCHANGED <<block, status, pos, row, carried, cur, log>>

EnterLoop(d, c) ==
  LET e  == EndOf(Top.pc, Top.stop)
      lo == Zeroed(Eval(row, d.lo))
      hi == Zeroed(Eval(row, d.hi))
      loop == [col |-> d.col, next |-> lo + 1, hi |-> hi, body |-> Top.pc + 1]
  IN  /\ IF lo <= hi
           THEN /\ row' = Store(row, d.col, lo)
                /\ stack' = Append(Goto(e + 1, c), Frame(Top.pc + 1, e, loop))
           ELSE /\ stack' = Goto(e + 1, c)
                /\ UNCHANGED row
      /\ UNCHANGED <<block, status, pos, carried, cur, log>>

Closed == MatchingEnd(Top.pc, Top.stop) # {}

(* A block without its END fails when it is entered and when it is skipped. *)
EnterBlock(a, c) ==
  \/ a.op \in {"DO", "DO GROUP"} /\ ~Closed /\ Fail
  \/ a.op = "DO GROUP" /\ Closed /\ EnterGroup(c)
  \/ a.op = "DO" /\ Closed /\ EnterLoop(a, c)

(* mutant: a skipped statement of one line does not move the cursor *)
SkipBranchInPlace(a, c) ==
  /\ stack' = Goto(IF a.op \in {"DO", "DO GROUP"} /\ Closed THEN EndOf(Top.pc, Top.stop) + 1
                                                           ELSE Top.pc, c)
  /\ UNCHANGED <<block, status, pos, row, carried, cur, log>>

SkipBranch(a, c) ==
  \/ /\ a.op \in {"DO", "DO GROUP"} /\ ~Closed
     /\ Fail
  \/ /\ a.op \in {"DO", "DO GROUP"} => Closed
     /\ stack' = Goto(IF a.op \in {"DO", "DO GROUP"} THEN EndOf(Top.pc, Top.stop) + 1
                                                     ELSE Top.pc + 1, c)
     /\ UNCHANGED <<block, status, pos, row, carried, cur, log>>

TakeBranch(a, c) == Perform(a, Top.pc + 1, c) \/ EnterBlock(a, c)

-----------------------------------------------------------------------------
(* execute_typed_statement_range, one statement a step                     *)

Executing == status = "executing" /\ InRange(Top)
Here == At(Top)
Sequential == Executing /\ ~InChain(Top)
Chained == Executing /\ InChain(Top)

Simple ==
  /\ Sequential
  /\ Perform(Here, Top.pc + 1, "none")

DoLoop ==
  /\ Sequential
  /\ Here.op = "DO"
  /\ EnterBlock(Here, "none")

SubsettingIf ==
  /\ Sequential
  /\ Here.op = "SUBSET IF"
  /\ \/ Here.cond = Bad /\ Fail
     \/ Here.cond # Bad /\ ~Holds(row, Here.cond) /\ FinishRow("deleted")
     \/ /\ Here.cond # Bad /\ Holds(row, Here.cond)
        /\ stack' = Goto(Top.pc + 1, "none")
        /\ UNCHANGED <<block, status, pos, row, carried, cur, log>>

(* An ELSE IF outside a chain is an IF: one arm matches both.  A taken      *)
(* branch that deletes or stops ends the row here; the code passes over the *)
(* ELSE branches first, which matters only if one has no END.               *)
IfStatement ==
  /\ Sequential
  /\ Here.op \in {"IF", "ELSE IF"}
  /\ \/ Here.cond = Bad /\ Fail
     \/ Here.cond # Bad /\ Holds(row, Here.cond) /\ TakeBranch(Here.act, "taken")
     \/ Here.cond # Bad /\ ~Holds(row, Here.cond) /\ SkipBranch(Here.act, "open")

ElseIfStatement ==
  /\ Chained
  /\ Here.op = "ELSE IF"
  /\ \/ Top.chain = "taken" /\ SkipBranch(Here.act, "taken")
     \/ Top.chain = "open" /\ Here.cond = Bad /\ Fail
     \/ /\ Top.chain = "open" /\ Here.cond # Bad /\ Holds(row, Here.cond)
        /\ TakeBranch(Here.act, "taken")
     \/ /\ Top.chain = "open" /\ Here.cond # Bad /\ ~Holds(row, Here.cond)
        /\ SkipBranch(Here.act, "open")

ElseStatement ==
  /\ Chained
  /\ Here.op = "ELSE"
  /\ \/ Top.chain = "taken" /\ SkipBranch(Here.act, "none")
     \/ Top.chain = "open" /\ TakeBranch(Here.act, "none")

(* A deferred ELSE IF or ELSE fails only if its branch is reached.  After a *)
(* taken branch the cursor passes the statement, not the block behind it.  *)
FaultedElse ==
  /\ Chained
  /\ Here.op = "FAULT"
  /\ \/ Top.chain = "open" /\ Fail
     \/ /\ Top.chain = "taken"
        /\ stack' = Goto(Top.pc + 1, IF Here.kind = "ELSE" THEN "none" ELSE "taken")
        /\ UNCHANGED <<block, status, pos, row, carried, cur, log>>

(* an ELSE that belongs to no IF takes the statement behind it along *)
StrayElse ==
  /\ Sequential
  /\ Here.op = "ELSE"
  /\ stack' = Goto(Top.pc + 2, "none")
  /\ UNCHANGED <<block, status, pos, row, carried, cur, log>>

(* A range ends at its stop or at an END it does not own.  A loop counts   *)
(* with a counter of its own, not with the variable.                       *)
RangeEnd ==
  LET loop == Top.loop
      next == loop.next
  IN  /\ status = "executing"
      /\ InRange(Top) => (~InChain(Top) /\ Here.op = "END")
      /\ \/ Len(stack) = 1 /\ FinishRow("kept")
         \/ /\ Len(stack) > 1 /\ loop # NoLoop /\ next <= loop.hi
            /\ row' = Store(row, loop.col, next)
            /\ stack' = Append(Below, [Top EXCEPT !.pc = loop.body, !.chain = "none",
                                                  !.loop.next = next + 1])
            /\ UNCHANGED <<block, status, pos, carried, cur, log>>
         \/ /\ Len(stack) > 1 /\ (loop # NoLoop => next > loop.hi)
            /\ stack' = Below
            /\ UNCHANGED <<block, status, pos, row, carried, cur, log>>

(* execute_block has returned *)
Returned == status \in {"exported", "failed"} /\ UNCHANGED vars

Next ==
  \/ ReadRow \/ NextStream \/ Export
  \/ Simple \/ DoLoop \/ SubsettingIf
  \/ IfStatement \/ ElseIfStatement \/ ElseStatement \/ FaultedElse \/ StrayElse
  \/ RangeEnd
  \/ Returned

Spec == Init /\ [][Next]_vars
FairSpec == Spec /\ WF_vars(Next)

-----------------------------------------------------------------------------
(* Properties                                                              *)

(* Types: one frame at least while statements run and none between rows;   *)
(* a frame lies inside the one below it.                                   *)
TypeOK ==
  /\ status \in {"reading", "executing", "exported", "failed"}
  /\ pos.stream \in 1..(Len(streams) + 1) /\ pos.n \in 0..Total
  /\ status = "executing" => stack # <<>>
  /\ status = "reading" => stack = <<>>
  /\ \A k \in DOMAIN stack : /\ stack[k].pc >= 1
                             /\ stack[k].stop \in 1..(Len(Statements) + 1)
                             /\ stack[k].chain \in {"none", "open", "taken"}
                             /\ k > 1 => stack[k].stop < stack[k - 1].stop
  /\ DOMAIN retained \subseteq prog.retain
  /\ DOMAIN sums \subseteq MutableColumns
  /\ DOMAIN outs = Targets /\ DOMAIN counts = Targets

(* What a variable holds when the first statement of a row runs: its cell, *)
(* or, for a RETAIN variable without a value in this row, what the last    *)
(* executed row left in it, deleted or not and in whatever stream; nothing *)
(* else comes over from an earlier row.                                    *)
StartOfRow ==
  \A k \in DOMAIN log : \A c \in Columns :
    LET src  == streams[log[k].stream][log[k].row]
        cell == IF c \in DOMAIN src THEN src[c] ELSE Null
        left == IF k = 1 THEN Null ELSE log[k - 1].final[c]
    IN  log[k].start[c] = IF c \in prog.retain /\ cell = Null THEN left ELSE cell

(* A column that only SUM statements write holds, after every row that ran *)
(* one of them, the total of all increments of the block so far, those of  *)
(* deleted rows and of earlier streams included.                           *)
WrittenOtherwise ==
  prog.retain \cup SourceColumns
    \cup {s.col : s \in {w \in {Inline(Statements[i]) : i \in DOMAIN Statements} :
                         w.op \in {"ASSIGN", "DO"}}}
AddedBy(k, c) == IF c \in DOMAIN log[k].added THEN log[k].added[c] ELSE 0
SumIsRunningTotal ==
  \A c \in MutableColumns \ WrittenOtherwise :
    LET upto[k \in 0..Len(log)] == IF k = 0 THEN 0 ELSE upto[k - 1] + AddedBy(k, c)
    IN  \A k \in DOMAIN log :
          log[k].final[c] = IF c \in DOMAIN log[k].added THEN upto[k] ELSE Null

(* the rows offered to a target so far *)
OfferedTo(t) ==
  LET upto[k \in 0..Len(log)] == IF k = 0 THEN <<>> ELSE upto[k - 1] \o log[k].offered[t]
  IN  upto[Len(log)] \o (IF stack = <<>> THEN <<>> ELSE cur.offered[t])

(* the rows of s that pass the WHERE= option q *)
Passing(v, q) == q = Always \/ SameValue(v[q.c], q.v)
PassedOf(s, q) ==
  LET upto[k \in 0..Len(s)] ==
        IF k = 0 THEN <<>>
        ELSE IF Passing(s[k], q) THEN Append(upto[k - 1], s[k]) ELSE upto[k - 1]
  IN  upto[Len(s)]

(* FIRSTOBS= and OBS= cut one window out of the rows that passed WHERE=,   *)
(* over all statements, rows and streams that write to the target.         *)
WindowIsSlice ==
  \A t \in {u \in Targets : ~Rejects(u)} :
    LET o == prog.options[t]
        passed == PassedOf(OfferedTo(t), o.where)
        last == IF o.obs = Null THEN Len(passed) ELSE FirstObs(t) + o.obs - 1
    IN  outs[t] = SubSeq(passed, FirstObs(t), IF last < Len(passed) THEN last ELSE Len(passed))

(* END= is 1 on the last row of the input and on no other, whatever WHERE  *)
(* filtered and the statements deleted before it.                          *)
EndMarksLastRow ==
  prog.end # "" =>
    \A k \in DOMAIN log :
      (log[k].start[prog.end] = 1) <=> (log[k].row = Len(streams[log[k].stream]))

(* FIRST. and LAST. cut a stream into runs: a row ends a group exactly     *)
(* when the next one begins one, whatever the statements did in between.   *)
GroupsAreRuns ==
  prog.where = Always /\ prog.by \cap prog.retain = {} =>
    \A k \in DOMAIN log : \A c \in prog.by :
      IF k < Len(log) /\ log[k + 1].stream = log[k].stream
        THEN log[k].start[LastName(c)] = log[k + 1].start[FirstName(c)]
        ELSE log[k].row = Len(streams[log[k].stream]) => log[k].start[LastName(c)] = 1

(* Nothing runs after STOP, in no stream. *)
StopEndsTheBlock ==
  \A k \in DOMAIN log : log[k].fate = "stopped" => (k = Len(log) /\ status = "exported")

(* Every block returns: no range of statements, loop or ELSE chain keeps   *)
(* the interpreter forever.                                                *)
BlockReturns == <>(status \in {"exported", "failed"})

-----------------------------------------------------------------------------
(* What documents and tests say                                            *)

(* FIRST.c marks the first row of each group of equal values of c. *)
FirstByValue ==
  \A k \in DOMAIN log : \A c \in prog.by :
    LET in == streams[log[k].stream]
        i  == log[k].row
    IN  (log[k].start[FirstName(c)] = 1) <=> (i = 1 \/ in[i][c] # in[i - 1][c])
=============================================================================
