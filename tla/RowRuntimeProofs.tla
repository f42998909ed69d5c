-------------------------- MODULE RowRuntimeProofs --------------------------
(***************************************************************************)
(* What a block does, for every program and every input: what a row starts *)
(* with (the values RETAIN carries over, the END= flag, the FIRST. and     *)
(* LAST. flags), that nothing runs after a STOP, that a range of           *)
(* statements lies inside the one below it on the stack, and what the      *)
(* columns, the accumulators and the output builders hold after the rows   *)
(* that ran.                                                               *)
(***************************************************************************)
EXTENDS RowRuntime, DataInduction, SequenceTheorems

-----------------------------------------------------------------------------
(* The start of a row                                                      *)

AutoNames == {"_N_", "_ERROR_"} \cup ({prog.end} \ {""}) \cup Flags(prog)

(* The cell of a row, and what the row read from it starts with if left is *)
(* what the last executed row left.                                        *)
Cell(s, i, c) == IF c \in DOMAIN streams[s][i] THEN streams[s][i][c] ELSE Null
Left(c) == IF log = <<>> THEN Null ELSE log[Len(log)].final[c]
StartValue(s, i, c) ==
  IF c \in prog.retain /\ Cell(s, i, c) = Null THEN Left(c) ELSE Cell(s, i, c)

(* RETAIN restores what the last executed row left in the names it lists. *)
Carries == retained = IF log = <<>> THEN <<>> ELSE [c \in prog.retain |-> log[Len(log)].final[c]]

(* A column that no automatic variable hides holds its cell or what RETAIN *)
(* restores, before the BY flags are raised and after.                     *)
LEMMA RestoredValue ==
  ASSUME Carries, NEW s, NEW i, NEW n, NEW c \in Columns, AutoNames \cap Columns = {}
  PROVE  Value(Restore(ResetRow(s, i, n)), c) = StartValue(s, i, c)
<1> DEFINE r0 == ResetRow(s, i, n)
           r1 == Restore(r0)
<1>1. c \notin DOMAIN r0.auto
  BY DEF ResetRow, Automatics, AutoNames
<1>2. Value(r0, c) = Cell(s, i, c)
  BY <1>1 DEF ResetRow, Value, Cell, Columns
<1>3. r1.src = r0.src /\ r1.auto = r0.auto
  BY DEF Restore, ResetRow
<1>4. /\ DOMAIN r1.owned = DOMAIN r0.owned
                             \cup {d \in prog.retain \cap DOMAIN retained : Value(r0, d) = Null}
      /\ \A d \in DOMAIN r1.owned :
           r1.owned[d] = IF d \in prog.retain \cap DOMAIN retained /\ Value(r0, d) = Null
                           THEN retained[d] ELSE r0.owned[d]
  BY DEF Restore, ResetRow, Merge
<1>5. Value(r1, c) = IF c \in prog.retain \cap DOMAIN retained /\ Value(r0, c) = Null
                       THEN retained[c] ELSE Value(r0, c)
  BY <1>1, <1>3, <1>4 DEF Value
<1> QED
  BY <1>2, <1>5 DEF StartValue, Carries, Left

LEMMA NewRowFields ==
  ASSUME NEW s, NEW i, NEW n
  PROVE  LET r1 == Restore(ResetRow(s, i, n))
             r2 == NewRow(s, i, n)
         IN  /\ r2.src = r1.src /\ r2.owned = r1.owned
             /\ r1.auto = Automatics(n)
             /\ DOMAIN r2.auto = AutoNames
<1>1. Restore(ResetRow(s, i, n)).auto = Automatics(n)
  BY DEF Restore, ResetRow
<1> QED
  BY <1>1 DEF NewRow, WithGroupFlags, Restore, Automatics, Merge, Flags, AutoNames

LEMMA NewRowValue ==
  ASSUME Carries, NEW s, NEW i, NEW n, NEW c \in Columns, AutoNames \cap Columns = {}
  PROVE  Value(NewRow(s, i, n), c) = StartValue(s, i, c)
<1>1. c \notin AutoNames /\ c \notin DOMAIN Automatics(n)
  BY DEF Automatics, AutoNames
<1> QED
  BY <1>1, NewRowFields, RestoredValue DEF Value

-----------------------------------------------------------------------------
(* What a step may do to the history                                       *)

(* A statement that does not end its row leaves what the row started with, *)
(* where it is, what is retained and every finished row alone.             *)
Within ==
  /\ log' = log /\ retained' = retained /\ pos' = pos
  /\ DOMAIN cur' = DOMAIN cur /\ cur'.start = cur.start
  /\ status' \in {status, "failed"}

(* Between rows a step moves the position, and may start a row.            *)
Between ==
  /\ status = "reading" /\ log' = log /\ retained' = retained
  /\ \/ /\ status' \in {"reading", "failed"}
        /\ cur' = cur
        /\ pos' = NextPos /\ pos.stream \in DOMAIN streams
        /\ pos.row < Len(streams[pos.stream])
        /\ prog.where # Always
     \/ /\ status' = "executing"
        /\ cur' = Fresh(NewRow(pos'.stream, pos'.row, pos'.n))
        /\ pos' = NextPos /\ pos.stream \in DOMAIN streams
        /\ pos.row < Len(streams[pos.stream])
     \/ /\ status' = "reading"
        /\ cur' = cur
        /\ pos' = [stream |-> pos.stream + 1, row |-> 0, n |-> pos.n]
        /\ pos.stream \in DOMAIN streams
        /\ pos.row = Len(streams[pos.stream])
     \/ status' = "exported" /\ cur' = cur /\ pos' = pos

RowStep ==
  /\ UNCHANGED block
  /\ \/ Within
     \/ Between
     \/ status = "executing" /\ \E fate : FinishRow(fate)

(* cur is a record with the values of the start of the row.                *)
HasStart == "start" \in DOMAIN cur

LEMMA QuietIsRowStep ==
  ASSUME UNCHANGED <<block, status, pos, carried, cur, log>>
  PROVE  RowStep
BY DEF RowStep, Within, carried

LEMMA FailIsRowStep ==
  ASSUME Fail
  PROVE  RowStep
BY DEF Fail, RowStep, Within, carried

LEMMA FinishIsRowStep ==
  ASSUME NEW fate, status = "executing", FinishRow(fate)
  PROVE  RowStep
BY DEF FinishRow, RowStep

LEMMA PerformIsRowStep ==
  ASSUME HasStart, status = "executing", NEW a, NEW p, NEW c, Perform(a, p, c)
  PROVE  RowStep
<1>1. CASE Assignment(a, p, c)
  BY <1>1 DEF Assignment, RowStep, Within, carried
<1>2. CASE SumUpdate(a, p, c)
  <2>1. cur'.start = cur.start /\ DOMAIN cur' = DOMAIN cur
    BY <1>2 DEF SumUpdate, HasStart
  <2> QED
    BY <1>2, <2>1 DEF SumUpdate, RowStep, Within
<1>3. CASE RouteOutput(a, p, c)
  <2>1. cur'.start = cur.start /\ DOMAIN cur' = DOMAIN cur
    BY <1>3 DEF RouteOutput, HasStart
  <2> QED
    BY <1>3, <2>1 DEF RouteOutput, RowStep, Within
<1>4. CASE DeleteRow(a) \/ StopLoop(a)
  BY <1>4, FinishIsRowStep DEF DeleteRow, StopLoop
<1>5. CASE ActionFails(a)
  BY <1>5, FailIsRowStep DEF ActionFails
<1> QED
  BY <1>1, <1>2, <1>3, <1>4, <1>5 DEF Perform

LEMMA BranchIsRowStep ==
  ASSUME HasStart, status = "executing", NEW a, NEW c,
         TakeBranch(a, c) \/ EnterBlock(a, c) \/ SkipBranch(a, c)
  PROVE  RowStep
<1>1. CASE EnterBlock(a, c)
  BY <1>1 DEF EnterBlock, EnterGroup, EnterLoop, Fail, RowStep, Within, carried
<1>2. CASE SkipBranch(a, c)
  BY <1>2 DEF SkipBranch, Fail, RowStep, Within, carried
<1>3. CASE TakeBranch(a, c)
  BY <1>1, <1>3, PerformIsRowStep DEF TakeBranch
<1> QED
  BY <1>1, <1>2, <1>3

LEMMA NextIsRowStep ==
  ASSUME HasStart, [Next]_vars
  PROVE  RowStep
<1>1. CASE ReadRow
  <2> DEFINE r == NewRow(NextPos.stream, NextPos.row, NextPos.n)
  <2>1. /\ status = "reading" /\ log' = log /\ retained' = retained
        /\ pos' = NextPos /\ pos.stream \in DOMAIN streams
        /\ pos.row < Len(streams[pos.stream]) /\ UNCHANGED block
    BY <1>1 DEF ReadRow, carried
  <2>2. CASE prog.where = Bad /\ status' = "failed" /\ UNCHANGED cur
    BY <2>1, <2>2 DEF RowStep, Between, Bad, Always
  <2>3. CASE ~Holds(r, prog.where) /\ UNCHANGED <<status, cur>>
    BY <2>1, <2>3 DEF RowStep, Between, Holds
  <2>4. CASE status' = "executing" /\ cur' = Fresh(r)
    BY <2>1, <2>4 DEF RowStep, Between
  <2> QED
    BY <1>1, <2>2, <2>3, <2>4 DEF ReadRow
<1>2. CASE NextStream
  BY <1>2 DEF NextStream, RowStep, Between, carried
<1>3. CASE Export
  BY <1>3 DEF Export, RowStep, Between, carried
<1>4. CASE Simple
  BY <1>4, PerformIsRowStep DEF Simple, Sequential, Executing
<1>5. CASE DoLoop
  BY <1>5, BranchIsRowStep DEF DoLoop, Sequential, Executing
<1>6. CASE SubsettingIf
  <2>1. \/ Fail \/ FinishRow("deleted")
        \/ UNCHANGED <<block, status, pos, row, carried, cur, log>>
    BY <1>6 DEF SubsettingIf
  <2>2. status = "executing"
    BY <1>6 DEF SubsettingIf, Sequential, Executing
  <2> QED
    BY <2>1, <2>2, QuietIsRowStep, FailIsRowStep, FinishIsRowStep
<1>7. CASE IfStatement
  <2>1. Fail \/ TakeBranch(Here.act, "taken") \/ SkipBranch(Here.act, "open")
    BY <1>7 DEF IfStatement
  <2> QED
    BY <1>7, <2>1, BranchIsRowStep, FailIsRowStep DEF IfStatement, Sequential, Executing
<1>8. CASE ElseIfStatement
  <2>1. Fail \/ TakeBranch(Here.act, "taken") \/ \E c : SkipBranch(Here.act, c)
    BY <1>8 DEF ElseIfStatement
  <2> QED
    BY <1>8, <2>1, BranchIsRowStep, FailIsRowStep DEF ElseIfStatement, Chained, Executing
<1>9. CASE ElseStatement
  BY <1>9, BranchIsRowStep DEF ElseStatement, Chained, Executing
<1>10. CASE FaultedElse \/ StrayElse
  BY <1>10 DEF FaultedElse, StrayElse, Fail, RowStep, Within, carried
<1>11. CASE RangeEnd
  <2>1. FinishRow("kept") \/ UNCHANGED <<block, status, pos, carried, cur, log>>
    BY <1>11 DEF RangeEnd
  <2>2. status = "executing"
    BY <1>11 DEF RangeEnd
  <2> QED
    BY <2>1, <2>2, QuietIsRowStep, FinishIsRowStep
<1>12. CASE Returned \/ UNCHANGED vars
  BY <1>12 DEF Returned, vars, RowStep, Within, block
<1> QED
  BY <1>1, <1>2, <1>3, <1>4, <1>5, <1>6, <1>7, <1>8, <1>9, <1>10, <1>11, <1>12 DEF Next

-----------------------------------------------------------------------------
(* RETAIN                                                                  *)

LogIsSequence == \E S : log \in Seq(S)

StartsRight ==
  \A c \in Columns : cur.start[c] = StartValue(pos.stream, pos.row, c)

RowInv ==
  /\ prog \in Programs /\ streams \in Inputs /\ Prepared(prog, streams)
  /\ HasStart /\ LogIsSequence
  /\ status # "failed" => Carries
  /\ status = "executing" => StartsRight
  /\ StartOfRow

LEMMA NamesApart == RowInv => AutoNames \cap Columns = {}
BY NamesAssumption DEF RowInv, AutoNames, Columns, SourceColumns, MutableColumns

(* Appending a row extends the log by one entry and changes no other.      *)
LEMMA LogGrows ==
  ASSUME LogIsSequence, NEW e, log' = Append(log, e)
  PROVE  /\ LogIsSequence'
         /\ Len(log) \in Nat /\ DOMAIN log = 1..Len(log)
         /\ Len(log') = Len(log) + 1 /\ DOMAIN log' = 1..(Len(log) + 1)
         /\ log'[Len(log) + 1] = e /\ \A k \in DOMAIN log : log'[k] = log[k]
         /\ log = <<>> <=> Len(log) = 0
         /\ log' # <<>>
<1>1. PICK S : log \in Seq(S)
  BY DEF LogIsSequence
<1>2. log \in Seq(S \cup {e}) /\ e \in S \cup {e}
  BY <1>1
<1>3. log' \in Seq(S \cup {e})
  BY <1>2
<1> QED
  BY <1>2, <1>3 DEF LogIsSequence

LEMMA RowInvWithin == RowInv /\ UNCHANGED block /\ Within => RowInv'
<1> SUFFICES ASSUME RowInv, UNCHANGED block, Within PROVE RowInv'
  OBVIOUS
<1>1. UNCHANGED <<prog, streams, log, retained, pos>>
  BY DEF block, Within
<1>2. Columns' = Columns
  BY <1>1 DEF Columns, SourceColumns, MutableColumns
<1>3. StartOfRow'
  BY <1>1, <1>2 DEF RowInv, StartOfRow
<1>4. (status # "failed" => Carries)'
  BY <1>1 DEF RowInv, Within, Carries
<1>5. (status = "executing" => StartsRight)'
  BY <1>1, <1>2 DEF RowInv, Within, StartsRight, StartValue, Cell, Left
<1> QED
  BY <1>1, <1>3, <1>4, <1>5 DEF RowInv, Within, HasStart, LogIsSequence

LEMMA RowInvBetween == RowInv /\ UNCHANGED block /\ Between => RowInv'
<1> SUFFICES ASSUME RowInv, UNCHANGED block, Between PROVE RowInv'
  OBVIOUS
<1>1. UNCHANGED <<prog, streams, log, retained>>
  BY DEF block, Between
<1>2. Columns' = Columns
  BY <1>1 DEF Columns, SourceColumns, MutableColumns
<1>3. StartOfRow'
  BY <1>1, <1>2 DEF RowInv, StartOfRow
<1>4. Carries /\ Carries'
  BY <1>1 DEF RowInv, Between, Carries
<1>5. CASE status' = "executing"
  <2>1. cur' = Fresh(NewRow(pos'.stream, pos'.row, pos'.n))
    BY <1>5 DEF Between
  <2>2. HasStart'
    BY <2>1 DEF HasStart, Fresh
  <2>3. ASSUME NEW c \in Columns
        PROVE  cur'.start[c] = StartValue(pos'.stream, pos'.row, c)
    <3>1. cur'.start[c] = Value(NewRow(pos'.stream, pos'.row, pos'.n), c)
      BY <2>1 DEF Fresh, Snapshot
    <3> QED
      BY <3>1, <1>4, NamesApart, NewRowValue
  <2>4. StartsRight'
    BY <2>3, <1>1, <1>2 DEF StartsRight, StartValue, Cell, Left
  <2> QED
    BY <1>1, <1>3, <1>4, <2>2, <2>4 DEF RowInv, LogIsSequence
<1>6. CASE status' # "executing"
  <2>1. HasStart'
    BY <1>6 DEF Between, RowInv, HasStart
  <2> QED
    BY <1>1, <1>3, <1>4, <1>6, <2>1 DEF RowInv, LogIsSequence
<1> QED
  BY <1>5, <1>6

(* A finished row is logged with what it started with; what it leaves is   *)
(* what RETAIN saves.                                                      *)
LEMMA RowInvFinish ==
  ASSUME RowInv, status = "executing", NEW fate, FinishRow(fate)
  PROVE  RowInv'
<1> DEFINE ts == IF fate = "deleted" \/ SuppressImplicitOutput THEN {} ELSE {prog.default}
           entry == [stream |-> pos.stream, row |-> pos.row, fate |-> fate,
                     start |-> cur.start, final |-> Snapshot(row),
                     added |-> cur.added, offered |-> Offered(ts)]
<1>1. UNCHANGED <<prog, streams, cur, pos>>
  BY DEF FinishRow, block
<1>2. Columns' = Columns
  BY <1>1 DEF Columns, SourceColumns, MutableColumns
<1>3. CASE \E t \in ts : Rejects(t)
  <2>1. status' = "failed" /\ log' = log
    BY <1>3 DEF FinishRow
  <2>2. StartOfRow'
    BY <1>1, <1>2, <2>1 DEF RowInv, StartOfRow
  <2> QED
    BY <1>1, <2>1, <2>2 DEF RowInv, HasStart, LogIsSequence
<1>4. CASE ~\E t \in ts : Rejects(t)
  <2> HIDE DEF entry
  <2>1. log' = Append(log, entry) /\ status' \in {"reading", "exported"}
    BY <1>4 DEF FinishRow, AfterRow, entry
  <2>2. /\ LogIsSequence'
        /\ Len(log) \in Nat /\ DOMAIN log = 1..Len(log)
        /\ Len(log') = Len(log) + 1 /\ DOMAIN log' = 1..(Len(log) + 1)
        /\ log'[Len(log) + 1] = entry /\ \A k \in DOMAIN log : log'[k] = log[k]
        /\ log = <<>> <=> Len(log) = 0
        /\ log' # <<>>
    BY <2>1, LogGrows DEF RowInv
  <2>3. /\ entry.stream = pos.stream /\ entry.row = pos.row
        /\ entry.start = cur.start /\ entry.final = Snapshot(row)
    BY DEF entry
  <2>4. Carries'
    <3>1. retained' = [c \in prog.retain |-> Value(row, c)]
      BY DEF FinishRow
    <3>2. prog.retain \subseteq Columns
      BY DEF Columns, MutableColumns, WrittenColumns
    <3>3. \A c \in prog.retain : Snapshot(row)[c] = Value(row, c)
      BY <3>2 DEF Snapshot
    <3> QED
      BY <3>1, <3>3, <2>2, <2>3, <1>1 DEF Carries
  <2>5. ASSUME NEW k \in DOMAIN log', NEW c \in Columns
        PROVE  LET src  == streams[log'[k].stream][log'[k].row]
                   cell == IF c \in DOMAIN src THEN src[c] ELSE Null
                   left == IF k = 1 THEN Null ELSE log'[k - 1].final[c]
               IN  log'[k].start[c] = IF c \in prog.retain /\ cell = Null THEN left ELSE cell
    <3>1. CASE k \in DOMAIN log
      <4>1. k # 1 => k - 1 \in DOMAIN log
        BY <3>1, <2>2
      <4> QED
        BY <3>1, <4>1, <2>2 DEF RowInv, StartOfRow
    <3>2. CASE k = Len(log) + 1
      <4>1. log'[k].start[c] = StartValue(pos.stream, pos.row, c)
        BY <3>2, <2>2, <2>3 DEF RowInv, StartsRight
      <4>2. Left(c) = IF k = 1 THEN Null ELSE log'[k - 1].final[c]
        BY <3>2, <2>2 DEF Left
      <4> QED
        BY <3>2, <4>1, <4>2, <2>2, <2>3 DEF StartValue, Cell
    <3> QED
      BY <3>1, <3>2, <2>2
  <2>6. StartOfRow'
    BY <2>5, <1>1, <1>2 DEF StartOfRow
  <2> QED
    BY <1>1, <2>1, <2>2, <2>4, <2>6 DEF RowInv, HasStart
<1> QED
  BY <1>3, <1>4

LEMMA RowInvInit == Init => RowInv
<1> SUFFICES ASSUME Init PROVE RowInv
  OBVIOUS
<1>1. log = <<>> /\ log \in Seq({}) /\ retained = <<>> /\ status = "reading"
  BY DEF Init
<1>2. HasStart
  BY DEF Init, HasStart, Fresh
<1> QED
  BY <1>1, <1>2 DEF Init, RowInv, LogIsSequence, Carries, StartOfRow

(* What a variable holds when a row begins: its cell, or for a RETAIN      *)
(* variable without one what the last executed row left, whatever the      *)
(* program, the streams and the rows WHERE dropped in between.             *)
THEOREM RetainCarriesOver == Spec => []StartOfRow
<1>1. Init => RowInv
  BY RowInvInit
<1>2. RowInv /\ [Next]_vars => RowInv'
  BY NextIsRowStep, RowInvWithin, RowInvBetween, RowInvFinish DEF RowStep, RowInv
<1>3. RowInv => StartOfRow
  BY DEF RowInv
<1> QED
  BY <1>1, <1>2, <1>3, PTL DEF Spec

-----------------------------------------------------------------------------
(* END=                                                                    *)

(* With END= or BY there is one stream, whose rows are all there are.      *)
LEMMA TotalOfOneStream ==
  ASSUME Len(streams) = 1, Len(streams[1]) \in Nat
  PROVE  Total = Len(streams[1])
<1> DEFINE Step(f) == [s \in 0..Len(streams) |->
                         IF s = 0 THEN 0 ELSE f[s - 1] + Len(streams[s])]
           g == [s \in 0..1 |-> IF s = 0 THEN 0 ELSE Len(streams[1])]
           upto == CHOOSE f : f = Step(f)
<1>1. g = Step(g)
  OBVIOUS
<1>2. upto = Step(upto)
  BY <1>1
<1> HIDE DEF upto
<1>3. upto[0] = 0
  BY <1>2
<1>4. upto[1] = upto[0] + Len(streams[1])
  BY <1>2
<1>5. Total = upto[1]
  BY DEF Total, upto
<1> QED
  BY <1>3, <1>4, <1>5

(* Where the loop is: the rows of the first stream are counted from one.   *)
PosInv ==
  /\ pos \in [stream : Nat \ {0}, row : Nat, n : Nat]
  /\ pos.stream = 1 => pos.n = pos.row
  /\ pos.stream \in DOMAIN streams => pos.row <= Len(streams[pos.stream])
  /\ status = "executing" => pos.stream \in DOMAIN streams /\ pos.row >= 1

LEMMA RowsAreCounted ==
  ASSUME RowInv, PosInv, RowStep
  PROVE  PosInv'
<1>1. streams' = streams /\ streams \in Inputs
  BY DEF RowStep, block, RowInv
<1>2. \A s \in DOMAIN streams : Len(streams[s]) \in Nat
  BY <1>1, InputsAssumption
<1>3. CASE Within
  BY <1>1, <1>3 DEF Within, PosInv
<1>4. CASE Between
  BY <1>1, <1>2, <1>4 DEF Between, PosInv, NextPos
<1>5. CASE \E fate : FinishRow(fate)
  BY <1>1, <1>5 DEF FinishRow, PosInv, AfterRow
<1> QED
  BY <1>3, <1>4, <1>5 DEF RowStep

(* The END= flag a row starts with is the one of the row count.            *)
LEMMA NewRowEnd ==
  ASSUME prog \in Programs, prog.end # "", NEW s, NEW i, NEW n
  PROVE  Snapshot(NewRow(s, i, n))[prog.end] = IF n = Total THEN 1 ELSE 0
<1>1. prog.end \notin Flags(prog) /\ prog.end # "_N_" /\ prog.end # "_ERROR_"
  BY NamesAssumption
<1>2. prog.end \in DOMAIN NewRow(s, i, n).auto
  BY NewRowFields DEF AutoNames
<1>3. NewRow(s, i, n).auto[prog.end] = Restore(ResetRow(s, i, n)).auto[prog.end]
  BY <1>1, NewRowFields DEF NewRow, WithGroupFlags, Merge, Flags, Automatics, Restore, ResetRow
<1>4. Automatics(n)[prog.end] = IF n = Total THEN 1 ELSE 0
  BY <1>1 DEF Automatics, Bit
<1> QED
  BY <1>2, <1>3, <1>4, NewRowFields DEF Snapshot, Value

EndIsRight(start, s, i) == (start[prog.end] = 1) <=> (i = Len(streams[s]))

EndInv ==
  /\ RowInv /\ PosInv
  /\ prog.end # "" /\ status = "executing" => EndIsRight(cur.start, pos.stream, pos.row)
  /\ EndMarksLastRow

(* What FinishRow logs of the row, or the failure that logs nothing.       *)
LEMMA FinishLogs ==
  ASSUME RowInv, NEW fate, FinishRow(fate)
  PROVE  /\ UNCHANGED <<prog, streams, pos, cur>>
         /\ \/ status' = "failed" /\ log' = log
            \/ /\ status' \in {"reading", "exported"}
               /\ \E e : /\ log' = Append(log, e) /\ e.stream = pos.stream
                        /\ e.row = pos.row /\ e.start = cur.start
<1> DEFINE ts == IF fate = "deleted" \/ SuppressImplicitOutput THEN {} ELSE {prog.default}
           entry == [stream |-> pos.stream, row |-> pos.row, fate |-> fate,
                     start |-> cur.start, final |-> Snapshot(row),
                     added |-> cur.added, offered |-> Offered(ts)]
<1>1. UNCHANGED <<prog, streams, pos, cur>>
  BY DEF FinishRow, block
<1>2. CASE \E t \in ts : Rejects(t)
  BY <1>1, <1>2 DEF FinishRow
<1>3. CASE ~\E t \in ts : Rejects(t)
  <2>1. log' = Append(log, entry) /\ status' = AfterRow(fate)
    BY <1>3 DEF FinishRow
  <2>2. entry.stream = pos.stream /\ entry.row = pos.row /\ entry.start = cur.start
    OBVIOUS
  <2> QED
    BY <1>1, <2>1, <2>2 DEF AfterRow
<1> QED
  BY <1>2, <1>3

LEMMA EndInvKept ==
  ASSUME EndInv, [Next]_vars
  PROVE  EndInv'
<1>1. RowInv /\ PosInv /\ RowStep
  BY NextIsRowStep DEF EndInv, RowInv
<1>2. RowInv' /\ PosInv'
  BY <1>1, RowsAreCounted, RowInvWithin, RowInvBetween, RowInvFinish DEF RowStep
<1>3. UNCHANGED <<prog, streams>>
  BY <1>1 DEF RowStep, block
<1>4. CASE prog.end = ""
  BY <1>2, <1>3, <1>4 DEF EndInv, EndMarksLastRow
<1>5. CASE prog.end # "" /\ Within
  BY <1>2, <1>3, <1>5 DEF Within, EndInv, EndIsRight, EndMarksLastRow
<1>6. CASE prog.end # "" /\ Between
  <2>1. EndMarksLastRow'
    BY <1>3, <1>6 DEF Between, EndInv, EndMarksLastRow
  <2>2. ASSUME status' = "executing"
        PROVE  EndIsRight(cur'.start, pos'.stream, pos'.row)
    <3>1. Len(streams) = 1 /\ DOMAIN streams = {1} /\ Len(streams[1]) \in Nat
      <4>1. Len(streams) = 1
        BY <1>1, <1>6 DEF RowInv, Prepared
      <4>2. DOMAIN streams = 1..Len(streams) /\ \A s \in DOMAIN streams : Len(streams[s]) \in Nat
        BY <1>1, InputsAssumption DEF RowInv
      <4> QED
        BY <4>1, <4>2
    <3>2. pos'.stream = 1 /\ pos'.n = pos'.row /\ pos'.row \in Nat
      BY <1>2, <1>3, <2>2, <3>1 DEF PosInv
    <3>3. cur'.start[prog.end] = IF pos'.n = Total THEN 1 ELSE 0
      <4>1. cur' = Fresh(NewRow(pos'.stream, pos'.row, pos'.n))
        BY <1>6, <2>2 DEF Between
      <4>2. cur'.start = Snapshot(NewRow(pos'.stream, pos'.row, pos'.n))
        BY <4>1 DEF Fresh
      <4>3. prog \in Programs /\ prog.end # ""
        BY <1>1, <1>6 DEF RowInv
      <4>4. Snapshot(NewRow(pos'.stream, pos'.row, pos'.n))[prog.end]
              = IF pos'.n = Total THEN 1 ELSE 0
        BY <4>3, NewRowEnd
      <4> QED
        BY <4>2, <4>4
    <3>4. Total = Len(streams[1])
      BY <3>1, TotalOfOneStream
    <3> QED
      BY <3>2, <3>3, <3>4 DEF EndIsRight
  <2> QED
    BY <1>2, <1>3, <2>1, <2>2 DEF EndInv, EndIsRight
<1>7. CASE prog.end # "" /\ status = "executing" /\ \E fate : FinishRow(fate)
  <2>1. /\ UNCHANGED <<pos, cur>>
        /\ \/ status' = "failed" /\ log' = log
           \/ /\ status' \in {"reading", "exported"}
              /\ \E e : /\ log' = Append(log, e) /\ e.stream = pos.stream
                       /\ e.row = pos.row /\ e.start = cur.start
    BY <1>1, <1>7, FinishLogs
  <2>2. CASE status' = "failed" /\ log' = log
    BY <1>2, <1>3, <2>2 DEF EndInv, EndMarksLastRow
  <2>3. ASSUME status' \in {"reading", "exported"},
               NEW e, log' = Append(log, e), e.stream = pos.stream,
               e.row = pos.row, e.start = cur.start
        PROVE  EndInv'
    <3>1. /\ DOMAIN log = 1..Len(log) /\ Len(log) \in Nat
          /\ DOMAIN log' = 1..(Len(log) + 1)
          /\ log'[Len(log) + 1] = e /\ \A k \in DOMAIN log : log'[k] = log[k]
      BY <1>1, <2>3, LogGrows DEF RowInv
    <3>2. EndIsRight(e.start, e.stream, e.row)
      BY <1>7, <2>3 DEF EndInv
    <3>3. \A k \in DOMAIN log' : EndIsRight(log'[k].start, log'[k].stream, log'[k].row)
      <4>1. \A k \in DOMAIN log : EndIsRight(log[k].start, log[k].stream, log[k].row)
        BY <1>7 DEF EndInv, EndMarksLastRow, EndIsRight
      <4>2. \A k \in DOMAIN log' : k \in DOMAIN log \/ k = Len(log) + 1
        BY <3>1
      <4> QED
        BY <3>1, <3>2, <4>1, <4>2
    <3> QED
      BY <1>2, <1>3, <2>3, <3>3 DEF EndInv, EndMarksLastRow, EndIsRight
  <2> QED
    BY <2>1, <2>2, <2>3
<1> QED
  BY <1>1, <1>4, <1>5, <1>6, <1>7 DEF RowStep

LEMMA PosInvInit == Init => PosInv
<1> SUFFICES ASSUME Init PROVE PosInv
  OBVIOUS
<1>1. \A s \in DOMAIN streams : Len(streams[s]) \in Nat
  BY InputsAssumption DEF Init
<1> QED
  BY <1>1 DEF Init, PosInv

(* END= is 1 on the last row of the input and on no other, for every       *)
(* program and input, whatever WHERE and the statements dropped before.    *)
THEOREM EndIsTheLastRow == Spec => []EndMarksLastRow
<1>1. Init => EndInv
  BY RowInvInit, PosInvInit DEF EndInv, Init, EndMarksLastRow
<1>2. EndInv /\ [Next]_vars => EndInv'
  BY EndInvKept
<1>3. EndInv => EndMarksLastRow
  BY DEF EndInv
<1> QED
  BY <1>1, <1>2, <1>3, PTL DEF Spec

-----------------------------------------------------------------------------
(* FIRST. and LAST.                                                        *)

(* Two rows of the stream are in one group as far as c is concerned.       *)
SameCell(in, i, j, c) == j \in DOMAIN in /\ SameValue(in[i][c], in[j][c])

FlagsAreRight(start, in, by, i) ==
  \A c \in by :
    /\ start[FirstName(c)] = IF SameCell(in, i, i - 1, c) THEN 0 ELSE 1
    /\ start[LastName(c)]  = IF SameCell(in, i, i + 1, c) THEN 0 ELSE 1

Grouped == prog.by # {} /\ prog.where = Always /\ prog.by \cap prog.retain = {}

(* The flags compare cells, not what an earlier row left in the variable.  *)
LEMMA NewRowFlags ==
  ASSUME RowInv, Carries, Grouped, DOMAIN streams = {1},
         NEW i \in DOMAIN streams[1], NEW n
  PROVE  FlagsAreRight(Snapshot(NewRow(1, i, n)), streams[1], prog.by, i)
<1> SUFFICES ASSUME NEW c \in prog.by
             PROVE  /\ Snapshot(NewRow(1, i, n))[FirstName(c)] = IF SameCell(streams[1], i, i - 1, c) THEN 0 ELSE 1
                    /\ Snapshot(NewRow(1, i, n))[LastName(c)]  = IF SameCell(streams[1], i, i + 1, c) THEN 0 ELSE 1
  BY DEF FlagsAreRight
<1> DEFINE r1 == Restore(ResetRow(1, i, n))
           r2 == NewRow(1, i, n)
           FlagOf(x) == IF \E d \in prog.by : x = FirstName(d)
                          THEN Bit(~SameAsNeighbour(r1, 1, i - 1,
                                     CHOOSE d \in prog.by : x = FirstName(d)))
                          ELSE Bit(~SameAsNeighbour(r1, 1, i + 1,
                                     CHOOSE d \in prog.by : x = LastName(d)))
<1>1. c \in DOMAIN streams[1][i]
  BY InputsAssumption DEF RowInv
<1>2. c \in Columns
  BY <1>1 DEF Columns, SourceColumns, InputColumns
<1>3. Value(r1, c) = streams[1][i][c]
  <2>1. StartValue(1, i, c) = streams[1][i][c]
    BY <1>1 DEF StartValue, Cell, Grouped
  <2> QED
    BY <1>2, <2>1, NamesApart, RestoredValue
<1>4. \A x \in Flags(prog) : r2.auto[x] = FlagOf(x)
  BY DEF NewRow, WithGroupFlags, Merge, Flags, Restore, ResetRow
<1>5. FirstName(c) \in Flags(prog) /\ LastName(c) \in Flags(prog)
  BY DEF Flags
<1>6. /\ \A d \in prog.by : FirstName(c) = FirstName(d) => d = c
      /\ \A d \in prog.by : LastName(c) = LastName(d) => d = c
      /\ \A d \in prog.by : LastName(c) # FirstName(d)
  BY NamesAssumption DEF RowInv
<1>7. (CHOOSE d \in prog.by : FirstName(c) = FirstName(d)) = c
  BY <1>6
<1>8. (CHOOSE d \in prog.by : LastName(c) = LastName(d)) = c
  BY <1>6
<1>9. r2.auto[FirstName(c)] = IF SameCell(streams[1], i, i - 1, c) THEN 0 ELSE 1
  <2>1. FlagOf(FirstName(c)) = Bit(~SameAsNeighbour(r1, 1, i - 1, c))
    BY <1>7
  <2> HIDE DEF FlagOf
  <2>2. r2.auto[FirstName(c)] = Bit(~SameAsNeighbour(r1, 1, i - 1, c))
    BY <1>4, <1>5, <2>1
  <2> QED
    BY <2>2, <1>3 DEF Bit, SameAsNeighbour, SameCell
<1>10. r2.auto[LastName(c)] = IF SameCell(streams[1], i, i + 1, c) THEN 0 ELSE 1
  <2>1. FlagOf(LastName(c)) = Bit(~SameAsNeighbour(r1, 1, i + 1, c))
    BY <1>6, <1>8
  <2> HIDE DEF FlagOf
  <2>2. r2.auto[LastName(c)] = Bit(~SameAsNeighbour(r1, 1, i + 1, c))
    BY <1>4, <1>5, <2>1
  <2> QED
    BY <2>2, <1>3 DEF Bit, SameAsNeighbour, SameCell
<1>11. FirstName(c) \in DOMAIN r2.auto /\ LastName(c) \in DOMAIN r2.auto
  <2>1. DOMAIN r2.auto = AutoNames
    BY NewRowFields
  <2> HIDE DEF r2
  <2> QED
    BY <1>5, <2>1 DEF AutoNames
<1> QED
  BY <1>9, <1>10, <1>11 DEF Snapshot, Value

(* Without WHERE every row is run, so the log is the stream as far as read.*)
RunsOfOneStream ==
  /\ \A k \in DOMAIN log : /\ log[k].stream = 1 /\ log[k].row = k
                            /\ k \in DOMAIN streams[1]
                            /\ FlagsAreRight(log[k].start, streams[1], prog.by, k)
  /\ status = "reading" /\ pos.stream = 1 => pos.row = Len(log)
  /\ status = "executing" => /\ pos.stream = 1 /\ pos.row = Len(log) + 1
                             /\ FlagsAreRight(cur.start, streams[1], prog.by, pos.row)

GroupInv == RowInv /\ PosInv /\ (Grouped => RunsOfOneStream)

LEMMA GroupInvKept ==
  ASSUME GroupInv, [Next]_vars
  PROVE  GroupInv'
<1>1. RowInv /\ PosInv /\ RowStep
  BY NextIsRowStep DEF GroupInv, RowInv
<1>2. RowInv' /\ PosInv'
  BY <1>1, RowsAreCounted, RowInvWithin, RowInvBetween, RowInvFinish DEF RowStep
<1>3. UNCHANGED <<prog, streams>>
  BY <1>1 DEF RowStep, block
<1>4. Grouped' = Grouped
  BY <1>3 DEF Grouped
<1> SUFFICES ASSUME Grouped PROVE RunsOfOneStream'
  BY <1>2, <1>4 DEF GroupInv
<1>5. RunsOfOneStream
  BY DEF GroupInv
<1>6. /\ DOMAIN streams = {1} /\ Len(streams[1]) \in Nat
      /\ DOMAIN streams[1] = 1..Len(streams[1])
  <2>1. Len(streams) = 1
    BY <1>1 DEF RowInv, Prepared, Grouped
  <2>2. /\ DOMAIN streams = 1..Len(streams)
        /\ \A s \in DOMAIN streams : DOMAIN streams[s] = 1..Len(streams[s]) /\ Len(streams[s]) \in Nat
    BY <1>1, InputsAssumption DEF RowInv
  <2> QED
    BY <2>1, <2>2
<1>8. CASE Within
  BY <1>3, <1>5, <1>8 DEF Within, RunsOfOneStream
<1>9. CASE Between
  <2>1. log' = log
    BY <1>9 DEF Between
  <2>2. \A k \in DOMAIN log' : /\ log'[k].stream = 1 /\ log'[k].row = k
                                /\ k \in DOMAIN streams[1]
                                /\ FlagsAreRight(log'[k].start, streams[1], prog.by, k)
    BY <1>3, <1>5, <2>1 DEF RunsOfOneStream
  <2>3. CASE /\ status' = "executing"
             /\ cur' = Fresh(NewRow(pos'.stream, pos'.row, pos'.n))
             /\ pos' = NextPos /\ pos.stream \in DOMAIN streams
             /\ pos.row < Len(streams[pos.stream])
    <3>1. pos'.stream = 1 /\ pos'.row = Len(log) + 1 /\ pos'.row \in DOMAIN streams[1]
      BY <1>1, <1>5, <1>6, <1>9, <2>3 DEF Between, RunsOfOneStream, NextPos, PosInv
    <3>2. cur'.start = Snapshot(NewRow(1, pos'.row, pos'.n))
      BY <2>3, <3>1 DEF Fresh
    <3>3. Carries
      BY <1>1, <1>9 DEF RowInv, Between
    <3>4. FlagsAreRight(Snapshot(NewRow(1, pos'.row, pos'.n)), streams[1], prog.by, pos'.row)
      BY <1>1, <1>6, <3>1, <3>3, NewRowFlags
    <3>5. FlagsAreRight(cur'.start, streams[1], prog.by, pos'.row)
      BY <1>3, <3>2, <3>4
    <3> QED
      BY <1>3, <2>1, <2>2, <2>3, <3>1, <3>5 DEF RunsOfOneStream
  <2>4. CASE status' = "reading" /\ pos.stream = 1 /\ pos'.stream = 2
    BY <1>3, <2>1, <2>2, <2>4 DEF RunsOfOneStream
  <2>5. CASE status' \in {"failed", "exported"}
    BY <1>3, <2>1, <2>2, <2>5 DEF RunsOfOneStream
  <2>6. \/ status' \in {"failed", "exported"}
        \/ status' = "reading" /\ pos.stream = 1 /\ pos'.stream = 2
        \/ /\ status' = "executing"
           /\ cur' = Fresh(NewRow(pos'.stream, pos'.row, pos'.n))
           /\ pos' = NextPos /\ pos.stream \in DOMAIN streams
           /\ pos.row < Len(streams[pos.stream])
    BY <1>6, <1>9 DEF Between, Grouped
  <2> QED
    BY <2>3, <2>4, <2>5, <2>6
<1>10. CASE status = "executing" /\ \E fate : FinishRow(fate)
  <2>1. /\ UNCHANGED <<pos, cur>>
        /\ \/ status' = "failed" /\ log' = log
           \/ /\ status' \in {"reading", "exported"}
              /\ \E e : /\ log' = Append(log, e) /\ e.stream = pos.stream
                       /\ e.row = pos.row /\ e.start = cur.start
    BY <1>1, <1>10, FinishLogs
  <2>2. CASE status' = "failed" /\ log' = log
    BY <1>3, <1>5, <2>2 DEF RunsOfOneStream
  <2>3. ASSUME status' \in {"reading", "exported"},
               NEW e, log' = Append(log, e), e.stream = pos.stream,
               e.row = pos.row, e.start = cur.start
        PROVE  RunsOfOneStream'
    <3>1. /\ DOMAIN log = 1..Len(log) /\ Len(log) \in Nat /\ Len(log') = Len(log) + 1
          /\ DOMAIN log' = 1..(Len(log) + 1)
          /\ log'[Len(log) + 1] = e /\ \A k \in DOMAIN log : log'[k] = log[k]
      BY <1>1, <2>3, LogGrows DEF RowInv
    <3>2. /\ pos.stream = 1 /\ pos.row = Len(log) + 1
          /\ FlagsAreRight(cur.start, streams[1], prog.by, pos.row)
          /\ pos.row \in DOMAIN streams[1]
      BY <1>1, <1>5, <1>6, <1>10 DEF RunsOfOneStream, PosInv
    <3>3. ASSUME NEW k \in DOMAIN log'
          PROVE  /\ log'[k].stream = 1 /\ log'[k].row = k /\ k \in DOMAIN streams[1]
                 /\ FlagsAreRight(log'[k].start, streams[1], prog.by, k)
      <4>1. CASE k \in DOMAIN log
        BY <1>3, <1>5, <3>1, <4>1 DEF RunsOfOneStream
      <4>2. CASE k = Len(log) + 1
        BY <1>3, <2>3, <3>1, <3>2, <4>2
      <4> QED
        BY <3>1, <4>1, <4>2
    <3> QED
      BY <1>3, <2>1, <2>3, <3>1, <3>2, <3>3 DEF RunsOfOneStream
  <2> QED
    BY <2>1, <2>2, <2>3
<1> QED
  BY <1>1, <1>8, <1>9, <1>10 DEF RowStep

(* A row ends a group exactly when the next one begins one, for every      *)
(* program without WHERE and every input, whatever its statements write.   *)
THEOREM GroupsAreBracketed == Spec => []GroupsAreRuns
<1>1. Init => GroupInv
  <2> SUFFICES ASSUME Init PROVE GroupInv
    OBVIOUS
  <2>1. log = <<>> /\ status = "reading" /\ pos.row = 0
    BY DEF Init
  <2>2. RunsOfOneStream
    BY <2>1 DEF RunsOfOneStream
  <2> QED
    BY <2>2, RowInvInit, PosInvInit DEF GroupInv
<1>2. GroupInv /\ [Next]_vars => GroupInv'
  BY GroupInvKept
<1>3. GroupInv => GroupsAreRuns
  <2> SUFFICES ASSUME GroupInv, prog.where = Always, prog.by \cap prog.retain = {},
                      NEW k \in DOMAIN log, NEW c \in prog.by
               PROVE  IF k < Len(log) /\ log[k + 1].stream = log[k].stream
                        THEN log[k].start[LastName(c)] = log[k + 1].start[FirstName(c)]
                        ELSE log[k].row = Len(streams[log[k].stream])
                               => log[k].start[LastName(c)] = 1
    BY DEF GroupsAreRuns
  <2>1. RunsOfOneStream
    BY DEF GroupInv, Grouped
  <2>2. DOMAIN log = 1..Len(log) /\ Len(log) \in Nat
    <3>1. PICK S : log \in Seq(S)
      BY DEF GroupInv, RowInv, LogIsSequence
    <3> QED
      BY <3>1
  <2>3. /\ log[k].stream = 1 /\ log[k].row = k /\ k \in DOMAIN streams[1]
        /\ log[k].start[LastName(c)] = IF SameCell(streams[1], k, k + 1, c) THEN 0 ELSE 1
    BY <2>1 DEF RunsOfOneStream, FlagsAreRight
  <2>4. CASE k < Len(log)
    <3>1. k + 1 \in DOMAIN log /\ (k + 1) - 1 = k
      BY <2>2, <2>4
    <3>2. /\ log[k + 1].stream = 1 /\ k + 1 \in DOMAIN streams[1]
          /\ log[k + 1].start[FirstName(c)] = IF SameCell(streams[1], k + 1, k, c) THEN 0 ELSE 1
      BY <2>1, <3>1 DEF RunsOfOneStream, FlagsAreRight
    <3>3. SameCell(streams[1], k, k + 1, c) <=> SameCell(streams[1], k + 1, k, c)
      BY <2>3, <3>2 DEF SameCell, SameValue
    <3> QED
      BY <2>3, <2>4, <3>2, <3>3
  <2>5. CASE ~(k < Len(log))
    <3>1. k = Len(streams[1]) => k + 1 \notin DOMAIN streams[1]
      <4>1. 1 \in DOMAIN streams
        <5>1. Len(streams) = 1
          BY DEF GroupInv, RowInv, Prepared
        <5>2. DOMAIN streams = 1..Len(streams)
          BY InputsAssumption DEF GroupInv, RowInv
        <5> QED
          BY <5>1, <5>2
      <4> QED
        BY <4>1, InputsAssumption DEF GroupInv, RowInv
    <3>2. k + 1 \notin DOMAIN streams[1] => ~SameCell(streams[1], k, k + 1, c)
      BY DEF SameCell
    <3> QED
      BY <2>3, <2>5, <3>1, <3>2
  <2> QED
    BY <2>4, <2>5
<1> QED
  BY <1>1, <1>2, <1>3, PTL DEF Spec

-----------------------------------------------------------------------------
(* What the statements do                                                  *)

StopInv == LogIsSequence /\ StopEndsTheBlock

(* All a step can do to the log: nothing, or append the row it finishes. *)
LogStep ==
  \/ log' = log /\ (status' = status \/ status # "exported")
  \/ /\ status = "executing"
     /\ \E e : log' = Append(log, e) /\ (e.fate = "stopped" => status' = "exported")

(* A finished row is the only thing FinishRow appends, and a STOP exports. *)
LEMMA FinishRowAppends ==
  ASSUME NEW fate, status = "executing", FinishRow(fate)
  PROVE  LogStep
<1> DEFINE ts == IF fate = "deleted" \/ SuppressImplicitOutput THEN {} ELSE {prog.default}
           entry == [stream |-> pos.stream, row |-> pos.row, fate |-> fate,
                     start |-> cur.start, final |-> Snapshot(row),
                     added |-> cur.added, offered |-> Offered(ts)]
<1>1. CASE \E t \in ts : Rejects(t)
  BY <1>1 DEF FinishRow, LogStep
<1>2. CASE ~\E t \in ts : Rejects(t)
  <2>1. log' = Append(log, entry) /\ status' = AfterRow(fate)
    BY <1>2 DEF FinishRow
  <2>2. entry.fate = fate
    OBVIOUS
  <2> QED
    BY <2>1, <2>2 DEF LogStep, AfterRow
<1> QED
  BY <1>1, <1>2

(* A simple statement leaves the log alone or finishes its row. *)
LEMMA PerformSteps ==
  ASSUME NEW a, NEW p, NEW c, status = "executing", Perform(a, p, c)
  PROVE  LogStep
<1>1. CASE Assignment(a, p, c)
  BY <1>1 DEF Assignment, LogStep
<1>2. CASE SumUpdate(a, p, c)
  BY <1>2 DEF SumUpdate, LogStep
<1>3. CASE RouteOutput(a, p, c)
  BY <1>3 DEF RouteOutput, LogStep
<1>4. CASE DeleteRow(a)
  BY <1>4, FinishRowAppends DEF DeleteRow
<1>5. CASE StopLoop(a)
  BY <1>5, FinishRowAppends DEF StopLoop
<1>6. CASE ActionFails(a)
  BY <1>6 DEF ActionFails, Fail, LogStep
<1> QED
  BY <1>1, <1>2, <1>3, <1>4, <1>5, <1>6 DEF Perform

(* So do a branch that is taken and one that is skipped. *)
LEMMA BranchSteps ==
  ASSUME NEW a, NEW c, status = "executing", TakeBranch(a, c) \/ EnterBlock(a, c) \/ SkipBranch(a, c)
  PROVE  LogStep
<1>1. CASE EnterBlock(a, c)
  BY <1>1 DEF EnterBlock, EnterGroup, EnterLoop, Fail, LogStep
<1>2. CASE SkipBranch(a, c)
  BY <1>2 DEF SkipBranch, Fail, LogStep
<1>3. CASE TakeBranch(a, c)
  BY <1>1, <1>3, PerformSteps DEF TakeBranch
<1> QED
  BY <1>1, <1>2, <1>3

(* Every step is a LogStep. *)
LEMMA NextIsLogStep == [Next]_vars => LogStep
<1> SUFFICES ASSUME [Next]_vars PROVE LogStep
  OBVIOUS
<1>1. CASE ReadRow
  BY <1>1 DEF ReadRow, LogStep
<1>2. CASE NextStream \/ Export
  BY <1>2 DEF NextStream, Export, LogStep
<1>3. CASE Simple
  BY <1>3, PerformSteps DEF Simple, Sequential, Executing
<1>4. CASE DoLoop
  BY <1>4, BranchSteps DEF DoLoop, Sequential, Executing
<1>5. CASE SubsettingIf
  <2>1. status = "executing"
    BY <1>5 DEF SubsettingIf, Sequential, Executing
  <2>2. \/ Fail
        \/ FinishRow("deleted")
        \/ status' = status /\ log' = log
    BY <1>5 DEF SubsettingIf
  <2>3. CASE FinishRow("deleted")
    BY <2>1, <2>3, FinishRowAppends
  <2>4. CASE Fail \/ (status' = status /\ log' = log)
    BY <2>1, <2>4 DEF Fail, LogStep
  <2> QED
    BY <2>2, <2>3, <2>4
<1>6. CASE IfStatement
  <2>1. status = "executing"
    BY <1>6 DEF IfStatement, Sequential, Executing
  <2>2. \/ Fail
        \/ TakeBranch(Here.act, "taken")
        \/ SkipBranch(Here.act, "open")
    BY <1>6 DEF IfStatement
  <2>3. CASE Fail
    BY <2>1, <2>3 DEF Fail, LogStep
  <2> QED
    BY <2>1, <2>2, <2>3, BranchSteps
<1>7. CASE ElseIfStatement
  <2>1. status = "executing"
    BY <1>7 DEF ElseIfStatement, Chained, Executing
  <2>2. \/ Fail
        \/ TakeBranch(Here.act, "taken")
        \/ \E c : SkipBranch(Here.act, c)
    BY <1>7 DEF ElseIfStatement
  <2>3. CASE Fail
    BY <2>1, <2>3 DEF Fail, LogStep
  <2> QED
    BY <2>1, <2>2, <2>3, BranchSteps
<1>8. CASE ElseStatement
  BY <1>8, BranchSteps DEF ElseStatement, Chained, Executing
<1>9. CASE FaultedElse \/ StrayElse
  BY <1>9 DEF FaultedElse, StrayElse, Chained, Sequential, Executing, Fail, LogStep
<1>10. CASE RangeEnd
  <2>1. status = "executing"
    BY <1>10 DEF RangeEnd
  <2>2. CASE FinishRow("kept")
    BY <2>1, <2>2, FinishRowAppends
  <2>3. CASE ~FinishRow("kept")
    BY <1>10, <2>3 DEF RangeEnd, LogStep
  <2> QED
    BY <2>2, <2>3
<1>11. CASE Returned \/ UNCHANGED vars
  BY <1>11 DEF Returned, vars, LogStep
<1> QED
  BY <1>1, <1>2, <1>3, <1>4, <1>5, <1>6, <1>7, <1>8, <1>9, <1>10, <1>11 DEF Next

(* StopInv survives a LogStep: a row is appended only while rows run, and  *)
(* then no STOP is in the log yet.                                         *)
LEMMA LogStepKeeps == StopInv /\ LogStep => StopInv'
<1> SUFFICES ASSUME StopInv, LogStep PROVE StopInv'
  OBVIOUS
<1>1. PICK S : log \in Seq(S)
  BY DEF StopInv, LogIsSequence
<1>2. CASE log' = log /\ (status' = status \/ status # "exported")
  BY <1>2 DEF StopInv, LogIsSequence, StopEndsTheBlock
<1>3. CASE /\ status = "executing"
           /\ \E e : log' = Append(log, e) /\ (e.fate = "stopped" => status' = "exported")
  <2>1. PICK e : log' = Append(log, e) /\ (e.fate = "stopped" => status' = "exported")
    BY <1>3
  <2>2. log \in Seq(S \cup {e}) /\ e \in S \cup {e}
    BY <1>1
  <2>3. log' \in Seq(S \cup {e})
    BY <2>1, <2>2
  <2>4. /\ Len(log') = Len(log) + 1
        /\ log'[Len(log) + 1] = e
        /\ \A k \in DOMAIN log : log'[k] = log[k]
        /\ DOMAIN log' = 1..(Len(log) + 1)
        /\ DOMAIN log = 1..Len(log) /\ Len(log) \in Nat
    BY <2>1, <2>2
  <2>5. \A k \in DOMAIN log : log[k].fate # "stopped"
    BY <1>3 DEF StopInv, StopEndsTheBlock
  <2>6. ASSUME NEW k \in DOMAIN log', log'[k].fate = "stopped"
        PROVE  k = Len(log') /\ status' = "exported"
    <3>1. k \notin DOMAIN log
      BY <2>4, <2>5, <2>6
    <3>2. k = Len(log) + 1
      BY <2>4, <3>1
    <3> QED
      BY <2>1, <2>4, <2>6, <3>2
  <2> QED
    BY <2>3, <2>6 DEF StopInv, LogIsSequence, StopEndsTheBlock
<1> QED
  BY <1>2, <1>3 DEF LogStep

(* Nothing runs after STOP, in no stream, for every program and input. *)
THEOREM StopIsFinal == Spec => []StopEndsTheBlock
<1>1. Init => StopInv
  <2> SUFFICES ASSUME Init PROVE StopInv
    OBVIOUS
  <2>1. log = <<>> /\ log \in Seq({})
    BY DEF Init
  <2> QED
    BY <2>1 DEF StopInv, LogIsSequence, StopEndsTheBlock
<1>2. StopInv /\ [Next]_vars => StopInv'
  BY NextIsLogStep, LogStepKeeps
<1>3. StopInv => StopEndsTheBlock
  BY DEF StopInv
<1> QED
  BY <1>1, <1>2, <1>3, PTL DEF Spec

-----------------------------------------------------------------------------
(* The stack and the values                                                *)

(* what the statements do, inline actions included *)
Actions == {Inline(Statements[i]) : i \in DOMAIN Statements}
LoopColumns == {a.col : a \in {b \in Actions : b.op = "DO"}}
Assigned == {a.col : a \in {b \in Actions : b.op = "ASSIGN"}} \cup LoopColumns

Counters == [col : LoopColumns, next : Int, hi : Int, body : Nat \ {0}] \cup {NoLoop}
ChainStates == {"none", "open", "taken"}
Frames ==
  [pc : Nat \ {0}, stop : 1..(Len(Statements) + 1), chain : ChainStates, loop : Counters]

(* A range ends inside the range that it was entered from.                 *)
StackInv ==
  /\ prog \in Programs
  /\ stack \in Seq(Frames)
  /\ \A k \in DOMAIN stack : k > 1 => stack[k].stop < stack[k - 1].stop
  /\ status = "executing" => stack # <<>>
  /\ status = "reading" => stack = <<>>

AllScalar(f) == \A c \in DOMAIN f : f[c] \in Scalar
RowOK(r) ==
  /\ r = [src |-> r.src, owned |-> r.owned, written |-> r.written, auto |-> r.auto]
  /\ AllScalar(r.src) /\ AllScalar(r.owned) /\ AllScalar(r.auto)
CurOK(h) ==
  /\ h = [start |-> h.start, added |-> h.added, offered |-> h.offered]
  /\ \A c \in DOMAIN h.added : h.added[c] \in Int

(* What the row, the accumulators and the builders hold.                   *)
ValuesInv ==
  /\ streams \in Inputs
  /\ status \in {"reading", "executing", "exported", "failed"}
  /\ RowOK(row) /\ CurOK(cur) /\ AllScalar(retained)
  /\ \A c \in DOMAIN sums : sums[c] \in Int
  /\ DOMAIN sums \subseteq MutableColumns
  /\ DOMAIN retained \subseteq prog.retain
  /\ DOMAIN outs = Targets /\ DOMAIN counts = Targets

(* A statement moves the cursor, enters a block or leaves one;             *)
StackStep ==
  \/ Len(stack) > 1 /\ stack' = Below
  \/ \E f \in Frames : f.stop = Top.stop /\ stack' = Append(Below, f)
  \/ \E f, g \in Frames : /\ f.stop = Top.stop /\ g.stop < Top.stop
                          /\ stack' = Append(Append(Below, f), g)

(* and it stores a value, adds to an accumulator, offers rows or does none *)
(* of these.                                                               *)
Stored ==
  /\ row' = row \/ \E c \in Assigned, v \in Scalar : row' = Store(row, c, v)
  /\ UNCHANGED <<sums, outs, counts, cur>>
Summed(a) ==
  LET step  == Zeroed(Eval(row, a.val))
      total == SumBase(a) + step
      sofar == IF a.col \in DOMAIN cur.added THEN cur.added[a.col] ELSE 0
  IN  /\ a.op = "SUM"
      /\ sums' = Put(sums, a.col, total)
      /\ row' = Store(row, a.col, total)
      /\ cur' = [cur EXCEPT !.added = Put(cur.added, a.col, sofar + step)]
      /\ UNCHANGED <<outs, counts>>
Routed(ts) ==
  /\ \A t \in ts : ~Rejects(t)
  /\ Route(ts)
  /\ cur' = [cur EXCEPT !.offered = Offered(ts)]
  /\ UNCHANGED <<row, sums>>

StatementStep ==
  /\ status = "executing" /\ UNCHANGED block
  /\ \/ status' = "failed" /\ UNCHANGED <<pos, row, stack, carried, cur, log>>
     \/ \E fate : FinishRow(fate)
     \/ /\ status' = "executing" /\ UNCHANGED <<pos, retained, log>>
        /\ StackStep
        /\ Stored \/ (\E a \in Actions : Summed(a)) \/ (\E ts : Routed(ts))

-----------------------------------------------------------------------------
(* Expressions                                                             *)

LEMMA ValueIsScalar ==
  ASSUME NEW r, RowOK(r), NEW c
  PROVE  Value(r, c) \in Scalar
BY DEF RowOK, AllScalar, Value, Scalar

(* An action of the program computes with numbers and Null.                *)
LEMMA EvalIsScalar ==
  ASSUME prog \in Programs, NEW a \in Actions, NEW e \in Expressions(a), NEW r, RowOK(r)
  PROVE  Eval(r, e) \in Scalar /\ Zeroed(Eval(r, e)) \in Int
<1>1. \A p \in Parts(e) : Atom(r, p) \in Scalar
  <2> SUFFICES ASSUME NEW p \in Parts(e) PROVE Atom(r, p) \in Scalar
    OBVIOUS
  <2>1. PICK i \in DOMAIN prog.stmts : a = Inline(prog.stmts[i])
    BY DEF Actions, Statements
  <2>2. p.k = "lit" => p.v \in Scalar
    BY <2>1, ValuesAssumption
  <2> QED
    BY <2>2, ValueIsScalar DEF Atom
<1>2. CASE e.k # "plus"
  BY <1>1, <1>2 DEF Eval, Parts, Scalar, Zeroed
<1>3. CASE e.k = "plus"
  BY <1>1, <1>3 DEF Eval, Parts, Scalar, Zeroed
<1> QED
  BY <1>2, <1>3

(* The statement under the cursor is one of the program's actions.         *)
LEMMA HereIsAction ==
  ASSUME StackInv, Executing
  PROVE  /\ Top \in Frames /\ Top.pc + 1 \in Nat \ {0} /\ Top.pc + 2 \in Nat \ {0}
         /\ Top = [pc |-> Top.pc, stop |-> Top.stop, chain |-> Top.chain, loop |-> Top.loop]
         /\ Inline(Here) \in Actions
<1>1. stack # <<>> /\ stack \in Seq(Frames)
  BY DEF StackInv, Executing
<1>2. Top \in Frames
  BY <1>1 DEF Top
<1>3. Top.pc \in 1..Len(Statements)
  BY <1>2, ProgramsAssumption DEF Frames, Executing, InRange, StackInv, Statements
<1>4. Top.pc \in DOMAIN Statements
  BY <1>3, ProgramsAssumption DEF StackInv, Statements
<1>5. Inline(Here) \in Actions
  BY <1>4 DEF Here, At, Actions
<1> QED
  BY <1>2, <1>3, <1>5 DEF Frames

-----------------------------------------------------------------------------
(* What a statement does                                                   *)

LEMMA CursorMoves ==
  ASSUME StackInv, Executing, NEW p \in Nat \ {0}, NEW c \in ChainStates, stack' = Goto(p, c)
  PROVE  StackStep
<1> DEFINE f == [Top EXCEPT !.pc = p, !.chain = c]
<1>1. f \in Frames /\ f.stop = Top.stop
  BY HereIsAction DEF Frames
<1>2. stack' = Append(Below, f)
  BY DEF Goto
<1> QED
  BY <1>1, <1>2 DEF StackStep

(* The block under the cursor ends before its range does.                  *)
LEMMA EndIsInside ==
  ASSUME StackInv, Executing, Closed
  PROVE  /\ EndOf(Top.pc, Top.stop) \in (Top.pc + 1)..(Top.stop - 1)
         /\ EndOf(Top.pc, Top.stop) \in 1..(Len(Statements) + 1)
         /\ EndOf(Top.pc, Top.stop) + 1 \in Nat \ {0}
<1>1. Top.pc \in Nat \ {0} /\ Top.stop \in 1..(Len(Statements) + 1)
  BY HereIsAction DEF Frames
<1>2. Len(Statements) \in Nat
  BY ProgramsAssumption DEF StackInv, Statements
<1>3. EndOf(Top.pc, Top.stop) \in (Top.pc + 1)..(Top.stop - 1)
  BY DEF EndOf, Closed, MatchingEnd
<1> QED
  BY <1>1, <1>2, <1>3

LEMMA BlockIsEntered ==
  ASSUME StackInv, Executing, Closed, NEW c \in ChainStates, NEW loop \in Counters,
         stack' = Append(Goto(EndOf(Top.pc, Top.stop) + 1, c),
                         Frame(Top.pc + 1, EndOf(Top.pc, Top.stop), loop))
  PROVE  StackStep
<1> DEFINE e == EndOf(Top.pc, Top.stop)
           f == [Top EXCEPT !.pc = e + 1, !.chain = c]
           g == Frame(Top.pc + 1, e, loop)
<1>1. f \in Frames /\ f.stop = Top.stop
  BY HereIsAction, EndIsInside DEF Frames
<1>2. g \in Frames /\ g.stop < Top.stop
  BY HereIsAction, EndIsInside DEF Frames, Frame, ChainStates
<1>3. stack' = Append(Append(Below, f), g)
  BY DEF Goto
<1> QED
  BY <1>1, <1>2, <1>3 DEF StackStep

LEMMA QuietStep ==
  ASSUME status = "executing", StackStep, UNCHANGED <<block, status, pos, row, carried, cur, log>>
  PROVE  StatementStep
BY DEF StatementStep, Stored, carried

LEMMA FailStep ==
  ASSUME status = "executing", Fail
  PROVE  StatementStep
BY DEF StatementStep, Fail, carried

LEMMA FinishStep ==
  ASSUME status = "executing", NEW fate, FinishRow(fate)
  PROVE  StatementStep
BY DEF StatementStep, FinishRow

LEMMA PerformStep ==
  ASSUME StackInv, ValuesInv, Executing, NEW a \in Actions,
         NEW p \in Nat \ {0}, NEW c \in ChainStates, Perform(a, p, c)
  PROVE  StatementStep
<1>1. status = "executing"
  BY DEF Executing
<1>2. CASE Assignment(a, p, c)
  <2>1. a.col \in Assigned /\ Eval(row, a.val) \in Scalar
    BY <1>2, EvalIsScalar DEF Assignment, Assigned, Expressions, ValuesInv, StackInv
  <2>2. StackStep
    BY <1>2, CursorMoves DEF Assignment
  <2>3. UNCHANGED <<block, status, pos, sums, retained, outs, counts, cur, log>>
    BY <1>2 DEF Assignment, carried
  <2>4. row' = Store(row, a.col, Eval(row, a.val))
    BY <1>2 DEF Assignment
  <2> QED
    BY <1>1, <2>1, <2>2, <2>3, <2>4 DEF StatementStep, Stored
<1>3. CASE SumUpdate(a, p, c)
  <2>1. StackStep
    BY <1>3, CursorMoves DEF SumUpdate
  <2>2. Summed(a) /\ UNCHANGED <<block, status, pos, retained, log>>
    BY <1>3 DEF SumUpdate, Summed
  <2> QED
    BY <1>1, <2>1, <2>2 DEF StatementStep
<1>4. CASE RouteOutput(a, p, c)
  <2>1. StackStep
    BY <1>4, CursorMoves DEF RouteOutput
  <2>2. Routed(RoutedTo(a)) /\ UNCHANGED <<block, status, pos, retained, log>>
    BY <1>4 DEF RouteOutput, Routed
  <2> QED
    BY <1>1, <2>1, <2>2 DEF StatementStep
<1>5. CASE DeleteRow(a) \/ StopLoop(a)
  BY <1>1, <1>5, FinishStep DEF DeleteRow, StopLoop
<1>6. CASE ActionFails(a)
  BY <1>1, <1>6, FailStep DEF ActionFails
<1> QED
  BY <1>2, <1>3, <1>4, <1>5, <1>6 DEF Perform

LEMMA BlockStep ==
  ASSUME StackInv, ValuesInv, Executing, NEW a \in Actions, NEW c \in ChainStates,
         EnterBlock(a, c)
  PROVE  StatementStep
<1>1. status = "executing"
  BY DEF Executing
<1>2. CASE Fail
  BY <1>1, <1>2, FailStep
<1>3. CASE Closed /\ EnterGroup(c)
  <2>1. NoLoop \in Counters
    BY DEF Counters
  <2>2. StackStep
    BY <1>3, <2>1, BlockIsEntered DEF EnterGroup
  <2> QED
    BY <1>1, <1>3, <2>2, QuietStep DEF EnterGroup
<1>4. CASE a.op = "DO" /\ Closed /\ EnterLoop(a, c)
  <2> DEFINE lo == Zeroed(Eval(row, a.lo))
             hi == Zeroed(Eval(row, a.hi))
             loop == [col |-> a.col, next |-> lo + 1, hi |-> hi, body |-> Top.pc + 1]
  <2>1. a.lo \in Expressions(a) /\ a.hi \in Expressions(a)
    BY <1>4 DEF Expressions
  <2>2. lo \in Int /\ hi \in Int
    BY <2>1, EvalIsScalar DEF ValuesInv, StackInv
  <2>3. a.col \in LoopColumns
    BY <1>4 DEF LoopColumns
  <2> HIDE DEF lo, hi
  <2>4. loop \in Counters
    BY <2>2, <2>3, HereIsAction DEF Counters
  <2>5. CASE lo <= hi
    <3>1. /\ row' = Store(row, a.col, lo)
          /\ stack' = Append(Goto(EndOf(Top.pc, Top.stop) + 1, c),
                             Frame(Top.pc + 1, EndOf(Top.pc, Top.stop), loop))
      BY <1>4, <2>5 DEF EnterLoop, lo, hi
    <3> HIDE DEF loop
    <3>2. StackStep
      BY <1>4, <2>4, <3>1, BlockIsEntered
    <3>3. UNCHANGED <<block, status, pos, sums, retained, outs, counts, cur, log>>
      BY <1>4 DEF EnterLoop, carried
    <3>4. Stored
      BY <2>2, <2>3, <3>1, <3>3 DEF Stored, Assigned, Scalar
    <3> QED
      BY <1>1, <3>2, <3>3, <3>4 DEF StatementStep
  <2>6. CASE ~(lo <= hi)
    <3>1. /\ stack' = Goto(EndOf(Top.pc, Top.stop) + 1, c)
          /\ UNCHANGED <<block, status, pos, row, carried, cur, log>>
      BY <1>4, <2>6 DEF EnterLoop, lo, hi
    <3>2. StackStep
      BY <1>4, <3>1, EndIsInside, CursorMoves
    <3> QED
      BY <1>1, <3>1, <3>2, QuietStep
  <2> QED
    BY <2>5, <2>6
<1> QED
  BY <1>2, <1>3, <1>4 DEF EnterBlock

LEMMA SkipStep ==
  ASSUME StackInv, Executing, NEW a, NEW c \in ChainStates, SkipBranch(a, c)
  PROVE  StatementStep
<1>1. status = "executing"
  BY DEF Executing
<1>2. CASE Fail
  BY <1>1, <1>2, FailStep
<1>3. CASE ~Fail
  <2> DEFINE p == IF a.op \in {"DO", "DO GROUP"} THEN EndOf(Top.pc, Top.stop) + 1 ELSE Top.pc + 1
  <2>1. /\ a.op \in {"DO", "DO GROUP"} => Closed
        /\ stack' = Goto(p, c)
        /\ UNCHANGED <<block, status, pos, row, carried, cur, log>>
    BY <1>3 DEF SkipBranch
  <2>2. p \in Nat \ {0}
    BY <2>1, EndIsInside, HereIsAction
  <2>3. StackStep
    BY <2>1, <2>2, CursorMoves
  <2> QED
    BY <1>1, <2>1, <2>3, QuietStep
<1> QED
  BY <1>2, <1>3

(* A taken branch, an entered block and a skipped branch. *)
LEMMA BranchStep ==
  ASSUME StackInv, ValuesInv, Executing, NEW a \in Actions, NEW c \in ChainStates,
         TakeBranch(a, c) \/ SkipBranch(a, c)
  PROVE  StatementStep
<1>1. Top.pc + 1 \in Nat \ {0}
  BY HereIsAction
<1> QED
  BY <1>1, PerformStep, BlockStep, SkipStep DEF TakeBranch

LEMMA LoopRepeats ==
  ASSUME NEW t \in Frames,
         t.loop \in [col : LoopColumns, next : Int, hi : Int, body : Nat \ {0}]
  PROVE  LET f == [t EXCEPT !.pc = t.loop.body, !.chain = "none", !.loop.next = t.loop.next + 1]
         IN  f \in Frames /\ f.stop = t.stop
<1> DEFINE loop == [t.loop EXCEPT !.next = t.loop.next + 1]
           f == [t EXCEPT !.pc = t.loop.body, !.chain = "none", !.loop.next = t.loop.next + 1]
<1>1. loop \in Counters
  BY DEF Counters
<1>2. f = [pc |-> t.loop.body, stop |-> t.stop, chain |-> "none", loop |-> loop]
  <2> DEFINE u == [t EXCEPT !.pc = t.loop.body, !.chain = "none"]
             v == [u EXCEPT !.loop = loop]
  <2>1. u = [pc |-> t.loop.body, stop |-> t.stop, chain |-> "none", loop |-> t.loop]
    <3> DEFINE body == t.loop.body
    <3>1. t = [pc |-> t.pc, stop |-> t.stop, chain |-> t.chain, loop |-> t.loop]
      BY DEF Frames
    <3> HIDE DEF body
    <3> DEFINE w == [t EXCEPT !.pc = body]
    <3>2. w = [pc |-> body, stop |-> t.stop, chain |-> t.chain, loop |-> t.loop]
      BY <3>1
    <3> HIDE DEF w
    <3>3. [w EXCEPT !.chain = "none"] = [pc |-> body, stop |-> t.stop, chain |-> "none", loop |-> t.loop]
      BY <3>2
    <3> QED
      BY <3>3 DEF w, body
  <2>2. u.loop = t.loop
    BY <2>1
  <2>3. v = [pc |-> t.loop.body, stop |-> t.stop, chain |-> "none", loop |-> loop]
    <3> HIDE DEF loop, u
    <3> QED
      BY <2>1
  <2> HIDE DEF u
  <2>4. f = v
    BY <2>2 DEF u
  <2> QED
    BY <2>3, <2>4
<1>3. t.loop.body \in Nat \ {0} /\ t.stop \in 1..(Len(Statements) + 1) /\ "none" \in ChainStates
  BY DEF Frames, ChainStates
<1> HIDE DEF loop, f
<1>4. f \in Frames /\ f.stop = t.stop
  BY <1>1, <1>2, <1>3 DEF Frames
<1> QED
  BY <1>4 DEF f

(* Everything the interpreter does with a row is a StatementStep.          *)
LEMMA NextIsStatement ==
  ASSUME StackInv, ValuesInv, [Next]_vars
  PROVE  ReadRow \/ NextStream \/ Export \/ StatementStep \/ UNCHANGED vars
<1>1. \A x \in {"none", "taken", "open"} : x \in ChainStates
  BY DEF ChainStates
<1>2. Executing => /\ Top.pc + 1 \in Nat \ {0} /\ Top.pc + 2 \in Nat \ {0}
                   /\ Inline(Here) \in Actions
  BY HereIsAction
<1>3. CASE Simple
  <2>1. Executing /\ Perform(Here, Top.pc + 1, "none")
    BY <1>3 DEF Simple, Sequential
  <2>2. Here.op \in {"ASSIGN", "SUM", "OUTPUT", "DELETE", "STOP", "FAULT"}
    BY <2>1 DEF Perform, Assignment, SumUpdate, RouteOutput, DeleteRow, StopLoop, ActionFails
  <2>3. Here \in Actions
    BY <1>2, <2>1, <2>2 DEF Inline
  <2> QED
    BY <1>1, <1>2, <2>1, <2>3, PerformStep
<1>4. CASE DoLoop
  <2>1. Executing /\ Here.op = "DO" /\ EnterBlock(Here, "none")
    BY <1>4 DEF DoLoop, Sequential
  <2>2. Here \in Actions
    BY <1>2, <2>1 DEF Inline
  <2> QED
    BY <1>1, <2>1, <2>2, BlockStep
<1>5. CASE SubsettingIf
  <2>1. Executing /\ status = "executing"
    BY <1>5 DEF SubsettingIf, Sequential, Executing
  <2>2. \/ Fail \/ FinishRow("deleted")
        \/ /\ stack' = Goto(Top.pc + 1, "none")
           /\ UNCHANGED <<block, status, pos, row, carried, cur, log>>
    BY <1>5 DEF SubsettingIf
  <2> QED
    BY <1>1, <1>2, <2>1, <2>2, FailStep, FinishStep, CursorMoves, QuietStep
<1>6. CASE IfStatement
  <2>1. /\ Executing /\ status = "executing" /\ Here.op \in {"IF", "ELSE IF"}
        /\ Fail \/ TakeBranch(Here.act, "taken") \/ SkipBranch(Here.act, "open")
    BY <1>6 DEF IfStatement, Sequential, Executing
  <2>2. Here.act \in Actions
    BY <1>2, <2>1 DEF Inline
  <2> QED
    BY <1>1, <2>1, <2>2, FailStep, BranchStep
<1>7. CASE ElseIfStatement
  <2>1. /\ Executing /\ status = "executing" /\ Here.op = "ELSE IF"
        /\ \/ Fail \/ TakeBranch(Here.act, "taken")
           \/ \E c \in ChainStates : SkipBranch(Here.act, c)
    BY <1>1, <1>7 DEF ElseIfStatement, Chained, Executing
  <2>2. Here.act \in Actions
    BY <1>2, <2>1 DEF Inline
  <2> QED
    BY <1>1, <2>1, <2>2, FailStep, BranchStep
<1>8. CASE ElseStatement
  <2>1. /\ Executing /\ Here.op = "ELSE"
        /\ TakeBranch(Here.act, "none") \/ SkipBranch(Here.act, "none")
    BY <1>8 DEF ElseStatement, Chained
  <2>2. Here.act \in Actions
    BY <1>2, <2>1 DEF Inline
  <2> QED
    BY <1>1, <2>1, <2>2, BranchStep
<1>9. CASE FaultedElse
  <2>1. Executing /\ status = "executing"
    BY <1>9 DEF FaultedElse, Chained, Executing
  <2>2. \/ Fail
        \/ /\ \E c \in ChainStates : stack' = Goto(Top.pc + 1, c)
           /\ UNCHANGED <<block, status, pos, row, carried, cur, log>>
    BY <1>1, <1>9 DEF FaultedElse
  <2> QED
    BY <1>2, <2>1, <2>2, FailStep, CursorMoves, QuietStep
<1>10. CASE StrayElse
  <2>1. Executing /\ status = "executing"
    BY <1>10 DEF StrayElse, Sequential, Executing
  <2>2. /\ stack' = Goto(Top.pc + 2, "none")
        /\ UNCHANGED <<block, status, pos, row, carried, cur, log>>
    BY <1>10 DEF StrayElse
  <2> QED
    BY <1>1, <1>2, <2>1, <2>2, CursorMoves, QuietStep
<1>11. CASE RangeEnd
  <2> DEFINE loop == Top.loop
             f == [Top EXCEPT !.pc = loop.body, !.chain = "none", !.loop.next = loop.next + 1]
  <2>1. status = "executing"
    BY <1>11 DEF RangeEnd
  <2>2. Top \in Frames
    BY <2>1 DEF StackInv, Top
  <2>3. CASE FinishRow("kept")
    BY <2>1, <2>3, FinishStep
  <2>4. CASE /\ Len(stack) > 1 /\ stack' = Below
             /\ UNCHANGED <<block, status, pos, row, carried, cur, log>>
    BY <2>1, <2>4, QuietStep DEF StackStep
  <2>5. CASE /\ loop # NoLoop
             /\ row' = Store(row, loop.col, loop.next)
             /\ stack' = Append(Below, f)
             /\ UNCHANGED <<block, status, pos, carried, cur, log>>
    <3>1. loop \in [col : LoopColumns, next : Int, hi : Int, body : Nat \ {0}]
      BY <2>2, <2>5 DEF Frames, Counters
    <3>2. f \in Frames /\ f.stop = Top.stop
      BY <2>2, <3>1, LoopRepeats
    <3>3. StackStep
      BY <2>5, <3>2 DEF StackStep
    <3>4. Stored
      BY <2>5, <3>1 DEF Stored, Assigned, Scalar, carried
    <3> QED
      BY <2>1, <2>5, <3>3, <3>4 DEF StatementStep, carried
  <2> QED
    BY <1>11, <2>3, <2>4, <2>5 DEF RangeEnd
<1>12. CASE Returned
  BY <1>12 DEF Returned
<1> QED
  BY <1>3, <1>4, <1>5, <1>6, <1>7, <1>8, <1>9, <1>10, <1>11, <1>12 DEF Next

-----------------------------------------------------------------------------
(* The stack                                                               *)

LEMMA StackStepNests ==
  ASSUME StackInv, stack # <<>>, StackStep
  PROVE  /\ stack' \in Seq(Frames) /\ stack' # <<>>
         /\ \A k \in DOMAIN stack' : k > 1 => stack'[k].stop < stack'[k - 1].stop
<1>0. /\ stack \in Seq(Frames)
      /\ \A k \in 1..Len(stack) : k > 1 => stack[k].stop < stack[k - 1].stop
  BY DEF StackInv
<1>1. /\ stack \in Seq(Frames) /\ Len(stack) \in Nat /\ Len(stack) >= 1
      /\ DOMAIN stack = 1..Len(stack)
      /\ \A k \in 1..Len(stack) : k > 1 => stack[k].stop < stack[k - 1].stop
  BY <1>0
<1>2. /\ Below \in Seq(Frames) /\ Len(Below) = Len(stack) - 1
      /\ \A k \in 1..(Len(stack) - 1) : Below[k] = stack[k]
  BY <1>1, WithoutLast DEF Below
<1>3. Top = stack[Len(stack)]
  BY DEF Top
<1>4. CASE Len(stack) > 1 /\ stack' = Below
  BY <1>1, <1>2, <1>4
<1>5. ASSUME NEW f \in Frames, f.stop = Top.stop
      PROVE  /\ Append(Below, f) \in Seq(Frames) /\ Len(Append(Below, f)) = Len(stack)
             /\ \A k \in 1..Len(stack) :
                  k > 1 => Append(Below, f)[k].stop < Append(Below, f)[k - 1].stop
             /\ Append(Below, f)[Len(stack)] = f
  <2> DEFINE s == Append(Below, f)
  <2>1. /\ s \in Seq(Frames) /\ Len(s) = Len(stack) /\ s[Len(stack)] = f
        /\ \A k \in 1..(Len(stack) - 1) : s[k] = stack[k]
    <3>1. /\ s \in Seq(Frames) /\ Len(s) = Len(Below) + 1
          /\ s[Len(Below) + 1] = f /\ \A k \in 1..Len(Below) : s[k] = Below[k]
      BY <1>2, WithOneMore
    <3> HIDE DEF s
    <3>2. Len(Below) + 1 = Len(stack)
      BY <1>1, <1>2
    <3> QED
      BY <1>2, <3>1, <3>2
  <2> HIDE DEF s
  <2>2. ASSUME NEW k \in 1..Len(stack), k > 1
        PROVE  s[k].stop < s[k - 1].stop
    <3>1. s[k - 1] = stack[k - 1]
      BY <1>1, <2>1, <2>2
    <3>2. s[k].stop = stack[k].stop
      BY <1>1, <1>3, <1>5, <2>1, <2>2
    <3> QED
      BY <1>1, <2>2, <3>1, <3>2
  <2> QED
    BY <2>1, <2>2 DEF s
<1>6. CASE \E f \in Frames : f.stop = Top.stop /\ stack' = Append(Below, f)
  <2>1. PICK f \in Frames : f.stop = Top.stop /\ stack' = Append(Below, f)
    BY <1>6
  <2>2. /\ stack' \in Seq(Frames) /\ Len(stack') = Len(stack)
        /\ \A k \in 1..Len(stack) : k > 1 => stack'[k].stop < stack'[k - 1].stop
    BY <1>5, <2>1
  <2> QED
    BY <1>1, <2>2
<1>7. CASE \E f, g \in Frames : /\ f.stop = Top.stop /\ g.stop < Top.stop
                                /\ stack' = Append(Append(Below, f), g)
  <2>1. PICK f \in Frames, g \in Frames : /\ f.stop = Top.stop /\ g.stop < Top.stop
                                          /\ stack' = Append(Append(Below, f), g)
    BY <1>7
  <2> DEFINE s == Append(Below, f)
  <2>2. /\ s \in Seq(Frames) /\ Len(s) = Len(stack) /\ s[Len(stack)] = f
        /\ \A k \in 1..Len(stack) : k > 1 => s[k].stop < s[k - 1].stop
    BY <1>5, <2>1
  <2> HIDE DEF s
  <2>3. stack' = Append(s, g)
    BY <2>1 DEF s
  <2>4. /\ stack' \in Seq(Frames) /\ Len(stack') = Len(stack) + 1 /\ stack'[Len(stack) + 1] = g
        /\ \A k \in 1..Len(stack) : stack'[k] = s[k]
        /\ DOMAIN stack' = 1..(Len(stack) + 1)
    BY <1>1, <2>2, <2>3, WithOneMore
  <2>5. ASSUME NEW k \in DOMAIN stack', k > 1
        PROVE  stack'[k].stop < stack'[k - 1].stop
    <3>1. CASE k = Len(stack) + 1
      <4>1. k - 1 = Len(stack) /\ Len(stack) \in 1..Len(stack)
        BY <1>1, <3>1
      <4>2. stack'[k - 1] = f /\ stack'[k] = g
        BY <2>2, <2>4, <3>1, <4>1
      <4> QED
        BY <2>1, <4>2
    <3>2. CASE k \in 1..Len(stack)
      BY <1>1, <2>2, <2>4, <2>5, <3>2
    <3> QED
      BY <1>1, <2>4, <3>1, <3>2
  <2> QED
    BY <1>1, <2>4, <2>5
<1> QED
  BY <1>4, <1>6, <1>7 DEF StackStep

LEMMA StackInvKept ==
  ASSUME StackInv, ReadRow \/ NextStream \/ Export \/ StatementStep \/ UNCHANGED vars
  PROVE  StackInv'
<1>1. UNCHANGED prog
  BY DEF ReadRow, NextStream, Export, StatementStep, vars, block
<1>2. Frames' = Frames
  BY <1>1 DEF Frames, Counters, LoopColumns, Actions, Statements
<1>3. CASE UNCHANGED stack /\ (status' = "reading" => status = "reading") /\ status' # "executing"
  BY <1>1, <1>2, <1>3 DEF StackInv
<1>4. CASE ReadRow /\ status' = "executing"
  <2> DEFINE f == Frame(1, Len(Statements) + 1, NoLoop)
  <2>1. stack' = <<f>>
    BY <1>4 DEF ReadRow
  <2>2. Len(Statements) \in Nat
    BY ProgramsAssumption DEF StackInv, Statements
  <2>3. f \in Frames
    BY <2>2 DEF Frame, Frames, ChainStates, Counters
  <2> HIDE DEF f
  <2>4. stack' \in Seq(Frames) /\ DOMAIN stack' = {1} /\ stack' # <<>>
    BY <2>1, <2>3
  <2> QED
    BY <1>1, <1>2, <1>4, <2>4 DEF StackInv
<1>5. CASE ReadRow /\ status' # "executing"
  BY <1>3, <1>5 DEF ReadRow
<1>6. CASE NextStream \/ Export \/ UNCHANGED vars
  BY <1>1, <1>2, <1>6 DEF NextStream, Export, vars, StackInv
<1>7. CASE StatementStep
  <2>1. stack # <<>> /\ status = "executing"
    BY <1>7 DEF StackInv, StatementStep
  <2>2. CASE status' = "executing" /\ StackStep
    BY <1>1, <1>2, <2>1, <2>2, StackStepNests DEF StackInv
  <2>3. CASE status' = "failed" /\ UNCHANGED stack
    BY <1>3, <2>3
  <2>4. ASSUME NEW fate, FinishRow(fate)
        PROVE  StackInv'
    <3>1. \/ status' = "failed" /\ UNCHANGED stack
          \/ status' # "executing" /\ stack' = <<>>
      BY <2>4 DEF FinishRow, AfterRow
    <3>2. CASE status' # "executing" /\ stack' = <<>>
      BY <1>1, <1>2, <3>2 DEF StackInv
    <3> QED
      BY <1>3, <3>1, <3>2
  <2> QED
    BY <1>7, <2>2, <2>3, <2>4 DEF StatementStep
<1> QED
  BY <1>4, <1>5, <1>6, <1>7

-----------------------------------------------------------------------------
(* The values                                                              *)

LEMMA StoreIsOK ==
  ASSUME NEW r, RowOK(r), NEW c, NEW v \in Scalar
  PROVE  /\ RowOK(Store(r, c, v))
         /\ Store(r, c, v).src = r.src /\ Store(r, c, v).auto = r.auto
         /\ Store(r, c, v).owned = Put(r.owned, c, v)
         /\ Store(r, c, v).written = r.written \cup {c}
<1> DEFINE q == [src |-> r.src, owned |-> Put(r.owned, c, v),
                 written |-> r.written \cup {c}, auto |-> r.auto]
<1>1. Store(r, c, v) = q
  <2> DEFINE w == [r EXCEPT !.owned = Put(r.owned, c, v)]
  <2>1. w = [src |-> r.src, owned |-> Put(r.owned, c, v), written |-> r.written, auto |-> r.auto]
    BY DEF RowOK
  <2> HIDE DEF w
  <2>2. [w EXCEPT !.written = r.written \cup {c}] = q
    BY <2>1
  <2> QED
    BY <2>2 DEF Store, w
<1>2. AllScalar(Put(r.owned, c, v))
  BY DEF AllScalar, Put, RowOK
<1> QED
  BY <1>1, <1>2 DEF RowOK

LEMMA NewRowIsOK ==
  ASSUME prog \in Programs, streams \in Inputs, AllScalar(retained),
         NEW s \in DOMAIN streams, NEW i \in DOMAIN streams[s], NEW n \in Int
  PROVE  /\ RowOK(NewRow(s, i, n))
         /\ NewRow(s, i, n).src = streams[s][i]
         /\ NewRow(s, i, n).written \subseteq prog.retain
         /\ \A c \in MutableColumns \ (DOMAIN streams[s][i] \cup prog.retain) :
              c \in DOMAIN NewRow(s, i, n).owned /\ NewRow(s, i, n).owned[c] = Null
<1> DEFINE r0 == ResetRow(s, i, n)
           back == {c \in prog.retain \cap DOMAIN retained : Value(r0, c) = Null}
           r1 == Restore(r0)
           r2 == NewRow(s, i, n)
<1>1. /\ r0.src = streams[s][i] /\ r0.auto = Automatics(n)
      /\ r0.owned = [c \in MutableColumns \ DOMAIN streams[s][i] |-> Null]
  BY DEF ResetRow
<1>2. r1 = [src |-> r0.src, owned |-> Merge(r0.owned, [c \in back |-> retained[c]]),
            written |-> back, auto |-> r0.auto]
  BY DEF Restore
<1>3. AllScalar(r0.src)
  BY <1>1, ValuesAssumption DEF AllScalar
<1>4. AllScalar(Merge(r0.owned, [c \in back |-> retained[c]]))
  <2> HIDE DEF r0
  <2> QED
    BY <1>1 DEF AllScalar, Merge, Scalar
<1>5. Bit(n = Total) \in Scalar /\ n \in Scalar /\ 0 \in Scalar
  BY DEF Bit, Scalar
<1>6. AllScalar(Automatics(n))
  BY <1>5 DEF Automatics, AllScalar
<1> DEFINE first(c) == Bit(~SameAsNeighbour(r1, s, i - 1, c))
           last(c) == Bit(~SameAsNeighbour(r1, s, i + 1, c))
           flags == [x \in {FirstName(c) : c \in prog.by} \cup {LastName(c) : c \in prog.by} |->
                       IF \E c \in prog.by : x = FirstName(c)
                         THEN first(CHOOSE c \in prog.by : x = FirstName(c))
                         ELSE last(CHOOSE c \in prog.by : x = LastName(c))]
<1>7. /\ r2 = [r1 EXCEPT !.auto = Merge(r1.auto, flags)]
      /\ \A x \in DOMAIN flags : flags[x] \in {0, 1}
  <2>1. \A c : first(c) \in {0, 1} /\ last(c) \in {0, 1}
    BY DEF Bit
  <2>2. r2 = [r1 EXCEPT !.auto = Merge(r1.auto, flags)]
    BY DEF NewRow, WithGroupFlags
  <2> HIDE DEF first, last
  <2> QED
    BY <2>1, <2>2
<1> HIDE DEF r0, back, r1, r2, flags
<1>8. AllScalar(Merge(r1.auto, flags))
  BY <1>1, <1>2, <1>6, <1>7 DEF AllScalar, Merge, Scalar
<1>9. r2 = [src |-> r1.src, owned |-> r1.owned, written |-> r1.written,
            auto |-> Merge(r1.auto, flags)]
  BY <1>2, <1>7
<1>10. RowOK(r2)
  BY <1>2, <1>3, <1>4, <1>8, <1>9 DEF RowOK
<1>11. r2.src = streams[s][i] /\ r2.written = back /\ r2.owned = r1.owned
  BY <1>1, <1>2, <1>9
<1>12. ASSUME NEW c \in MutableColumns \ (DOMAIN streams[s][i] \cup prog.retain)
       PROVE  c \in DOMAIN r2.owned /\ r2.owned[c] = Null
  <2>1. c \notin back /\ c \in DOMAIN r0.owned /\ r0.owned[c] = Null
    BY <1>1 DEF back
  <2> QED
    BY <1>2, <1>11, <2>1 DEF Merge
<1> QED
  BY <1>10, <1>11, <1>12 DEF back, r2

LEMMA SumIsNumber ==
  ASSUME prog \in Programs, ValuesInv, NEW a \in Actions, a.op = "SUM"
  PROVE  SumBase(a) \in Int /\ Zeroed(Eval(row, a.val)) \in Int
<1>1. Zeroed(Value(row, a.col)) \in Int
  BY ValueIsScalar DEF ValuesInv, Zeroed, Scalar
<1>2. a.val \in Expressions(a)
  BY DEF Expressions
<1> QED
  BY <1>1, <1>2, EvalIsScalar DEF SumBase, ValuesInv

(* A SUM target is one of the program's mutable columns.                   *)
LEMMA TargetsAreMutable ==
  ASSUME NEW a \in Actions
  PROVE  a.op \in {"ASSIGN", "SUM", "DO"} => a.col \in MutableColumns
BY DEF Actions, MutableColumns, WrittenColumns, Statements

LEMMA ValuesKeptByStatement ==
  ASSUME StackInv, ValuesInv, StatementStep
  PROVE  ValuesInv'
<1>1. prog \in Programs /\ UNCHANGED <<prog, streams>>
  BY DEF StackInv, StatementStep, block
<1>2. Targets' = Targets /\ MutableColumns' = MutableColumns
  BY <1>1 DEF Targets, MutableColumns
<1>3. CASE status' = "failed" /\ UNCHANGED <<pos, row, stack, carried, cur, log>>
  BY <1>1, <1>2, <1>3 DEF ValuesInv, carried
<1>4. ASSUME NEW fate, FinishRow(fate)
      PROVE  ValuesInv'
  <2>1. /\ retained' = [c \in prog.retain |-> Value(row, c)]
        /\ UNCHANGED <<row, sums, cur>>
        /\ status' \in {"reading", "executing", "exported", "failed"}
        /\ DOMAIN outs' = Targets /\ DOMAIN counts' = Targets
    BY <1>4 DEF FinishRow, Route, AfterRow, ValuesInv
  <2>2. AllScalar(retained') /\ DOMAIN retained' = prog.retain
    BY <2>1, ValueIsScalar DEF AllScalar, ValuesInv
  <2> QED
    BY <1>1, <1>2, <2>1, <2>2 DEF ValuesInv
<1>5. CASE status' = "executing" /\ UNCHANGED retained /\ Stored
  <2>1. RowOK(row')
    BY <1>5, StoreIsOK DEF Stored, ValuesInv
  <2> QED
    BY <1>1, <1>2, <1>5, <2>1 DEF Stored, ValuesInv
<1>6. ASSUME status' = "executing", UNCHANGED retained, NEW a \in Actions, Summed(a)
      PROVE  ValuesInv'
  <2> DEFINE step == Zeroed(Eval(row, a.val))
             total == SumBase(a) + step
             sofar == IF a.col \in DOMAIN cur.added THEN cur.added[a.col] ELSE 0
  <2>1. /\ a.op = "SUM" /\ sums' = Put(sums, a.col, total) /\ row' = Store(row, a.col, total)
        /\ cur' = [cur EXCEPT !.added = Put(cur.added, a.col, sofar + step)]
        /\ UNCHANGED <<outs, counts>>
    BY <1>6 DEF Summed
  <2>2. step \in Int /\ total \in Int
    BY <1>1, <2>1, SumIsNumber
  <2>3. sofar \in Int
    BY DEF ValuesInv, CurOK
  <2> HIDE DEF step, total, sofar
  <2>4. RowOK(row')
    BY <2>1, <2>2, StoreIsOK DEF ValuesInv, Scalar
  <2>5. CurOK(cur')
    <3>1. cur' = [start |-> cur.start, added |-> Put(cur.added, a.col, sofar + step),
                  offered |-> cur.offered]
      BY <2>1 DEF ValuesInv, CurOK
    <3>2. \A c \in DOMAIN cur.added : cur.added[c] \in Int
      BY DEF ValuesInv, CurOK
    <3>3. \A c \in DOMAIN Put(cur.added, a.col, sofar + step) :
            Put(cur.added, a.col, sofar + step)[c] \in Int
      BY <2>2, <2>3, <3>2 DEF Put
    <3> QED
      BY <3>1, <3>3 DEF CurOK
  <2>6. /\ \A c \in DOMAIN sums' : sums'[c] \in Int
        /\ DOMAIN sums' \subseteq MutableColumns
    BY <2>1, <2>2, TargetsAreMutable DEF Put, ValuesInv
  <2> QED
    BY <1>1, <1>2, <1>6, <2>1, <2>4, <2>5, <2>6 DEF ValuesInv
<1>7. ASSUME status' = "executing", UNCHANGED retained, NEW ts, Routed(ts)
      PROVE  ValuesInv'
  <2>1. CurOK(cur') /\ UNCHANGED <<row, sums>>
    BY <1>7 DEF Routed, CurOK, ValuesInv
  <2>2. DOMAIN outs' = Targets /\ DOMAIN counts' = Targets
    BY <1>7 DEF Routed, Route
  <2> QED
    BY <1>1, <1>2, <1>7, <2>1, <2>2 DEF ValuesInv
<1> QED
  BY <1>3, <1>4, <1>5, <1>6, <1>7 DEF StatementStep

LEMMA ValuesInvKept ==
  ASSUME StackInv, ValuesInv, PosInv,
         ReadRow \/ NextStream \/ Export \/ StatementStep \/ UNCHANGED vars
  PROVE  ValuesInv'
<1>1. CASE ReadRow
  <2> DEFINE p == NextPos
             r == NewRow(p.stream, p.row, p.n)
  <2>1. /\ UNCHANGED <<prog, streams, retained, sums, outs, counts>>
        /\ row' = r /\ cur' \in {cur, Fresh(r)}
        /\ status' \in {"failed", "executing", status}
    BY <1>1 DEF ReadRow, block, carried
  <2>2. /\ p.stream \in DOMAIN streams /\ p.row \in 1..Len(streams[p.stream]) /\ p.n \in Int
    BY <1>1, InputsAssumption DEF ReadRow, NextPos, PosInv, ValuesInv
  <2>3. p.row \in DOMAIN streams[p.stream]
    BY <2>2, InputsAssumption DEF ValuesInv
  <2> HIDE DEF p
  <2>4. RowOK(r)
    BY <2>2, <2>3, NewRowIsOK DEF StackInv, ValuesInv
  <2> HIDE DEF r
  <2>5. CurOK(cur')
    BY <2>1 DEF Fresh, CurOK, ValuesInv
  <2>6. Targets' = Targets /\ MutableColumns' = MutableColumns
    BY <2>1 DEF Targets, MutableColumns
  <2> QED
    BY <2>1, <2>4, <2>5, <2>6 DEF ValuesInv
<1>2. CASE NextStream \/ Export \/ UNCHANGED vars
  <2>1. /\ UNCHANGED <<prog, streams, row, cur, retained, sums, outs, counts>>
        /\ status' \in {"exported", status}
    BY <1>2 DEF NextStream, Export, vars, block, carried
  <2>2. Targets' = Targets /\ MutableColumns' = MutableColumns
    BY <2>1 DEF Targets, MutableColumns
  <2> QED
    BY <2>1, <2>2 DEF ValuesInv
<1>3. CASE StatementStep
  BY <1>3, ValuesKeptByStatement
<1> QED
  BY <1>1, <1>2, <1>3

-----------------------------------------------------------------------------
(* _N_ counts the rows of all streams                                      *)

RowsUpTo == LET upto[s \in 0..Len(streams)] ==
                  IF s = 0 THEN 0 ELSE upto[s - 1] + Len(streams[s])
            IN  upto

Lengths == [s \in DOMAIN streams |-> Len(streams[s])]

LEMMA RowsAddUp ==
  ASSUME streams \in Inputs
  PROVE  /\ Totals(RowsUpTo, Len(streams), Lengths) /\ Total = RowsUpTo[Len(streams)]
         /\ Len(streams) \in Nat /\ \A s \in 1..Len(streams) : Lengths[s] = Len(streams[s])
         /\ \A s \in 1..Len(streams) : Lengths[s] \in Nat
<1> DEFINE N == Len(streams)
           Unfold(f) == [s \in 0..N |-> IF s = 0 THEN 0 ELSE f[s - 1] + Len(streams[s])]
           upto == CHOOSE f : f = Unfold(f)
<1>1. N \in Nat /\ \A s \in 1..N : Lengths[s] = Len(streams[s]) /\ Lengths[s] \in Nat
  BY InputsAssumption DEF Lengths
<1>2. PICK f : Totals(f, N, Lengths)
  <2>1. \A s \in 1..N : Lengths[s] \in Int
    BY <1>1
  <2> HIDE DEF N
  <2> QED
    BY <1>1, <2>1, RunningTotals
<1>3. f = Unfold(f)
  BY <1>1, <1>2 DEF Totals
<1>4. upto = Unfold(upto)
  <2> HIDE DEF Unfold
  <2> QED
    BY <1>3
<1>5. RowsUpTo = upto /\ Total = upto[N]
  BY DEF RowsUpTo, Total
<1> HIDE DEF upto
<1>6. upto = [s \in 0..N |-> upto[s]]
  BY <1>4
<1>7. upto[0] = 0 /\ \A s \in 1..N : upto[s] = upto[s - 1] + Lengths[s]
  BY <1>1, <1>4
<1> HIDE DEF N
<1>8. Totals(upto, N, Lengths)
  BY <1>1, <1>2, <1>6, <1>7, TotalsAgree
<1> QED
  BY <1>1, <1>5, <1>8 DEF N

(* No stream reaches beyond the total. *)
LEMMA TotalIsLargest ==
  ASSUME streams \in Inputs
  PROVE  /\ \A s \in 0..Len(streams) : RowsUpTo[s] \in Nat /\ RowsUpTo[s] <= Total
         /\ Total \in Nat /\ RowsUpTo[0] = 0
         /\ \A s \in 1..Len(streams) : RowsUpTo[s] = RowsUpTo[s - 1] + Len(streams[s])
<1> DEFINE N == Len(streams)
           S == {s \in 0..N : RowsUpTo[s] \in Nat}
           D == {d \in 0..N : RowsUpTo[N - d] <= Total}
<1>1. /\ N \in Nat /\ RowsUpTo \in [0..N -> Int] /\ RowsUpTo[0] = 0 /\ Total = RowsUpTo[N]
      /\ \A s \in 1..N : RowsUpTo[s] = RowsUpTo[s - 1] + Len(streams[s])
      /\ \A s \in 1..N : Len(streams[s]) \in Nat
  BY RowsAddUp DEF Totals
<1> HIDE DEF N
<1>2. 0..N \subseteq S
  <2>1. 0 \in S
    BY <1>1
  <2>2. ASSUME NEW s \in 1..N, s - 1 \in S
        PROVE  s \in S
    <3>1. RowsUpTo[s - 1] \in Nat /\ Len(streams[s]) \in Nat /\ s \in 0..N
      BY <1>1, <2>2
    <3>2. RowsUpTo[s] = RowsUpTo[s - 1] + Len(streams[s])
      BY <1>1
    <3>3. RowsUpTo[s] \in Nat
      BY <3>1, <3>2
    <3> QED
      BY <3>1, <3>3
  <2> HIDE DEF S
  <2> QED
    BY ONLY <1>1, <2>1, <2>2, InductTo
<1>3. 0..N \subseteq D
  <2>1. 0 \in D
    BY <1>1
  <2>2. ASSUME NEW d \in 1..N, d - 1 \in D
        PROVE  d \in D
    <3>1. N - (d - 1) \in 1..N /\ (N - (d - 1)) - 1 = N - d /\ N - d \in 0..N
      BY <1>1
    <3>2. RowsUpTo[N - (d - 1)] = RowsUpTo[N - d] + Len(streams[N - (d - 1)])
      BY <1>1, <3>1
    <3>3. RowsUpTo[N - (d - 1)] <= Total
      BY <2>2
    <3>4. RowsUpTo[N - d] \in Int /\ Len(streams[N - (d - 1)]) \in Nat /\ Total \in Int
      BY <1>1, <3>1
    <3>5. RowsUpTo[N - d] <= Total
      BY <3>2, <3>3, <3>4
    <3> QED
      BY <3>5
  <2> HIDE DEF D
  <2> QED
    BY ONLY <1>1, <2>1, <2>2, InductTo
<1>4. ASSUME NEW s \in 0..N
      PROVE  RowsUpTo[s] \in Nat /\ RowsUpTo[s] <= Total
  <2>1. N - s \in 0..N /\ N - (N - s) = s
    BY <1>1
  <2> QED
    BY <1>2, <1>3, <2>1
<1> QED
  BY <1>1, <1>4 DEF N

(* The counter of a row is its place among the rows of all streams.        *)
CountInv ==
  /\ pos.stream \in 1..(Len(streams) + 1)
  /\ pos.stream \notin DOMAIN streams => pos.row = 0
  /\ pos.n = RowsUpTo[pos.stream - 1] + pos.row

LEMMA CountInvKept ==
  ASSUME RowInv, PosInv, CountInv, RowStep
  PROVE  CountInv'
<1>1. UNCHANGED streams /\ streams \in Inputs
  BY DEF RowStep, block, RowInv
<1>2. RowsUpTo' = RowsUpTo
  BY <1>1 DEF RowsUpTo
<1>3. Len(streams) \in Nat /\ DOMAIN streams = 1..Len(streams)
  BY <1>1, InputsAssumption
<1>4. CASE pos' = pos
  BY <1>1, <1>2, <1>4 DEF CountInv
<1>5. CASE pos' = NextPos /\ pos.stream \in DOMAIN streams
  <2>1. RowsUpTo[pos.stream - 1] \in Nat
    BY <1>1, <1>3, <1>5, TotalIsLargest
  <2> QED
    BY <1>1, <1>2, <1>3, <1>5, <2>1 DEF CountInv, NextPos, PosInv
<1>6. CASE /\ pos' = [stream |-> pos.stream + 1, row |-> 0, n |-> pos.n]
           /\ pos.stream \in DOMAIN streams /\ pos.row = Len(streams[pos.stream])
  <2>1. RowsUpTo[pos.stream] = RowsUpTo[pos.stream - 1] + Len(streams[pos.stream])
    BY <1>1, <1>3, <1>6, TotalIsLargest
  <2>2. RowsUpTo[pos.stream] \in Nat /\ (pos.stream + 1) - 1 = pos.stream
    BY <1>1, <1>3, <1>6, TotalIsLargest
  <2> QED
    BY <1>1, <1>2, <1>3, <1>6, <2>1, <2>2 DEF CountInv
<1> QED
  BY <1>4, <1>5, <1>6 DEF RowStep, Within, Between, FinishRow

(* All of it together. *)
RuntimeInv == RowInv /\ PosInv /\ StackInv /\ ValuesInv /\ CountInv

LEMMA RuntimeInvInit == Init => RuntimeInv
<1> SUFFICES ASSUME Init PROVE RuntimeInv
  OBVIOUS
<1>1. /\ prog \in Programs /\ streams \in Inputs /\ status = "reading" /\ stack = <<>>
      /\ row = NoRow /\ cur = Fresh(NoRow) /\ retained = <<>> /\ sums = <<>>
      /\ outs = [t \in Targets |-> <<>>] /\ counts = [t \in Targets |-> 0]
      /\ pos = [stream |-> 1, row |-> 0, n |-> 0]
  BY DEF Init
<1>2. StackInv
  BY <1>1 DEF StackInv
<1>3. \A x \in DOMAIN <<>> : FALSE
  OBVIOUS
<1>4. AllScalar(<<>>)
  BY <1>3 DEF AllScalar
<1>5. RowOK(row) /\ AllScalar(retained) /\ DOMAIN sums = {}
  BY <1>1, <1>4 DEF RowOK, NoRow
<1>6. CurOK(cur)
  BY <1>1 DEF Fresh, CurOK
<1>7. ValuesInv
  BY <1>1, <1>5, <1>6 DEF ValuesInv
<1>8. CountInv
  BY <1>1, TotalIsLargest, InputsAssumption DEF CountInv
<1> QED
  BY <1>2, <1>7, <1>8, RowInvInit, PosInvInit DEF RuntimeInv

LEMMA RuntimeInvKept == RuntimeInv /\ [Next]_vars => RuntimeInv'
<1> SUFFICES ASSUME RuntimeInv, [Next]_vars PROVE RuntimeInv'
  OBVIOUS
<1>1. RowInv /\ PosInv /\ StackInv /\ ValuesInv /\ CountInv /\ RowStep
  BY NextIsRowStep DEF RuntimeInv, RowInv
<1>2. RowInv' /\ PosInv'
  BY <1>1, RowsAreCounted, RowInvWithin, RowInvBetween, RowInvFinish DEF RowStep
<1>3. ReadRow \/ NextStream \/ Export \/ StatementStep \/ UNCHANGED vars
  BY <1>1, NextIsStatement
<1> QED
  BY <1>1, <1>2, <1>3, StackInvKept, ValuesInvKept, CountInvKept DEF RuntimeInv

(* The interpreter's state is well formed for every program and input: the *)
(* ranges of the call stack nest, the row counter never passes the number  *)
(* of rows, and only columns of the program are retained or accumulated.   *)
THEOREM RuntimeIsTyped == Spec => []TypeOK
<1>1. RuntimeInv => TypeOK
  <2> SUFFICES ASSUME RuntimeInv PROVE TypeOK
    OBVIOUS
  <2>1. /\ streams \in Inputs /\ StackInv /\ ValuesInv /\ PosInv /\ CountInv
        /\ Len(streams) \in Nat /\ DOMAIN streams = 1..Len(streams)
        /\ \A s \in DOMAIN streams : Len(streams[s]) \in Nat
    BY InputsAssumption DEF RuntimeInv, RowInv
  <2>2. pos.n \in 0..Total
    <3>1. CASE pos.stream \in DOMAIN streams
      <4>1. /\ RowsUpTo[pos.stream] = RowsUpTo[pos.stream - 1] + Len(streams[pos.stream])
            /\ RowsUpTo[pos.stream] <= Total /\ RowsUpTo[pos.stream - 1] \in Nat /\ Total \in Nat
        BY <2>1, <3>1, TotalIsLargest
      <4> QED
        BY <2>1, <3>1, <4>1 DEF PosInv, CountInv
    <3>2. CASE pos.stream \notin DOMAIN streams
      <4>1. /\ pos.stream = Len(streams) + 1 /\ pos.n = RowsUpTo[Len(streams)] + 0
        BY <2>1, <3>2 DEF CountInv
      <4>2. RowsUpTo[Len(streams)] \in Nat /\ RowsUpTo[Len(streams)] <= Total /\ Total \in Nat
        BY <2>1, TotalIsLargest
      <4> QED
        BY <4>1, <4>2
    <3> QED
      BY <3>1, <3>2
  <2>3. \A k \in DOMAIN stack : /\ stack[k].pc >= 1
                                /\ stack[k].stop \in 1..(Len(Statements) + 1)
                                /\ stack[k].chain \in {"none", "open", "taken"}
                                /\ k > 1 => stack[k].stop < stack[k - 1].stop
    <3> SUFFICES ASSUME NEW k \in DOMAIN stack
                 PROVE  /\ stack[k].pc >= 1
                        /\ stack[k].stop \in 1..(Len(Statements) + 1)
                        /\ stack[k].chain \in {"none", "open", "taken"}
                        /\ k > 1 => stack[k].stop < stack[k - 1].stop
      OBVIOUS
    <3>1. stack[k] \in Frames
      BY <2>1 DEF StackInv
    <3> QED
      BY <2>1, <3>1 DEF StackInv, Frames, ChainStates
  <2>4. /\ status \in {"reading", "executing", "exported", "failed"}
        /\ pos.stream \in 1..(Len(streams) + 1)
        /\ status = "executing" => stack # <<>>
        /\ status = "reading" => stack = <<>>
        /\ DOMAIN retained \subseteq prog.retain
        /\ DOMAIN sums \subseteq MutableColumns
        /\ DOMAIN outs = Targets /\ DOMAIN counts = Targets
    BY <2>1 DEF StackInv, ValuesInv, CountInv
  <2> QED
    BY ONLY <2>2, <2>3, <2>4, Zenon DEF TypeOK
<1> QED
  BY <1>1, RuntimeInvInit, RuntimeInvKept, PTL DEF Spec

-----------------------------------------------------------------------------
(* SUM                                                                     *)

SummedColumns == MutableColumns \ WrittenOtherwise

(* what a row of the log added to a column, and the totals of a log l      *)
Gain(e, c) == IF c \in DOMAIN e.added THEN e.added[c] ELSE 0
TotalsOf(l, c) ==
  LET upto[k \in 0..Len(l)] == IF k = 0 THEN 0 ELSE upto[k - 1] + Gain(l[k], c)
  IN  upto

Accumulated(c) == IF c \in DOMAIN sums THEN sums[c] ELSE 0
Pending(c) == IF status = "executing" THEN Gain(cur, c) ELSE 0

(* The row shows the accumulator once it has added to it, and no value     *)
(* before; no statement but SUM has written the column.                    *)
ShowsAccumulator(c) ==
  /\ c \notin DOMAIN row.src \cup DOMAIN row.auto /\ c \in DOMAIN row.owned
  /\ IF c \in DOMAIN cur.added THEN c \in row.written /\ row.owned[c] = Accumulated(c)
                               ELSE c \notin row.written /\ row.owned[c] = Null

Tally(c) ==
  /\ status # "failed" => Accumulated(c) = TotalsOf(log, c)[Len(log)] + Pending(c)
  /\ status = "executing" => ShowsAccumulator(c)
  /\ \A k \in DOMAIN log :
       /\ Gain(log[k], c) \in Int
       /\ log[k].final[c] = IF c \in DOMAIN log[k].added THEN TotalsOf(log, c)[k] ELSE Null

SumInv == RuntimeInv /\ \A c \in SummedColumns : Tally(c)

LEMMA TotalsOfLog ==
  ASSUME NEW S, NEW l \in Seq(S), NEW c, \A k \in DOMAIN l : Gain(l[k], c) \in Int
  PROVE  Totals(TotalsOf(l, c), Len(l), [k \in DOMAIN l |-> Gain(l[k], c)])
<1> DEFINE N == Len(l)
           Unfold(f) == [k \in 0..N |-> IF k = 0 THEN 0 ELSE f[k - 1] + Gain(l[k], c)]
           upto == CHOOSE f : f = Unfold(f)
           inc == [k \in DOMAIN l |-> Gain(l[k], c)]
<1>1. N \in Nat /\ \A k \in 1..N : inc[k] = Gain(l[k], c) /\ inc[k] \in Int
  OBVIOUS
<1>2. TotalsOf(l, c) = upto
  BY DEF TotalsOf
<1> HIDE DEF inc
<1>3. PICK f : Totals(f, N, inc)
  <2>1. N \in Nat /\ \A k \in 1..N : inc[k] \in Int
    BY <1>1
  <2> HIDE DEF N
  <2> QED
    BY ONLY <2>1, RunningTotals
<1>4. f = Unfold(f)
  BY <1>1, <1>3 DEF Totals
<1>5. upto = Unfold(upto)
  <2> HIDE DEF Unfold
  <2> QED
    BY <1>4
<1> HIDE DEF upto
<1>6. upto = [k \in 0..N |-> upto[k]]
  BY <1>5
<1>7. upto[0] = 0 /\ \A k \in 1..N : upto[k] = upto[k - 1] + inc[k]
  BY <1>1, <1>5
<1> HIDE DEF N
<1>8. Totals(upto, N, inc)
  BY ONLY <1>1, <1>3, <1>6, <1>7, TotalsAgree
<1> QED
  BY <1>2, <1>8 DEF N, inc

(* A finished row adds what it added and changes no earlier total.         *)
LEMMA TotalsGrow ==
  ASSUME NEW S, NEW l \in Seq(S), NEW c, \A k \in DOMAIN l : Gain(l[k], c) \in Int,
         NEW e \in S, Gain(e, c) \in Int
  PROVE  /\ \A k \in 0..Len(l) : TotalsOf(Append(l, e), c)[k] = TotalsOf(l, c)[k]
         /\ TotalsOf(Append(l, e), c)[Len(l) + 1] = TotalsOf(l, c)[Len(l)] + Gain(e, c)
<1> DEFINE N == Len(l)
           m == Append(l, e)
           f == TotalsOf(l, c)
           g == TotalsOf(m, c)
<1>1. /\ m \in Seq(S) /\ N \in Nat /\ Len(m) = N + 1 /\ DOMAIN m = 1..(N + 1) /\ DOMAIN l = 1..N
      /\ m[N + 1] = e /\ \A k \in 1..N : m[k] = l[k]
  BY WithOneMore
<1> HIDE DEF m
<1>2. \A k \in DOMAIN m : Gain(m[k], c) \in Int
  BY <1>1
<1>3. Totals(f, N, [k \in DOMAIN l |-> Gain(l[k], c)])
  BY TotalsOfLog
<1>4. Totals(g, N + 1, [k \in DOMAIN m |-> Gain(m[k], c)])
  BY <1>1, <1>2, TotalsOfLog
<1> HIDE DEF N, f, g
<1>5. f[0] = g[0]
  BY <1>3, <1>4 DEF Totals
<1>6. \A k \in 1..N : f[k] = f[k - 1] + Gain(l[k], c)
  BY <1>1, <1>3 DEF Totals
<1>7. \A k \in 1..(N + 1) : g[k] = g[k - 1] + Gain(m[k], c)
  BY <1>1, <1>4 DEF Totals
<1>8. \A k \in 1..N : f[k - 1] = g[k - 1] => f[k] = g[k]
  BY <1>1, <1>6, <1>7
<1>9. \A k \in 0..N : f[k] = g[k]
  <2>1. N \in Nat
    BY <1>1
  <2> QED
    BY ONLY <2>1, <1>5, <1>8, SameRecursion
<1>10. g[N + 1] = f[N] + Gain(e, c)
  <2>1. N + 1 \in 1..(N + 1) /\ (N + 1) - 1 = N /\ N \in 0..N
    BY <1>1
  <2> QED
    BY <1>1, <1>7, <1>9, <2>1
<1> QED
  BY <1>9, <1>10 DEF N, f, g, m

(* A statement of another column leaves the tally alone, and a SUM adds to  *)
(* the row, to the accumulator and to the increments alike.                *)
LEMMA TallyKeptByStatement ==
  ASSUME LogIsSequence, StackInv, ValuesInv, NEW c \in SummedColumns, Tally(c),
         status = "executing", status' = "executing", UNCHANGED <<prog, log>>,
         Stored \/ (\E a \in Actions : Summed(a)) \/ (\E ts : Routed(ts))
  PROVE  Tally(c)'
<1>1. c \notin Assigned
  BY DEF SummedColumns, WrittenOtherwise, Assigned, LoopColumns, Actions
<1>2. TotalsOf(log, c)' = TotalsOf(log, c)
  OBVIOUS
<1>3. Accumulated(c) = TotalsOf(log, c)[Len(log)] + Gain(cur, c) /\ ShowsAccumulator(c)
  BY DEF Tally, Pending
<1>4. SUFFICES /\ Accumulated(c)' = TotalsOf(log, c)[Len(log)] + Gain(cur, c)'
               /\ ShowsAccumulator(c)'
  BY <1>2 DEF Tally, Pending
<1>5. CASE Stored
  <2>1. UNCHANGED <<sums, cur>>
    BY <1>5 DEF Stored
  <2>2. CASE row' = row
    BY <1>3, <2>1, <2>2 DEF ShowsAccumulator, Accumulated, Gain
  <2>3. ASSUME NEW d \in Assigned, NEW v \in Scalar, row' = Store(row, d, v)
        PROVE  ShowsAccumulator(c)'
    <3>1. /\ row'.src = row.src /\ row'.auto = row.auto
          /\ row'.owned = Put(row.owned, d, v) /\ row'.written = row.written \cup {d}
      BY <2>3, StoreIsOK DEF ValuesInv
    <3>2. d # c
      BY <1>1
    <3> QED
      BY <1>3, <2>1, <3>1, <3>2 DEF ShowsAccumulator, Accumulated, Put
  <2> QED
    BY <1>3, <1>5, <2>1, <2>2, <2>3 DEF Stored, Accumulated, Gain
<1>6. ASSUME NEW a \in Actions, Summed(a)
      PROVE  /\ Accumulated(c)' = TotalsOf(log, c)[Len(log)] + Gain(cur, c)'
             /\ ShowsAccumulator(c)'
  <2> DEFINE step == Zeroed(Eval(row, a.val))
             total == SumBase(a) + step
             sofar == IF a.col \in DOMAIN cur.added THEN cur.added[a.col] ELSE 0
  <2>1. /\ a.op = "SUM" /\ sums' = Put(sums, a.col, total) /\ row' = Store(row, a.col, total)
        /\ cur' = [cur EXCEPT !.added = Put(cur.added, a.col, sofar + step)]
    BY <1>6 DEF Summed
  <2>2. step \in Int /\ SumBase(a) \in Int /\ total \in Int
    BY <2>1, SumIsNumber DEF StackInv
  <2>3. cur'.added = Put(cur.added, a.col, sofar + step)
    BY <2>1 DEF ValuesInv, CurOK
  <2>4. total = SumBase(a) + step
    OBVIOUS
  <2> HIDE DEF total, step
  <2>5. /\ row'.src = row.src /\ row'.auto = row.auto
        /\ row'.owned = Put(row.owned, a.col, total)
        /\ row'.written = row.written \cup {a.col}
    BY <2>1, <2>2, StoreIsOK DEF ValuesInv, Scalar
  <2>6. CASE a.col # c
    BY <1>3, <2>1, <2>3, <2>5, <2>6 DEF ShowsAccumulator, Accumulated, Gain, Put
  <2>7. CASE a.col = c
    <3>1. SumBase(a) = Accumulated(c)
      <4>1. CASE c \in DOMAIN cur.added
        <5>1. c \in row.written /\ row.owned[c] = Accumulated(c)
          BY <1>3, <4>1 DEF ShowsAccumulator
        <5>2. Value(row, c) = Accumulated(c)
          BY <1>3, <5>1 DEF ShowsAccumulator, Value
        <5>3. Accumulated(c) \in Int
          BY DEF Accumulated, ValuesInv
        <5> QED
          BY <2>7, <5>1, <5>2, <5>3, ValuesAssumption DEF SumBase, Zeroed
      <4>2. CASE c \notin DOMAIN cur.added
        BY <1>3, <2>7, <4>2 DEF ShowsAccumulator, SumBase, Accumulated
      <4> QED
        BY <4>1, <4>2
    <3>2. sofar = Gain(cur, c) /\ sofar \in Int
      BY <2>7 DEF Gain, ValuesInv, CurOK
    <3> HIDE DEF sofar
    <3>3. Accumulated(c)' = total /\ Gain(cur, c)' = sofar + step
      BY <2>1, <2>3, <2>7 DEF Accumulated, Gain, Put
    <3>4. ShowsAccumulator(c)'
      <4>1. c \in DOMAIN cur'.added /\ c \in row'.written /\ c \in DOMAIN row'.owned
        BY <2>3, <2>5, <2>7 DEF Put
      <4>2. row'.owned[c] = total
        BY <2>5, <2>7 DEF Put
      <4>3. c \notin DOMAIN row'.src \cup DOMAIN row'.auto
        BY <1>3, <2>5 DEF ShowsAccumulator
      <4> QED
        BY <3>3, <4>1, <4>2, <4>3 DEF ShowsAccumulator
    <3>5. TotalsOf(log, c)[Len(log)] + sofar = SumBase(a)
      BY <1>3, <3>1, <3>2
    <3> QED
      <4>1. TotalsOf(log, c)[Len(log)] \in Int
        <5>1. \A k \in DOMAIN log : Gain(log[k], c) \in Int
          BY DEF Tally
        <5>2. PICK S : log \in Seq(S)
          BY DEF LogIsSequence
        <5>3. Totals(TotalsOf(log, c), Len(log), [k \in DOMAIN log |-> Gain(log[k], c)])
          BY <5>1, <5>2, TotalsOfLog
        <5>4. Len(log) \in 0..Len(log)
          BY <5>2
        <5> QED
          BY <5>3, <5>4 DEF Totals
      <4> QED
        BY <2>2, <2>4, <3>2, <3>3, <3>4, <3>5, <4>1
  <2> QED
    BY <2>6, <2>7
<1>7. ASSUME NEW ts, Routed(ts)
      PROVE  /\ Accumulated(c)' = TotalsOf(log, c)[Len(log)] + Gain(cur, c)'
             /\ ShowsAccumulator(c)'
  <2>1. UNCHANGED <<row, sums>> /\ cur'.added = cur.added
    BY <1>7 DEF Routed, ValuesInv, CurOK
  <2> QED
    BY <1>3, <2>1 DEF ShowsAccumulator, Accumulated, Gain
<1> QED
  BY <1>5, <1>6, <1>7

(* A finished row shows the total of all rows and passes its increment on. *)
LEMMA TallyKeptByFinish ==
  ASSUME RowInv, ValuesInv, NEW c \in SummedColumns, Tally(c),
         status = "executing", NEW fate, FinishRow(fate)
  PROVE  Tally(c)'
<1> DEFINE ts == IF fate = "deleted" \/ SuppressImplicitOutput THEN {} ELSE {prog.default}
           entry == [stream |-> pos.stream, row |-> pos.row, fate |-> fate,
                     start |-> cur.start, final |-> Snapshot(row),
                     added |-> cur.added, offered |-> Offered(ts)]
<1>1. UNCHANGED <<sums, cur>>
  BY DEF FinishRow
<1>2. Accumulated(c) = TotalsOf(log, c)[Len(log)] + Gain(cur, c) /\ ShowsAccumulator(c)
  BY DEF Tally, Pending
<1>3. CASE \E t \in ts : Rejects(t)
  <2>1. status' = "failed" /\ log' = log
    BY <1>3 DEF FinishRow
  <2> QED
    BY <2>1 DEF Tally
<1>4. CASE ~\E t \in ts : Rejects(t)
  <2>1. log' = Append(log, entry) /\ status' \notin {"failed", "executing"}
    BY <1>4 DEF FinishRow, AfterRow
  <2>2. entry.added = cur.added /\ entry.final = Snapshot(row)
    OBVIOUS
  <2> HIDE DEF entry
  <2>3. Gain(entry, c) = Gain(cur, c) /\ Gain(entry, c) \in Int
    BY <2>2 DEF Gain, ValuesInv, CurOK
  <2>4. PICK S0 : log \in Seq(S0)
    BY DEF RowInv, LogIsSequence
  <2> DEFINE S == S0 \cup {entry}
  <2>5. log \in Seq(S) /\ entry \in S
    BY <2>4
  <2> HIDE DEF S
  <2>6. /\ Len(log) \in Nat /\ Len(log') = Len(log) + 1 /\ DOMAIN log' = 1..(Len(log) + 1)
        /\ DOMAIN log = 1..Len(log)
        /\ log'[Len(log) + 1] = entry /\ \A k \in 1..Len(log) : log'[k] = log[k]
    BY <2>1, <2>5, WithOneMore
  <2>7. \A k \in DOMAIN log : Gain(log[k], c) \in Int
    BY DEF Tally
  <2>8. /\ \A k \in 0..Len(log) : TotalsOf(log', c)[k] = TotalsOf(log, c)[k]
        /\ TotalsOf(log', c)[Len(log) + 1] = TotalsOf(log, c)[Len(log)] + Gain(entry, c)
    BY <2>1, <2>3, <2>5, <2>7, TotalsGrow
  <2>9. entry.final[c] = IF c \in DOMAIN entry.added THEN TotalsOf(log', c)[Len(log) + 1] ELSE Null
    <3>1. c \in Columns
      BY DEF Columns, SummedColumns
    <3>2. entry.final[c] = Value(row, c)
      BY <2>2, <3>1 DEF Snapshot
    <3>3. Value(row, c) = row.owned[c]
      BY <1>2 DEF ShowsAccumulator, Value
    <3>4. row.owned[c] = IF c \in DOMAIN cur.added THEN Accumulated(c) ELSE Null
      BY <1>2 DEF ShowsAccumulator
    <3> QED
      BY <1>2, <2>2, <2>3, <2>8, <3>2, <3>3, <3>4
  <2>10. ASSUME NEW k \in DOMAIN log'
         PROVE  /\ Gain(log'[k], c) \in Int
                /\ log'[k].final[c] = IF c \in DOMAIN log'[k].added THEN TotalsOf(log', c)[k] ELSE Null
    <3>1. CASE k = Len(log) + 1
      BY <2>3, <2>6, <2>9, <3>1
    <3>2. CASE k \in DOMAIN log
      <4>1. k \in 0..Len(log) /\ log'[k] = log[k]
        BY <2>6, <3>2
      <4>2. log[k].final[c] = IF c \in DOMAIN log[k].added THEN TotalsOf(log, c)[k] ELSE Null
        BY <3>2 DEF Tally
      <4> QED
        BY <2>7, <2>8, <3>2, <4>1, <4>2
    <3> QED
      BY <2>6, <3>1, <3>2
  <2>11. Accumulated(c)' = TotalsOf(log', c)[Len(log')] + Pending(c)'
    <3>1. Pending(c)' = 0 /\ Accumulated(c)' = Accumulated(c) /\ Accumulated(c) \in Int
      BY <1>1, <2>1 DEF Pending, Accumulated, ValuesInv
    <3>2. Accumulated(c) = TotalsOf(log', c)[Len(log')]
      BY <1>2, <2>3, <2>6, <2>8
    <3> QED
      BY <3>1, <3>2
  <2> QED
    BY <2>1, <2>10, <2>11 DEF Tally
<1> QED
  BY <1>3, <1>4

LEMMA TallyKeptByRead ==
  ASSUME RuntimeInv, NEW c \in SummedColumns, Tally(c), ReadRow
  PROVE  Tally(c)'
<1> DEFINE p == NextPos
           r == NewRow(p.stream, p.row, p.n)
<1>1. status = "reading" /\ row' = r /\ UNCHANGED <<prog, streams, sums, log>>
  BY DEF ReadRow, block, carried
<1>2. RowInv /\ PosInv /\ ValuesInv /\ prog \in Programs /\ streams \in Inputs
  BY DEF RuntimeInv, RowInv
<1>3. Accumulated(c) = TotalsOf(log, c)[Len(log)] + 0
  BY <1>1 DEF Tally, Pending
<1>4. CASE status' # "executing"
  <2>1. Pending(c)' = 0 /\ Accumulated(c)' = Accumulated(c)
    BY <1>1, <1>4 DEF Pending, Accumulated
  <2> QED
    BY <1>1, <1>3, <1>4, <2>1 DEF Tally
<1>5. CASE status' = "executing"
  <2>1. cur' = Fresh(r)
    BY <1>1, <1>5 DEF ReadRow
  <2>2. /\ p.stream \in DOMAIN streams /\ p.row \in 1..Len(streams[p.stream]) /\ p.n \in Int
    BY <1>2, InputsAssumption DEF ReadRow, NextPos, PosInv
  <2>3. p.row \in DOMAIN streams[p.stream]
    BY <1>2, <2>2, InputsAssumption
  <2> HIDE DEF p
  <2>4. /\ r.src = streams[p.stream][p.row] /\ r.written \subseteq prog.retain
        /\ \A d \in MutableColumns \ (DOMAIN streams[p.stream][p.row] \cup prog.retain) :
             d \in DOMAIN r.owned /\ r.owned[d] = Null
    BY <1>2, <2>2, <2>3, NewRowIsOK DEF ValuesInv
  <2>5. /\ c \in MutableColumns /\ c \notin prog.retain
        /\ c \notin DOMAIN streams[p.stream][p.row]
    BY <2>2, <2>3 DEF SummedColumns, WrittenOtherwise, SourceColumns, InputColumns
  <2>6. c \notin DOMAIN r.auto
    BY <1>2, <2>5, NewRowFields, NamesApart DEF Columns
  <2> HIDE DEF r
  <2>7. cur'.added = <<>> /\ c \notin DOMAIN cur'.added
    BY <2>1 DEF Fresh
  <2>8. ShowsAccumulator(c)'
    BY <1>1, <2>4, <2>5, <2>6, <2>7 DEF ShowsAccumulator
  <2>9. Pending(c)' = 0 /\ Accumulated(c)' = Accumulated(c)
    BY <1>1, <2>7 DEF Pending, Gain, Accumulated
  <2> QED
    BY <1>1, <1>3, <2>8, <2>9 DEF Tally
<1> QED
  BY <1>4, <1>5

LEMMA SumInvKept == SumInv /\ [Next]_vars => SumInv'
<1> SUFFICES ASSUME SumInv, [Next]_vars PROVE SumInv'
  OBVIOUS
<1>1. RuntimeInv /\ RuntimeInv' /\ RowInv /\ StackInv /\ ValuesInv /\ LogIsSequence
  BY RuntimeInvKept DEF SumInv, RuntimeInv, RowInv
<1>2. ReadRow \/ NextStream \/ Export \/ StatementStep \/ UNCHANGED vars
  BY <1>1, NextIsStatement
<1>3. UNCHANGED <<prog, streams>>
  BY <1>2 DEF ReadRow, NextStream, Export, StatementStep, vars, block
<1>4. SummedColumns' = SummedColumns
  BY <1>3 DEF SummedColumns, MutableColumns, WrittenOtherwise, SourceColumns, Statements
<1>5. ASSUME NEW c \in SummedColumns
      PROVE  Tally(c)'
  <2>1. Tally(c)
    BY DEF SumInv
  <2>2. CASE ReadRow
    BY <1>1, <2>1, <2>2, TallyKeptByRead
  <2>3. CASE NextStream \/ Export \/ UNCHANGED vars
    <3>1. /\ UNCHANGED <<row, cur, sums, log>>
          /\ (status' = status \/ (status = "reading" /\ status' = "exported"))
      BY <2>3 DEF NextStream, Export, vars, carried
    <3>2. Pending(c)' = Pending(c)
      BY <3>1 DEF Pending
    <3> QED
      BY <2>1, <3>1, <3>2 DEF Tally, Accumulated, ShowsAccumulator
  <2>4. CASE StatementStep
    <3>1. status = "executing"
      BY <2>4 DEF StatementStep
    <3>2. CASE status' = "failed" /\ UNCHANGED log
      BY <2>1, <3>2 DEF Tally
    <3>3. ASSUME NEW fate, FinishRow(fate)
          PROVE  Tally(c)'
      BY <1>1, <2>1, <3>1, <3>3, TallyKeptByFinish
    <3>4. CASE /\ status' = "executing" /\ UNCHANGED log
               /\ Stored \/ (\E a \in Actions : Summed(a)) \/ (\E ts : Routed(ts))
      BY <1>1, <1>3, <2>1, <3>1, <3>4, TallyKeptByStatement
    <3> QED
      BY <2>4, <3>2, <3>3, <3>4 DEF StatementStep
  <2> QED
    BY <1>2, <2>2, <2>3, <2>4
<1> QED
  BY <1>1, <1>4, <1>5 DEF SumInv

(* A column that only SUM statements write holds, after every row that ran *)
(* one of them, the total of all increments so far, those of deleted rows  *)
(* and of earlier streams included, for every program and input.           *)
THEOREM SumsAccumulate == Spec => []SumIsRunningTotal
<1>1. Init => SumInv
  <2> SUFFICES ASSUME Init PROVE SumInv
    OBVIOUS
  <2>1. log = <<>> /\ sums = <<>> /\ status = "reading"
    BY DEF Init
  <2>2. RuntimeInv
    BY RuntimeInvInit
  <2>3. ASSUME NEW c
        PROVE  Tally(c)
    <3>1. <<>> \in Seq({}) /\ DOMAIN <<>> = {} /\ Len(<<>>) = 0
      OBVIOUS
    <3>2. Totals(TotalsOf(<<>>, c), 0, [k \in DOMAIN <<>> |-> Gain(<<>>[k], c)])
      BY <3>1, TotalsOfLog
    <3>3. TotalsOf(<<>>, c)[0] = 0
      BY <3>2 DEF Totals
    <3> QED
      BY <2>1, <3>1, <3>3 DEF Tally, Accumulated, Pending
  <2> QED
    BY <2>2, <2>3 DEF SumInv
<1>2. SumInv => SumIsRunningTotal
  <2> SUFFICES ASSUME SumInv PROVE SumIsRunningTotal
    OBVIOUS
  <2>1. \A c, k : AddedBy(k, c) = Gain(log[k], c)
    BY DEF AddedBy, Gain
  <2>2. \A c \in SummedColumns : \A k \in DOMAIN log :
          log[k].final[c] = IF c \in DOMAIN log[k].added THEN TotalsOf(log, c)[k] ELSE Null
    BY DEF SumInv, Tally
  <2> QED
    BY <2>2 DEF SumIsRunningTotal, SummedColumns, TotalsOf, Gain, AddedBy
<1> QED
  BY <1>1, <1>2, SumInvKept, PTL DEF Spec

-----------------------------------------------------------------------------
(* FIRSTOBS= and OBS=                                                      *)

(* The part of p from F on, at most ob of it.                              *)
Window(p, F, ob) ==
  LET last == IF ob = Null THEN Len(p) ELSE F + ob - 1
  IN  SubSeq(p, F, IF last < Len(p) THEN last ELSE Len(p))

LEMMA SliceOfLonger ==
  ASSUME NEW V, NEW p \in Seq(V), NEW e \in V, NEW F \in Nat \ {0}, NEW n \in Nat
  PROVE  /\ n <= Len(p) => SubSeq(Append(p, e), F, n) = SubSeq(p, F, n)
         /\ F <= Len(p) + 1 =>
              SubSeq(Append(p, e), F, Len(p) + 1) = Append(SubSeq(p, F, Len(p)), e)
         /\ F > Len(p) + 1 =>
              SubSeq(Append(p, e), F, Len(p) + 1) = SubSeq(p, F, Len(p))
<1> DEFINE a == Append(p, e)
           N == Len(p)
<1>1. /\ a \in Seq(V) /\ N \in Nat /\ Len(a) = N + 1 /\ a[N + 1] = e
      /\ \A k \in 1..N : a[k] = p[k]
  BY WithOneMore
<1>2. ASSUME n <= N
      PROVE  SubSeq(a, F, n) = SubSeq(p, F, n)
  <2> HIDE DEF a
  <2>1. SubSeq(a, F, n) = [i \in 1..(1 + n - F) |-> a[F + i - 1]]
    BY <1>1, <1>2
  <2>2. SubSeq(p, F, n) = [i \in 1..(1 + n - F) |-> p[F + i - 1]]
    BY <1>1, <1>2
  <2>3. \A i \in 1..(1 + n - F) : a[F + i - 1] = p[F + i - 1]
    BY <1>1, <1>2
  <2> QED
    BY <2>1, <2>2, <2>3
<1>3. ASSUME F <= N + 1
      PROVE  SubSeq(a, F, N + 1) = Append(SubSeq(p, F, N), e)
  <2> DEFINE b == SubSeq(p, F, N)
             d == Append(b, e)
             M == 1 + N - F
  <2>1. M \in Nat /\ M = 1 + N - F
    BY <1>1, <1>3
  <2>2. b = [i \in 1..M |-> p[F + i - 1]]
    BY <1>1, <1>3
  <2>3. \A i \in 1..M : p[F + i - 1] \in V
    BY <1>1, <1>3
  <2> HIDE DEF M, b
  <2>4. b \in Seq(V) /\ Len(b) = M
    BY <2>1, <2>2, <2>3
  <2>5. /\ d \in Seq(V) /\ DOMAIN d = 1..(M + 1) /\ d[M + 1] = e
        /\ \A i \in 1..M : d[i] = b[i]
    BY <2>4, WithOneMore
  <2> HIDE DEF a, d
  <2>6. SubSeq(a, F, N + 1) = [i \in 1..(M + 1) |-> a[F + i - 1]]
    BY <1>1, <1>3, <2>1
  <2>7. \A i \in 1..(M + 1) : a[F + i - 1] = d[i]
    <3> SUFFICES ASSUME NEW i \in 1..(M + 1) PROVE a[F + i - 1] = d[i]
      OBVIOUS
    <3>1. CASE i = M + 1
      BY <1>1, <2>1, <2>5, <3>1
    <3>2. CASE i \in 1..M
      <4>1. F + i - 1 \in 1..N
        BY <1>1, <2>1, <3>2
      <4> QED
        BY <1>1, <2>2, <2>5, <3>2, <4>1
    <3> QED
      BY <2>1, <3>1, <3>2
  <2>8. d = [i \in 1..(M + 1) |-> d[i]]
    BY <2>5
  <2>9. SubSeq(a, F, N + 1) = d
    BY <2>6, <2>7, <2>8
  <2> QED
    BY <2>9 DEF d, b
<1>4. ASSUME F > N + 1
      PROVE  SubSeq(a, F, N + 1) = SubSeq(p, F, N)
  <2> HIDE DEF a
  <2>1. SubSeq(a, F, N + 1) = <<>>
    BY <1>1, <1>4
  <2>2. SubSeq(p, F, N) = <<>>
    BY <1>1, <1>4
  <2> QED
    BY <2>1, <2>2
<1> QED
  BY <1>2, <1>3, <1>4

(* A row that passes WHERE= lands in the window if its place is in it.     *)
LEMMA WindowGrows ==
  ASSUME NEW V, NEW p \in Seq(V), NEW e \in V, NEW F \in Nat \ {0}, NEW ob \in Nat \cup {Null}
  PROVE  Window(Append(p, e), F, ob)
           = IF Len(p) + 1 >= F /\ (ob = Null \/ Len(p) + 1 < F + ob)
               THEN Append(Window(p, F, ob), e) ELSE Window(p, F, ob)
<1>1. Len(p) \in Nat /\ Len(Append(p, e)) = Len(p) + 1 /\ Null \notin Int
  BY ValuesAssumption
<1>2. CASE ob = Null
  <2>1. Window(Append(p, e), F, ob) = SubSeq(Append(p, e), F, Len(p) + 1)
    BY <1>1, <1>2 DEF Window
  <2>2. Window(p, F, ob) = SubSeq(p, F, Len(p))
    BY <1>1, <1>2 DEF Window
  <2> QED
    BY <1>1, <1>2, <2>1, <2>2, SliceOfLonger
<1>3. CASE ob \in Nat /\ F + ob - 1 <= Len(p)
  <2>1. Window(Append(p, e), F, ob) = SubSeq(Append(p, e), F, F + ob - 1)
    BY <1>1, <1>3 DEF Window
  <2>2. Window(p, F, ob) = SubSeq(p, F, F + ob - 1)
    BY <1>1, <1>3 DEF Window
  <2>3. F + ob - 1 \in Nat /\ ~(Len(p) + 1 < F + ob) /\ ob # Null
    BY <1>1, <1>3
  <2>4. SubSeq(Append(p, e), F, F + ob - 1) = SubSeq(p, F, F + ob - 1)
    BY <1>3, <2>3, SliceOfLonger
  <2> QED
    BY <2>1, <2>2, <2>3, <2>4
<1>4. CASE ob \in Nat /\ F + ob - 1 >= Len(p) + 1
  <2>1. Window(Append(p, e), F, ob) = SubSeq(Append(p, e), F, Len(p) + 1)
    BY <1>1, <1>4 DEF Window
  <2>2. Window(p, F, ob) = SubSeq(p, F, Len(p))
    BY <1>1, <1>4 DEF Window
  <2>3. Len(p) + 1 < F + ob
    BY <1>1, <1>4
  <2> QED
    BY <1>1, <2>1, <2>2, <2>3, SliceOfLonger
<1> QED
  BY <1>1, <1>2, <1>3, <1>4

(* The rows of a log that were offered to t, one row's after the other's.  *)
Offers(l, t) ==
  LET upto[k \in 0..Len(l)] == IF k = 0 THEN <<>> ELSE upto[k - 1] \o l[k].offered[t]
  IN  upto

LEMMA OffersOfLog ==
  ASSUME NEW S, NEW l \in Seq(S), NEW t, NEW V, \A k \in DOMAIN l : l[k].offered[t] \in Seq(V)
  PROVE  /\ Offers(l, t)[0] = <<>>
         /\ \A k \in 1..Len(l) : Offers(l, t)[k] = Offers(l, t)[k - 1] \o l[k].offered[t]
         /\ \A k \in 0..Len(l) : Offers(l, t)[k] \in Seq(V)
<1> DEFINE N == Len(l)
           B(x, k) == x \o l[k].offered[t]
           Unfold(f) == [k \in 0..N |-> IF k = 0 THEN <<>> ELSE B(f[k - 1], k)]
           upto == CHOOSE f : f = Unfold(f)
           Step == [k \in 1..N |-> [x \in Seq(V) |-> B(x, k)]]
<1>1. N \in Nat /\ \A k \in 1..N : \A x \in Seq(V) : B(x, k) \in Seq(V)
  OBVIOUS
<1>2. Offers(l, t) = upto
  BY DEF Offers
<1> HIDE DEF B
<1>3. Step \in [1..N -> [Seq(V) -> Seq(V)]]
  BY <1>1
<1>4. PICK f : /\ f \in [0..N -> Seq(V)] /\ f[0] = <<>>
               /\ \A k \in 1..N : f[k - 1] \in Seq(V) /\ f[k] = Step[k][f[k - 1]]
  <2>1. N \in Nat /\ <<>> \in Seq(V)
    BY <1>1
  <2> HIDE DEF N, Step
  <2>2. PICK f : Follows(f, N, Seq(V), <<>>, Step)
    BY ONLY <1>3, <2>1, Recursion
  <2>3. /\ f \in [0..N -> Seq(V)] /\ f[0] = <<>>
        /\ \A k \in 1..N : f[k - 1] \in Seq(V) /\ f[k] = Step[k][f[k - 1]]
    BY ONLY <2>1, <2>2, FollowsSteps
  <2> QED
    BY ONLY <2>3
<1>5. ASSUME NEW k \in 1..N
      PROVE  f[k] = B(f[k - 1], k)
  <2>1. f[k - 1] \in Seq(V) /\ f[k] = Step[k][f[k - 1]]
    BY <1>4
  <2>2. Step[k] = [x \in Seq(V) |-> B(x, k)]
    OBVIOUS
  <2> HIDE DEF Step
  <2> QED
    BY <2>1, <2>2
<1>6. f \in [0..N -> Seq(V)] /\ f[0] = <<>>
  BY <1>4
<1>7. upto = Unfold(upto)
  <2>1. f = Unfold(f)
    BY <1>5, <1>6
  <2> HIDE DEF Unfold
  <2> QED
    BY <2>1
<1> HIDE DEF upto
<1>8. upto[0] = <<>> /\ \A k \in 1..N : upto[k] = B(upto[k - 1], k)
  BY <1>1, <1>7
<1>9. \A k \in 0..N : upto[k] = f[k]
  <2>1. upto[0] = f[0] /\ N \in Nat
    BY <1>1, <1>6, <1>8
  <2>2. \A k \in 1..N : upto[k - 1] = f[k - 1] => upto[k] = f[k]
    BY <1>5, <1>8
  <2> QED
    BY ONLY <2>1, <2>2, SameRecursion
<1>10. \A k \in 0..N : upto[k] \in Seq(V)
  BY <1>6, <1>9
<1> QED
  BY <1>2, <1>8, <1>10 DEF B

LEMMA OffersGrow ==
  ASSUME NEW S, NEW l \in Seq(S), NEW t, NEW V, \A k \in DOMAIN l : l[k].offered[t] \in Seq(V),
         NEW e \in S, e.offered[t] \in Seq(V)
  PROVE  Offers(Append(l, e), t)[Len(l) + 1] = Offers(l, t)[Len(l)] \o e.offered[t]
<1> DEFINE N == Len(l)
           m == Append(l, e)
           f == Offers(l, t)
           g == Offers(m, t)
<1>1. /\ m \in Seq(S) /\ N \in Nat /\ Len(m) = N + 1 /\ DOMAIN m = 1..(N + 1) /\ DOMAIN l = 1..N
      /\ m[N + 1] = e /\ \A k \in 1..N : m[k] = l[k]
  BY WithOneMore
<1> HIDE DEF m
<1>2. \A k \in DOMAIN m : m[k].offered[t] \in Seq(V)
  BY <1>1
<1>3. f[0] = <<>> /\ \A k \in 1..N : f[k] = f[k - 1] \o l[k].offered[t]
  BY <1>1, OffersOfLog
<1>4. g[0] = <<>> /\ \A k \in 1..(N + 1) : g[k] = g[k - 1] \o m[k].offered[t]
  <2>0. m \in Seq(S)
    BY <1>1
  <2>1. /\ Offers(m, t)[0] = <<>>
        /\ \A k \in 1..Len(m) : Offers(m, t)[k] = Offers(m, t)[k - 1] \o m[k].offered[t]
    BY ONLY <2>0, <1>2, OffersOfLog
  <2> QED
    BY <1>1, <2>1
<1> HIDE DEF N, f, g
<1>5. ASSUME NEW k \in 1..N, f[k - 1] = g[k - 1]
      PROVE  f[k] = g[k]
  <2>1. k \in 1..(N + 1) /\ m[k] = l[k]
    BY <1>1
  <2>2. f[k] = f[k - 1] \o l[k].offered[t]
    BY <1>3
  <2>3. g[k] = g[k - 1] \o m[k].offered[t]
    BY <1>4, <2>1
  <2> QED
    BY <1>5, <2>1, <2>2, <2>3
<1>6. \A k \in 0..N : f[k] = g[k]
  <2>1. N \in Nat /\ f[0] = g[0]
    BY <1>1, <1>3, <1>4
  <2> QED
    BY ONLY <2>1, <1>5, SameRecursion
<1>7. g[N + 1] = f[N] \o e.offered[t]
  <2>1. N + 1 \in 1..(N + 1) /\ (N + 1) - 1 = N /\ N \in 0..N
    BY <1>1
  <2> QED
    BY <1>1, <1>4, <1>6, <2>1
<1> QED
  BY <1>7 DEF N, f, g, m

(* the rows of s that pass q, as far as read *)
PassedUpTo(s, q) ==
  LET upto[k \in 0..Len(s)] ==
        IF k = 0 THEN <<>>
        ELSE IF Passing(s[k], q) THEN Append(upto[k - 1], s[k]) ELSE upto[k - 1]
  IN  upto

LEMMA PassedOfSequence ==
  ASSUME NEW V, NEW s \in Seq(V), NEW q
  PROVE  /\ PassedUpTo(s, q)[0] = <<>>
         /\ \A k \in 1..Len(s) :
              PassedUpTo(s, q)[k] = IF Passing(s[k], q) THEN Append(PassedUpTo(s, q)[k - 1], s[k])
                                                        ELSE PassedUpTo(s, q)[k - 1]
         /\ \A k \in 0..Len(s) : PassedUpTo(s, q)[k] \in Seq(V)
<1> DEFINE N == Len(s)
           B(x, k) == IF Passing(s[k], q) THEN Append(x, s[k]) ELSE x
           Unfold(f) == [k \in 0..N |-> IF k = 0 THEN <<>> ELSE B(f[k - 1], k)]
           upto == CHOOSE f : f = Unfold(f)
           Step == [k \in 1..N |-> [x \in Seq(V) |-> B(x, k)]]
<1>1. N \in Nat /\ \A k \in 1..N : \A x \in Seq(V) : B(x, k) \in Seq(V)
  OBVIOUS
<1>2. PassedUpTo(s, q) = upto
  BY DEF PassedUpTo
<1> HIDE DEF B
<1>3. Step \in [1..N -> [Seq(V) -> Seq(V)]]
  BY <1>1
<1>4. PICK f : /\ f \in [0..N -> Seq(V)] /\ f[0] = <<>>
               /\ \A k \in 1..N : f[k - 1] \in Seq(V) /\ f[k] = Step[k][f[k - 1]]
  <2>1. N \in Nat /\ <<>> \in Seq(V)
    BY <1>1
  <2> HIDE DEF N, Step
  <2>2. PICK f : Follows(f, N, Seq(V), <<>>, Step)
    BY ONLY <1>3, <2>1, Recursion
  <2>3. /\ f \in [0..N -> Seq(V)] /\ f[0] = <<>>
        /\ \A k \in 1..N : f[k - 1] \in Seq(V) /\ f[k] = Step[k][f[k - 1]]
    BY ONLY <2>1, <2>2, FollowsSteps
  <2> QED
    BY ONLY <2>3
<1>5. ASSUME NEW k \in 1..N
      PROVE  f[k] = B(f[k - 1], k)
  <2>1. f[k - 1] \in Seq(V) /\ f[k] = Step[k][f[k - 1]]
    BY <1>4
  <2>2. Step[k] = [x \in Seq(V) |-> B(x, k)]
    OBVIOUS
  <2> HIDE DEF Step
  <2> QED
    BY <2>1, <2>2
<1>6. f \in [0..N -> Seq(V)] /\ f[0] = <<>>
  BY <1>4
<1>7. upto = Unfold(upto)
  <2>1. f = Unfold(f)
    BY <1>5, <1>6
  <2> HIDE DEF Unfold
  <2> QED
    BY <2>1
<1> HIDE DEF upto
<1>8. /\ upto[0] = <<>>
      /\ \A k \in 1..N : upto[k] = B(upto[k - 1], k)
  BY <1>1, <1>7
<1>9. \A k \in 0..N : upto[k] = f[k]
  <2>1. upto[0] = f[0] /\ N \in Nat
    BY <1>1, <1>6, <1>8
  <2>2. \A k \in 1..N : upto[k - 1] = f[k - 1] => upto[k] = f[k]
    BY <1>5, <1>8
  <2> QED
    BY ONLY <2>1, <2>2, SameRecursion
<1>10. \A k \in 0..N : upto[k] \in Seq(V)
  BY <1>6, <1>9
<1> QED
  BY <1>2, <1>8, <1>10 DEF B

LEMMA PassedGrow ==
  ASSUME NEW V, NEW s \in Seq(V), NEW e \in V, NEW q
  PROVE  /\ PassedOf(s, q) \in Seq(V)
         /\ PassedOf(Append(s, e), q) = IF Passing(e, q) THEN Append(PassedOf(s, q), e)
                                                         ELSE PassedOf(s, q)
<1> DEFINE N == Len(s)
           m == Append(s, e)
           f == PassedUpTo(s, q)
           g == PassedUpTo(m, q)
<1>1. /\ m \in Seq(V) /\ N \in Nat /\ Len(m) = N + 1
      /\ m[N + 1] = e /\ \A k \in 1..N : m[k] = s[k]
  BY WithOneMore
<1>2. PassedOf(s, q) = f[N] /\ PassedOf(m, q) = g[N + 1]
  BY <1>1 DEF PassedOf, PassedUpTo
<1> HIDE DEF m
<1>3. /\ f[0] = <<>> /\ f[N] \in Seq(V)
      /\ \A k \in 1..N : f[k] = IF Passing(s[k], q) THEN Append(f[k - 1], s[k]) ELSE f[k - 1]
  BY <1>1, PassedOfSequence
<1>4. /\ g[0] = <<>>
      /\ \A k \in 1..(N + 1) : g[k] = IF Passing(m[k], q) THEN Append(g[k - 1], m[k]) ELSE g[k - 1]
  BY <1>1, PassedOfSequence
<1> HIDE DEF N, f, g
<1>5. ASSUME NEW k \in 1..N, f[k - 1] = g[k - 1]
      PROVE  f[k] = g[k]
  <2>1. k \in 1..(N + 1) /\ m[k] = s[k]
    BY <1>1
  <2>2. f[k] = IF Passing(s[k], q) THEN Append(f[k - 1], s[k]) ELSE f[k - 1]
    BY <1>3
  <2>3. g[k] = IF Passing(m[k], q) THEN Append(g[k - 1], m[k]) ELSE g[k - 1]
    BY <1>4, <2>1
  <2> QED
    BY <1>5, <2>1, <2>2, <2>3
<1>6. \A k \in 0..N : f[k] = g[k]
  <2>1. N \in Nat /\ f[0] = g[0]
    BY <1>1, <1>3, <1>4
  <2> QED
    BY ONLY <2>1, <1>5, SameRecursion
<1>7. g[N + 1] = IF Passing(e, q) THEN Append(f[N], e) ELSE f[N]
  <2>1. N + 1 \in 1..(N + 1) /\ (N + 1) - 1 = N /\ N \in 0..N
    BY <1>1
  <2> QED
    BY <1>1, <1>4, <1>6, <2>1
<1> QED
  BY <1>2, <1>3, <1>7 DEF N, f, g, m

(* out is the slice that the options o cut out of the offered rows s, and  *)
(* n the number of those that passed WHERE=.                               *)
Bounded(o) == o.firstobs # Null \/ o.obs # Null
FirstOf(o) == IF o.firstobs = Null THEN 1 ELSE o.firstobs
InWindow(o, place) ==
  ~Bounded(o) \/ (place >= FirstOf(o) /\ (o.obs = Null \/ place < FirstOf(o) + o.obs))
IsSlice(s, o, out, n) ==
  /\ out = Window(PassedOf(s, o.where), FirstOf(o), o.obs)
  /\ Bounded(o) => n = Len(PassedOf(s, o.where))

LEMMA SliceGrows ==
  ASSUME NEW V, NEW s \in Seq(V), NEW e \in V, NEW out, NEW n, NEW o,
         o.firstobs \in Nat \cup {Null}, o.firstobs # 0, o.obs \in Nat \cup {Null},
         IsSlice(s, o, out, n)
  PROVE  IsSlice(Append(s, e), o,
                 IF Passing(e, o.where) /\ InWindow(o, n + 1) THEN Append(out, e) ELSE out,
                 IF Passing(e, o.where) /\ Bounded(o) THEN n + 1 ELSE n)
<1> DEFINE p == PassedOf(s, o.where)
           F == FirstOf(o)
<1>1. /\ p \in Seq(V)
      /\ PassedOf(Append(s, e), o.where) = IF Passing(e, o.where) THEN Append(p, e) ELSE p
  <2>1. \A q : /\ PassedOf(s, q) \in Seq(V)
               /\ PassedOf(Append(s, e), q) = IF Passing(e, q) THEN Append(PassedOf(s, q), e)
                                                               ELSE PassedOf(s, q)
    BY PassedGrow
  <2> QED
    BY <2>1
<1>2. out = Window(p, F, o.obs) /\ (Bounded(o) => n = Len(p))
  BY DEF IsSlice
<1>3. CASE ~Passing(e, o.where)
  BY <1>1, <1>2, <1>3 DEF IsSlice
<1>4. CASE Passing(e, o.where)
  <2>1. F \in Nat \ {0}
    BY DEF FirstOf
  <2>2. PassedOf(Append(s, e), o.where) = Append(p, e)
    BY <1>1, <1>4
  <2> HIDE DEF p, F
  <2>3. Window(Append(p, e), F, o.obs)
          = IF Len(p) + 1 >= F /\ (o.obs = Null \/ Len(p) + 1 < F + o.obs)
              THEN Append(Window(p, F, o.obs), e) ELSE Window(p, F, o.obs)
    BY <1>1, <2>1, WindowGrows
  <2>4. Len(p) \in Nat /\ Len(Append(p, e)) = Len(p) + 1
    BY <1>1
  <2>5. InWindow(o, n + 1) <=> Len(p) + 1 >= F /\ (o.obs = Null \/ Len(p) + 1 < F + o.obs)
    <3>1. CASE Bounded(o)
      BY <1>2, <3>1 DEF InWindow, F
    <3>2. CASE ~Bounded(o)
      <4>1. o.obs = Null /\ F = 1
        BY <3>2 DEF Bounded, FirstOf, F
      <4> QED
        BY <2>4, <3>2, <4>1 DEF InWindow
    <3> QED
      BY <3>1, <3>2
  <2>6. Bounded(o) => n + 1 = Len(Append(p, e))
    BY <1>2, <2>4
  <2>7. (IF InWindow(o, n + 1) THEN Append(out, e) ELSE out) = Window(Append(p, e), F, o.obs)
    BY <1>2, <2>3, <2>5
  <2> QED
    BY <1>4, <2>2, <2>6, <2>7 DEF IsSlice, F
<1> QED
  BY <1>3, <1>4

Sliced(t) == IsSlice(OfferedTo(t), prog.options[t], outs[t], counts[t])

OffersIn(V) ==
  \A t \in Targets : /\ cur.offered[t] \in Seq(V)
                     /\ \A k \in DOMAIN log : log[k].offered[t] \in Seq(V)

WindowInv ==
  /\ RuntimeInv
  /\ \E V : OffersIn(V)
  /\ \A t \in Targets : ~Rejects(t) => Sliced(t)

(* what the finished rows offered, and what the current one did            *)
Current(t) == IF stack = <<>> THEN <<>> ELSE cur.offered[t]

LEMMA OfferedParts ==
  ASSUME LogIsSequence, NEW V, OffersIn(V), NEW t \in Targets
  PROVE  /\ OfferedTo(t) = Offers(log, t)[Len(log)] \o Current(t)
         /\ Offers(log, t)[Len(log)] \in Seq(V) /\ Current(t) \in Seq(V)
         /\ OfferedTo(t) \in Seq(V)
<1>1. OfferedTo(t) = Offers(log, t)[Len(log)] \o Current(t)
  BY DEF OfferedTo, Offers, Current
<1>2. PICK S : log \in Seq(S)
  BY DEF LogIsSequence
<1>3. \A k \in 0..Len(log) : Offers(log, t)[k] \in Seq(V)
  <2>1. \A k \in DOMAIN log : log[k].offered[t] \in Seq(V)
    BY DEF OffersIn
  <2> QED
    BY <1>2, <2>1, OffersOfLog
<1>4. Offers(log, t)[Len(log)] \in Seq(V)
  BY <1>2, <1>3
<1>5. Current(t) \in Seq(V)
  BY DEF Current, OffersIn
<1> QED
  BY <1>1, <1>4, <1>5

(* a step that offers nothing to t *)
LEMMA SlicedKept ==
  ASSUME NEW t, Sliced(t), UNCHANGED <<prog, outs, counts>>, OfferedTo(t)' = OfferedTo(t)
  PROVE  Sliced(t)'
BY DEF Sliced

(* A step that offers the row to the targets ts, the rest to none.         *)
LEMMA SlicedRouted ==
  ASSUME RuntimeInv, NEW V, OffersIn(V), NEW ts, Route(ts), prog' = prog,
         NEW t \in Targets, ~Rejects(t), Sliced(t), Projected(t) \in V,
         OfferedTo(t)' = IF t \in ts THEN Append(OfferedTo(t), Projected(t)) ELSE OfferedTo(t)
  PROVE  Sliced(t)'
<1> DEFINE o == prog.options[t]
           e == Projected(t)
           s == OfferedTo(t)
<1>1. CASE t \notin ts
  <2>1. outs'[t] = outs[t] /\ counts'[t] = counts[t]
    BY <1>1 DEF Route
  <2> QED
    BY <1>1, <2>1 DEF Sliced
<1>2. CASE t \in ts
  <2>1. /\ o.firstobs \in Nat \cup {Null} /\ o.firstobs # 0 /\ o.obs \in Nat \cup {Null}
    BY ProgramsAssumption DEF RuntimeInv, RowInv, Targets, Rejects
  <2>2. s \in Seq(V)
    BY OfferedParts DEF RuntimeInv, RowInv
  <2>3. /\ PassesWhere(t) <=> Passing(e, o.where)
        /\ PassesWindow(t) <=> InWindow(o, counts[t] + 1)
        /\ Windowed(t) <=> Bounded(o)
    BY DEF PassesWhere, Passing, PassesWindow, InWindow, Windowed, Bounded, FirstObs, FirstOf
  <2>4. outs'[t] = IF Passing(e, o.where) /\ InWindow(o, counts[t] + 1)
                     THEN Append(outs[t], e) ELSE outs[t]
    BY <1>2, <2>3 DEF Route
  <2>5. counts'[t] = IF Passing(e, o.where) /\ Bounded(o) THEN counts[t] + 1 ELSE counts[t]
    BY <1>2, <2>3 DEF Route
  <2>6. IsSlice(s, o, outs[t], counts[t])
    BY DEF Sliced
  <2>7. e \in V /\ OfferedTo(t)' = Append(s, e)
    BY <1>2
  <2> HIDE DEF o, e, s
  <2>8. IsSlice(Append(s, e), o, outs'[t], counts'[t])
    BY <2>1, <2>2, <2>4, <2>5, <2>6, <2>7, SliceGrows
  <2>9. o = prog'.options[t]
    BY DEF o
  <2> QED
    BY <2>7, <2>8, <2>9 DEF Sliced
<1> QED
  BY <1>1, <1>2

LEMMA AppendToConcat ==
  ASSUME NEW V, NEW x \in Seq(V), NEW y \in Seq(V), NEW v \in V
  PROVE  x \o Append(y, v) = Append(x \o y, v)
<1>1. x \o y \in Seq(V) /\ <<v>> \in Seq(V)
  OBVIOUS
<1>2. Append(y, v) = y \o <<v>>
  BY AppendIsConcat
<1>3. Append(x \o y, v) = (x \o y) \o <<v>>
  BY <1>1, AppendIsConcat
<1>4. (x \o y) \o <<v>> = x \o (y \o <<v>>)
  BY <1>1, ConcatAssociative
<1> QED
  BY <1>2, <1>3, <1>4

(* what the current row may offer next *)
Wider(V) == V \cup {Projected(t) : t \in Targets}

LEMMA OfferedIsWider ==
  ASSUME NEW V, OffersIn(V), NEW ts, NEW t \in Targets
  PROVE  /\ Offered(ts)[t] \in Seq(Wider(V)) /\ cur.offered[t] \in Seq(Wider(V))
         /\ Projected(t) \in Wider(V) /\ OffersIn(Wider(V))
<1>1. V \subseteq Wider(V) /\ Projected(t) \in Wider(V)
  BY DEF Wider
<1> HIDE DEF Wider
<1>2. Seq(V) \subseteq Seq(Wider(V))
  BY <1>1
<1>3. OffersIn(Wider(V))
  BY <1>2 DEF OffersIn
<1>4. cur.offered[t] \in Seq(Wider(V))
  BY <1>3 DEF OffersIn
<1>5. Append(cur.offered[t], Projected(t)) \in Seq(Wider(V))
  BY <1>1, <1>4
<1> QED
  BY <1>1, <1>3, <1>4, <1>5 DEF Offered

(* An OUTPUT statement offers the row to its targets.                      *)
LEMMA SlicesKeptByRoute ==
  ASSUME RuntimeInv, NEW V, OffersIn(V), NEW ts, Routed(ts), UNCHANGED <<prog, log>>,
         stack # <<>>, stack' # <<>>, \A t \in Targets : ~Rejects(t) => Sliced(t)
  PROVE  /\ \E W : OffersIn(W)'
         /\ \A t \in Targets : ~Rejects(t) => Sliced(t)'
<1>0. PICK W : W = Wider(V)
  OBVIOUS
<1>1. LogIsSequence /\ LogIsSequence' /\ CurOK(cur) /\ Targets' = Targets
  BY DEF RuntimeInv, RowInv, ValuesInv, LogIsSequence, Targets
<1>2. Route(ts) /\ cur'.offered = Offered(ts)
  BY <1>1 DEF Routed, CurOK
<1>3. \A t \in Targets : /\ Offered(ts)[t] \in Seq(W) /\ cur.offered[t] \in Seq(W)
                         /\ Projected(t) \in W /\ OffersIn(W)
  BY <1>0, OfferedIsWider
<1>4. ASSUME NEW t \in Targets
      PROVE  /\ cur'.offered[t] \in Seq(W)
             /\ \A k \in DOMAIN log' : log'[k].offered[t] \in Seq(W)
  <2>1. \A k \in DOMAIN log : log[k].offered[t] \in Seq(W)
    BY <1>3 DEF OffersIn
  <2> QED
    BY <1>2, <1>3, <2>1
<1>5. OffersIn(W)'
  <2>1. \A t \in Targets' : /\ cur'.offered[t] \in Seq(W)
                            /\ \A k \in DOMAIN log' : log'[k].offered[t] \in Seq(W)
    BY <1>1, <1>4
  <2> QED
    BY <2>1 DEF OffersIn
<1>6. ASSUME NEW t \in Targets, ~Rejects(t)
      PROVE  Sliced(t)'
  <2> DEFINE x == Offers(log, t)[Len(log)]
  <2>1. OffersIn(W) /\ Projected(t) \in W
    BY <1>3
  <2>2. /\ OfferedTo(t) = x \o Current(t) /\ x \in Seq(W)
    BY <1>1, <2>1, OfferedParts
  <2>3. OfferedTo(t)' = Offers(log, t)'[Len(log')] \o Current(t)'
    BY DEF OfferedTo, Offers, Current
  <2>4. OfferedTo(t)' = x \o Offered(ts)[t] /\ Current(t) = cur.offered[t]
    BY <1>2, <2>3 DEF Current, Offers
  <2> HIDE DEF x
  <2>5. OfferedTo(t)' = IF t \in ts THEN Append(OfferedTo(t), Projected(t)) ELSE OfferedTo(t)
    <3>1. Offered(ts)[t] = IF t \in ts THEN Append(cur.offered[t], Projected(t)) ELSE cur.offered[t]
      BY DEF Offered
    <3>2. x \o Append(cur.offered[t], Projected(t)) = Append(x \o cur.offered[t], Projected(t))
      BY <1>3, <2>1, <2>2, AppendToConcat
    <3> QED
      BY <2>2, <2>4, <3>1, <3>2
  <2> QED
    BY <1>2, <1>6, <2>1, <2>5, SlicedRouted
<1> QED
  BY <1>5, <1>6

(* The end of a row moves what the row offered to the log.                 *)
LEMMA SlicesKeptByFinish ==
  ASSUME RuntimeInv, NEW V, OffersIn(V), NEW fate, FinishRow(fate), stack # <<>>,
         \A t \in Targets : ~Rejects(t) => Sliced(t)
  PROVE  /\ \E W : OffersIn(W)'
         /\ \A t \in Targets : ~Rejects(t) => Sliced(t)'
<1> DEFINE ts == IF fate = "deleted" \/ SuppressImplicitOutput THEN {} ELSE {prog.default}
           entry == [stream |-> pos.stream, row |-> pos.row, fate |-> fate,
                     start |-> cur.start, final |-> Snapshot(row),
                     added |-> cur.added, offered |-> Offered(ts)]
<1>0. PICK W : W = Wider(V)
  OBVIOUS
<1>1. LogIsSequence /\ prog' = prog /\ Targets' = Targets
  BY DEF RuntimeInv, RowInv, FinishRow, block, Targets
<1>2. CASE \E t \in ts : Rejects(t)
  <2>1. UNCHANGED <<stack, outs, counts, cur, log>>
    BY <1>2 DEF FinishRow
  <2>2. OffersIn(V)'
    BY <1>1, <2>1 DEF OffersIn
  <2>3. \A t \in Targets : OfferedTo(t)' = OfferedTo(t)
    BY <2>1 DEF OfferedTo
  <2> QED
    BY <1>1, <2>1, <2>2, <2>3, SlicedKept
<1>3. CASE ~\E t \in ts : Rejects(t)
  <2>1. Route(ts) /\ stack' = <<>> /\ cur' = cur /\ log' = Append(log, entry)
    BY <1>3 DEF FinishRow
  <2>2. entry.offered = Offered(ts)
    OBVIOUS
  <2> HIDE DEF entry, ts
  <2>3. \A t \in Targets : /\ Offered(ts)[t] \in Seq(W) /\ cur.offered[t] \in Seq(W)
                           /\ Projected(t) \in W /\ OffersIn(W)
    BY <1>0, OfferedIsWider
  <2>4. PICK S0 : log \in Seq(S0)
    BY <1>1 DEF LogIsSequence
  <2> DEFINE S == S0 \cup {entry}
  <2>5. log \in Seq(S) /\ entry \in S
    BY <2>4
  <2> HIDE DEF S
  <2>6. /\ Len(log) \in Nat /\ Len(log') = Len(log) + 1 /\ DOMAIN log' = 1..(Len(log) + 1)
        /\ DOMAIN log = 1..Len(log)
        /\ log'[Len(log) + 1] = entry /\ \A k \in 1..Len(log) : log'[k] = log[k]
    BY <2>1, <2>5, WithOneMore
  <2>7. ASSUME NEW t \in Targets
        PROVE  /\ cur'.offered[t] \in Seq(W)
               /\ \A k \in DOMAIN log' : log'[k].offered[t] \in Seq(W)
    <3>1. \A k \in DOMAIN log : log[k].offered[t] \in Seq(W)
      BY <2>3 DEF OffersIn
    <3>2. ASSUME NEW k \in DOMAIN log'
          PROVE  log'[k].offered[t] \in Seq(W)
      BY <2>2, <2>3, <2>6, <3>1
    <3> QED
      BY <2>1, <2>3, <3>2
  <2>8. OffersIn(W)'
    <3>1. \A t \in Targets' : /\ cur'.offered[t] \in Seq(W)
                              /\ \A k \in DOMAIN log' : log'[k].offered[t] \in Seq(W)
      BY <1>1, <2>7
    <3> QED
      BY <3>1 DEF OffersIn
  <2>9. ASSUME NEW t \in Targets, ~Rejects(t)
        PROVE  Sliced(t)'
    <3> DEFINE x == Offers(log, t)[Len(log)]
    <3>1. OffersIn(W) /\ Projected(t) \in W
      BY <2>3
    <3>2. OfferedTo(t) = x \o cur.offered[t] /\ x \in Seq(W)
      BY <1>1, <3>1, OfferedParts DEF Current
    <3>3. OfferedTo(t)' = Offers(log', t)[Len(log')] \o <<>>
      BY <2>1 DEF OfferedTo, Offers
    <3>4. Offers(log', t)[Len(log')] = x \o Offered(ts)[t]
      <4>1. \A k \in DOMAIN log : log[k].offered[t] \in Seq(W)
        BY <3>1 DEF OffersIn
      <4>2. entry.offered[t] \in Seq(W)
        BY <2>2, <2>3
      <4>3. Offers(Append(log, entry), t)[Len(log) + 1] = x \o entry.offered[t]
        BY <2>5, <4>1, <4>2, OffersGrow
      <4> QED
        BY <2>1, <2>2, <2>6, <4>3
    <3> HIDE DEF x
    <3>5. x \o Offered(ts)[t] \in Seq(W)
      BY <2>3, <3>2
    <3>6. OfferedTo(t)' = x \o Offered(ts)[t]
      BY <3>3, <3>4, <3>5
    <3>7. OfferedTo(t)' = IF t \in ts THEN Append(OfferedTo(t), Projected(t)) ELSE OfferedTo(t)
      <4>1. Offered(ts)[t] = IF t \in ts THEN Append(cur.offered[t], Projected(t)) ELSE cur.offered[t]
        BY DEF Offered
      <4>2. x \o Append(cur.offered[t], Projected(t)) = Append(x \o cur.offered[t], Projected(t))
        BY <2>3, <3>1, <3>2, AppendToConcat
      <4> QED
        BY <3>2, <3>6, <4>1, <4>2
    <3> QED
      BY <1>1, <2>1, <2>9, <3>1, <3>7, SlicedRouted
  <2> QED
    BY <2>8, <2>9
<1> QED
  BY <1>2, <1>3

(* A new row has offered nothing yet.                                      *)
LEMMA SlicesKeptByRead ==
  ASSUME RuntimeInv, NEW V, OffersIn(V), ReadRow,
         \A t \in Targets : ~Rejects(t) => Sliced(t)
  PROVE  OffersIn(V)' /\ \A t \in Targets : ~Rejects(t) => Sliced(t)'
<1>1. UNCHANGED <<prog, outs, counts, log>> /\ stack = <<>> /\ LogIsSequence
  BY DEF ReadRow, block, carried, RuntimeInv, RowInv, StackInv
<1>2. Targets' = Targets
  BY <1>1 DEF Targets
<1>3. CASE UNCHANGED <<stack, cur>>
  <2>1. OffersIn(V)'
    BY <1>1, <1>2, <1>3 DEF OffersIn
  <2>2. \A t \in Targets : OfferedTo(t)' = OfferedTo(t)
    BY <1>1, <1>3 DEF OfferedTo
  <2> QED
    BY <1>1, <2>1, <2>2, SlicedKept
<1>4. CASE ~UNCHANGED <<stack, cur>>
  <2>1. PICK r : cur' = Fresh(r) /\ stack' = <<Frame(1, Len(Statements) + 1, NoLoop)>>
    BY <1>4 DEF ReadRow
  <2>2. stack' # <<>>
    BY <2>1
  <2>3. \A t \in Targets : cur'.offered[t] = <<>>
    BY <2>1 DEF Fresh
  <2>4. OffersIn(V)'
    <3>1. \A t \in Targets' : /\ cur'.offered[t] \in Seq(V)
                              /\ \A k \in DOMAIN log' : log'[k].offered[t] \in Seq(V)
      <4>1. \A t \in Targets : \A k \in DOMAIN log : log[k].offered[t] \in Seq(V)
        BY DEF OffersIn
      <4>2. <<>> \in Seq(V)
        OBVIOUS
      <4> QED
        BY <1>1, <1>2, <2>3, <4>1, <4>2
    <3> QED
      BY <3>1 DEF OffersIn
  <2>5. \A t \in Targets : OfferedTo(t)' = OfferedTo(t)
    BY <1>1, <2>2, <2>3 DEF OfferedTo
  <2> QED
    BY <1>1, <2>4, <2>5, SlicedKept
<1> QED
  BY <1>3, <1>4

LEMMA WindowInvKept == WindowInv /\ [Next]_vars => WindowInv'
<1> SUFFICES ASSUME WindowInv, [Next]_vars PROVE WindowInv'
  OBVIOUS
<1>1. RuntimeInv /\ RuntimeInv' /\ RowInv /\ StackInv /\ StackInv' /\ ValuesInv
  BY RuntimeInvKept DEF WindowInv, RuntimeInv
<1>2. ReadRow \/ NextStream \/ Export \/ StatementStep \/ UNCHANGED vars
  BY <1>1, NextIsStatement DEF RowInv
<1>3. prog' = prog
  BY <1>2 DEF ReadRow, NextStream, Export, StatementStep, vars, block
<1>4. Targets' = Targets /\ \A t : Rejects(t)' <=> Rejects(t)
  BY <1>3 DEF Targets, Rejects
<1>5. PICK V : OffersIn(V)
  BY DEF WindowInv
<1>6. \A t \in Targets : ~Rejects(t) => Sliced(t)
  BY DEF WindowInv
<1>7. /\ \E W : OffersIn(W)'
      /\ \A t \in Targets : ~Rejects(t) => Sliced(t)'
  <2>1. CASE ReadRow
    BY <1>1, <1>5, <1>6, <2>1, SlicesKeptByRead
  <2>2. CASE UNCHANGED <<stack, outs, counts, cur, log>>
    <3>1. OffersIn(V)'
      BY <1>4, <1>5, <2>2 DEF OffersIn
    <3>2. \A t \in Targets : OfferedTo(t)' = OfferedTo(t)
      BY <2>2 DEF OfferedTo
    <3> QED
      BY <1>3, <1>6, <2>2, <3>1, <3>2, SlicedKept
  <2>3. CASE StatementStep
    <3>1. status = "executing" /\ stack # <<>>
      BY <1>1, <2>3 DEF StatementStep, StackInv
    <3>2. CASE status' = "failed" /\ UNCHANGED <<pos, row, stack, carried, cur, log>>
      BY <2>2, <3>2 DEF carried
    <3>3. ASSUME NEW fate, FinishRow(fate)
          PROVE  <1>7!1 /\ <1>7!2
      BY <1>1, <1>5, <1>6, <3>1, <3>3, SlicesKeptByFinish
    <3>4. CASE /\ status' = "executing" /\ UNCHANGED <<pos, retained, log>> /\ StackStep
               /\ Stored \/ (\E a \in Actions : Summed(a)) \/ (\E ts : Routed(ts))
      <4>1. stack' # <<>>
        BY <1>1, <3>4 DEF StackInv
      <4>2. ASSUME NEW ts, Routed(ts)
            PROVE  <1>7!1 /\ <1>7!2
        BY <1>1, <1>3, <1>5, <1>6, <3>1, <3>4, <4>1, <4>2, SlicesKeptByRoute
      <4>3. CASE Stored \/ (\E a \in Actions : Summed(a))
        <5>1. UNCHANGED <<outs, counts>> /\ cur'.offered = cur.offered
          BY <1>1, <4>3 DEF Stored, Summed, ValuesInv, CurOK
        <5>2. OffersIn(V)'
          BY <1>4, <1>5, <3>4, <5>1 DEF OffersIn
        <5>3. \A t \in Targets : OfferedTo(t)' = OfferedTo(t)
          BY <3>1, <3>4, <4>1, <5>1 DEF OfferedTo
        <5> QED
          BY <1>3, <1>6, <5>1, <5>2, <5>3, SlicedKept
      <4> QED
        BY <3>4, <4>2, <4>3
    <3> QED
      BY <2>3, <3>2, <3>3, <3>4 DEF StatementStep
  <2>4. CASE NextStream \/ Export \/ UNCHANGED vars
    BY <2>2, <2>4 DEF NextStream, Export, vars, carried
  <2> QED
    BY <1>2, <2>1, <2>3, <2>4
<1> QED
  BY <1>1, <1>4, <1>7 DEF WindowInv

(* FIRSTOBS= and OBS= cut one window out of the rows that passed WHERE=,   *)
(* over all statements, rows and streams that write to the target, for     *)
(* every program and input: no counter slips at an OUTPUT inside a loop,   *)
(* at a deleted row or between streams.                                    *)
THEOREM OutputsAreWindows == Spec => []WindowIsSlice
<1>1. Init => WindowInv
  <2> SUFFICES ASSUME Init PROVE WindowInv
    OBVIOUS
  <2>1. log = <<>> /\ stack = <<>> /\ cur = Fresh(NoRow)
    BY DEF Init
  <2>2. <<>> \in Seq({}) /\ DOMAIN <<>> = {} /\ Len(<<>>) = 0
    OBVIOUS
  <2>3. OffersIn({})
    BY <2>1, <2>2 DEF OffersIn, Fresh
  <2>4. ASSUME NEW t \in Targets, ~Rejects(t)
        PROVE  Sliced(t)
    <3> DEFINE o == prog.options[t]
    <3>1. outs[t] = <<>> /\ counts[t] = 0
      BY DEF Init
    <3>2. Offers(<<>>, t)[0] = <<>>
      BY <2>2, OffersOfLog
    <3>3. OfferedTo(t) = Offers(<<>>, t)[0] \o <<>>
      BY <2>1, <2>2 DEF OfferedTo, Offers
    <3>4. OfferedTo(t) = <<>>
      BY <3>2, <3>3
    <3>5. PassedUpTo(<<>>, o.where)[0] = <<>>
      <4>1. \A q : PassedUpTo(<<>>, q)[0] = <<>>
        BY <2>2, PassedOfSequence
      <4> QED
        BY <4>1
    <3>6. PassedOf(<<>>, o.where) = <<>>
      BY <2>2, <3>5 DEF PassedOf, PassedUpTo
    <3>7. Window(<<>>, FirstOf(o), o.obs) = <<>>
      <4>1. /\ o.obs \in Nat \cup {Null} /\ o.firstobs \in Nat \cup {Null} /\ o.firstobs # 0
            /\ Null \notin Int
        BY <2>4, ProgramsAssumption, ValuesAssumption DEF Init, Targets, Rejects
      <4> HIDE DEF o
      <4>2. FirstOf(o) \in Nat \ {0}
        BY <4>1 DEF FirstOf
      <4>3. Window(<<>>, FirstOf(o), o.obs) = SubSeq(<<>>, FirstOf(o), 0)
        BY <2>2, <4>1, <4>2 DEF Window
      <4> QED
        BY <4>2, <4>3
    <3> QED
      BY <2>2, <3>1, <3>4, <3>6, <3>7 DEF Sliced, IsSlice
  <2> QED
    BY <2>3, <2>4, RuntimeInvInit DEF WindowInv
<1>2. WindowInv => WindowIsSlice
  <2> SUFFICES ASSUME WindowInv, NEW t \in Targets, ~Rejects(t)
               PROVE  LET o == prog.options[t]
                          passed == PassedOf(OfferedTo(t), o.where)
                          last == IF o.obs = Null THEN Len(passed) ELSE FirstObs(t) + o.obs - 1
                      IN  outs[t] = SubSeq(passed, FirstObs(t),
                                           IF last < Len(passed) THEN last ELSE Len(passed))
    BY DEF WindowIsSlice
  <2>1. Sliced(t)
    BY DEF WindowInv
  <2> QED
    BY <2>1 DEF Sliced, IsSlice, Window, FirstOf, FirstObs
<1> QED
  BY <1>1, <1>2, WindowInvKept, PTL DEF Spec

=============================================================================
