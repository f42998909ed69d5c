---------------------------- MODULE MCRowRuntime ----------------------------
(***************************************************************************)
(* Instances of RowRuntime.  A program is written as a tree, flattened as  *)
(* the frontend does, run by the interpreter and compared with a recursive *)
(* evaluation of the tree.                                                 *)
(***************************************************************************)
EXTENDS RowRuntime, SequencesExt

-----------------------------------------------------------------------------
(* Trees                                                                   *)

Leaf(s)         == [t |-> "leaf", s |-> s]
Loop(c, lo, hi, b) == [t |-> "loop", col |-> c, lo |-> lo, hi |-> hi, body |-> b]
Cond(arms, otherwise) == [t |-> "cond", arms |-> arms, otherwise |-> otherwise]
Arm(q, act)     == [cond |-> q, act |-> act]
(* the action of a branch: one statement, a block, or one that is faulty *)
One(s)          == [t |-> "one", s |-> s]
Block(b)        == [t |-> "block", body |-> b]
Faulty(b)       == [t |-> "faulty", body |-> b]
Nothing         == [t |-> "nothing"]

AsInline(s) == IF s.op = "ASSIGN" THEN InlineAssign(s.col, s.val) ELSE s

RECURSIVE Flat(_)
FlatAct(act, head(_), fault) ==
  CASE act.t = "one"    -> <<head(AsInline(act.s))>>
    [] act.t = "block"  -> <<head(DoGroup)>> \o Flat(act.body) \o <<End>>
    [] act.t = "faulty" -> <<fault>> \o Flat(act.body) \o <<End>>
    [] OTHER            -> <<>>

(* the lowered statements of a sequence of trees *)
Flat(b) ==
  FlattenSeq([i \in DOMAIN b |->
    LET n == b[i] IN
    CASE n.t = "leaf" -> <<n.s>>
      [] n.t = "loop" -> <<Do(n.col, n.lo, n.hi)>> \o Flat(n.body) \o <<End>>
      [] n.t = "cond" ->
           FlattenSeq([j \in DOMAIN n.arms |->
             LET Head1(a) == IF j = 1 THEN If(n.arms[j].cond, a) ELSE ElseIf(n.arms[j].cond, a)
             IN  FlatAct(n.arms[j].act, Head1, Fault(IF j = 1 THEN "IF" ELSE "ELSE IF"))])
           \o FlatAct(n.otherwise, Else, Fault("ELSE"))])

(* The meaning of a tree: r a row, out what it offers to the default       *)
(* target, fate "go", "deleted", "stopped" or "failed".                    *)
Emit(m) == [c \in Columns |-> Value(m.r, c)]
Act1(m, s) ==
  CASE s.op = "ASSIGN" -> [m EXCEPT !.r = Store(m.r, s.col, Eval(m.r, s.val))]
    [] s.op = "OUTPUT" -> [m EXCEPT !.out = Append(m.out, Emit(m))]
    [] s.op = "DELETE" -> [m EXCEPT !.fate = "deleted"]
    [] s.op = "STOP"   -> [m EXCEPT !.fate = "stopped"]
    [] s.op = "FAULT"  -> [m EXCEPT !.fate = "failed"]
    [] s.op = "SUBSET IF" -> IF Holds(m.r, s.cond) THEN m ELSE [m EXCEPT !.fate = "deleted"]

RECURSIVE Means(_, _), MeansLoop(_, _, _)
MeansAct(act, m) ==
  CASE act.t = "one" -> Act1(m, act.s)
    [] act.t = "block" -> Means(act.body, m)
    [] act.t = "faulty" -> [m EXCEPT !.fate = "failed"]
    [] OTHER -> m
MeansLoop(n, i, m) ==
  IF i > Eval(m.r, n.hi) \/ m.fate # "go" THEN m
  ELSE MeansLoop(n, i + 1, Means(n.body, [m EXCEPT !.r = Store(m.r, n.col, i)]))
MeansNode(n, m) ==
  CASE n.t = "leaf" -> Act1(m, n.s)
    [] n.t = "loop" -> MeansLoop(n, Eval(m.r, n.lo), m)
    [] n.t = "cond" ->
         LET true == {j \in DOMAIN n.arms : Holds(m.r, n.arms[j].cond)}
         IN  IF true = {} THEN MeansAct(n.otherwise, m)
             ELSE MeansAct(n.arms[CHOOSE j \in true : \A k \in true : j <= k].act, m)
Means(b, m) ==
  IF b = <<>> \/ m.fate # "go" THEN m ELSE Means(Tail(b), MeansNode(Head(b), m))

MeaningFrom(start) ==
  LET r == [src |-> start, owned |-> <<>>, written |-> {}, auto |-> <<>>]
      m == Means(prog.tree, [r |-> r, out |-> <<>>, fate |-> "go"])
  IN  IF m.fate \in {"deleted", "failed"} \/ SuppressImplicitOutput THEN m
      ELSE [m EXCEPT !.out = Append(m.out, Emit(m))]

(* Every row does what the program's tree says: the same values, the same  *)
(* output in the same order, the same fate; and the block fails only where *)
(* the tree reaches a faulty action.                                       *)
RowMeansItsTree == prog.tree # <<>> =>
  /\ \A k \in DOMAIN log :
       LET m == MeaningFrom(log[k].start)
       IN  /\ m.fate = IF log[k].fate = "kept" THEN "go" ELSE log[k].fate
           /\ \A c \in Columns : log[k].final[c] = Value(m.r, c)
           /\ log[k].offered[prog.default] = m.out
  /\ status = "failed" => MeaningFrom(cur.start).fate = "failed"

-----------------------------------------------------------------------------
(* Generated programs                                                      *)

NoOption == [where |-> Always, firstobs |-> Null, obs |-> Null, keep |-> {}]
Plain ==
  [stmts |-> <<>>, retain |-> {}, by |-> {}, end |-> "",
   where |-> Always, keep |-> {}, options |-> [out |-> NoOption],
   default |-> "out", tree |-> <<>>]
Tree(b) == [Plain EXCEPT !.stmts = Flat(b), !.tree = b]

Write == Assign("y", Col("x"))
Bump == Assign("x", Plus(Col("x"), Lit(1)))
X0 == Is("x", 0)
X1 == Is("x", 1)

Ones == {One(s) : s \in {Write, Output({}), Delete, Stop, Fault("ASSIGN")}}
Blocks == {Block(<<Leaf(s)>>) : s \in {Bump, Output({}), Delete}}
Small == Ones \cup Blocks
Tests == {Cond(<<Arm(X1, a)>>, e) : a \in Small,
                                   e \in {Nothing, One(Output({})), Block(<<Leaf(Bump)>>)}}
Loops == {Loop("i", Lit(0), Lit(1), <<Leaf(Bump), n, Leaf(Assign("i", Lit(0)))>>) :
            n \in {Leaf(Output({})), Leaf(SubsetIf(X1)), Cond(<<Arm(X1, One(Stop))>>, Nothing)}}
Nested == {Block(<<n, Leaf(Bump)>>) : n \in Tests \cup Loops}
Acts == Small \cup Nested

Chains ==
  {Cond(<<Arm(X0, a)>>, Nothing) : a \in Acts}
  \cup {Cond(<<Arm(X0, a)>>, b) : a, b \in Acts}
  \cup {Cond(<<Arm(X0, a), Arm(X1, b)>>, c) : a \in Small, b \in Acts,
                                             c \in {Nothing, One(Write), Block(<<Leaf(Output({}))>>)}}
TreePrograms == {Tree(<<n, Leaf(Bump)>>) : n \in Chains \cup Loops}

XRow(v) == [g |-> 0, x |-> v]
TreeInputs == {<< <<XRow(0), XRow(1)>> >>}

-----------------------------------------------------------------------------
(* Hand-written programs                                                   *)

Lines(ss) == [Plain EXCEPT !.stmts = ss]
Only(o) == [NoOption EXCEPT !.firstobs = o[1], !.obs = o[2]]

(* programs that read both columns *)
TwoColumnPrograms ==
  {[p EXCEPT !.retain = RetainNames(<<"r", "1">>)] : p \in
     {Lines(<<Assign("r", Col("g")), SubsetIf(X1)>>),
      [Lines(<<Assign("r", Col("g"))>>) EXCEPT !.where = X1]}}
  \cup {Lines(<<Sum("t", Col("x")), If(Is("g", 1), Delete)>>)}
  \cup {[p EXCEPT !.by = {"g"}] : p \in
     {Lines(<<If(Is(FirstName("g"), 1), Assign("g", Lit(0))), Sum("t", Lit(1))>>),
      Lines(<<SubsetIf(Is(LastName("g"), 1))>>)}}

(* programs that read x alone *)
RetainPrograms ==
  {[p EXCEPT !.retain = RetainNames(<<"r", "1">>)] : p \in
     {Lines(<<If(X1, Assign("r", Col("x")))>>),
      Lines(<<Assign("r", Col("x")), If(X1, Delete)>>)}}
  \cup {[Lines(<<Assign("y", Col("x"))>>) EXCEPT !.retain = {"x"}]}
SumPrograms ==
  {Lines(<<If(X1, Sum("t", Lit(1))), Sum("u", Col("t"))>>),
   Lines(<<Sum("x", Lit(1)), Sum("t", Lit(1)), Assign("t", Lit(Null)), Sum("t", Lit(1))>>),
   [Lines(<<Sum("t", Lit(1))>>) EXCEPT !.retain = {"t"}],
   Lines(<<Do("i", Lit(0), Lit(1)), Assign("i", Lit(0)), Sum("t", Col("x")), End>>)}
EndPrograms ==
  {[Lines(<<If(Is("last", 1), Output({})), Else(Delete)>>) EXCEPT !.end = "last", !.where = q] :
     q \in {Always, X1}}
WindowPrograms ==
  {[Lines(<<Output({"a"}), If(X1, Output({"a", "b"})), Output({})>>)
     EXCEPT !.default = "b",
            !.options = [a |-> Only(w), b |-> [Only(<<2, Null>>) EXCEPT !.where = X1]]] :
     w \in {<<2, 1>>, <<Null, 2>>, <<1, 0>>}}
  \cup {[Lines(<<>>) EXCEPT !.keep = {"x"}, !.options.out = Only(<<2, 1>>)]}
StopPrograms ==
  {Lines(<<If(X1, DoGroup), Stop, End, Sum("t", Lit(1))>>), Lines(<<If(X0, Output({})), Else(Stop)>>)}
(* a DELETE, an END or an ELSE in a place of its own and blocks that fail *)
OddPrograms ==
  {Lines(<<Else(Delete), Assign("y", Lit(1)), Assign("z", Lit(1)), End, Delete>>),
   Lines(<<If(X1, Do("i", Lit(1), Lit(0))), Stop, End, ElseIf(X0, DoGroup), Delete, End>>),
   Lines(<<If(X1, Do("i", Lit(1), Lit(2))), Sum("t", Col("i")), End, Else(DoGroup), Stop>>),
   Lines(<<If(X1, DoGroup), Assign("y", Lit(1))>>),
   Lines(<<If(X0, Delete), ElseIf(X1, DoGroup), Assign("y", Lit(1))>>),
   Lines(<<Do("i", Lit(0), Col("x")), Sum("t", Lit(1))>>),
   Lines(<<If(Bad, Stop)>>), Lines(<<SubsetIf(Bad)>>),
   Lines(<<If(X1, Delete), ElseIf(Bad, Stop)>>),
   Lines(<<If(X1, Delete), Fault("ELSE IF"), Fault("ELSE")>>),
   Lines(<<If(X1, Assign("y", Lit(1))), Fault("ELSE"), Delete>>),
   Lines(<<Output({"nowhere"})>>),
   [Lines(<<>>) EXCEPT !.where = Bad],
   [Lines(<<>>) EXCEPT !.options.out = Only(<<0, Null>>)]}
OneColumnPrograms ==
  RetainPrograms \cup SumPrograms \cup EndPrograms \cup WindowPrograms
  \cup StopPrograms \cup OddPrograms

GXRows == [g : {0, 1}, x : {0, 1, Null}]
Streams(n) == UNION {[1..k -> GXRows] : k \in 0..n}
StateInputs ==
  {<<s>> : s \in Streams(3)} \cup {<<s, u>> : s \in Streams(1), u \in Streams(2)}
  (* a second stream without one of the columns of the first *)
  \cup {<<s, u>> : s \in Streams(1), u \in UNION {[1..k -> [x : {0, 1, Null}]] : k \in 1..2}}

(* g is the same in every row that has it *)
OneColumnInputs ==
  {in \in StateInputs :
     \A k \in DOMAIN in : \A i \in DOMAIN in[k] : "g" \in DOMAIN in[k][i] => in[k][i].g = 0}

(* Each program over its own inputs: the generated ones over two rows, the *)
(* others over every input in the columns they read.                       *)
RowPrograms == TreePrograms \cup TwoColumnPrograms \cup OneColumnPrograms
RowInputs == TreeInputs \cup StateInputs
OwnInput ==
  \/ prog.tree # <<>> /\ streams \in TreeInputs
  \/ prog \in TwoColumnPrograms /\ streams \in StateInputs
  \/ prog \in OneColumnPrograms /\ streams \in OneColumnInputs
RowInit == Init /\ OwnInput
RowSpec == RowInit /\ [][Next]_vars /\ WF_vars(Next)

-----------------------------------------------------------------------------
(* Programs and inputs of the disagreements with documents and tests       *)

FaultedElsePrograms ==
  {Tree(<<Cond(<<Arm(X0, One(Write)), Arm(X1, Faulty(<<Leaf(Assign("z", Lit(1)))>>))>>, Nothing), Leaf(Bump)>>)}
ByPrograms == {[Lines(<<>>) EXCEPT !.by = {"g"}]}
NullKeyInputs == {<< <<[g |-> 0, x |-> 0], [g |-> Null, x |-> 0]>> >>}
=============================================================================
