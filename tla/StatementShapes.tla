---------------------------- MODULE StatementShapes ----------------------------
(* The shapes src/limulus/syntax/program.py gives to one statement: how the    *)
(* builder of each kind takes the text of a statement apart.  A text is a      *)
(* sequence of symbols: a syllable of a word, a space, or a mark.  Words that  *)
(* stand together without a space are one word, so a keyword may be glued to   *)
(* what follows it.  A literal is what stands between two quotes; a block      *)
(* comment is one symbol, with or without an equals sign inside.  Escaped      *)
(* quotes, the second kind of quote, braces, and upper case are left out.      *)
(* An expression is the slice of the text that the statement hands to the      *)
(* expression parser, which may reject it later and lazily.                    *)
EXTENDS Naturals, Sequences, FiniteSets, SequencesExt

Spaces   == {" ", "tab", "nl"}
Comments == {"/*c*/", "/*=*/"}
Digits   == {"1", "2", "3"}
Openers  == {"(", "["}
Closers  == {")", "]"}
Macros   == {"%let", "%macro", "%mend"}
Marks    == {"=", "+", "*", "$", "?", ";", "'", "eof"}
              \cup Openers \cup Closers \cup Comments \cup Macros
EqualsIn == {"=", "/*=*/"}      \* the symbols with an equals sign in them

IsWord(c) == c \notin Spaces \cup Marks
IsName(c) == IsWord(c) /\ c \notin Digits

At(s, i) == IF i \in DOMAIN s THEN s[i] ELSE "eof"
First(s, i, Hit(_)) ==          \* the first index from i on that hits, or past the end
    Min({k \in i .. Len(s) : Hit(k)} \cup {Len(s) + 1})
Solid(s, i)   == First(s, i, LAMBDA k : s[k] \notin Spaces)
Inline(s, i)  == First(s, i, LAMBDA k : s[k] \notin Spaces \ {"nl"})
NameEnd(s, i) == First(s, i, LAMBDA k : ~IsWord(s[k])) - 1
Strip(s) ==
    LET solid == {k \in DOMAIN s : s[k] \notin Spaces}
    IN  IF solid = {} THEN <<>> ELSE SubSeq(s, Min(solid), Max(solid))
Rest(s, i) == SubSeq(s, i, Len(s))
Slice(s, i, j) == SubSeq(s, i, IF j > Len(s) THEN Len(s) ELSE j)
InOrder(S) == SetToSortSeq(S, LAMBDA a, b : a < b)

IsLiteral(s, i) == Cardinality({k \in 1 .. (i - 1) : s[k] = "'"}) % 2 = 1
KeywordAt(s, i, K) == At(s, i) \in K /\ ~IsWord(At(s, i - 1)) /\ ~IsWord(At(s, i + 1))
HasKeyword(s, w) == \E k \in DOMAIN s : KeywordAt(s, k, {w})
IsWholeName(s) == s # <<>> /\ IsName(s[1]) /\ \A k \in DOMAIN s : IsWord(s[k])

(* Open minus closed brackets of s[i .. j], outside literals. *)
Excess(s, i, j, opening, closing) ==
    LET unquoted(marks) == {k \in i .. j : s[k] \in marks /\ ~IsLiteral(s, k)}
    IN  Cardinality(unquoted(opening)) - Cardinality(unquoted(closing))
Balance(s, i, j) == Excess(s, i, j, Openers, Closers)
Depth(s, i, j)   == Excess(s, i, j, {"("}, {")"})

Partner(s, k) ==                \* the bracket that s[k] closes
    Max({j \in 1 .. k : s[j] \in Openers /\ ~IsLiteral(s, j) /\ Balance(s, j, k) = 0})
Nested(s) == \A k \in DOMAIN s : s[k] \in Closers /\ ~IsLiteral(s, k) =>
                                    (s[k] = ")" <=> s[Partner(s, k)] = "(")
Balanced(s) == /\ \A j \in DOMAIN s : Balance(s, 1, j) >= 0
               /\ Balance(s, 1, Len(s)) = 0
               /\ Nested(s)

(* The parenthesis that closes the one at i; past the end when there is none. *)
MatchingParenthesis(s, i) ==
    First(s, i, LAMBDA k : s[k] = ")" /\ ~IsLiteral(s, k) /\ Depth(s, i, k) = 0)

--------------------------------------------------------------------------------
(* What a builder returns.  A fault stays in the statement and fails when a    *)
(* row reaches it, except for the kinds the program stops for; "raise" is the  *)
(* ValueError of a builder that was handed a text it does not take.            *)
Fault(kind, cause)   == [kind |-> kind, form |-> "fault", cause |-> cause]
Raise                == [kind |-> "RAISE", form |-> "raise"]
Simple(kind)         == [kind |-> kind, form |-> "typed"]
NoAction             == [kind |-> "NONE", form |-> "typed"]
BareDo               == [kind |-> "DO", form |-> "bare"]
UnsupportedAction    == Fault("ACTION", "unsupported inline action")

(* The first equals sign and the first plus separate, wherever they stand. *)
Separator(s, marks) == First(s, 1, LAMBDA k : s[k] \in marks)
LeftOf(s, i)  == Strip(SubSeq(s, 1, i - 1))
RightOf(s, i) == Strip(Rest(s, i + 1))

Subscripted(token, k, closer) ==
    /\ k \in 2 .. Len(token) /\ Last(token) = closer
    /\ Strip(SubSeq(token, k + 1, Len(token) - 1)) # <<>>
Element(token, k) == [name  |-> LeftOf(token, k), delimiter |-> token[k],
                      index |-> SubSeq(token, k + 1, Len(token) - 1)]
TargetAt(token, round, square) ==
    IF Subscripted(token, round, ")") THEN Element(token, round)
    ELSE IF Subscripted(token, square, "]") THEN Element(token, square)
    ELSE [name |-> token, delimiter |-> "", index |-> <<>>]
AssignmentTarget(token) == TargetAt(token, Separator(token, {"("}), Separator(token, {"["}))

AssignmentAt(s, eq) ==
    IF eq > Len(s) THEN Raise
    ELSE IF <<>> \in {LeftOf(s, eq), RightOf(s, eq)}
         THEN Fault("ASSIGN", "invalid assignment statement")
    ELSE [kind |-> "ASSIGN", form |-> "typed",
          target |-> AssignmentTarget(LeftOf(s, eq)), value |-> RightOf(s, eq)]
AssignmentStatement(s) == AssignmentAt(s, Separator(s, EqualsIn))

SumSides(s, plus) == [is |-> plus <= Len(s), target |-> LeftOf(s, plus), value |-> RightOf(s, plus)]
SumOf(sides) ==
    IF ~sides.is \/ ~(sides.target = <<>> \/ IsWholeName(sides.target)) THEN Raise
    ELSE IF <<>> \in {sides.target, sides.value} THEN Fault("SUM", "Invalid SUM statement")
    ELSE [kind |-> "SUM", form |-> "typed", target |-> sides.target, value |-> sides.value]
SumStatement(s) == SumOf(SumSides(s, Separator(s, {"+"})))

--------------------------------------------------------------------------------
(* KEEP, DROP, BY and RETAIN.  A keyword that no blank follows leaves the      *)
(* whole text as the list.                                                     *)
NameListKinds == [keep |-> "KEEP", drop |-> "DROP", by |-> "BY", retain |-> "RETAIN"]

ListedNames(s) ==
    LET body   == IF Len(s) = 1 THEN 2 ELSE IF s[2] = " " THEN 2 ELSE 1
        starts == InOrder({k \in body .. Len(s) : /\ s[k] \notin Spaces
                                                  /\ k = body \/ s[k - 1] \in Spaces})
    IN  [n \in DOMAIN starts |->
            [from |-> starts[n],
             to   |-> First(s, starts[n], LAMBDA k : s[k] \in Spaces) - 1]]

NamedPieces(s, places) ==
    [n \in DOMAIN places |-> [name |-> SubSeq(s, places[n].from, places[n].to),
                              from |-> places[n].from, to |-> places[n].to]]
NameListStatement(s) ==
    IF At(s, 1) \notin DOMAIN NameListKinds THEN Raise
    ELSE [kind |-> NameListKinds[s[1]], form |-> "typed", names |-> NamedPieces(s, ListedNames(s))]

(* The two views of one list: the row runtime takes the names as they are, the *)
(* planner cuts the keyword (one symbol) off the front of the statement.       *)
NativeNames(statement) == [n \in DOMAIN statement.names |-> statement.names[n].name]
(* mutant: the planner takes the names as the row runtime does *)
UncutNames(statement) == NativeNames(statement)
PlanningNames(statement) ==
    LET later == SelectSeq(statement.names, LAMBDA n : n.to >= 2)
    IN  [n \in DOMAIN later |->
            IF later[n].from < 2 THEN Rest(later[n].name, 3 - later[n].from)
            ELSE later[n].name]

--------------------------------------------------------------------------------
(* NAME = value pairs of LABEL (a literal) and RENAME (a name), by the grammar *)
(* of the pairs; a pair without a name marks a text the grammar refuses.       *)
RECURSIVE PairsFrom(_, _, _)
PairsFrom(s, i, quoted) ==
    LET n == Inline(s, i)
        q == Inline(s, NameEnd(s, n) + 1)
        v == Inline(s, q + 1)
        z == IF quoted THEN First(s, v + 1, LAMBDA k : s[k] = "'") ELSE NameEnd(s, v)
        fits == /\ IsName(At(s, n)) /\ At(s, q) = "="
                /\ IF quoted THEN At(s, v) = "'" /\ z <= Len(s) ELSE IsName(At(s, v))
    IN  IF n > Len(s) THEN <<>>
        ELSE IF ~fits THEN <<[name |-> <<>>, value |-> <<>>]>>
        ELSE <<[name  |-> SubSeq(s, n, NameEnd(s, n)),
                value |-> IF quoted THEN SubSeq(s, v + 1, z - 1) ELSE SubSeq(s, v, z)]>>
             \o PairsFrom(s, z + 1, quoted)
Refused(pairs) == pairs = <<>> \/ \E k \in DOMAIN pairs : pairs[k].name = <<>>

(* The order and the values of a Python dictionary built from the pairs. *)
AsDictionary(pairs) ==
    LET same(k) == {j \in DOMAIN pairs : pairs[j].name = pairs[k].name}
        firsts  == InOrder({k \in DOMAIN pairs : k = Min(same(k))})
    IN  [n \in DOMAIN firsts |-> [name  |-> pairs[firsts[n]].name,
                                  value |-> pairs[Max(same(firsts[n]))].value]]

(* Both statements are cut at the first semicolon, in a literal too. *)
EffectiveText(s) == SubSeq(s, 1, First(s, 1, LAMBDA k : s[k] = ";") - 1)

LabelsOf(pairs) ==
    IF Refused(pairs) THEN Fault("LABEL", "Unsupported LABEL statement syntax")
    ELSE [kind |-> "LABEL", form |-> "typed", labels |-> AsDictionary(pairs)]
LabelStatement(s) ==
    LET body == Rest(EffectiveText(s), 2)
    IN  IF At(s, 1) # "label" THEN Raise
        ELSE IF Strip(body) = <<>> THEN [kind |-> "LABEL", form |-> "typed", labels |-> <<>>]
        ELSE LabelsOf(PairsFrom(body, 1, TRUE))

RenamesOf(pairs) ==
    IF Refused(pairs) THEN Fault("RENAME", "Invalid rename mapping")
    ELSE [kind |-> "RENAME", form |-> "typed", pairs |-> AsDictionary(pairs)]
RenameStatement(s) ==
    IF At(s, 1) # "rename" THEN Raise
    ELSE RenamesOf(PairsFrom(Strip(Rest(EffectiveText(s), 2)), 1, FALSE))

SkippedWords == {"length", "format", "call"}
SkippedStatement(s) ==
    IF At(s, 1) \in SkippedWords /\ (s[1] = "call" => ~IsWord(At(s, 2)))
    THEN Simple("SKIPPED") ELSE Raise

WhereStatement(s) ==
    IF At(s, 1) # "where" THEN Raise
    ELSE [kind |-> "WHERE", form |-> "typed",
          condition |-> IF At(s, 2) \in {" ", "eof"} THEN Strip(Rest(s, 2)) ELSE Strip(s)]

--------------------------------------------------------------------------------
(* Dataset references and their options. *)
NoOptions == [in |-> <<>>, keep |-> <<>>, drop |-> <<>>, where |-> <<>>,
              rename |-> <<>>, firstobs |-> <<>>, obs |-> <<>>, label |-> <<>>]

KeyAt(s, i) == IsName(At(s, i)) /\ At(s, Solid(s, NameEnd(s, i) + 1)) = "="

(* A group is cut in front of each key that follows a space outside            *)
(* parentheses and literals.  A group is balanced, so its depth is never below *)
(* zero, where the code clamps it.                                             *)
OptionTokens(group) ==
    LET c      == SubSeq(group, 2, Len(group) - 1)
        starts == InOrder({1} \cup {k \in 2 .. Len(c) :
                      /\ c[k - 1] \in Spaces /\ KeyAt(c, k)
                      /\ Depth(c, 1, k) <= 0 /\ ~IsLiteral(c, k)})
        token(n) == Strip(SubSeq(c, starts[n], IF n = Len(starts) THEN Len(c)
                                               ELSE starts[n + 1] - 1))
    IN  SelectSeq([n \in DOMAIN starts |-> token(n)], LAMBDA t : t # <<>>)

SpaceTokens(s) ==
    LET starts == InOrder({k \in DOMAIN s : /\ s[k] \notin Spaces
                                            /\ k = 1 \/ s[k - 1] \in Spaces})
    IN  [n \in DOMAIN starts |->
            SubSeq(s, starts[n], First(s, starts[n], LAMBDA k : s[k] \in Spaces) - 1)]

Unparenthesised(s) ==
    IF At(s, 1) = "(" /\ MatchingParenthesis(s, 1) = Len(s)
    THEN Strip(SubSeq(s, 2, Len(s) - 1)) ELSE s

(* The dialect of WHERE= compares columns with scalars; of it one comparison   *)
(* for equality is kept.                                                       *)
WhereParses(s) ==
    LET w == SelectSeq(s, LAMBDA c : c \notin Spaces)
    IN  /\ Len(w) >= 3 /\ IsName(w[1]) /\ w[2] = "="
        /\ \/ Len(w) = 3 /\ w[3] \in Digits
           \/ w[3] = "'" /\ Last(w) = "'" /\ Len(w) >= 4
              /\ Cardinality({k \in DOMAIN w : w[k] = "'"}) = 2

(* One token into the options read so far: a key with a value sets its option, *)
(* a token without one joins the KEEP or DROP list before it.                  *)
WithOption(got, option, v, collect) == [got EXCEPT !.options[option] = v, !.collect = collect]
WithFault(got, cause) == [got EXCEPT !.fault = cause]
WithRename(got, pairs) ==
    IF Refused(pairs) THEN WithFault(got, "Invalid rename mapping")
    ELSE WithOption(got, "rename", AsDictionary(pairs), "")
WithWhere(got, condition) ==
    IF WhereParses(condition) THEN WithOption(got, "where", condition, "")
    ELSE WithFault(got, "dataset option WHERE= is invalid")
Within(s, open, close) == IF At(s, 1) = open /\ Last(s) = close THEN SubSeq(s, 2, Len(s) - 1) ELSE s

KeyedOption(got, key, value) ==
    IF key \in {"end", "indsname"} THEN WithFault(got, "only allowed as a SET statement option")
    ELSE IF key = "in" THEN WithOption(got, "in", value, "")
    ELSE IF key \in {"keep", "drop"} THEN WithOption(got, key, SpaceTokens(value), key)
    ELSE IF key = "where"  THEN WithWhere(got, Unparenthesised(value))
    ELSE IF key = "rename" THEN WithRename(got, PairsFrom(Within(value, "(", ")"), 1, FALSE))
    ELSE IF key \in {"firstobs", "obs"} /\ Len(value) = 1 /\ value[1] \in Digits
         THEN WithOption(got, key, value, "")
    ELSE IF key = "label" THEN WithOption(got, "label", Within(value, "'", "'"), "")
    ELSE WithFault(got, "Unsupported dataset reference option")

OptionAt(got, token, t, eq) ==
    IF IsName(At(t, 1)) /\ At(t, eq) = "=" /\ eq < Len(t)
    THEN KeyedOption(got, IF NameEnd(t, 1) = 1 THEN t[1] ELSE "other", Strip(Rest(t, eq + 1)))
    ELSE IF got.collect = "" THEN WithFault(got, "Invalid dataset reference option token")
    ELSE WithOption(got, got.collect, Append(got.options[got.collect], token), got.collect)
BareWhere(token, i) ==
    IF At(token, 1) = "(" /\ At(token, i) = "where" /\ At(token, i + 1) = "="
    THEN Rest(token, i) ELSE token
KeyEnd(t) == Inline(t, NameEnd(t, 1) + 1)
ReadOption(got, token) ==
    IF got.fault # "" THEN got
    ELSE OptionAt(got, token, BareWhere(token, Solid(token, 2)), KeyEnd(BareWhere(token, Solid(token, 2))))

ReadOptions(tokens) ==
    FoldLeft(ReadOption, [options |-> NoOptions, collect |-> "",
                          fault |-> IF tokens = <<>> THEN "Unsupported statement syntax" ELSE ""],
             tokens)
DatasetOptions(group) == ReadOptions(OptionTokens(group))

(* The body of a DATA, SET, MERGE or OUTPUT statement from index i on, up to   *)
(* the first fault.                                                            *)
HasWhere(s) == \E k \in DOMAIN s : KeywordAt(s, k, {"where"}) /\ At(s, Solid(s, k + 1)) = "="
Referred(got, name, read) ==
    [got EXCEPT !.fault = read.fault,
                !.refs  = Append(@, [name |-> name, options |-> read.options])]
WithSetting(got, kind, key, valued, value) ==
    IF ~valued \/ kind \notin {"SET", "MERGE"} THEN WithFault(got, "Unsupported statement syntax")
    ELSE IF (key = "indsname" /\ kind # "SET") \/ key = "in"
         THEN WithFault(got, "only allowed as a SET statement option")
    ELSE IF key \notin {"indsname", "end"} THEN WithFault(got, "Unsupported SET statement option")
    ELSE [got EXCEPT !.settings[key] = value]

RECURSIVE ScanDatasetBody(_, _, _, _)
ScanDatasetBody(s, i, kind, got) ==
    LET end   == NameEnd(s, i)
        name  == SubSeq(s, i, end)
        after == Solid(s, end + 1)
        value == Solid(s, after + 1)
        close == MatchingParenthesis(s, after)
    IN  IF got.fault # "" \/ At(s, i) \in {"eof", ";"} THEN got
        ELSE IF s[i] \in Spaces THEN ScanDatasetBody(s, i + 1, kind, got)
        ELSE IF ~IsName(s[i]) THEN WithFault(got, "Unsupported statement syntax")
        ELSE IF At(s, after) = "="
             THEN ScanDatasetBody(s, NameEnd(s, value) + 1, kind,
                      WithSetting(got, kind, IF i = end THEN s[i] ELSE "other",
                                  IsName(At(s, value)), SubSeq(s, value, NameEnd(s, value))))
        ELSE IF At(s, after) # "("
             THEN ScanDatasetBody(s, end + 1, kind,
                      Referred(got, name, [options |-> NoOptions, fault |-> ""]))
        ELSE IF close > Len(s)
             THEN WithFault(got, IF HasWhere(s) THEN "dataset option WHERE= is invalid"
                                 ELSE "Unsupported statement syntax")
        ELSE ScanDatasetBody(s, close + 1, kind,
                 Referred(got, name, DatasetOptions(SubSeq(s, after, close))))

NothingScanned == [refs |-> <<>>, settings |-> [indsname |-> <<>>, end |-> <<>>], fault |-> ""]
Scanned(kind, got) ==
    IF got.fault # "" THEN Fault(kind, got.fault)
    ELSE IF kind # "OUTPUT" /\ got.refs = <<>> THEN Fault(kind, "Unsupported statement syntax")
    ELSE [kind |-> kind, form |-> "typed", refs |-> got.refs, settings |-> got.settings]
DatasetStatement(s, kind, body) == Scanned(kind, ScanDatasetBody(s, body, kind, NothingScanned))

(* The direct entry reads its kind from the first word. *)
DatasetKinds == [data |-> "DATA", set |-> "SET", merge |-> "MERGE", output |-> "OUTPUT"]
OfKind(s, word, body) ==
    IF word \in DOMAIN DatasetKinds THEN DatasetStatement(s, DatasetKinds[word], body) ELSE Raise
ParseDatasetStatement(s) ==
    IF IsWord(At(s, Solid(s, 1) + 1)) THEN Raise ELSE OfKind(s, At(s, Solid(s, 1)), Solid(s, 1) + 1)

(* OUTPUT with the keyword glued to what follows: all of it is one target. *)
GluedOutput(s) ==
    [kind |-> "OUTPUT", form |-> "typed", settings |-> NothingScanned.settings,
     refs |-> <<[name |-> Strip(s), options |-> NoOptions]>>]

--------------------------------------------------------------------------------
(* IF, ELSE IF and ELSE.  The grammars of IF and DO lex THEN and TO wherever   *)
(* they are expected, also at the front of a longer word.                      *)
ExpressionParts(s) ==
    /\ s # <<>> /\ Balanced(s)
    /\ \A k \in DOMAIN s : s[k] \notin {"nl", ";", "$", "?"} \cup Macros
    /\ Cardinality({k \in DOMAIN s : s[k] = "'"}) % 2 = 0

LexedAsKeyword(s, i, k, word) ==    \* the last token before the expression is at i
    LET before == Max({j \in i .. (k - 1) : s[j] \notin Spaces})
    IN  /\ s[k] = word /\ ~IsWord(s[k - 1]) /\ ~IsLiteral(s, k)
        /\ before > i /\ s[before] \notin Openers
KeywordSplit(s, i, word) == First(s, i + 1, LAMBDA k : LexedAsKeyword(s, i, k, word))

(* An inline action: SUM comes before assignment and takes any text in front   *)
(* of the first plus as its target.                                            *)
SumAction(sides) ==
    [kind |-> "SUM", form |-> "typed", target |-> sides.target, value |-> sides.value]
IsSumAction(sides) == sides.is /\ <<>> \notin {sides.target, sides.value}
AssignAction(statement) == IF statement = Raise THEN UnsupportedAction ELSE statement
WithSides(a, sides) ==
    IF IsSumAction(sides) THEN SumAction(sides) ELSE AssignAction(AssignmentStatement(a))
InlineAction(a) ==
    IF a \in {<<"delete">>, <<"stop">>}
         THEN Simple(IF a = <<"delete">> THEN "DELETE" ELSE "STOP")
    ELSE IF At(a, 1) = "output"
         THEN DatasetStatement(a, "OUTPUT", IF At(a, 2) = " " \/ Len(a) = 1 THEN 2 ELSE 1)
    ELSE WithSides(a, SumSides(a, Separator(a, {"+"})))

IsElseIf(s) == /\ At(s, 1) = "else" /\ At(s, 2) \in Spaces
               /\ KeywordAt(s, Solid(s, 2), {"if"}) /\ HasKeyword(s, "then")
ThenDo(s)   == \E k \in DOMAIN s : /\ KeywordAt(s, k, {"then"})
                                   /\ At(s, k + 1) \in Spaces
                                   /\ KeywordAt(s, Solid(s, k + 1), {"do"})

(* Where the condition ends and the action begins; "none" when the grammar     *)
(* refuses the text.                                                           *)
NoSplit == [form |-> "none", condition |-> <<>>, action |-> <<>>]
SplitAt(body, then) ==
    LET cond   == Strip(SubSeq(body, 2, then - 1))
        action == Strip(Rest(body, then + 1))
    IN  IF ~ExpressionParts(cond) \/ (then <= Len(body) /\ ~ExpressionParts(action)) THEN NoSplit
        ELSE [form |-> IF then > Len(body) THEN "subset" ELSE "branch",
              condition |-> cond, action |-> action]
SplitBody(body) == SplitAt(body, KeywordSplit(body, 1, "then"))
IfSplit(s, elseIf) ==
    IF elseIf /\ s[2] # " " THEN NoSplit
    ELSE SplitBody(Strip(Rest(s, IF elseIf THEN Solid(s, 2) ELSE 1)))

FaultedIf(kind) == Fault(kind, "invalid IF statement")
BuildIf(kind, split, bare) ==
    IF split.form = "none" THEN FaultedIf(kind)
    ELSE [kind |-> kind, form |-> split.form, condition |-> split.condition,
          action |-> IF split.form = "subset" THEN NoAction
                     ELSE IF bare \/ split.action = <<"do">> THEN BareDo
                     ELSE InlineAction(split.action)]
IfOrElseIf(s, elseIf) ==
    IF ~elseIf /\ ~KeywordAt(s, 1, {"if"}) THEN Raise
    ELSE BuildIf(IF elseIf THEN "ELSE IF" ELSE "IF", IfSplit(s, elseIf), ThenDo(s))
IfStatement(s) == IfOrElseIf(s, IsElseIf(s))

(* A body that no blank separates from ELSE is the whole statement. *)
ElseBodyText(s) == IF At(s, 2) = " " THEN Strip(Rest(s, 2)) ELSE Strip(s)
ElseBody(body) == IF body = <<"do">> THEN BareDo ELSE InlineAction(body)
Else(action)   == [kind |-> "ELSE", form |-> "typed", action |-> action]
ElseStatement(s) ==
    IF At(s, 1) # "else" \/ IsWord(At(s, 2)) \/ IsElseIf(s) THEN Raise
    ELSE Else(IF Len(s) = 1 THEN NoAction ELSE ElseBody(ElseBodyText(s)))

--------------------------------------------------------------------------------
(* DO and ARRAY. *)
LoopAt(s, eq, to) ==
    LET from == Strip(SubSeq(s, eq + 1, to - 1))
        upto == Strip(Rest(s, to + 1))
        var  == Inline(s, 2)
    IN  IF /\ IsName(At(s, var)) /\ At(s, eq) = "=" /\ to <= Len(s)
           /\ ExpressionParts(from) /\ ExpressionParts(upto)
           /\ KeywordSplit(s, to, "to") > Len(s)
        THEN [kind |-> "DO", form |-> "loop", variable |-> SubSeq(s, var, NameEnd(s, var)),
              start |-> from, end |-> upto]
        ELSE Fault("DO", "unsupported DO statement")
LoopFrom(s, eq) == LoopAt(s, eq, KeywordSplit(s, eq, "to"))
DoOf(s) == LoopFrom(s, Inline(s, NameEnd(s, Inline(s, 2)) + 1))
BuildDo(text) == DoOf(Strip(text))
DoStatement(s) == IF KeywordAt(s, 1, {"do"}) THEN BuildDo(s) ELSE Raise

ArrayOf(name, size, character, list) ==
    IF ~IsWholeName(name) \/ list = <<>> \/ \E n \in DOMAIN list : ~IsWholeName(list[n])
    THEN Fault("ARRAY", "invalid ARRAY declaration")
    ELSE [kind |-> "ARRAY", form |-> "typed", name |-> name, size |-> size,
          character |-> character, variables |-> list]
ArrayFrom(s, name, size, money) ==
    ArrayOf(name, size, At(s, money) = "$",
            SpaceTokens(Rest(s, IF At(s, money) = "$" THEN money + 1 ELSE money)))
ArraySized(s, name, at) ==
    IF At(s, at) = "[" /\ At(s, at + 2) = "]" /\ At(s, at + 1) \in {"*"} \cup Digits
    THEN ArrayFrom(s, name, s[at + 1], Solid(s, at + 3))
    ELSE IF At(s, at) \in Digits THEN ArrayFrom(s, name, s[at], Solid(s, at + 1))
    ELSE ArrayFrom(s, name, "", at)
ArrayNamed(s, from, to) == ArraySized(s, SubSeq(s, from, to), Solid(s, to + 1))
BuildArray(text) ==
    LET s == Strip(text)
    IN  ArrayNamed(s, Solid(s, 2), NameEnd(s, Solid(s, 2)))
ArrayStatement(s) == IF At(Strip(s), 1) = "array" THEN BuildArray(s) ELSE Raise

--------------------------------------------------------------------------------
(* The builder of each kind.  The classification decides the kind and where    *)
(* the keyword of a dataset statement ends.                                    *)
DispatchStatement(kind, s, body) ==
    IF kind \in {"DATA", "SET", "MERGE"} THEN DatasetStatement(s, kind, body)
    ELSE IF kind = "OUTPUT" THEN
        IF At(s, 2) \in {" ", "eof"} THEN ParseDatasetStatement(s) ELSE GluedOutput(s)
    ELSE IF kind = "WHERE" THEN WhereStatement(s)
    ELSE IF kind \in {"KEEP", "DROP", "BY", "RETAIN"} THEN NameListStatement(s)
    ELSE IF kind = "ASSIGN"  THEN AssignmentStatement(s)
    ELSE IF kind = "SUM"     THEN SumStatement(s)
    ELSE IF kind = "LABEL"   THEN LabelStatement(s)
    ELSE IF kind = "RENAME"  THEN RenameStatement(s)
    ELSE IF kind = "IF"      THEN IfStatement(s)
    ELSE IF kind = "ELSE"    THEN
        IF IsWord(At(s, 2)) THEN Else(ElseBody(Strip(s))) ELSE ElseStatement(s)
    ELSE IF kind = "ELSE IF" THEN
        IF (At(s, 2) \in Spaces /\ KeywordAt(s, Solid(s, 2), {"if"})) \/ KeywordAt(s, 1, {"if"})
        THEN IfStatement(s) ELSE FaultedIf(kind)
    ELSE IF kind = "DO"      THEN
        IF IsWord(At(s, 2)) THEN BuildDo(s) ELSE DoStatement(s)
    ELSE IF kind = "ARRAY"   THEN ArrayStatement(s)
    ELSE IF kind = "SKIPPED" THEN SkippedStatement(s)
    ELSE Simple(kind)
================================================================================
