--------------------------- MODULE MCProgramFrontend ---------------------------
(* Small programs for ProgramFrontend.  A written statement is a pair: its text *)
(* and what the language reference says it means; programs are made of written *)
(* statements, so what the frontend returns for a text can be compared with    *)
(* the meaning it was written from.                                            *)
EXTENDS ProgramFrontend

MCRequests == {"r1", "r2"}

Written(t, m) == [text |-> t, means |-> m]
Typed(kind)   == [kind |-> kind, form |-> "typed"]
Spaced(parts) == FlattenSeq([k \in DOMAIN parts |->
                                IF k = 1 THEN parts[k] ELSE <<" ">> \o parts[k]])

(* Names that begin with a keyword are names. *)
Names  == {<<"a">>, <<"if", "a">>, <<"data", "a">>, <<"run", "a">>, <<"do", "a">>, <<"keep", "a">>}
Values == {<<"1">>, <<"a", " ", "+", " ", "1">>, <<"a", "=", "b">>, <<"a", "(", "b", "[", "1", "]", ")">>,
           <<"'", "x", " ", "run", "'">>}

Variable(n) == [name |-> n, delimiter |-> "", index |-> <<>>]
Assign(n, v) == Written(Spaced(<<n, <<"=">>, v>>),
                        Typed("ASSIGN") @@ [target |-> Variable(n), value |-> v])
Sum(n, v)    == Written(Spaced(<<n, <<"+">>, v>>), Typed("SUM") @@ [target |-> n, value |-> v])
List(word, kind, names) ==
    Written(Spaced(<<<<word>>>> \o names), Typed(kind) @@ [names |-> names])

Condition == {<<"a">>, <<"a", " ", "=", " ", "'", "then", "'">>, <<"(", "a", "=", "1", ")", " ", "or", " ", "b">>}
Actions ==
    {Assign(<<"a">>, <<"1">>), Assign(<<"b">>, <<"'", "then", "'">>),
     Written(<<"delete">>, Typed("DELETE")), Written(<<"stop">>, Typed("STOP")),
     Written(<<"output">>, Typed("OUTPUT") @@ [refs |-> <<>>, settings |-> NothingScanned.settings]),
     Written(<<"do">>, BareDo)}
Branch(words, kind, c, action) ==
    Written(Spaced(words \o <<c, <<"then">>, action.text>>),
            [kind |-> kind, form |-> "branch", condition |-> c, action |-> action.means])

Ref(name, set(_)) == [name |-> name, options |-> set(NoOptions)]
Plain(name) == Ref(name, LAMBDA o : o)
Source(word, kind, texts, refs, end) ==
    Written(Spaced(<<<<word>>>> \o texts), Typed(kind) @@
            [refs |-> refs, settings |-> [indsname |-> <<>>, end |-> end]])

(* The statements of the language reference, each kind in a few spellings. *)
Statements1 ==
    {Assign(n, <<"1">>) : n \in Names} \cup {Assign(<<"b">>, v) : v \in Values}
    \cup {Sum(n, v) : n \in Names, v \in {<<"1">>, <<"b">>}}
    \cup {List("keep", "KEEP", <<n>>) : n \in Names}
    \cup {List("drop", "DROP", <<<<"b">>, n>>) : n \in Names}
    \cup {List("by", "BY", <<<<"a">>>>), List("retain", "RETAIN", <<<<"a">>, <<"1">>>>)}
    \cup {Written(Spaced(<<<<"if">>, c>>), [kind |-> "IF", form |-> "subset", condition |-> c,
                                            action |-> NoAction]) : c \in Condition}
    \cup {Branch(<<<<"if">>>>, "IF", c, a) : c \in Condition, a \in Actions}
    \cup {Branch(<<<<"else">>, <<"if">>>>, "ELSE IF", <<"a">>, a) : a \in Actions}
    \cup {Written(Spaced(<<<<"else">>, a.text>>), Typed("ELSE") @@ [action |-> a.means]) : a \in Actions}
    \cup {Written(<<"do", " ", "a", " ", "=", " ", "1", " ", "to", " ", "b">>,
                  [kind |-> "DO", form |-> "loop", variable |-> <<"a">>, start |-> <<"1">>, end |-> <<"b">>]),
          Written(<<"end">>, Typed("END")), Written(<<"stop">>, Typed("STOP")),
          Written(<<"length", " ", "a">>, Typed("SKIPPED")),
          Written(<<"call", " ", "a", "(", "b", ")">>, Typed("SKIPPED")),
          Written(<<"where", " ", "a", " ", "=", " ", "1">>,
                  Typed("WHERE") @@ [condition |-> <<"a", " ", "=", " ", "1">>]),
          Written(<<"a", "[", "1", "]", " ", "=", " ", "b">>, Typed("ASSIGN") @@
                  [target |-> [name |-> <<"a">>, delimiter |-> "[", index |-> <<"1">>], value |-> <<"b">>]),
          Written(<<"array", " ", "a", "[", "2", "]", " ", "b", " ", "run", "a">>, Typed("ARRAY") @@
                  [name |-> <<"a">>, size |-> "2", character |-> FALSE,
                   variables |-> <<<<"b">>, <<"run", "a">>>>]),
          Written(<<"rename", " ", "a", "=", "b">>,
                  Typed("RENAME") @@ [pairs |-> <<[name |-> <<"a">>, value |-> <<"b">>]>>]),
          Written(<<"label", " ", "a", "=", "'", "x", "'", " ", "b", "=", "'", "y", "'", " ", "a", "=", "'", "b", "'">>,
                  Typed("LABEL") @@ [labels |-> <<[name |-> <<"a">>, value |-> <<"b">>],
                                                  [name |-> <<"b">>, value |-> <<"y">>]>>])}
    \cup {Source("set", "SET", <<<<"a">>, <<"run", "a">>>>, <<Plain(<<"a">>), Plain(<<"run", "a">>)>>, <<>>),
          Source("merge", "MERGE", <<<<"a", "(", "in", "=", "b", " ", "keep", "=", "a", " ", "b", ")">>, <<"b">>>>,
                 <<Ref(<<"a">>, LAMBDA o : [o EXCEPT !.in = <<"b">>, !.keep = <<<<"a">>, <<"b">>>>]),
                   Plain(<<"b">>)>>, <<>>),
          Source("set", "SET", <<<<"a", "(", "where", "=", "(", "b", "=", "'", ";", "'", ")", " ",
                                   "rename", "=", "(", "a", "=", "b", ")", ")">>, <<"end", "=", "b">>>>,
                 <<Ref(<<"a">>, LAMBDA o : [o EXCEPT !.where = <<"b", "=", "'", ";", "'">>,
                                                     !.rename = <<[name |-> <<"a">>, value |-> <<"b">>]>>])>>,
                 <<"b">>),
          Source("output", "OUTPUT", <<<<"a">>, <<"b">>>>, <<Plain(<<"a">>), Plain(<<"b">>)>>, <<>>)}

(* Statements with a fault: the first three stop the program. *)
Eager == {<<"rename", " ", "a">>, <<"label", " ", "a", "=", "b">>, <<"set", " ", "a", "(", "a", "=", "1", ")">>}
Lazy  == {<<"do", " ", "a", " ", "=", " ", "1">>, <<"b", " ", "=">>}

(* Pieces that no reference explains, spelled as the grammars allow. *)
Odd == {<<"keep", "a">>, <<"keep", "nl", "a">>, <<"drop">>, <<"where", "a">>, <<"output", "b", " ", "a">>,
        <<"set", "a">>, <<"data", "b", " ", "a">>, <<"else", "if", " ", "a", " ", "then", " ", "stop">>,
        <<"else", "a">>, <<"else">>, <<"if", " ", "a", " ", "then">>, <<"if", "(", "a", ")", "then", " ", "do">>,
        <<"if", " ", "a", " ", "then", " ", "b", " ", "=", " ", "a", "+", "1">>, <<"do", "b">>,
        <<"a", "+", "b", "+", "1">>,
        <<"'", "a", "'", "=", "1">>, <<"rename", "a", "=", "b">>, <<"label">>,
        <<"set", " ", "a", "(", "where", "=", "(", "b", "=", "1", ")", ")">>}

--------------------------------------------------------------------------------
(* Programs: blocks of statements, their separators, and the skipped code      *)
(* between them.                                                               *)
Between == {<<";">>, <<";", " ">>, <<" ", ";", "nl">>}
Join(pieces, sep) == FlattenSeq([k \in DOMAIN pieces |->
                                    IF k = 1 THEN pieces[k] ELSE sep \o pieces[k]])
Data == Written(<<"data", " ", "b">>,
                Typed("DATA") @@ [refs |-> <<Plain(<<"b">>)>>, settings |-> NothingScanned.settings])
Run  == Written(<<"run">>, Typed("RUN"))
Texts(ss)    == [k \in DOMAIN ss |-> ss[k].text]
Meanings(ss) == [k \in DOMAIN ss |-> ss[k].means]
Tabbed(t) == [k \in DOMAIN t |-> IF t[k] = " " /\ ~IsLiteral(t, k) THEN "tab" ELSE t[k]]
Program(blocks, sep) == Written(Join(Texts(FlattenSeq(blocks)), sep),
                                [k \in DOMAIN blocks |-> Meanings(blocks[k])])

OneOfAKind == {w \in Statements1 :
                   \/ w.text \in {<<"a", " ", "=", " ", "1">>, <<"b", " ", "=", " ">> \o <<"'", "x", " ", "run", "'">>,
                                  <<"drop", " ", "b", " ", "run", "a">>, <<"do", "a", " ", "+", " ", "b">>, <<"end">>}
                   \/ w.means.kind \in {"SET", "MERGE", "ARRAY", "LABEL", "RENAME", "DO"}}
Skips == {<<"%let", " ", "a", "=", "'", ";", "'">>, <<"%macro", " ", "a", ";", "data", " ", "a", ";", "%mend", " ", "a">>,
          <<"proc", " ", "a", ";", "set", " ", "a", ";", "run">>}

Singles == {Program(<<<<Data, w, Run>>>>, sep) : w \in Statements1, sep \in Between}
             \cup {Program(<<<<Data, w>>, <<Data, Run>>>>, <<";", " ">>) : w \in Statements1}
Pairs   == {Program(<<<<Data, v, w, Run>>, <<Data, w>>>>, <<";", " ">>) : v, w \in OneOfAKind}
Skipping ==
    {[text  |-> Join(<<skip, Data.text, skip, w.text, skip, Run.text, skip>>, <<";", " ">>),
      means |-> <<Meanings(<<Data, w, Run>>)>>] : skip \in Skips, w \in OneOfAKind}
TabbedOnes == {[w EXCEPT !.text = Tabbed(w.text)] :
                   w \in {Program(<<<<Data, w, Run>>>>, <<";", " ">>) : w \in Statements1}}
AllWritten == Singles \cup Pairs \cup Skipping \cup TabbedOnes

(* The records of a set with this text, found among those of its length. *)
ByLength(S) == [n \in {Len(w.text) : w \in S} |-> {w \in S : Len(w.text) = n}]
WrittenByLength == ByLength(AllWritten)
WrittenTexts    == {w.text : w \in AllWritten}
MeaningOf(t)    == (CHOOSE w \in WrittenByLength[Len(t)] : w.text = t).means

(* A program with faults, and which of its statements stop it. *)
Faulty == LET parts == Eager \cup Lazy
          IN  {<<Data.text, u, v, Run.text, w>> : u, v, w \in parts}
                \cup {<<Data.text, u, v, Data.text, w>> : u, v, w \in parts}
OddOnes == {<<Data.text, v, w, Run.text>> : v, w \in Odd}
Pieced   == {[text |-> Join(p, <<";", " ">>), pieces |-> p] : p \in Faulty \cup OddOnes}
PiecedByLength == ByLength(Pieced)
PiecedTexts    == {p.text : p \in Pieced}
PiecesOf(t)    == (CHOOSE p \in PiecedByLength[Len(t)] : p.text = t).pieces

(* Texts that leave something behind in the frontend, or that the region parse, *)
(* the test of WHERE= or the classification stops.                             *)
Blank   == <<" ">>
Open    == Join(<<<<"data", " ", "a">>, <<"%let", " ", "b", " ", "=", " ", "1">>,
                  <<"a", " ", "=", " ", "'", "b">>, <<"run">>>>, <<";", " ">>)
Stopping == {Blank, Open, <<"keep", " ", "data">>, <<"/*c*/">>, <<"data", " ", "a", ";", ";", " ", "run">>,
             <<"set", " ", "a", "(", "where", "=", "(", "b", "=", "1", ")">>, <<"a", "=", "'", "b", ";", "'">>,
             Join(<<<<"*", " ", "c">>, <<"data", " ", "a">>, <<"tab", "set", "tab", "a", " ", "b", "(", "keep">>>>, <<";">>)}
Pair(t, u) == [r \in MCRequests |-> IF r = "r1" THEN t ELSE u]
MCBatches ==
    {Pair(t, Open) : t \in WrittenTexts \cup PiecedTexts}
    \cup {Pair(w.text, Blank) : w \in Skipping}
    \cup {Pair(t, u) : t, u \in Stopping}

(* Two requests that share the frontend. *)
SharedBatches == {Pair(Program(<<<<Data, v, Run>>>>, <<";", " ">>).text, Program(<<<<Data, w>>>>, <<";", " ">>).text) :
                      v, w \in {Assign(<<"a">>, <<"1">>), List("keep", "KEEP", <<<<"a">>>>)}}

--------------------------------------------------------------------------------
(* What a call with a frontend of its own returns, one stage after the other. *)
FinishAlone(t, got, statements, built, skips) ==
    IF \E n \in DOMAIN built : built[n].form = "raise" THEN Raised
    ELSE FinishedResult(t, got, statements, built, skips)
BuildAlone(t, seen, got, skips, statements) ==
    FinishAlone(t, got, statements,
                [n \in DOMAIN statements |-> BuiltStatement(seen, statements[n])], skips)
ClassifyAlone(t, seen, got, skips, blocks, classified) ==
    IF RefusedBlocks(classified) # <<>>
    THEN RefusedBlocksResult(blocks, RefusedBlocks(classified), skips)
    ELSE BuildAlone(t, seen, got, skips, Statements(classified))
MaskAlone(t, seen, got, skips, masked, blocks) ==
    IF IncompleteWhere(masked) THEN Stopped(<<Stop("where", 0)>>, blocks, skips)
    ELSE ClassifyAlone(t, seen, got, skips, blocks, Classified(masked, blocks, got.open))
FrameAlone(t, seen, got, skips) ==
    MaskAlone(t, seen, got, skips, SkipMasked(seen, skips), RegionBlocks(t, got))
RegionsAlone(t, seen, got) ==
    IF got.refused # 0 THEN RefusedResult(t, got.refused)
    ELSE FrameAlone(t, seen, got, SkipRegions(t, got))
ReadAlone(t, seen) == RegionsAlone(t, seen, IF IsBlank(t) THEN NoRegions ELSE Regions(seen))
Parse(t) == ReadAlone(t, Analysis(t))

(* A frontend that served other requests before, whatever they left in its     *)
(* fields (an analysis text, an open literal, a place of failure), returns what *)
(* a new frontend would.                                                        *)
ReuseIsClean == \A r \in Requests : pc[r] = "done" => result[r] = Parse(text[r])

ServedFirst(r) == pc[r] = "done" /\ \A q \in Requests \ {r} : pc[q] = "idle"

(* A list without the places of its names. *)
Sense(s) == IF s.kind \in Range(NameListKinds) /\ s.form = "typed"
            THEN [s EXCEPT !.names = NativeNames(s)] ELSE s
SenseOf(blocks) == [k \in DOMAIN blocks |-> [n \in DOMAIN blocks[k] |-> Sense(blocks[k][n])]]

(* A program written from statements of the language reference (docs/syntax.md) *)
(* is read as these statements, in blocks as written, whatever separates them:  *)
(* the region grammar, the classification grammar and the builders, which cut   *)
(* the same text independently, agree on every boundary and every kind.         *)
ReadsWhatWasWritten ==
    \A r \in Requests : ServedFirst(r) /\ text[r] \in WrittenTexts =>
        /\ result[r].form = "program"
        /\ SenseOf(result[r].blocks) = MeaningOf(text[r])

ParseEach(pieces) == [n \in DOMAIN pieces |-> Parse(pieces[n])]
TheSame(blocks, alone) ==
    (\A n \in DOMAIN alone : alone[n].form = "program") =>
        FlattenSeq(SenseOf(blocks)) = FlattenSeq([n \in DOMAIN alone |-> SenseOf(alone[n].blocks)[1]])

(* The neighbours of a statement do not change it: a program whose pieces each  *)
(* parse alone is read as the statements the pieces are alone, however oddly    *)
(* they are spelled.  And no builder is handed a text it does not take for its  *)
(* kind: the classification grammar and the prefix checks of the builders,      *)
(* written twice, agree, so no call leaves with the ValueError of a builder.    *)
StatementMeansItself ==
  /\ \A r \in Requests : result[r].form # "raised"
  /\ \A r \in Requests : ServedFirst(r) /\ text[r] \in PiecedTexts =>
        TheSame(result[r].blocks, ParseEach(PiecesOf(text[r])))

(* A program with faulty statements reports each that cannot be delayed, in    *)
(* the order of the text, and the block its diagnostic displays contains it;   *)
(* faults that may wait for a row stop nothing.                                *)
EveryFaultIsReported ==
    \A r \in Requests : ServedFirst(r) /\ text[r] \in PiecedTexts =>
        LET pieces == PiecesOf(text[r])
            faulty == SelectSeq(pieces, LAMBDA p : p \in Eager)
            stops  == result[r].stops
            shown(k) == DisplayOf(text[r], result[r], stops[k])
        IN  /\ (faulty # <<>>) <=> (result[r].form = "stopped")
            /\ Len(stops) = Len(faulty)
            /\ \A k \in DOMAIN stops :
                  /\ SubSeq(text[r], stops[k].at, stops[k].at + Len(faulty[k]) - 1) = faulty[k]
                  /\ \E j \in DOMAIN shown(k) :
                        SubSeq(shown(k), j, j + Len(faulty[k]) - 1) = faulty[k]

(* KEEP, DROP, BY and RETAIN keep one list of names for two readers: what the   *)
(* planner takes from it (name_list_consumer_views) are the words behind the    *)
(* keyword, also when the keyword is glued to the first of them.                *)
ListsReadAlike ==
    \A r \in Requests : \A n \in DOMAIN work[r].built :
        LET s == work[r].built[n]
            t == work[r].statements[n]
        IN  s.kind \in Range(NameListKinds) =>
                PlanningNames(s) = SpaceTokens(Strip(SubSeq(text[r], t.from + 1, t.to)))
================================================================================
