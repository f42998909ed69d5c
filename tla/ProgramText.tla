------------------------------ MODULE ProgramText ------------------------------
(* What src/limulus/syntax/program.py makes of a whole text before any          *)
(* statement is built: tabs become blanks, the grammar of the regions            *)
(* (grammar/program_regions.lark) separates macro and PROC code from statements, *)
(* DATA and RUN cut the statements into blocks, and a second grammar             *)
(* (grammar/datastep.lark) names the kind of each statement of a block.          *)
(* Both grammars read the text once, left to right, with the longest rules       *)
(* first; a position where no rule fits refuses the whole text.                  *)
(* Left out: line macros other than %let, and the wording of the diagnostics.    *)
EXTENDS StatementShapes

Word(t, i, w)   == At(t, i) = w /\ ~IsWord(At(t, i + 1))
Symbol(t, i, c) == First(t, i, LAMBDA k : t[k] = c)
IsBlank(t)      == \A k \in DOMAIN t : t[k] \in Spaces

(* A literal ends at the next quote; one that never closes ends before the     *)
(* next semicolon.                                                             *)
Unclosed(t, i)  == Symbol(t, i + 1, "'") > Len(t)
QuotedEnd(t, i) == IF Unclosed(t, i) THEN Symbol(t, i + 1, ";") - 1 ELSE Symbol(t, i + 1, "'")

LineCommentAt(t, i, start) == start /\ t[i] = "*" /\ At(t, i + 1) \notin Comments
ChunkEnd(t, i) == First(t, i, LAMBDA k : t[k] \in Spaces \cup {";", "'"}) - 1

(* The last symbol of the macro or PROC code that starts at i, i - 1 if none does. *)
ControlEnd(t, i) ==
    LET outside(k) == Cardinality({j \in i .. (k - 1) : t[j] = "'"}) % 2 = 0
        mend == First(t, i, LAMBDA k : Word(t, k, "%mend") /\ outside(k))
        name == Solid(t, mend + 1)
        tail == IF name > mend + 1 /\ IsName(At(t, name)) THEN NameEnd(t, name) ELSE mend
        stop == First(t, i, LAMBDA k : KeywordAt(t, k, {"run", "quit"}) /\ outside(k))
        line == First(t, i, LAMBDA k : outside(k) /\ \/ t[k] = ";"
                                                     \/ t[k] = "'" /\ Unclosed(t, k))
    IN  IF Word(t, i, "%let") THEN line - 1
        ELSE IF Word(t, i, "%macro") /\ mend <= Len(t) THEN Solid(t, tail + 1) - 1
        ELSE IF Word(t, i, "proc") /\ stop <= Len(t) THEN Solid(t, stop + 1) - 1
        ELSE i - 1

(* initial_analysis_text: the blanks outside literals and comments. *)
RECURSIVE Blanks(_, _, _)
Blanks(t, i, start) ==
    LET control == ControlEnd(t, i)
    IN  IF i > Len(t) THEN {}
        ELSE IF t[i] \in Spaces   THEN {i} \cup Blanks(t, i + 1, start)
        ELSE IF t[i] = "'"        THEN Blanks(t, QuotedEnd(t, i) + 1, FALSE)
        ELSE IF t[i] = ";"        THEN Blanks(t, i + 1, TRUE)
        ELSE IF t[i] \in Comments THEN Blanks(t, i + 1, start)
        ELSE IF LineCommentAt(t, i, start) THEN Blanks(t, Symbol(t, i, ";") + 1, start)
        ELSE IF control >= i
             THEN {k \in i .. control : ~IsLiteral(SubSeq(t, i, k), k - i + 1)}
                      \cup Blanks(t, control + 1, At(t, control + 1) # ";")
        ELSE Blanks(t, ChunkEnd(t, i) + 1, FALSE)
Analysis(t) ==
    LET blank == Blanks(t, 1, TRUE)
    IN  [k \in DOMAIN t |-> IF t[k] = "tab" /\ k \in blank THEN " " ELSE t[k]]

--------------------------------------------------------------------------------
(* The regions of a text.  "first" and "next" are the starts of a statement;   *)
(* behind macro or PROC code only a semicolon may follow; the words data and   *)
(* run, alone, are refused inside a statement.                                 *)
NoRegions == [regions |-> <<>>, phase |-> "first", open |-> FALSE, refused |-> 0]

RECURSIVE RegionsFrom(_, _, _)
RegionsFrom(t, i, got) ==
    LET start   == got.phase \in {"first", "next"}
        control == IF start THEN ControlEnd(t, i) ELSE i - 1
        refuse  == [got EXCEPT !.refused = IF i > Len(t) THEN 1 ELSE i]
        add(kind, to) == IF start THEN Append(got.regions, [kind |-> kind, from |-> i, to |-> to])
                         ELSE [got.regions EXCEPT ![Len(got.regions)].to = to]
        part(kind, to, open) ==
            RegionsFrom(t, to + 1, [got EXCEPT !.regions = add(kind, to), !.phase = "inside",
                                               !.open = @ \/ open])
    IN  IF i > Len(t) THEN IF got.phase = "first" THEN refuse ELSE got
        ELSE IF t[i] \in Spaces \cup Comments THEN RegionsFrom(t, i + 1, got)
        ELSE IF LineCommentAt(t, i, start) /\ Symbol(t, i, ";") <= Len(t)
             THEN RegionsFrom(t, Symbol(t, i, ";") + 1, got)
        ELSE IF t[i] = ";" THEN
             IF got.phase = "first" THEN refuse
             ELSE RegionsFrom(t, i + 1, [got EXCEPT !.phase = "next"])
        ELSE IF got.phase = "skip" THEN refuse
        ELSE IF control >= i
             THEN RegionsFrom(t, control + 1,
                      [got EXCEPT !.regions = add("SKIP", control), !.phase = "skip"])
        ELSE IF Word(t, i, "data") THEN IF start THEN part("DATA", i, FALSE) ELSE refuse
        ELSE IF Word(t, i, "run")  THEN IF start THEN part("RUN", i, FALSE)  ELSE refuse
        ELSE IF t[i] = "'" THEN part("OTHER", QuotedEnd(t, i), Unclosed(t, i))
        ELSE part("OTHER", ChunkEnd(t, i), FALSE)
Regions(t) == RegionsFrom(t, 1, NoRegions)

(* A skip region takes the semicolon behind it along.  A text with an unclosed *)
(* literal has no skip regions: they are statements like the others.           *)
WithSemicolon(t, region) ==
    IF At(t, region.to + 1) = ";" THEN [region EXCEPT !.to = @ + 1] ELSE region
SkipRegions(t, got) ==
    LET skips == SelectSeq(got.regions, LAMBDA r : r.kind = "SKIP")
    IN  IF got.open THEN <<>> ELSE [n \in DOMAIN skips |-> WithSemicolon(t, skips[n])]
StatementRegions(t, got) ==
    IF got.open
    THEN [n \in DOMAIN got.regions |->
             IF got.regions[n].kind = "SKIP"
             THEN [WithSemicolon(t, got.regions[n]) EXCEPT !.kind = "OTHER"] ELSE got.regions[n]]
    ELSE SelectSeq(got.regions, LAMBDA r : r.kind # "SKIP")

ExtendedEnd(t, to) == IF At(t, Solid(t, to + 1)) = ";" THEN Solid(t, to + 1) ELSE to

(* A block starts at the first statement, at DATA and behind RUN. *)
Blocks(t, statements) ==
    LET opens == InOrder({n \in DOMAIN statements :
                     \/ n = 1 \/ statements[n].kind = "DATA" \/ statements[n - 1].kind = "RUN"})
        lastOf(k) == IF k = Len(opens) THEN Len(statements) ELSE opens[k + 1] - 1
    IN  [k \in DOMAIN opens |->
            [from |-> statements[opens[k]].from,
             to   |-> ExtendedEnd(t, statements[lastOf(k)].to),
             statements |-> SubSeq(statements, opens[k], lastOf(k)),
             closed |-> statements[lastOf(k)].kind = "RUN"]]

(* Skipped code is blanked, line ends and length stay. *)
SkipMasked(t, skips) ==
    [k \in DOMAIN t |-> IF t[k] # "nl" /\ \E n \in DOMAIN skips : k \in skips[n].from .. skips[n].to
                        THEN " " ELSE t[k]]

(* A DATA, SET or MERGE statement with WHERE= that leaves a parenthesis open. *)
IncompleteWhere(t) ==
    LET cuts == {k \in DOMAIN t : t[k] = ";" /\ ~IsLiteral(t, k)}
        piece(k) == Strip(SubSeq(t, k + 1, First(t, k + 1, LAMBDA j : j \in cuts) - 1))
    IN  \E k \in cuts \cup {0} :
            LET s == piece(k)
            IN  /\ At(s, 1) \in {"data", "set", "merge"} /\ ~IsWord(At(s, 2))
                /\ \E j \in DOMAIN s : KeywordAt(s, j, {"where"}) /\ At(s, Solid(s, j + 1)) = "="
                /\ Depth(s, 1, Len(s)) > 0

--------------------------------------------------------------------------------
(* The classification of a block.  Before it the parentheses inside an option  *)
(* group are blanked; a group belongs to a statement whose first word is       *)
(* exactly data, set or merge.                                                 *)
RECURSIVE OptionGroups(_, _, _)
OptionGroups(b, i, word) ==
    LET close   == MatchingParenthesis(b, i)
        before  == Strip(SubSeq(b, 1, i - 1))
        named   == \E j \in DOMAIN before : IsName(before[j]) /\ NameEnd(before, j) = Len(before)
        grouped == b[i] = "(" /\ word \in {"data", "set", "merge"} /\ close <= Len(b) /\ named
    IN  IF i > Len(b) THEN {}
        ELSE IF b[i] = "'" \/ IsLiteral(b, i) THEN OptionGroups(b, i + 1, word)
        ELSE IF b[i] = ";" THEN OptionGroups(b, i + 1, "")
        ELSE IF word = "" /\ b[i] \in Spaces THEN OptionGroups(b, i + 1, "")
        ELSE IF word = "" THEN
             IF IsName(b[i]) /\ NameEnd(b, i) = i THEN OptionGroups(b, i + 1, b[i])
             ELSE OptionGroups(b, i + 1, "other")
        ELSE IF grouped THEN {<<i, close>>} \cup OptionGroups(b, close + 1, word)
        ELSE OptionGroups(b, i + 1, word)
(* mutant: parentheses inside option groups stay *)
OptionUnmasked(b) == b
OptionMasked(b) ==
    LET groups == OptionGroups(b, 1, "")
    IN  [k \in DOMAIN b |-> IF b[k] \in {"(", ")"} /\ \E g \in groups : g[1] < k /\ k < g[2]
                            THEN " " ELSE b[k]]

(* The end of the whitespace and comments at i; a star comments its line out. *)
RECURSIVE Gap(_, _)
Gap(b, i) ==
    IF At(b, i) \in Spaces \cup Comments THEN Gap(b, i + 1)
    ELSE IF At(b, i) = "*" /\ At(b, i + 1) \notin Comments /\ Symbol(b, i, ";") <= Len(b)
         THEN Gap(b, Symbol(b, i, ";") + 1)
    ELSE i

PieceEnd(b, i) == Symbol(b, i, ";") - 1
GuardWords == {"if", "else", "where", "data", "set", "merge", "by", "output", "drop", "keep",
               "delete", "rename", "retain", "array", "stop", "do", "end", "run", "length",
               "format", "label"}
(* mutant: the guard of SUM and assignment does not look past whitespace *)
GuardedHere(b, i) == At(b, i) \in GuardWords /\ ~IsWord(At(b, i + 1))
Guarded(b, i) == At(b, Solid(b, i)) \in GuardWords /\ ~IsWord(At(b, Solid(b, i) + 1))
SumAt(b, i) ==
    LET plus == Solid(b, NameEnd(b, i) + 1)
    IN  ~Guarded(b, i) /\ IsName(At(b, i)) /\ At(b, plus) = "+" /\ PieceEnd(b, i) > plus
AssignAt(b, i) ==
    ~Guarded(b, i) /\ \E k \in i .. PieceEnd(b, i) : b[k] \in EqualsIn

(* The kinds whose keyword takes the rest of the statement, glued or not. *)
TextKinds == [where |-> "WHERE", by |-> "BY", output |-> "OUTPUT", drop |-> "DROP",
              keep |-> "KEEP", rename |-> "RENAME", retain |-> "RETAIN", array |-> "ARRAY",
              label |-> "LABEL", length |-> "SKIPPED", format |-> "SKIPPED"]
WordKinds == [delete |-> "DELETE", stop |-> "STOP", end |-> "END", run |-> "RUN"]
ElseIfAt(b, i) == /\ Word(b, Solid(b, i + 1), "if")
                  /\ \E k \in (Solid(b, i + 1) + 1) .. PieceEnd(b, i) : KeywordAt(b, k, {"then"})

(* The end of the references of a DATA, SET or MERGE statement whose keyword   *)
(* or last reference ends before n; 0 when the grammar refuses them.           *)
SettingEnd(b, n, eq) ==         \* of INDSNAME= or END= at n, 0 when n is a reference
    IF /\ At(b, n) \in {"indsname", "end"} /\ NameEnd(b, n) = n
       /\ At(b, eq) = "=" /\ IsName(At(b, Solid(b, eq + 1)))
    THEN NameEnd(b, Solid(b, eq + 1)) ELSE 0
GroupEnd(b, option, equals, close) ==
    IF /\ IsName(At(b, option)) /\ At(b, equals) = "="
       /\ close <= Len(b) /\ Solid(b, equals + 1) < close
    THEN close ELSE 0
GroupAt(b, option, equals) == GroupEnd(b, option, equals, Symbol(b, equals, ")"))
ReferenceEnd(b, n, after) ==
    IF ~IsName(At(b, n)) THEN 0
    ELSE IF At(b, after) # "(" THEN NameEnd(b, n)
    ELSE GroupAt(b, Gap(b, after + 1), Solid(b, NameEnd(b, Gap(b, after + 1)) + 1))
ItemEnd(b, n, kind, setting) ==
    IF kind # "DATA" /\ setting # 0 THEN setting
    ELSE ReferenceEnd(b, n, Gap(b, NameEnd(b, n) + 1))

RECURSIVE ReferencesEnd(_, _, _, _)
ReferencesEnd(b, n, kind, found) ==     \* n is where the next item stands
    LET end == ItemEnd(b, n, kind, SettingEnd(b, n, Solid(b, NameEnd(b, n) + 1)))
    IN  IF At(b, n) \in {";", "eof"} THEN found
        ELSE IF end = 0 THEN 0
        ELSE ReferencesEnd(b, Gap(b, end + 1), kind, end)

(* The kind of the statement at i, where it ends and where the body of a       *)
(* dataset statement begins; an end of 0 refuses the text.                     *)
StatementAt(b, i) ==
    LET w == At(b, i)
        piece(kind) == [kind |-> kind, from |-> i, to |-> PieceEnd(b, i), body |-> 2]
        references(kind) == [piece(kind) EXCEPT !.to = ReferencesEnd(b, Gap(b, i + 1), kind, 0)]
    IN  IF SumAt(b, i) THEN piece("SUM")
        ELSE IF AssignAt(b, i) THEN piece("ASSIGN")
        ELSE IF Word(b, i, "if") THEN piece("IF")
        ELSE IF w = "else" THEN piece(IF ElseIfAt(b, i) THEN "ELSE IF" ELSE "ELSE")
        ELSE IF w \in DOMAIN TextKinds THEN piece(TextKinds[w])
        ELSE IF Word(b, i, "call") THEN piece("SKIPPED")
        ELSE IF w \in {"data", "set", "merge"} THEN references(DatasetKinds[w])
        ELSE IF w = "do" /\ At(b, Gap(b, i + 1)) \notin {";", "eof"} THEN piece("DO")
        ELSE IF w \in DOMAIN WordKinds THEN [piece(WordKinds[w]) EXCEPT !.to = i]
        ELSE [piece("NONE") EXCEPT !.to = 0]

(* The statements of a block: one, then one behind each semicolon; where the   *)
(* grammar has nothing to name it skips whitespace and comments.               *)
RefusedSegments(got) == [got EXCEPT !.refused = TRUE]

RECURSIVE SegmentsFrom(_, _, _), BehindSegment(_, _, _)
SegmentsFrom(b, i, got) ==
    LET s == StatementAt(b, i)
    IN  IF i > Len(b) THEN IF got.segments = <<>> THEN RefusedSegments(got) ELSE got
        ELSE IF s.to # 0
             THEN BehindSegment(b, Gap(b, s.to + 1), [got EXCEPT !.segments = Append(@, s)])
        ELSE IF b[i] \in Spaces \cup Comments THEN SegmentsFrom(b, i + 1, got)
        ELSE IF LineCommentAt(b, i, TRUE) /\ Symbol(b, i, ";") <= Len(b)
             THEN SegmentsFrom(b, Symbol(b, i, ";") + 1, got)
        ELSE RefusedSegments(got)
BehindSegment(b, next, got) ==
    IF next > Len(b) THEN got
    ELSE IF b[next] = ";" THEN SegmentsFrom(b, next + 1, got) ELSE RefusedSegments(got)
Segments(b) == SegmentsFrom(b, 1, [segments |-> <<>>, refused |-> FALSE])

(* The statements of one block.  A segment that agrees with a region of the    *)
(* block gives it its kind; when they disagree, or a literal is open, the      *)
(* segments are the statements.                                                *)
Shifted(segments, base) ==
    [n \in DOMAIN segments |-> [segments[n] EXCEPT !.from = @ + base, !.to = @ + base]]
Agree(segment, region) ==
    /\ Len(segment) = Len(region)
    /\ \A n \in DOMAIN region : region[n].from >= segment[n].from /\ region[n].to <= segment[n].to
Reconciled(segment, region, open) ==
    IF open \/ ~Agree(segment, region) THEN segment
    ELSE [n \in DOMAIN region |->
             [segment[n] EXCEPT !.from = region[n].from, !.to = region[n].to]]
WithRegions(got, block, open) ==
    [refused    |-> got.refused,
     statements |-> Reconciled(Shifted(got.segments, block.from - 1), block.statements, open)]
ClassifyBlock(masked, block, open) ==
    WithRegions(Segments(OptionMasked(Slice(masked, block.from, block.to))), block, open)
================================================================================
