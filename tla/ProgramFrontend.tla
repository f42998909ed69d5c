--------------------------- MODULE ProgramFrontend ----------------------------
(* LarkProgramFrontend (src/limulus/syntax/program.py): one object of the        *)
(* executor (execution/coordinator.py:105) that every request of a session asks  *)
(* for the program of its text.  The frontend keeps four fields between the      *)
(* calls: the document of the last request, the analysis text computed for it,   *)
(* and two facts of the last region parse.  A request reads the analysis text    *)
(* before each of its steps, through the same check of the document, so this     *)
(* module lets requests interleave between the accesses of these fields; Serial  *)
(* makes each request wait for the one before it.                                *)
(* A statement is built from one reading of the analysis text; the code reads it *)
(* again for the action of an IF or ELSE.                                        *)
EXTENDS ProgramText

CONSTANTS Requests,   \* the requests of one session
          Batches,    \* the texts they may bring: functions from Requests
          Serial      \* whether a request waits until the one before it is done

NoRequest == "none"

VARIABLES text,       \* the text of each request
          pc,         \* the next step of each request
          work,       \* what each request has found so far (locals of the call)
          result,     \* what its call returned
          document,   \* _analysis_document: the request whose text was analysed
          buffer,     \* _analysis_buffer
          openQuotes, \* _region_open_quotes
          failAt      \* _region_fail_position, 0 for None

fields == <<document, buffer, openQuotes, failAt>>
vars   == <<text, pc, work, result, document, buffer, openQuotes, failAt>>

--------------------------------------------------------------------------------
(* The steps between two readings, as functions of what was read. *)
Stop(stage, at) == [stage |-> stage, at |-> at]     \* at: a place in the text, 0 for none
NoResult == [form |-> "none", blocks |-> <<>>, stops |-> <<>>, spans |-> <<>>, skips |-> <<>>]
Raised   == [NoResult EXCEPT !.form = "raised"]

(* The spans are the blocks of the region parse, also when the statements have *)
(* made other blocks.                                                          *)
Span(block) == [from |-> block.from, to |-> block.to, closed |-> block.closed]
Stopped(stops, blocks, skips) ==
    [NoResult EXCEPT !.form = "stopped", !.stops = stops, !.skips = skips,
                     !.spans = [k \in DOMAIN blocks |-> Span(blocks[k])]]

RefusedResult(t, position) ==
    Stopped(<<IF IncompleteWhere(t) THEN Stop("where", 0) ELSE Stop("regions", position)>>,
            <<>>, <<>>)
RegionBlocks(t, got) == Blocks(t, StatementRegions(t, got))

(* The statements of all blocks, in order; a refused block stops the program   *)
(* and the blocks behind it are classified all the same.                       *)
Classified(masked, blocks, open) ==
    [k \in DOMAIN blocks |-> ClassifyBlock(masked, blocks[k], open)]
RefusedBlocks(classified) ==
    SelectSeq([k \in DOMAIN classified |-> k], LAMBDA k : classified[k].refused)
RefusedBlocksResult(blocks, refused, skips) ==
    Stopped([k \in DOMAIN refused |-> Stop("classification", blocks[refused[k]].from)], blocks, skips)
Statements(classified) ==
    FlattenSeq([k \in DOMAIN classified |-> classified[k].statements])

BuiltStatement(seen, s) == DispatchStatement(s.kind, Slice(seen, s.from, s.to), s.body)

(* The kinds whose faults stop the program; all of them are reported. *)
(* mutant: a fault of LABEL waits for a row, like the faults of other statements *)
DatasetStopKinds == {"DATA", "SET", "MERGE", "RENAME"}
StopKinds == {"DATA", "SET", "MERGE", "LABEL", "RENAME"}
FaultStops(statements, built) ==
    LET faulted == SelectSeq([n \in DOMAIN built |-> n],
                       LAMBDA n : built[n].form = "fault" /\ statements[n].kind \in StopKinds)
    IN  [k \in DOMAIN faulted |-> Stop("statement", statements[faulted[k]].from)]

FinishedResult(t, regions, statements, built, skips) ==
    LET blocks == Blocks(t, statements)
        before(k) == Len(FlattenSeq([j \in 1 .. (k - 1) |-> blocks[j].statements]))
        builtOf(k) == SubSeq(built, before(k) + 1, before(k) + Len(blocks[k].statements))
    IN  IF FaultStops(statements, built) # <<>>
        THEN Stopped(FaultStops(statements, built), RegionBlocks(t, regions), skips)
        ELSE [NoResult EXCEPT !.form = "program", !.skips = skips,
                              !.blocks = [k \in DOMAIN blocks |-> builtOf(k)],
                              !.spans  = [k \in DOMAIN blocks |-> Span(blocks[k])]]

--------------------------------------------------------------------------------
(* What the diagnostic of a stop shows of the text: the block it stands in. A  *)
(* block without RUN is shown up to the next block, or to the first skipped    *)
(* code behind its start.                                                      *)
DisplaySlices(t, spans, skips) ==
    LET frontier(k) == spans[k + 1].from
        cuts(k) == {skips[n].from : n \in DOMAIN skips} \cap (spans[k].from + 1) .. (frontier(k) - 1)
        end(k)  == IF spans[k].closed \/ k = Len(spans) THEN spans[k].to
                   ELSE IF cuts(k) = {} THEN frontier(k) - 1 ELSE Min(cuts(k)) - 1
    IN  SelectSeq([k \in DOMAIN spans |-> Strip(SubSeq(t, spans[k].from, end(k)))],
                  LAMBDA display : display # <<>>)
DisplayOf(t, what, stop) ==
    LET displays == DisplaySlices(t, what.spans, what.skips)
        inside == {k \in DOMAIN what.spans : stop.at \in what.spans[k].from .. what.spans[k].to}
        before == {k \in DOMAIN what.spans : what.spans[k].from <= stop.at}
    IN  IF displays = <<>> \/ Len(displays) # Len(what.spans) THEN t
        ELSE displays[IF inside # {} THEN Min(inside)
                      ELSE IF before # {} THEN Max(before) ELSE 1]

--------------------------------------------------------------------------------
NoWork == [goal |-> "none", seen |-> <<>>, regions |-> NoRegions, open |-> FALSE,
           skips |-> <<>>, masked |-> <<>>, statements |-> <<>>, built |-> <<>>]

Init ==
    /\ text \in Batches
    /\ pc = [r \in Requests |-> "idle"]
    /\ work = [r \in Requests |-> NoWork]
    /\ result = [r \in Requests |-> NoResult]
    /\ document = NoRequest /\ buffer = <<>> /\ openQuotes = FALSE /\ failAt = 0

Busy(r) == pc[r] \notin {"idle", "done"}
GoTo(r, step) == pc' = [pc EXCEPT ![r] = step]
Finish(r, what) == GoTo(r, "done") /\ result' = [result EXCEPT ![r] = what]

(* _parse_program_text and extract_program_regions up to the first reading. *)
Begin(r) ==
    /\ pc[r] = "idle" /\ (Serial => ~\E q \in Requests : Busy(q))
    /\ failAt' = 0 /\ openQuotes' = FALSE
    /\ IF IsBlank(text[r]) THEN GoTo(r, "frames") /\ UNCHANGED work
       ELSE /\ GoTo(r, "check")
            /\ work' = [work EXCEPT ![r].goal = "regions"]
    /\ UNCHANGED <<text, result, document, buffer>>

(* _analysis_text: the document is compared, then the buffer is filled, then   *)
(* the buffer is read.                                                         *)
(* mutant: only the first document fills the buffer *)
CheckOnce(r) ==
    /\ pc[r] = "check"
    /\ IF document # NoRequest THEN GoTo(r, "read") /\ UNCHANGED document
       ELSE GoTo(r, "fill") /\ document' = r
    /\ UNCHANGED <<text, work, result, buffer, openQuotes, failAt>>
Check(r) ==
    /\ pc[r] = "check"
    /\ IF document = r THEN GoTo(r, "read") /\ UNCHANGED document
       ELSE GoTo(r, "fill") /\ document' = r
    /\ UNCHANGED <<text, work, result, buffer, openQuotes, failAt>>

Fill(r) ==
    /\ pc[r] = "fill" /\ GoTo(r, "read")
    /\ buffer' = Analysis(text[r])
    /\ UNCHANGED <<text, work, result, document, openQuotes, failAt>>

Read(r) ==
    /\ pc[r] = "read" /\ GoTo(r, work[r].goal)
    /\ work' = [work EXCEPT ![r].seen = buffer]
    /\ UNCHANGED <<text, result, document, buffer, openQuotes, failAt>>

(* The region parse. *)
TakeRegions(r, got) ==
    IF got.refused # 0
    THEN GoTo(r, "refused") /\ failAt' = got.refused /\ UNCHANGED <<work, openQuotes>>
    ELSE /\ GoTo(r, "frames") /\ openQuotes' = got.open /\ UNCHANGED failAt
         /\ work' = [work EXCEPT ![r].regions = got]
FindRegions(r) ==
    /\ pc[r] = "regions"
    /\ TakeRegions(r, Regions(work[r].seen))
    /\ UNCHANGED <<text, result, document, buffer>>

Refuse(r) ==
    /\ pc[r] = "refused"
    /\ Finish(r, RefusedResult(text[r], failAt))
    /\ UNCHANGED <<text, work, document, buffer, openQuotes, failAt>>

(* The field is read back to decide about the skip regions. *)
ReadFrames(r) ==
    /\ pc[r] = "frames" /\ GoTo(r, "check")
    /\ work' = [work EXCEPT
           ![r].goal = "mask", ![r].open = openQuotes,
           ![r].skips = IF openQuotes THEN <<>> ELSE SkipRegions(text[r], work[r].regions)]
    /\ UNCHANGED <<text, result, fields>>

Mask(r) ==
    LET masked == SkipMasked(work[r].seen, work[r].skips)
    IN  /\ pc[r] = "mask"
        /\ IF IncompleteWhere(masked)
           THEN /\ Finish(r, Stopped(<<Stop("where", 0)>>,
                                     RegionBlocks(text[r], work[r].regions), work[r].skips))
                /\ UNCHANGED work
           ELSE /\ GoTo(r, "classify") /\ UNCHANGED result
                /\ work' = [work EXCEPT ![r].masked = masked]
        /\ UNCHANGED <<text, fields>>

(* The next statement is built from a new reading. *)
NextStatement(r, statements, built) ==
    IF Len(built) = Len(statements)
    THEN Finish(r, FinishedResult(text[r], work[r].regions, statements, built, work[r].skips))
    ELSE GoTo(r, "check") /\ UNCHANGED result

TakeStatements(r, blocks, classified) ==
    IF RefusedBlocks(classified) # <<>>
    THEN /\ Finish(r, RefusedBlocksResult(blocks, RefusedBlocks(classified), work[r].skips))
         /\ UNCHANGED work
    ELSE /\ NextStatement(r, Statements(classified), <<>>)
         /\ work' = [work EXCEPT ![r].statements = Statements(classified), ![r].goal = "build"]
ClassifyBlocks(r, blocks) ==
    TakeStatements(r, blocks, Classified(work[r].masked, blocks, work[r].open))
Classify(r) ==
    /\ pc[r] = "classify"
    /\ ClassifyBlocks(r, RegionBlocks(text[r], work[r].regions))
    /\ UNCHANGED <<text, fields>>

(* A builder that does not take its text raises; the call has no result.     *)
(* Separators and names are found in the text seen.  The code trims the      *)
(* right side of an assignment over the request's own text, and here over    *)
(* the text seen: the same unless another request replaced the buffer.       *)
Take(r, built) ==
    IF Last(built).form = "raise" THEN Finish(r, Raised) /\ UNCHANGED work
    ELSE /\ NextStatement(r, work[r].statements, built)
         /\ work' = [work EXCEPT ![r].built = built]
Build(r) ==
    /\ pc[r] = "build"
    /\ Take(r, Append(work[r].built,
                      BuiltStatement(work[r].seen, work[r].statements[Len(work[r].built) + 1])))
    /\ UNCHANGED <<text, fields>>

(* Every request has its answer. *)
Done == /\ \A r \in Requests : pc[r] = "done"
        /\ UNCHANGED vars

Next == \/ \E r \in Requests : \/ Begin(r) \/ Check(r) \/ Fill(r) \/ Read(r)
                               \/ FindRegions(r) \/ Refuse(r) \/ ReadFrames(r) \/ Mask(r)
                               \/ Classify(r) \/ Build(r)
        \/ Done

Spec == Init /\ [][Next]_vars

================================================================================
