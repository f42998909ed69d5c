# Formal models of limulus

limulus runs SAS-style DATA steps from Python. A `Session` keeps datasets, a
Python pipeline parses a program, resolves and prepares its inputs and plans its
outputs, and a Rust runtime runs the rows. This directory holds TLA+ modules of
the parts that keep state or control flow, TLC configurations that check them on
small instances, and TLAPS proofs of what should hold for every instance.

| file | what it is |
|---|---|
| `SessionCatalog.tla` | the catalogs of a session and its executor, and the public calls on them |
| `MCSessionCatalog.tla` | names, threads and programs for TLC |
| `SessionCatalogProofs.tla` | types, the listing invariant, what an error and a concurrent submission cannot do, proved |
| `SessionCommitProofs.tla` | what a submission leaves in the catalogs, and that every lookup finds the last write, proved |
| `DataInduction.tla` | induction over numbers, recursive functions and sequences, proved |
| `RowRuntime.tla` | the native row loop and the interpreter of a flat DATA block |
| `MCRowRuntime.tla` | program trees, their flattening and meaning, programs and inputs for TLC |
| `RowRuntimeProofs.tla` | every property of the row loop except the meaning of a program tree, proved |
| `Listings.tla` | finite sets laid out as sequences |
| `PreparedTables.tla` | tables, names, dataset options, BY order: what SET and MERGE preparation share |
| `PreparedTablesProofs.tla` | what sorting, shaping and selecting return, proved |
| `MatchMerge.tla` | what MERGE promises: a reader of sorted streams |
| `MergePreparation.tla` | how a MERGE statement becomes one prepared table; it refines `MatchMerge` |
| `MCMergePreparation.tla` | MERGE requests for TLC |
| `MergePreparationProofs.tla` | the refinement of `MatchMerge`, and that the carrier replaces its sources, proved |
| `SetPreparation.tla` | how a SET statement becomes one stream of rows, with source-owned LAG and LEAD |
| `NativeIngress.tla` | the contract of prepared inputs at the door of the native runtime |
| `MCSetPreparation.tla` | SET requests for TLC |
| `SetPreparationProofs.tla` | every property of SET: what the ingress accepts, the types, the interleaving, the added columns, proved |
| `BlockOutputs.tla` | one DATA block from validation to its output tables |
| `MCBlockOutputs.tla` | DATA blocks for TLC |
| `BlockOutputsProofs.tla` | what the stages leave, what never leaves a block, which plans run, and that the response is complete or empty, proved |
| `StatementShapes.tla` | how the builder of each kind takes the text of one statement apart |
| `ProgramText.tla` | skip regions, blocks and statement kinds of a whole text |
| `ProgramFrontend.tla` | the frontend object: a request, and what it leaves for the next one |
| `MCProgramFrontend.tla` | written statements with their meanings, programs of them for TLC |
| `*.cfg` | one configuration for each run listed below |
| `PROJECT.json` | components, runs, mutants, source map, findings, hazards, theorems |

Check a run with `tlc -config RowPrograms.cfg MCRowRuntime`, a proof with
`tlapm SessionCatalogProofs.tla`.

## 1. The system

### 1.1 Components

| component | state | operations | talks to |
|---|---|---|---|
| `Session` (`session.py`) | `_datasets`, a catalog under canonical keys; format registry; default backend | `load`, `loads`, `unload`, `delete`, `submit`, `run`, `sql`, column helpers, dataset views | executor (calls), user callables (`apply()`) |
| Executor (`execution/coordinator.py`) | `_registered_tables` by canonical key, `_generated_tables` by the name as spelled, `_last_*` observations, backend preference | register, unregister, execute, commit, convert outputs | every stage below |
| Input resolution, DICTIONARY (`io.py`) | a cache within one request | resolve a name against explicit, generated, registered and synthetic inputs | executor catalogs |
| Frontend (`syntax/`, `block_splitter.py`) | the last document, its analysis text, whether a literal stayed open, where the region parse failed | parse a program to blocks of typed statements; statements that cannot be structured carry a deferred error | coordinator |
| Validation (`execution/validation.py`) | none | dataset references, targets, columns | coordinator |
| Planning (`planning.py`, `rewrites.py`, `syntax_rewrites.py`) | none | LAG/LEAD ownership, `apply()` inventory, row-loop plan | coordinator |
| Input preparation (`input_preparation.py`, `rewrites.py`) | none | dataset options, BY sort, SET carriers, MERGE alignment, FIRST./LAST. columns | coordinator, Arrow |
| Output planning and handoff (`typed_output_planning.py`, `output_handoff.py`) | none | targets, implicit OUTPUT, exclusion of internal columns, options, types | coordinator |
| Native bridge (`backend_integration/`) | none | payload to the extension, its diagnostics, output conversion | runtime |
| Row runtime (`runtime/mod.rs`, `row_view.rs`, `runtime/state.rs`) | logical row, retained values, SUM totals, output counters, LAG queues, source registry | the row loop and the statement interpreter | expressions, output builders, Python callables |
| Output builders (`output/mod.rs`) | one set of column buffers per target | append a projected row, export | source registry |
| Expressions (`expressions/`) | LAG queues | operators, functions, coercions | row view, callables |
| Format registry, host functions, column API, Arrow bridge, rendering | catalogs of formats; otherwise none | lookups and conversions | Session |

### 1.2 How they interact

`Session.submit` captures callables, hands the text to the executor, and updates
`_datasets` from the response. The executor parses the whole text, then for each
block validates, plans, resolves against what is visible *now*, prepares, runs
and finalizes. The outputs of a block join `available_inputs`, a copy of the
generated tables taken at the start. After the last block, or at the first error,
the successful prefix is committed to `_generated_tables`; the session lists the
outputs only if there was no error. Everything is a synchronous call. Concurrency
comes from user threads and from Python callables that a running row calls and
that may call the session again.

Inside the runtime one thread interprets one row after the other. The frontend
keeps IF/DO/END structure flat; the interpreter recovers it by counting ENDs
whenever it enters or skips a block.

### 1.3 What is hard here

* **Three catalogs without a lock** and with two kinds of keys. Each call writes
  two of them, in an order that matters to everyone who reads between.
* **Partial failure**: a program of several blocks, one of which fails; a row loop
  that fails half way; an unload that succeeds in one catalog only.
* **Structure by counting**: every nesting of ELSE IF, ELSE, DO and loops with
  statements that fail only if they are reached, that drop the row, or that end
  the loop.
* **State across rows**: RETAIN, SUM and output counters survive a row, nothing
  else does; deleted rows, rows WHERE drops, missing values and stream ends are
  where it goes wrong.
* **Two implementations of one rule**: FIRST./LAST., END= and missing values exist
  in preparation and in the runtime; KEEP, DROP and RENAME in the planner and the row
  view; the boundaries and the kind of a statement in two grammars and a builder.
* **One parser for everybody**: the executor owns one frontend whose fields describe
  the last text it read.

`PROJECT.json` lists each hazard at its line with the property that would catch
it, or the reason why none does yet.

### 1.4 What makes each component correct

* Catalogs: what is listed can be named; a reference reads the last write of its
  key; a submission sees itself and its start, nothing in between; a failed block
  leaves no trace and a failed program no listing.
* Row runtime: a row does what the program's tree means; state passes from row to
  row exactly as RETAIN and SUM say; automatic variables describe the input;
  windows are slices; STOP is final; the block returns.
* MERGE preparation: rows align as a reader of sorted streams would align them; the
  carrier shows what the streams showed and replaces them, whatever their spelling.
* SET preparation: every path gives one stable interleave of the shaped sources;
  automatic variables and LAG/LEAD columns tell of its rows; the native ingress
  accepts what preparation produced.
* Output planning and handoff: plan and row view agree on names; a target has the
  rows that were sent to it, with the columns and labels the statements leave and
  no automatic variable; all targets or none.
* Frontend: a text means the same whatever was parsed before it; a statement the same
  whatever stands around it; every boundary is put in one place by all who look for
  it; a fault that cannot wait stops the program and is shown where it is.
* Registry (planned): ids are stable, a gather never sees a released source.

## 2. SessionCatalog

### State and steps

| variable | code |
|---|---|
| `datasets` | `Session._datasets` (`DatasetCatalog`) |
| `registered` | `DataStepExecutor._registered_tables` |
| `generated` | `_generated_tables`: data and insertion position for each spelled name |
| `preference` | `_runtime_backend_preference` |
| `pc`, `call`, `block` | where each thread is in its call |
| `avail`, `updates`, `seen`, `failed` | `available_inputs`, `catalog_updates`, the resolved references of the current block, and whether a block failed |
| `version`, `snap`, `loaded`, `doomed`, `dead`, `last` | history, read by properties only |

A table is a version number; a name is a key and a spelling, and `KeyOf` is
`_dataset_key`. Each shared access is a step: `LoadRegister` then `LoadSet`;
`UnloadDelete` then `UnloadUnregister` (then `Raise`); `ParseDone`, which takes
the snapshot, `BlockResolve`, `BlockFail` or `BlockSucceed` for each block,
`Commit`, `Publish`. The stages of a block between its resolution and its outputs
touch no catalog and are one step. A Python dictionary is an ordered map because
`resolve_dataset_alias` returns the *first* entry whose key matches.

### Runs

**CatalogShared** - two threads, one of which also loads, transforms and unloads;
one- and two-block programs; a valid and an invalid backend label; four tables at
most. It checks under every interleaving: types; `ListedIsResolvable`;
`FailedBlockInvisible` and `FailedPrefixUnlisted` (what an error leaves behind);
`SubmissionIsolated` and `EarlierBlockVisible` (what a block reads);
`LookupsAgree` (the DICTIONARY views describe the table that SET reads, and validation
judges its columns; the one spelling of this run is the canonical one);
`CommitIsPrefix` (what a program leaves).
Two threads and two keys are enough for any property between a writer and a
reader; four tables let a load and a two-block program overlap with one more
write on either side.

**CatalogSequential** - one thread, loaded and generated names kept apart, four
keys, a two-target block and an empty program. It checks that the last completed
write of a key is what a reference to it reads, that an unload hides it from all
readers and that KeyError means it was not there (`LastWriteIsRead`), and, under
fairness, that `EveryCallReturns`. Programs also write a fourth key in two spellings,
in both orders and back again, which no block reads: `PublishListsNewestSpelling` says
which table the session then lists. The outputs of a program are one dictionary of names
as written (`catalog_updates`), so the listing of a key is the last table of the
spelling that came last; in `data b; data B; data b;` that is what the second block
wrote. The restriction to separate names is the assumption under which these hold;
**StaleAfterSort** drops it (section 8).

**StaleValidation** - one thread, a canonical and another spelling, programs that
write the loaded name and then read it. Validation looks names up in one dictionary
of registered and generated tables (`CandidateInput`), execution in the two one after
the other (`ResolveInput`); with a name written in any spelling but the canonical one
they find different tables (section 8).

### Fairness

`FairSpec` adds weak fairness of `Finish(t)`, the steps of a call that has begun.
The code is synchronous and takes no lock, so a thread that is in a call always
has a next step and Python keeps running it. Beginning a call is never fair.

### Proofs

`CatalogAssumption` says the names are finitely many, loaders are threads, and a
block's targets have one spelling per key, which `merge_unique_targets` ensures.

* `TypeCorrect`: `Spec => []TypeOK`. The types alone are not inductive: a block
  index is a type error only if the program is known to be in range, and a version
  is in bounds only because the call reserved it. `CallInBounds` adds both.
* `ListedAlwaysResolvable`: `OneLoader => (Spec => []ListedIsResolvable)`. The
  invariant speaks of the calls in flight too: a load between its two writes has
  registered its name, an unload between its two has unlisted it, and the outputs
  waiting for publication have been committed. `OneLoader` is needed: a second
  loading thread can delete a registration between the two writes of the first,
  and `tests/test_submit.py:1524` calls parallel catalog writes not thread-safe.
  Any number of threads may submit.
* `FailedBlockNeverVisible` and `FailedPrefixNeverListed`: `Spec =>
  []FailedBlockInvisible`, `Spec => []FailedPrefixUnlisted`. Neither is inductive:
  a version could be written after its block failed. `Discipline` gives each call
  the versions set aside for it when it began (`Owned`), says that no two calls
  share one (`Separate`), that a version that was not made yet, or belongs to a
  block that has not ended, is nowhere (`Unmade`), and that a submission with an
  error has nothing left to publish (`Untainted`). `Moves` names what a step of a
  call can do to versions (gain, list, lose, get stuck); `DisciplineStep` shows
  once that any such step preserves the invariant, and `DisciplineNext` that each
  action is one.
* `SubmissionsIsolated`: `Spec => []SubmissionIsolated`. `Sources` adds what a
  program can read at any moment: its copy holds only its own versions and those
  of its snapshot, and a registration was always loaded.
* `CommitsArePrefixes`: `Spec => CommitIsPrefix`. `UpdatesAreWrites` says that the
  pending updates are, name by name, the last write of the blocks that succeeded;
  the commit then adds exactly these.
* `EarlierBlocksAreRead`: `EarlierBlockVisible` under `OneWrittenSpelling`: no two
  names that programs write have one key. The working copy has the last write of every name the program
  touched. The assumption is needed because the dictionaries keep two spellings of a
  key as two entries (section 9). It holds in the run; other names may be spelled
  in any way.
* `NewestSpellingIsListed`: `Spec => PublishListsNewestSpelling`, for any spellings.
  `UpdatesInOrder` says that the pending updates are in the order in which the program
  first wrote their names: new names of a block go behind all that are there
  (`NewNamesLast`), and a block that writes a name again leaves it in its place. Two
  spellings of a key never begin in one block (`SpellingsApart`), so one comes last.
* `LookupsAlwaysAgree`: `LookupsAgree` under `OneWrittenSpelling` and
  `LoadedWrittenCanonically`: a written name whose key is loaded too is the
  canonical one. Without it validation finds the registered table first, which is
  the run StaleValidation. The invariant is about the contents of the three
  dictionaries: only names that programs write are keys of the generated ones
  (`HoldOutputs`), and only loaded keys are registered (`RegisteredWasLoaded`), in
  every copy and at every step of every call.
* `LastWriteAlwaysRead`: `LastWriteIsRead` under `OneCaller`, `OneWrittenSpelling`
  and `KeptApart` (loaded names and written names have different keys), which are
  what makes the run CatalogSequential sequential. `LastInv` follows one write
  through a call: between the steps of a load, an unload or a submission exactly one
  of the catalogs is ahead of the others, and `CallsFollowed` says which.

None but the last assumes anything of the threads: any number may load, unload and
submit, and only `ListedAlwaysResolvable` needs `OneLoader`.

## 3. RowRuntime

### State and steps

| variable | code |
|---|---|
| `prog`, `streams` | the lowered block and its registered SET inputs |
| `status`, `pos` | which part of `execute_block` runs; stream, row and `global_row_index` |
| `row` | `LogicalRowView`: source cells, owned values, names written in this row, automatic values |
| `stack` | the Rust call stack of `execute_typed_statement_range`: cursor, stop, ELSE chain and loop of each range |
| `retained`, `sums`, `counts` | `retain_values`, `sum_totals`, `dataset_option_survivor_counts` |
| `outs` | `OutputBuilderAccumulator` of each target |
| `cur`, `log` | history, read by properties only |

One step is one statement, one row read, or one return from a range. `ReadRow`
performs everything from the cursor to the first statement: reset, automatic
variables, END=, RETAIN, BY flags, WHERE. `FinishRow` performs everything behind
the last one: saving RETAIN, the implicit OUTPUT, leaving the loop after STOP.
`Fail` is the early return of a diagnostic; it comes before the export, so a
failed block exports nothing. A value is a number or missing. A missing value is
0 in comparisons and missing in sums, as `expressions/mod.rs` has it.

Some of what the code does may surprise a reader, and is modelled as it is: an
ELSE IF without an IF is an IF; an ELSE without an IF skips the next statement; a
DO loop counts on its own and ignores writes to its variable; a row that stops or
is deleted still saves its RETAIN values; `IF c THEN y = x + 1` is read as a SUM
(`tests/test_program_conditionals.py:246` pins it).

### Runs

**RowPrograms** - two kinds of programs, each over its own inputs (`OwnInput`).

2103 generated programs: chains of IF, ELSE IF and ELSE whose
branches are statements, blocks, or blocks with a nested test or loop, each with
ASSIGN, OUTPUT, DELETE, STOP and a deferred fault. Each is written as a tree,
flattened as the frontend does, and interpreted over two rows that take different
branches. `RowMeansItsTree` compares every row with a recursive evaluation of the
tree: values, output in order, and fate. Depth three is enough to have an END close a
block inside a branch inside a block, which is what counting can get wrong.

Hand-written programs over every input of up to three rows in one
stream, and of up to one and two rows in two, with two columns, missing values
included, and with a second stream that lacks a column of the first; where a program
reads one column, the other is the same in every row. `StartOfRow` (what a variable
holds when a row begins), `SumIsRunningTotal`,
`WindowIsSlice` (a target's rows are the FIRSTOBS=/OBS= slice of the rows offered
that pass its WHERE=), `EndMarksLastRow`, `GroupsAreRuns` (FIRST./LAST. bracket the
runs of equal keys in a stream), `StopEndsTheBlock`. Three rows are the least in
which one row has two neighbours; two streams are the least with a boundary.

`BlockReturns` is liveness over both: each block is exported or fails.

**FaultedElseIf, NullGroup** - see section 8.

### Fairness

`FairSpec` is weak fairness of the next step: one thread interprets and nothing
in the modelled part waits.

### Proofs

`StopIsFinal`: `Spec => []StopEndsTheBlock`, for every program and input and any
depth of nesting. The invariant adds that the log is a sequence. `NextIsLogStep`
shows that whatever statement runs, the log either stays or receives the row
being finished, and that a row finished by STOP makes the block exported;
`LogStepKeeps` shows this preserves the invariant. It rests on no assumption
about constants.

`RetainCarriesOver`, `EndIsTheLastRow` and `GroupsAreBracketed` prove `StartOfRow`,
`EndMarksLastRow` and `GroupsAreRuns` for every program and every input.
`NextIsRowStep` sorts the steps into three kinds: within a row, between rows, and
the end of a row. The inductive invariants say what each kind needs of the others:
`RowInv` that `retained` is what the last logged row left and that the row being
run started with the right values; `EndInv` that rows are counted from one stream
(END= and BY never meet several); `RunsOfOneStream` that, without WHERE, the log is
the stream as far as it was read. None is inductive as the run states it, since a
row is logged long after its start was computed. `RestoredValue` is the heart of
all three: a name that no automatic variable hides is its cell or what was retained,
before the BY flags are raised and after.

`RuntimeIsTyped`: `Spec => []TypeOK`, the stack discipline: a range lies inside the
range that entered it (`StackInv`), values and accumulators are scalars
(`ValuesInv`), and the counter of a row is its place among the rows of all streams
(`CountInv`, with the total of the streams before it).

`SumsAccumulate`: `Spec => []SumIsRunningTotal`. The property compares the log with a
recursive total, so the proof is an induction over the log: `Tally` says that the
accumulator is the total of the finished rows plus what the current row has added,
and `ShowsAccumulator` that the row shows the accumulator from its first SUM on and
no value before, so that it makes no difference from which of the two the next SUM
starts. `TotalsAgree` in `DataInduction` extends a total by one row.

`OutputsAreWindows`: `Spec => []WindowIsSlice`. `WindowInv` says that the builder of a
target is the FIRSTOBS=/OBS= slice of the rows offered so far that pass its WHERE=,
and its counter their number; `OfferedTo` joins what the log and the current row
offered, so an OUTPUT in mid-row extends it by one.

`DataInduction` is what these rest on: the least number of a set, induction as
membership in a set, existence and uniqueness of a recursive function on an interval.

Assumptions: `NamesAssumption` - no two automatic variables of a program share a
name, and none has the name of a column. Preparation refuses columns named like
END=, FIRST. or LAST. variables; a column `_N_` or `_ERROR_` and an assignment to
such a name are legal and hidden by the automatic variable, and are left out.
`InputsAssumption` - inputs are sequences of streams of rows, and a BY variable is a
column of each of its rows, which preparation checks. `ProgramsAssumption` - a
program is a sequence of statements, and FIRSTOBS= and OBS= are numbers or not given.
`ValuesAssumption` - cells and literals are numbers or missing, as in the whole module.
TLC evaluates all four.

## 4. MergePreparation

### State and steps

| variable | code |
|---|---|
| `request` | statement, BY list and the caller's inputs (`InputPreparationRequest`) |
| `phase` | how far `resolve_typed` and `prepare` have come |
| `inputs` | `resolved_inputs`, by dataset name and spelling |
| `tables` | `source_infos`: each occurrence's table after its options |
| `keys` | the part of `ordered_keys` not yet emitted |
| `plan` | `ArrowMergeSelectionPlan`: key and row number of each source, 0 for None |
| `result` | `InputPreparationResult`: inputs, references, warning, or an error code |

The steps are those of the code in its order: `Resolution` (names, then the options
against each schema), `Ownership` (no ordinary column with two providers),
`ShapeOccurrence` once per reference (options, collisions with automatic variables,
BY columns), `Align` (types of BY columns, order of keys), `EmitGroupRow` or
`EmitOrdinalRow` once per output row, `Render` (columns, IN=, FIRST./LAST., the
replacement of the sources and the check of mixed provenance). Any of them may fail.

A table is a sequence of columns and of rows; column and dataset names carry a
spelling, since which spelling wins is where this code can go wrong. The type of a
BY column is one word. Normalization makes every input a table except a bare Arrow
stream; such a source leaves the Arrow path and ends in an error, because the row
path refuses options and cannot load it. `prepare_merge_rows` behind it is reached by
direct callers with row sequences only and is not modelled. Inputs are ordinary
tables or earlier SET carriers; a MERGE carrier that a caller feeds back into MERGE,
and a RENAME= onto a column that exists, are not among the requests.

### Contract and run

`MatchMerge` knows nothing of groups and plans: streams in order, take the smallest
key in front, read from each stream that has it, let a stream that has run out of it
keep its row. `RefinesMatchMerge` maps the plan to it: what a source has read is the
number of distinct rows the plan picked from it. So every row of every source is
used, once or carried, in order, and the reader cannot close before all are read.

**MergeRequests** - 6458 requests: every pair of tables with up to three rows over
keys 1, 2 and missing; three sources; two BY columns; no BY; every combination of a
list of options with IN= and END= names that collide, repeat or differ in case;
repeated sources, two spellings, missing and stream inputs, prepared bystanders; all
pairs of BY types. Besides the refinement it checks `CarrierShowsMerge` (each column,
IN= and FIRST./LAST. of the carrier is what the streams showed), `OneCarrier` (the
runtime gets one source and no leftover) and `TypeOK`. Three rows are the least with a carried row in the middle of a group; two
keys and a missing one are the least with an order to get wrong on either side.

### Proofs

`RequestsAssumption` says that a statement has a source (the code returns early
otherwise), that its lists are sequences, and that what the caller gives as a table is
one: every row has the table's columns, with numbers or missing values.
`NullAssumption` says that missing is not a number. Nothing bounds the number of
sources, rows, columns or BY variables.

`CarrierReplacesSources`: `Spec => []OneCarrier`.
The invariant adds `CallersKept`: resolution adds names and never replaces one of
the caller's, so what `Render` copies is what the caller gave.

`PlanPicksRows`: `Spec => []TypeOK`: no step reads past the end of a table. `MergeInv`
adds that shaped tables are tables with their BY columns, that the keys still to be
emitted are the groups of some source in ascending order, and that a row of the plan
has a source.

`PlanReadsStreams`: `Spec => RefinesMatchMerge`: every step of the preparation is a step
of the stream reader or leaves its state alone. The reader takes the smallest key in
front of the streams; the plan walks a list of groups and row numbers within them, and
never looks at a stream. `ReadInv` says what of a source has been picked: the rows of
the groups that are done, and of the first open group as many as it has emitted rows
(`IsRead`). From that follow the two facts the reader needs. What is picked is closed
downwards in stream order and its size is therefore the reader's position: the row at
the next position is not picked and all rows before it are (`NextIsThere`,
`NextFollowsWhatIsRead`, by counting). And the first open group is the smallest key in
front of any stream, because groups that are done precede those that are not. Then a
row of the plan advances a source (`GroupAdvances`) where the group has another row in
it, and otherwise carries its last row, where the reader stays (`GroupStays`). Without
BY the key is the row number and the same argument is shorter.

`CarrierShowsStreams`: `Spec => [](NamesApart /\ Unclaimed => CarrierShowsMerge)`: what the
reader shows is what the finished carrier has in its cells. `NamesApart`: a shaped
source has one column of a name, BY names a column once, and neither columns nor IN=
variables are named like FIRST. or LAST. variables. `Unclaimed`: no source is the
carrier of an earlier MERGE, which may have columns named like automatic variables.
All 3020 requests of the run that end in a carrier meet both, and section 9 has what a
RENAME= outside them does. `CarrierInv` adds to `MergeInv` what earlier steps
checked and the carrier relies on: no shaped column is an automatic variable, an
ordinary column has one provider, and with BY a row of the plan picks rows of its key.
From that the four lists of columns the carrier is made of have no name in common
(`CarrierColumns`), so a name resolves to itself (`CarrierResolves`) and each cell is
the one its list asks for: that of the only source (`OwnCell`), of the first source
present, which has the key of the row (`KeyCell`), and a comparison with the row
before or after (`FlagCell`).

The proofs about tables are in `PreparedTablesProofs`. Its centre is `ListedInOrder`:
for a finite set and an order on it, the sequence `Listed` has each member once, at the
place that the number of its predecessors gives. `SortedTable` applies it to BY keys:
the sort keeps each row, in the order of keys, and rows of equal keys in table order.
The modules use `Listings` for this and not the operators of the community modules
(`SortSeq`, `SelectSeq`, `SetToSortSeq`), which are recursive underneath: the provers
cannot look into them.

## 5. SetPreparation and NativeIngress

### State and steps

| variable | code |
|---|---|
| `request` | statement, BY list, END= and INDSNAME=, LAG/LEAD calls, the caller's inputs |
| `phase` | how far `resolve_typed` and `prepare_typed` have come |
| `inputs` | `current_inputs`, by dataset name and spelling |
| `tables` | `prepared_tables`: each occurrence's shaped and marked table |
| `sources` | the references of the statement, as rewritten so far |
| `result` | what the runtime is given, or an error code |

A SET takes one of three paths and all of them are here. Plain tables are
concatenated (`Order` with `Concatenable`); a SET with options, BY, IN=, INDSNAME=,
END= or LAG/LEAD is prepared (`ShapeOccurrence` once per reference, then `Combine`);
anything else goes on untouched. `Order` sorts the inputs under BY before any
option is applied. `Collapse` rewrites the statement to a SET of the carrier.
`Helpers` adds the columns of the LAG and LEAD calls that the planner gave to the
input, over the columns where it can and over loaded rows elsewhere. `Ingress` is
`NativeIngress`: how the bridge finds an input by its folded name, what it drops
from the reference to a carrier, and each of its refusals. A stream that is asked
for options, IN= or BY cannot be prepared and ends in an error, as in MERGE.

Arrow types are one word per table. SET over row sequences (reached by direct
callers) and LAG/LEAD queues of the runtime are left out.

### Contract and run

The contract does not mention paths: a source is a stream of rows, in BY order as
far as it has the BY columns, shaped by its options; `Lines` are the rows of all
streams and `Place` gives each its place, by key and then by source and row.

**SetRequests** - 4000 requests: every pair of tables with up to three and two rows
over keys 1, 2 and missing, with all automatic variables and two helpers at once;
three sources without BY; two BY columns; every dataset option with colliding,
shared and respelled IN= and END= variables; LAG and LEAD of columns that are there,
dropped, missing or respelled, over one and two sources; a source named twice and
under two spellings; missing, stream and already prepared inputs; all pairs of types.
`InterleavesStreams` (each row once, at its place, one column per name),
`AutomaticsTell` (IN=, INDSNAME=, END=, FIRST., LAST.), `HelpersLookAcross` (LAG and
LEAD over the final order), `PreparedIsAccepted` (the ingress refuses nothing that
preparation accepted) and `TypeOK`. Three rows against two are the least in which a
group of equal keys spans both sources and is followed by another. The requests
spell explicit inputs as the statement does; section 9 says what happens elsewhere.

### Proofs

`AcceptedWhenSpelledAlike`: `Spec => [](SpelledAlike => PreparedIsAccepted)`, for every
set of requests with a source (`RequestsAssumption`; a SET without one is not prepared
here). The code decides in four places whether a statement needs preparing, and
the ingress decides again; `ContractInv` is what connects them. Until `Combine` the
inputs are `Fresh`: none prepared, the sources under the statement's spellings only.
After it they are `Carried`: one carrier, no other entry with a source's key, so that
`Collapse` finds no `OtherSourceLeft` and leaves one reference without options. An
input that is still `Fresh` at the ingress was `Plain`, so nothing is left to refuse.

`PreparationIsTyped`: `Spec => [](Unclaimed /\ SpelledAlike => TypeOK)`: on every path a
row of every table has exactly the columns of its table. `TypeOK` alone is not
inductive, because the sorts compare cells: `TypesInv` adds what they are. The caller's
tables hold numbers and missing values (`TypedInputs`), and a prepared table holds them
in every column that is sorted by again (`Marked`, and the carrier of LAG and LEAD):
the INDSNAME= column holds names, and is no BY variable (`RequestsAssumption`).
`FoundSources` says which inputs are there in each phase. The two conditions are those
of `ContractInv`, on which the phases from `Collapse` on rest: a second spelling of a
source stays in the inputs, and `Helpers` then reads what preparation did not replace.

`StreamsInterleaved`: `Spec => [](Unclaimed /\ SpelledAlike /\ NamesApart =>
InterleavesStreams)`, the contract of SET for every number of sources, rows and BY
columns, every option and every path. `NamesApart` has a column spelled in one way in
its source and in all streams (they are concatenated by exact name and read by key), no
IN= variable with the name of a BY variable (the check that the carrier has the BY
columns would take the one for the other), and helper columns with names of their own.
`Lines` and `Place` are counts over sets, `SortTable` and `Concat` are too, and the
proof is that they count alike: `ConcatTable` and `SortedTable` say which row of which
table is at a place, `Interleaved` puts them together (a bijection between the rows
before a row and the lines before its line), and `Carries` is what all later steps keep:
a column beside those of the streams changes nothing (`MoreColumnsCarried`), and a
table in BY order is sorted into itself (`SortOfSorted`, for the second sort of LAG and
LEAD). `StreamsInv` has a part for each path: the collision check makes the streams
`Apart` from all automatic names; an input in `shape` is the one its stream is made of
(`ShapedAsStream`); a shaped occurrence `Bears` its stream and its marks; the table of
`First` `Carries` the streams from `collapse` on; and one reference is left
(`OneReference`), so that nothing is read twice.

`AutomaticsTold` and `HelpersTold` are about the columns the code adds beside the
streams: `AutomaticsTell` where also `OwnNames` (no two automatic variables or helper
columns share a name, but for IN= variables in two spellings), and `HelpersLookAcross`
where also `OwnCalls` (calls with one helper column are one call, no call reads a
helper, and an IN= variable that is read is spelled in one way). The same `StreamsInv`
carries them (`CarrierTold`, `GivenTold`): the carrier `Tells` of every line (`CarrierTells`:
the marks of the occurrence a row came from survive the concatenation and the sort, and
END= and the flags are put on after it), more columns of other names leave it telling
(`MoreTells`), and both ways to add the helpers leave a table that `Looks` a step away
(`HelpedLooks`). What the runtime reads under a name is then the only column of that name
(`ReadsOnly`). Every request of the run that returns, is tabular, spells its inputs as
the statement does and claims none prepared satisfies these conditions.

## 6. BlockOutputs

### State and steps

| variable | code |
|---|---|
| `block` | the typed block with its prepared columns, and what each row will do |
| `phase` | the stage of `_execute_typed_block` that comes next |
| `targets` | `output_plan.targets` |
| `columns` | `projected_columns_by_target` of the shaping plan |
| `next` | the row the runtime reads next |
| `built` | rows of each `OutputBuilderAccumulator` |
| `filtered` | the tables of `finalize_typed`, as far as it has come |
| `outputs`, `code` | the response |

The stages are actions in the order of the coordinator, and each of them may end the
block: `Validate` (targets, references to columns, RENAME), `PlanTargets` (which
references share a target and whose options count), `ShapeOutputs` (the names of the
columns), `CheckViews` and `RouteRow` (the runtime's projection of row views and the
routing of each OUTPUT), `FinalizeTarget` one target at a time, `ApplyMetadata`,
`Present`. A cell is where its value comes from, a column of the source or a
statement in a row, so that a value under a wrong name is seen.

KEEP, DROP and RENAME are read twice, by the planner over names and by the runtime
over bindings and owned values, and hidden columns are computed a third way;
`Projected`, `ProjectedView` and `Excluding` are these three. The model has no shared
notion that could make them agree by construction.

### Run

**OutputRequests** - 9480 blocks with two rows: every combination of KEEP, DROP and
RENAME lists (swaps, chains, collisions, automatic variables, respelled names) with
options of a target and computed columns; one to three targets, with explicit
requests, top-level, inline and shared OUTPUT statements and every choice of the
statements that fire; references that agree or conflict; labels of the source and of
a LABEL statement under all of that. `ProjectedRows` (rows and columns of every
target), `NoInternalLeaves` (automatic variables and their aliases), `LabelsFollowColumns`,
`PlanIsExecutable` (shaping accepts nothing that the runtime then refuses),
`AllTargetsOrNone`, `TypeOK`. Two rows are enough: one in which the step writes and one
in which it does not; more add nothing, since a row leaves nothing behind for the next.
Three targets are the least with a default, a second and an unregistered one.
A request names a target in one spelling only, and a row fires only OUTPUT statements
that the block has. `Regular` leaves out blocks in which a RENAME makes the name of a
computed or an automatic column, and no block has two statements of a kind: there the two readings do
disagree (section 9).

### Proofs

For any set of blocks, with any statements and any number of targets, columns and rows.
`BlocksAssumption` is what the parser and preparation give: the stream has one column
of a name, what a program and its options list is a list, a row fires OUTPUT statements
that the block has, and writes columns that a statement of the block defines; and a
RENAME that repeats a column spells it in one way (section 9). It says nothing of targets: two references to one target, a request that
repeats one, and targets that no row reaches are all covered.

`ResponseIsAllOrNothing`: `Spec => []AllTargetsOrNone`. `Stages` adds what each stage
leaves: nothing is delivered before the last one, and after finalization every target
has its table.

`StagesAreTyped`: `Spec => []TypeOK`. The inductive invariant is `Prepared`: the plan
and the builders exist from the stage on that makes them, the planned columns of a
target are of distinct names, and so are those that a builder takes over from the view
when nothing is planned. That last part is the reason for the projection lemmas: the
names a projected view shows are the projected names of the view (`ProjectedNames`), and
the runtime looked for collisions among these before it made a builder.

`AutomaticsStayInside`: no automatic variable is a column of any output, whatever a
block keeps, drops and renames. Its value is in none either (`NoInternalLeaves`) under
`RenamesAside`: at most one RENAME statement, and no RENAME of it or of a target that
makes the name of a computed column. The plan hides by name, the view moves values by
binding, and these conditions are where they are known to part (section 9).
`Covers(H, v)` connects them: every owned value and every binding of `v` that came from an
automatic variable is found under names of `H` only. The starting view is covered by the
block's automatic variables, a projection turns `Covers(H, v)` into
`Covers(Excluding(H, pairs), ...)` (`CoversProjected`), and finalization drops what the
second projection left under such names.

`AcceptedPlansRun`: `PlanIsExecutable` under `OneOfEach` (one KEEP, one DROP and one RENAME
at most) and `RenamesSpare` (no RENAME from or to an automatic variable). Shaping looks
for collisions among the data columns; the view also holds the automatic variables and
owned columns of the step. The invariant is `Accepted`: in front of `CheckViews` what
shaping accepted still has no collision. `PlanCoversView` then says that a name
the view shows is planned or automatic and that this survives a projection; it is used for
the statements and again for the options of each target, so a collision in a view
would be one in the plan. Without the conditions the statement is false for the code: of
two RENAME statements the plan reads the first and the runtime the last, and
`rename x=ina` and `rename ina=x` give two bindings of one name, of which the plan has
hidden one or both. The run also has RENAMEs of an automatic variable to a name that
nothing else has, which the theorem leaves out.

`RowsProjected`: `ProjectedRows`, what a block delivers is what its statements say, under
the conditions above and two more: no RENAME of a target makes the name that a computed
column has behind the RENAME of the step (`RenamesAfar`), and a request spells a target in
one way (`ListsOnce`; the code compares targets by folded name and keeps the tables by
spelling). 3627 of the 4118 blocks that the run delivers are under all of them. The proof
has four parts, each about one place where the plan and the row view could part:

* Columns. `ShapedKeys` and `OutputKeys`: the names that shaping plans, and those the
  builder takes over from the view where nothing is planned, are after finalization the
  `FinalKey`s of `Kept`. That `OptionsOf`, the first reference with options, is what any
  reference with options says (`SaidForIsPlanned`) is what the check for conflicting options
  is for; a spelling makes no difference (`FoldedAlike`).
* Values. `ValuesFollow`: a projection of a view whose bindings are in order (`Bound`) takes
  the value of each binding that survives to its new name. It is used for the step and again
  for the options (`CellIsCurrent`), so that asking the view for a planned name gives
  `Current` of the column that the name came from. An owned value that stays behind under
  its old name is why `RenamesAside` and `RenamesAfar` are needed.
* Routes. `RoutedAsSent`: a row goes to a target as often as the OUTPUT statements it fires
  name the target, once for each statement, or the default target if they name none.
* Rows. The inductive invariant is `Following`: the plan that shaping accepted is still the
  one in `columns`, every target has got, in order, the rows sent to it by the rows read so
  far, each with the cells of its place (`HasRows`), and a finalized table is the built one
  without the hidden columns. `OneRowMore` is the step of the row loop: the rows sent so
  far are those sent before, and behind them this one as often as it is sent (`SentMore`).

`LabelsStayWithColumns`: `LabelsFollowColumns`, under `OneOfEach`, `RenamesSpare` and three
conditions on the labels. `LabelsSpelled`: a label is spelled as its column is (projections
fold names, the metadata of a field goes by the exact one). `LabelsNamed`: the labels that
the source came with are for columns of the step; of the LABEL statement validation says
that, which is the invariant `Labelled`. `NoLabelReturns`: no target loses all its labels
while the source has one for a name that a column of the target gets, since there the
labels of the source stay (section 9). All 182 blocks with labels that the run delivers
are under them, and 73 of these have a target that loses every label. Labels go through
both projections as a list of their own, and the proof relates that list to the columns:

* `EntriesOfTarget`: an entry that is left is one that was said, with its text, under the
  name that its column would have in the end, and in the order in which they were said.
* `FinalNamesApart`, `OutputNames`: shaping accepted the names, so two columns that are
  left have different names in the end, and a table shows no other; hence an entry has the
  final name of a column if and only if it is for that column (`EntryIsFor`), and an
  automatic variable with a label gives it to none.
* `LabelFollows`: the last entry with the final name is then the last one said of the column.

## 7. ProgramFrontend

### State and steps

| variable | code |
|---|---|
| `text`, `pc`, `work`, `result` | the text of each request, its next step, the locals of its call, what it returned |
| `document`, `buffer` | `_analysis_document`, `_analysis_buffer` |
| `openQuotes` | `_region_open_quotes` |
| `failAt` | `_region_fail_position` |

The steps are the accesses to these four fields: `Begin` resets the facts of the region
parse; `Check`, `Fill`, `Read` are `_analysis_text`, which compares the document, replaces
the text and returns it, and is called before the regions, before the mask and before
each statement; `FindRegions` and `Refuse` write and read the place of a failure;
`ReadFrames` reads the open literal back. Between them `Mask`, `Classify` and `Build` are
functions of what was read. `Serial` makes a request wait for the one before it, which is
a session used by one thread.

What the functions compute is in two modules. `ProgramText` has the analysis text, the
grammar of regions, the cut into blocks, the masks and the grammar of kinds; its
recursive operators go through a text from left to right as the lexers do.
`StatementShapes` has one operator for the builder of each kind. They use the text on
their own, as in the code: nothing tells a builder where the grammar saw a keyword.

A text is a sequence of symbols: a syllable of a word, a kind of space, or a mark. Two
syllables without a space between them are one word, so a keyword glued to a name, a
keyword in a literal and a name that begins with a keyword are all there. An expression
is the slice of the text that the statement keeps.

### Runs

**ProgramTexts** - 1311 batches of two texts, one request after the other. Written
statements are pairs of a text and what `docs/syntax.md` says it means, one to several
for each kind, with names, literals and conditions that contain keywords; the texts are
programs of one or two of them in one or two blocks, with each separator, with tabs, with
macro and PROC code in between; programs of faulty statements that stop or wait; programs
of oddly spelled pieces; and texts that are refused. `ReadsWhatWasWritten` compares the
result with the meaning the text was written from, `StatementMeansItself` each piece with
the same piece alone, `EveryFaultIsReported` the stops with the faults in the text and the
displayed block with the text of the fault, `ListsReadAlike` the two readers of a name
list, and `ReuseIsClean` every result with that of a new frontend, after texts that leave
each of the four fields in each of its states. Two requests are enough for what one
leaves, since every request resets or replaces all of it; two statements are enough for
what a neighbour changes, and a second block for what a boundary does. No written literal
has a semicolon outside dataset options: there the two grammars disagree (section 9).

**SharedFrontend** - section 8. Two requests and two statements are enough.

No fairness is assumed: the module has no liveness property. Deadlock is checked, so
every request has an answer.

The modules have recursive operators and no theorem; all of this is model-checked only.

## 8. Disagreements with a run

Each is a run that ends in a counterexample to a sentence of the repository.

| run | what the code does | what the repository says |
|---|---|---|
| StaleAfterSort | `sort` on a generated dataset changes the listing, and SET still reads the old table | `session.py:1160` |
| StaleValidation | a loaded dataset that a block overwrote as `a` is validated by its loaded columns and read with the new ones | `docs/design.md:90`, `io.py:216` |
| FaultedElseIf | after a taken branch the body of a deferred ELSE IF runs, and its END ends the row | `syntax/program.py:3081`, `docs/syntax.md:98` |
| NullGroup | a missing key next to 0 opens no group in the runtime | `tests/test_runtime_semantics.py:990` |
| SharedFrontend | a request reads the analysis text of another that entered the frontend in between | `syntax/program.py:351`, `tests/test_submit.py:1638` |

## 9. Disagreements without a run

Met while modelling; each model either contains the behaviour or keeps its inputs
away from it, as said.

* An unloaded generated dataset still resolves (`tests/test_submit.py:1384`), and
  `unload(missing_ok=False)` of one removes the listing and raises KeyError
  (`session.py:503`). Same cause as StaleAfterSort; the sequential run keeps loaded
  and generated names apart.
* `data b; ... data B; ...` leaves the older table in front of the newer
  (`docs/design.md`, Input Resolution), and `data b; data B; data b;` lists the table of
  the second block (`session.py:639`). What is listed is checked and proved for all
  spellings (`PublishListsNewestSpelling`); what a SET of such a name reads is checked
  and proved for one spelling of each output.
* Two threads that load and unload one name can leave a listing without a
  registration (`session.py:502`): the assumption `OneLoader`.
* An initial value in RETAIN is read as a name (`docs/syntax.md:179`), and an inline
  assignment with a plus as a SUM (`syntax/program.py:3191`;
  `tests/test_program_conditionals.py:246` pins it). `RetainNames` and `InlineAssign`
  are what the code does.
* END= counts the rows before WHERE, so no processed row is marked when the last one
  is filtered out (`docs/syntax.md:30`); `EndMarksLastRow` states what the code does.
* An explicit input spelled otherwise than in the SET statement stays in front of the
  carrier, and the block is refused with RUNTIME_PREPARED_INPUT_CONTRACT_INVALID
  (`input_preparation.py:3131`, `docs/design.md:91`).
* RENAME= of a source onto an existing column gives two columns of one name
  (`input_preparation.py:3908`); the requests do not ask for it.
* A LAG of a column nobody has, over a source without rows, loses all columns
  (`input_preparation.py:3206`); `WithRowHelpers` does so too.
* When the last column with a label is dropped, the labels of the source stay and may
  fall on another column (`output_handoff.py:965`: `drop x; rename y=x;`), and a
  respelled label is lost, as fields are matched by exact name (`io.py:67`). A label
  that the field of a source carries in its own Arrow metadata stays where no other
  replaces it (`io.py:66`); the model has the labels of the metadata dictionary
  (`column_labels`) and of LABEL statements only.
* Type expectations are keyed by the exact spelling of the first column
  (`output_handoff.py:1358`).
* A RENAME that gives an automatic variable a name which another pair renames away
  hides a data column (`rename=(ina=v v=z)`), `rename x=ina` passes shaping and
  loses the column, and `rename ina=x` next to a column `x` passes shaping, which hides
  both, and is refused by the runtime: `Regular` and the blocks leave these out.
* Of two KEEP, DROP or RENAME statements in a block the plan reads the first, the
  runtime all or the last (`output_handoff.py:461`, `runtime/mod.rs:526`;
  `docs/syntax.md:164`). A column renamed to the name of a dropped computed column is
  delivered with the computed value (`row_view.rs:439`; `docs/syntax.md:171`).
* A RENAME that lists a column in two spellings (`rename x=a X=b`) gives the row view
  either name, as it looks through a hash map (`row_view.rs:434`); `BlocksAssumption`
  leaves it out.
* After a taken IF branch that deletes or stops, the runtime still passes over one ELSE
  chain and fails if a branch of it has no END (`runtime/mod.rs:1570`); the
  model ends the row at once. Only malformed blocks show the difference.
* A prepared carrier next to another spelling of its source stays columnar for LAG and
  LEAD (`input_preparation.py:1146`); the requests do not ask for both.
* Missing is 0 in an equality and an exact value in an order (`expressions/mod.rs:1154`
  ff.); WHERE= of a source drops missing cells, WHERE= of an output compares them as 0.
* Runtime LAG queues are keyed by the offset alone (`functions.rs:537`;
  `docs/syntax.md:293`); `lead(x,1,y)` looks up the column named by the value of `x`
  (`docs/syntax.md:350`).

Of the frontend:

* A comment in front of a statement with "=" makes it an assignment
  (`grammar/datastep.lark:73`, `normalization.py:252`;
  `tests/cases/parser/core/programs/comments_ignored.txt`). The runs have comments only
  where both grammars drop them.
* A literal with a semicolon in a statement stops the program, except inside dataset
  options: the regions respect the literal and the kinds do not. An empty statement
  (`;;`) and the bare words `data` and `run` inside a statement refuse the whole text.
* A name that begins with `then` or `to` splits a condition or a bound. `do i = 1 to 3 by
  2` makes BY part of the bound (`docs/syntax.md:112`; `tests/test_program_loops.py:188`
  pins it), `then do i = 1 to 3` loses its bounds, and `then do` is found in literals too.
* `else if a = 1;` without THEN is an ELSE that assigns to `if a`; glued `elseif`
  with "=" is an assignment. `a + b = 1` after white space is an assignment and not a SUM
  (`docs/syntax.md:196`). `(drop=a keep=)` is accepted.
* Name lists: a line break right behind the keyword keeps the whole list as one text.
* A block without RUN is shown up to its first skipped code, so the diagnostic of a fault
  behind it shows the wrong part. `EveryFaultIsReported` has no skips in such blocks.
* Glued `datafoo` begins a block when the statements are cut (`program.py:4451`) and
  not when the regions are (`program.py:1142`): one more block is run than displayed.
  `Blocks` is used for both and does so too.
* The quote scanners disagree on backslashes, which the texts do not have.

## 10. Not proved, not modelled

Left to TLC:

* Liveness (`EveryCallReturns`, `BlockReturns`), which is outside TLAPS's reach.
* `RowMeansItsTree` and all of `ProgramFrontend`: what a program or a text means is
  computed by recursive operators over trees and texts, which TLAPS does not read.
* Proved under conditions only, because the code does otherwise without them:
  `NoInternalLeaves` (`RenamesAside`), `PlanIsExecutable` (`OneOfEach`, `RenamesSpare`),
  `ProjectedRows` (all three, `RenamesAfar` and `ListsOnce`), `LabelsFollowColumns`
  (`OneOfEach`, `RenamesSpare`, `LabelsSpelled`, `LabelsNamed`, `NoLabelReturns`), `CarrierShowsMerge`
  (`NamesApart` and `Unclaimed` of MERGE),
  `PreparedIsAccepted` (`SpelledAlike`), `TypeOK` of SET (`Unclaimed`, `SpelledAlike`),
  `InterleavesStreams` (those and `NamesApart`), `AutomaticsTell` (and `OwnNames`),
  `HelpersLookAcross` (and `OwnCalls`).

Not modelled:

* Text, dates, formats, the function library, Arrow types and metadata other than
  labels: values whose laws are those of one call, well covered by the repository's
  tests.
* Of the frontend: the second kind of quote, escaped quotes, braces and upper case;
  CASE and `apply()`; line macros other than `%let`; AND, OR, NOT, groups and null
  predicates of a source's WHERE=; expressions below the separators; the wording of
  diagnostics; the standalone splitter. Its modules hand statements to nobody: the
  other models start from statements as they are lowered.
* Plan and payload contracts between Python and Rust: immutable records.
* In the session: explicit request inputs, reserved DICTIONARY names, conversion
  errors at publication, chains of column helpers, the `last_*` observations.
* In the runtime: arrays, `apply()`, LAG queues, and the array building of an export.
* Input preparation over row sequences, which only direct callers reach.

## 11. Plan

1. **BlockPipeline**: composes SetPreparation, RowRuntime and BlockOutputs, so that
   FIRST./LAST. and END= of preparation and of the runtime are compared on one input,
   and replaces the operator `Prepared`. It would replace the run NullGroup.
2. **LagLead**: source-owned columns against runtime queues.
3. **SourceRegistry**: ids, handles and the gather of source-backed cells.
4. **Session extension**: helper chains, `sql` reading table by table, explicit
   inputs and reserved names.

Abstract specifications and refinement: `SessionCatalog` with one spelling per key
and separate names implements a map from keys to tables with atomic writes (a
refinement mapping that resolves each key); the row loop implements a fold over the
rows that carries only RETAIN, SUM and counters.
