# A verification development for shogiesa

shogiesa turns shogi game records into labeled training positions: it extracts
positions as JSONL, labels them with a USI engine, filters and selects them, and runs
such chains from a recipe. This directory holds TLA+ modules that model the parts of it
whose behaviour is hard to test, TLC configurations that check them on small instances,
and proofs that TLAPS checks for every value of the constants. `PROJECT.json` lists the
components, the runs, the source lines each definition stands for, the hazards, and the
theorems.

Tools: `tlc -config X.cfg M`, `tlapm M.tla`.

## The system

| Component (source) | State | Operations | What makes it correct |
|---|---|---|---|
| label pipeline (`commands/label.rs`, `cmd_label`) | three channels, a mutex, a reorder buffer, the output, the manifest | one reader, `--jobs` workers, one writer (the main thread) | each record written once, in order on request, bounded memory, the run always ends, the manifest of a finished run is complete |
| label records (`analyze_record`, `label_cache_path`, `ingest.rs` resume merge) | observations of a record, the cache directory, one engine per worker | covers, cache hit, search, keep, restart, resume | no observation lost or doubled, no wrong cache entry served, no dead engine reused |
| USI client (`shogiesa-usi`) | an engine process, its pipes, a forwarding thread, what the session remembers of the last search | handshake, analyse, barrier, drain, salvage | an answer belongs to its own `go`, every call returns, a dead engine is told from a slow one |
| recipe (`recipe.rs`) | outputs, staging directory, backups, `run.json` | plan, reuse, run, commit, roll back, checkpoint, verify | what verifies is what the recipe makes of its input, a failing commit loses nothing |
| split (`commands/transforms.rs`) | a pool of writers, a staged bundle, backups | write, evict, commit, roll back | bounded open files, complete files under the manifest, the old bundle restored on failure |
| selection (`commands/selection.rs`, `stratifykit-core`) | bounded heaps, one per bucket | sample, balance, stratify, select uncertain / coverage / hard | the streamed selection is the sorted and truncated input |
| quality and tuning (`commands/quality.rs`, core `quality.rs`, `score.rs`) | tallies per cell of a grid, a preset file | filter, audit, calibrate, tune | four commands agree on one file, the candidates are the best of the grid, a tighter gate keeps no more |
| ingest (`commands/ingest.rs`) | an index of observations | extract, from-match, merge-observations | no record and no answered question lost, a stability score never outlives its answers |
| diagnostics (`commands/diagnostics.rs`) | counters | stability, conflict-report, dataset-diff, ... | every record counted once, the color of the player has no influence |
| pack transport (`shogiesa-pack`, `commands/transport.rs`) | the output so far, counters | pack, unpack, encode, decode | unpack gives back every field of what was packed, or refuses; a pack is whole or untouched |
| quality report (core `quality_report.rs`, `commands/transport.rs`) | counters, the record before, six bounded sets of hashes | begin shard, observe, reject, finish | the counts are those of the records, in bounded memory, over one file or several |
| board and SFEN (`shogiesa-core`) | a position | apply moves and drops, check test, text and back, hash | pieces are conserved, a check is one by the rules, text and hash are the board's |
| KIF and CSA readers | a board, for KIF a stack of them | moves, variations, terminal actions | a variation starts from its branch position, the positions and the exported moves of a game are the same game |
| io_support | temporary files, path roles, hashes | atomic output, conflict of paths | no output replaces an input or another output |
| command line (`main.rs`) | none | parse, validate paths, dispatch | no two roles on one path |

Interaction. `cmd_label` starts the threads; each worker owns a `UsiEngine` and calls
`analyse`; workers share the job receiver (a mutex), the result channel and, through
files, the label cache, which other processes use too. A recipe starts the other commands
as processes and reads what they leave behind. Selections and splits are single-threaded
streams whose interest is in bounded state and in file-system steps that fail.

Hard behaviours: three kinds of threads that wait on one another through bounded
channels; an engine whose lines cross the client's commands in two pipes; state of a
session that survives error returns; kills and reruns over partial outputs; several
renames that should be one; a cache shared between runs that ask different questions;
two passes over a file. The list with lines is under "hazards" in `PROJECT.json`.

## Modules and code

`LabelStream` (abstract). What `label` promises: records are accepted inside a window and
emitted at most once, in order if asked, and the run finishes with all of them.

`LabelPipeline`. One action per blocking step of `cmd_label`'s threads. `reader`,
`worker[w]` and `main` are program counters; `permits`, `jobs`, `results` the channels,
with the rules of `std::sync::mpsc` (a send fails when the receiver is gone, a receive
when the senders are gone and the channel is empty); `lock` is the mutex that a worker
holds while it blocks in `recv`; `pending`, `nextId` the reorder buffer. Failures: an input
that cannot be read on, an output that cannot be created or written, an engine that cannot
be launched, and, with `MayPanic`, a worker that panics before it reports. A record is its
job id. `ImplementsStream` is the refinement to `LabelStream`.

`UsiEngine`. `pc` says where `launch_command` or `analyse` is; `awaiting`, `completed`,
`early`, `best` are the session's own fields; `stdin`, `stdout`, `rx` the two pipes and the
channel of the forwarding thread. `session` says which session a behaviour is: strict or
not, what the engine may do wrong, and the bounds. Every line carries the number of the
search it belongs to, a tag the client cannot see. The engine is the environment, with the
misbehaviours of `fake-usi-engine` and of the doc comments as `Faults`: a bestmove that comes early, twice, unasked, without a
usable info line or without a move (`malformed`), and an exit at any time; `stop` may be obeyed
or not. `TakeBestmove` keeps the two errors of `analyse` and of the grace period, which return before
`previous_search_completed` is set. A timeout may happen whenever the channel is empty, so also when a line is still in
the pipe.

`LabelRuns`. One worker over a chain of runs on one input, each with its own command line,
output and `--resume-from`, sharing a cache. `ReadRecord` is the resume merge,
`Covered`/`CacheHit`/`SearchOk`/`SearchFails` the branches of `analyze_record`'s loop over
limits, `EndLimits` and `RestartAfter` the restart rules. `EndRun` may come at any record (a
kill); `OtherProcess` writes and `LoseEntry` prunes a cache entry at any time.

`RecipeRun`. `outputs`, `staging`, `backups`, `runJson` are the disk; a hash is the content;
`Produce` says what a stage's command makes of the recipe and of its inputs, so that a
stale output differs from a fresh one. Each rename is a step, and so is each remove and rename of the rollback, which may
fail silently (`Slips`); `Crash` may follow any, and `Edit` changes recipe, input or outputs while no process runs. Staged files
stay from run to run, and a command may succeed without one of its outputs (`Unwritten`).

`SplitBundle`. `pool` is `WriterPool` with its eviction order; `Prepare`, `BackUp`,
`Install`, `Finish` and the rollback actions are the loop bodies of
`commit_split_bundle_with` and `rollback_split_bundle`, each of which may fail or be
interrupted by `Kill`. `target` maps an output name to the path it resolves to, so that two
outputs may meet through a link.

`TopK`, `Selection`. `PushBounded` is `push_bounded`; `Selection` has one action per record
of each streaming selection, with the key that it ranks by, the two passes of `balance` and
`coverage`, and the game buffer of `hard`. `Materialized` is `select_hard_materialized` as a
function of the whole input, the reference for the streamed one.

`Quality`. The gates of `evaluate_quality` in the order in which reasons are reported, as a sequence of
names and verdicts (`Gates`); the helpers on scores; `AuditPairs` is the pairing of a teacher's observation
with a student's. An absent option is the empty set.

`Tuning`. `tune`, `filter --preset` and `audit` one after the other over one file, and `calibrate` beside
`tune`. `cells` is the grid with what `CoverageTally` and `AuditStats` count in each cell, `preset` what
`--preset-out` leaves for `filter`; one action per line of each pass. `Pick` is the loop of the three
`pick_*`, which differ in the order they give it: it goes over the places of the grid (`Place`, outer axis first) and
keeps the first of the best (`BestOf`).

`Relabel`. `merge-observations` of two files, `dataset-diff` of the first and the result, `conflict-report`
of the result. `MergeObservationsInto` has the three policies; `Diff` is the grouping by occurrence with
the cancelling of equal records.

`PathRoles`. One directory of missing names, files and links, a command that reads one path and writes
others, of which the last may be a sidecar that is opened after the rest is committed. `Collide` is
`paths_collide`, `ValidatePaths` the gate, and the rest is the life of its `AtomicWriter`s.

`KifReader`. A KIF file is walked twice, for moves and result and for positions. `walk[w]` is
the state of each walk: the board, the snapshots of the mainline (`checkpoints`) and of each
open variation (`contexts`), the branch path and whether lines are accepted; `AtMarker` is
`branch_checkpoint` with the truncation of the stack. The actions are the kinds of line, and each
feeds both walks. `TreeOf` reads the same lines as a tree of blocks, line by line (`Read`), with no stack and
no snapshots: the reference.

`Board`. `shogiesa-core`'s board as operators: `ApplyNormal`, `ApplyDrop` and `ApplyUsi` apply what they
are told, `IsInCheck` scans rays from the king, `ToSfen` and `FromSfen` are a text's fields and tokens, and a
Zobrist hash is the set of what is XOR'd into it. `Steps`, `Slides` and `Attacked` are the rules of the
game and not of the code: the reference for the check test, and what makes the records games.

`CsaReader`. A CSA game over the board, one action per line of the record, which feeds the walk that
exports the moves (`raw`) and the walk that keeps positions (`records`); `CsaIllegal` and `CsaPanics` are the records that it
cannot play. `FromMatch` is the replay of a
game in USI notation by `from-match`.

`PackFormat`. The pack codec. `encode_record`, `decode_record` and `validate_record_encodable`
each list the fields of a record by hand; the three lists are layouts here (`Encoded*`, `Decoded*`,
`Checked*`), and `Write`, `Read` and `Fits` give a layout its meaning, as the helpers `wu8` to
`rs16` do. A byte has `Base` values instead of 256; the widths of numbers and prefixes are the
code's.

`QualityReport`. `QualitySummaryBuilder` as operators on a record: `Observe`, `Reject`, `BeginShard`,
`Finish`, and `DistinctSketch` as a set of at most `SketchSize` hashes. The keyed counters are one bag.

`Transport`. The three commands over a JSONL file, the pack made of it and the JSONL file made of that.
`cmd` is the command that runs with its local variables, `tmp` what `AtomicWriter` holds back until its
commit; one action per record or line. `Interrupt` ends a command anywhere, `Damage` cuts the pack or
changes a byte of it between two commands.

`LabelProofs` holds the proofs of `LabelPipeline` and of `LabelRuns`, `UsiEngineProofs` those of `UsiEngine`, `DatasetsProofs`
those of `Selection` and of `Tuning`, `RelabelProofs` those of `Relabel`, `FilesProofs` those of `RecipeRun`, `PathRoles` and
`SplitBundle`, `KifProofs` those of `KifReader`, and `CsaProofs` those of `CsaReader` and `Board`. `FoldFacts` is about folds, whoever folds
what. `MC*` instantiate for TLC. `MCDatasets`, `MCFiles` and `MCReadAndLabel` hold several modules that do not interact, one of them in each
behaviour (`family`, `protocol`, `command`) while the others stay in an initial state: their runs ask one question,
what becomes of a dataset, what reaches the disk, and how records are read and labelled.

## Runs

| Run | What it shows | Bounds, and why they are enough |
|---|---|---|
| `label_pipeline` | reorder buffer bounded, completeness, refinement (with it order and the window), termination, with any failure and with panics | 2 workers, window 3, job capacity 1, 4 lines: more lines than permits and more permits than workers, so every wait is reached with each side blocked |
| `usi_session` | no result is made of another search's lines; no false alarm; the barrier keeps a search from the completed one before it; dead and slow told apart; every call returns | strict: 4 calls, 2 infos per search, faults early, duplicate, exit (a search, its duplicate, a salvage, and a call after it), and 4 calls, 1 info, faults early, noinfo, malformed, exit (an answer that cannot be used, and three calls after it); compatible: 3 calls, 1 info, all faults |
| `usi_noinfo` (violation) | see Findings | 3 calls; an engine that repeats its answers and leaves out the info lines, or the move |
| `read_and_label` (label) | cache key, duplicate and resume rules | 2 runs over 2 records with six command lines that differ in policy, limit kind and value, MultiPV, cache, fingerprint, restart options, one of them with node budgets in decreasing order; a legacy observation in the input (with the next row 4.4 million states, three minutes) |
| `read_and_label` (read) | the stack of contexts comes to the tree the indentation describes; the two walks agree | all files with 3 markers (a variation in a variation, and one beside it) under a `max_ply`; all with 2 markers and 2 unusual lines (unreadable, illegal, terminal, bad marker); all with 2 markers and 2 destinations under `--dedup`; blocks of 2 moves; and all with 2 markers and blocks of 3 moves under `max_ply` 1, where a marker may branch from beyond what the positions walk reads |
| `files` (split) | complete or restored bundle | 3 sources of which two have colliding names and the third has the name the collision is resolved to, 4 records, 2 open writers, 2 faults, with and without a link |
| `files` (recipe) | verified bundles are reproducible, stages run on checked inputs, commits fail cleanly | 2 stages (two outputs, then one that reads both), two recipes of which one leaves an output unwritten, 3 edits, 3 faults: crash, edit, rerun, a failing rename in the rerun, and a failing step of its rollback |
| `files` (paths) | no command changes what it reads, nor a name that none of its outputs leads to; a refused one changes nothing | every directory of 3 names with files, hard links, links, links to links, cycles and links that lead nowhere; 2 spellings; up to 2 written paths, the last a sidecar or not |
| `path_aliases` (violation) | see Findings | the same directories |
| `datasets` (selection) | every selection against its definition | all inputs up to 4 records over 2 buckets, 3 roots, 2 games, bounds 0..3 |
| `datasets` (tuning) | filter, audit and calibrate say what tune promised; candidates are the best and do not depend on the order of thresholds; coverage falls along both axes; no verdict depends on the frame of a score | all files of up to 3 lines of 7 records and a broken line: ties, cells without a comparison, two engines, a legacy observation, a salvaged mate, both frames; three sets of held gates; a sweep of either axis and of both |
| `datasets` (relabel) | nothing is lost in a merge, the diff sees it as one, the conflicts add up, no engine and weight votes twice on a record, and colors make no difference | two files of up to 2 records of 7, that repeat occurrences, whole records and questions, under each policy; one has an engine with two weights |
| `engine_weights` (violation) | see Findings | one record |
| `kif_outcome` (violation) | see Findings | the same files |
| `csa_reader` | the check test is the rules'; text and hashes are the board's; the exported moves replay to the positions read; no piece is made or lost | a board of 4 by 4, on which a knight jumps and a piece can stand between two others: every king and every attacker of either color, and for two squares of the king every sliding or jumping attacker with a pawn anywhere; games of 3 plies with a capture, its drop and promotions, under three configurations |
| `zobrist_dedup` (violation) | see Findings | a board of 3 by 3, games of 7 plies |
| `transport` | a pack is complete or untouched; unpack returns every field or refuses; unpack and quality-report accept the same packs; the report of a file and of its pack agree; distinct counts, sequences and shards add up | bytes of 6 values, so that lengths end at 5 and 35 and every prefix is met at and past its limit; each tag and each optional field once; all files of 3 records that repeat sources, positions and variations with a sketch of 2 hashes; all of 2 lines with blank, broken, future and unreadable ones; two packs cut at every byte and changed at every byte to 1 or to the value no string has; 1 fault |

Deadlock is not checked in `label_pipeline`, `read_and_label`, `kif_outcome`, `csa_reader`, `zobrist_dedup` and `transport`: a label
run stops when the process has ended, and the pipeline also where a panic leaves it hanging (see below); a file ends; the three
commands end. All other runs check it.

## Fairness

`label_pipeline`: weak fairness of each thread's next step. Threads are scheduled by the
operating system; a step that blocks (an empty channel, a mutex held) is disabled in the
model, and a search ends because `analyse` bounds each wait (property `Returns`). Weak
fairness of a worker includes taking the mutex: it is held only across a `recv`, and
termination does not depend on which worker gets it. Nothing is assumed of failures.

`usi_session`: weak fairness of the client only. The engine may stop writing or never read; the
client's waits end by `recv_timeout` or by their deadline. What the engine writes is finite
(`MaxInfos`): a `recv_timeout` whose deadline has passed still returns a line that is queued, so an
engine that writes without end could hold a call, and `Returns` does not claim otherwise.

The other runs check safety only.

## Proofs

`LabelProofs`, of the pipeline: for every finite or infinite set of workers, window, job capacity and input
length (assumption `QueueAssumption`: sizes are naturals, window and capacity positive):
`TypeCorrect`, `WindowConserved`, `BoundedReorderBuffer`, `InputOrder`,
`CompleteOnSuccess`, and `StreamRefinement` (`Spec => ImplementsStream`). The types, the conserved window
and the order are no longer checked by a run: they are proved, and the refinement implies the last two. The inductive
invariant is `IInv`. None of the properties is inductive: that the writer emits ids in order needs that no
id is in two places (`OnePlace`); that a successful run is complete needs that nothing taken
off the job channel is dropped (`Lossless`), that workers leave only after the reader and with
an empty channel, and that the writer leaves its loop only after them (`Drained`). Permits
then count the records between dispatch and file. Cardinalities enter at one place: as many
distinct ids as the interval `0..nextJob-1` has.

`UsiEngineProofs`: for any engine, faults included, any number of calls and of info lines (`EngineAssumption`):
`BarrierResynchronises` and `DeadEngineIsReported`; and, if the engine is silent before the first `go` and, when it repeats its
answers, always gives a usable info line and a move (`StrictSessions`), `AnswersOwnGo` and `AlarmsAreTrue`. Both conditions are real:
without the first a bestmove from before the first `go` is taken for its answer (the code has no barrier there), without
the second the session is finding 1, whichever of the two is missing. An engine that answers without a score or a move, but
once, is within them. The invariant is about every line between the engine's memory and the client: lines are
in the order of their searches across the three queues they cross, the client owes as many `readyok` as it has asked for, and
where a barrier is due (`previous_search_completed`) each answer to `isready` is behind everything that the searches so
far can still send, where none is due it is ahead of it. That a result is made of its own search's lines follows where the drain ends.

`LabelProofs`, of the runs: for any records, command lines, engines and answers (`RunsAssumption`), `NoDuplicateRequests`,
`CacheAnswersTheRequest`, `OnlyReplacedByItsLike` and `ResumeSkipsCovered`. The cache's part of the invariant is that under
each key there is an answer to a request with that key, whoever wrote it, this process or another. That of a resume
(`ResumeInv`) is that what the resumed file said is still in the record, or was replaced by an answer that reached as deep, or its node
budget is one that was asked again: that last clause is the behaviour noted under Findings. `retain` is a recursive function, unfolded from a least index
for which it would not do what it says (`RetainedIs`).

`DatasetsProofs`, of the selection: for all records, bounds and input lengths (`SelectionAssumption`),
`SelectionKeepsBest` (each heap is the best of what was pushed: `PushBounded` drops only an
entry that `count` others precede) and `NoRootIsStarved` (from the first and the fact that the
ranks of a root in a bucket are given out from zero without gaps). That a heap has a worst
entry is carried as part of the invariant, for every subset, so that no induction over sets is needed. `BalanceIsEven`: in the second pass
each heap was pushed exactly the places of its bucket up to the line reached, and its bound is the size of the smallest bucket, so that it
ends with that many.
`HardMatchesMaterialized`: the hard selection by games never sees the whole input, and is compared with the one that does. On a grouped input
a record of another game means that the buffered game is complete, so that what has left the buffer has the key it has in the whole input, and
no later record changes that key (`HardInv`, `KeyStays`); at the end every place was pushed once. The two sides then hold entries with the same keys under
different indexes, and such sets are sorted alike up to equal keys, by counting what comes before the i-th of each (`NotSmaller`, `SameKeysSortAlike`);
the heap, which is the best of its entries, is where they begin (`BestComeFirst`). If plies ascend, the places are pushed in the order of the input.

`FilesProofs`, of the split: for any sources, names, inputs, hard links, pool size and number of I/O errors
(`SplitAssumption`), `TypeCorrect`, `PoolIsBounded`, `ManifestComesLast`, `NothingIsLost` and
`FailureIsUndone`. A rollback is right only if the program still knows where each old file
is, so the invariant says, for every path, which of three places its previous content is in
(`OldInv`: at the path, in its guard's backup, or given up after commit) and how far commit and
rollback have come (`ProgressInv`). That no two entries of a bundle go to one destination and that the
manifest is the last (`EntriesInv`, `AtInv`) is what keeps one entry's rename from undoing another's. `SplitIsComplete` adds what is in the
files: at every moment a source's staged file, followed by what its writer holds back, is the records read of that source, in
order (`RecordsInv`), through any number of evictions and reopenings, and no two sources have one name.

`DatasetsProofs`, of the tuning: for any labelled records, held gates, axes and file (`TuningAssumption`), `CoverageIsMonotone`
(`TighteningNeverKeepsMore`) and `CommandsAgree`. The first comes from an invariant that types the part of the state it is about. The lemma under it says that a record which passes the gates of a tighter cell passes those of a looser one:
of the seventeen gates fifteen do not depend on the two thresholds, and the other two follow their order.
For the second, that four passes over one file count alike, the invariant says that each cell's counters have a course over the lines
(for each number of lines read, what the counters are), that `filter`'s follow the course of the cell whose preset it reads, and `audit`'s
that of the records `filter` kept. The courses are carried in the invariant as functions that exist, one value longer with each line, since the
actions never mention the file as a whole. What is picked lies on the frontier by unfolding the loop of `Pick` from
a least place. `ViewsAgree`: a record and its mirror image, which turns every score, are related by `SameView`, and each step of grading
(`fold_observation`, the gates, the verdict) keeps the relation. `CandidatesAreBest`: a pick is a fold over the grid that keeps the best
when "better" is transitive and total over the cells (`FractionsAreOrdered`: coverages and mismatch rates are compared by cross
multiplication); a finite strict order has a maximal element over every element (`FiniteHasFirst`), so nothing off the frontier beats what is
picked from it; ties are broken by thresholds, which a grid in the other order has too, so that the same cell is picked from it (`TiesAreBroken`,
`BestIsUnique`). For these two `TuningAssumption` types the records, says that a threshold is an option (at most one number) and that there
are finitely many students.

`RelabelProofs`: for any two files of any records, each policy and each score limit (`RelabelAssumption`), `ConflictsAddUp` and
`MergeLosesNothing`. `conflict-report` is a fold of the lines: each line adds one to one count, a decisive one at least one to the counts of
answers and at most one for each engine and weight that has a score (`PairsAreCounted`, since the deepest of two engines are of two pairs,
`ScoredAreApart`), and its mirror image adds the same (`ReportingInv`). A merge is followed question by question: which answer a folded record holds under a
key is, by induction over the incoming observations, what the policy keeps of the two (`Keeping`), and each record that comes out is what became of
the one that went in, so that the counts of the summary add up (`Counting`). What the property says of `dataset-diff`, that
it sees the merge as one, is a statement about sums over groups of lines that have an occurrence in common (`DiffOfExtension`): the
groups are a partition (`KeysPartition`), so that totals over the groups are totals over the lines (`TotalsAdd`, `TotalsAreMonotone`).

`CsaProofs`: for any size of board and any games (`BoardAssumption`, `GamesAssumption`), `CheckIsReal`, `SfenIsFaithful` and
`ReplayAgrees`. `ScanIsCheck` is about all boards with at most one king a side, not only those of games: the scan of `is_in_check` is the rules', ray by
ray and jump by jump. `TextIsBoard` too: `from_sfen` of `to_sfen` is the board, by a fold over each rank, where the digits of a run of
empty squares are followed up to the next piece, and over the parts of the hands; and the seeded hashes of two boards
are equal when board and side are. For `ReplayAgrees` the invariant (`WalkInv`) is that `from-match`, after each number of moves, is where the
walk was, and that the material is that of the start. The second part is needed for the first: a capture adds to a `u8`, and a hand that
wrapped would no longer be what the text says. The code's CSA reader starts every game with empty hands (`csa/board.rs:32` to
65, hence `NoHands` in `GamesAssumption`), so that a hand never holds more than there are squares, 81 of 255 (`Size * Size <= HandMax`).

`FoldFacts` is why these can be proved at all. A fold of the community modules is a recursive definition over the subsets of a
set, with an operator as its parameter, and the library's induction theorems cannot be instantiated with one. Here the operator and
the order in which elements are taken are CONSTANTS of a module, so that a theorem about folds is stated once and
used through `INSTANCE FoldFacts WITH Op <- ..., Latest <- ...`; induction is a fact about a subset of the naturals that holds 0 and successors
(`AllNumbers`, from well-foundedness), of which induction over finite sets and over sequences are consequences (`SetInduction`,
`SequenceInduction`): in each the hypothesis is a set and not an operator. `FoldRelates` is the one used most: two
folds step by step in a relation end in it.

`FilesProofs`, of the recipe: for any stages, outputs, producers that come before their users, edits, crashes and failed
steps (`RecipeAssumption`), `VerifiedBundleIsReproducible`, `BundleIsUnique`, `StagesRunOnCheckedInputs` and
`FailedCommitIsUndone`. That a verified bundle is right cannot be seen from the last run alone, whose
stages may have been made by runs before it. The invariant therefore says of every manifest, complete or
interrupted, that it follows from itself (`Listed`): the identity of each stage names the identities its
producers have in it, and its recorded outputs are what a stage of that identity makes of what they
recorded. A stage taken over from another manifest keeps this because equal identities recorded equal
outputs (`SameInv`), which is where the identities of the producers inside an identity are needed: without
them the run finds a stale bundle that verifies. For a failed commit the invariant says, output by output, how far the commit and then the
rollback have come, so that at each step the file which the commit found has one place; where a step of the rollback slips, the file is still in its
backup, and the error says nothing of it. The identities are a recursive function; that it unfolds is
proved from a least stage for which it would not (`Least`, `IdentityExtends`), as is that the bundle is unique.

`FilesProofs`, of the paths: for any directory of files, links and hard links, any spellings and any written paths
(`PathsAssumption`), `InputsSurvive`. A writer replaces only the name at the end of its chain of links, which is never a
link itself; so the links are those of the start at every later step, and what a path leads to does not change between the
gate and the rename (`TargetsAgree`). What the gate compared is then what is written (`ApartInv`).

`KifProofs`: for any file, any nesting of variations and any configuration (`KifAssumption`), `WalksAgree`. The two walks are not in
the same state: at `max_ply` the positions walk ends its block and the moves walk reads on, so that its snapshots go further. The
invariant (`WalksInv`) is that a snapshot which both keep is the same, that the ones only the moves walk keeps are of plies
that no marker in reach branches from (`SameTrail`), and that a walk which reads alone is past `max_ply`. Then each marker finds the same
board in both walks or is refused by both, and what the moves walk adds alone is what the filter drops. Proving it is how the
condition `MarkersInReach` was found: without it the invariant breaks, and TLC showed a file for which the walks do not agree.

`LinesOfPlay` compares the moves walk with the tree of the file (`TreeInv`). What the walk has in hand is the last block
(`InHand`); its contexts are blocks, in order, each with its name, its indentation and the snapshots of its line
(`OfBlock`); and a block without a context has after it one that is no more indented (`Stacked`). This last part is what makes
a stack enough: the nearest less indented context is the nearest less indented block of the whole file (`ParentAgrees`), so a
marker branches in the walk where it does in the tree, or in neither (`BranchAgrees`). `ReadOnce` is the property itself,
which needs that names tell blocks apart. `TreeUnfolds` is what makes the tree of a file one step of `Read` from that of the
lines before.

Only model-checked: liveness (`Terminates`, `Returns`; out of the prover's reach).
Everything of `Transport`, whose layouts are trees that recursive operators walk, which the provers cannot load.

## Findings

1. `shogiesa-usi/src/lib.rs:604` A bestmove without a usable info line, or without a move (`lib.rs:599`), returns before
   `previous_search_completed` is set: the next search has no barrier, and takes a duplicate
   for its answer, with `--usi-strict` too. (`usi_noinfo`)
2. `shogiesa-kif/src/lib.rs:806` A "made n moves" line or a repetition marker on a line of its own
   sets the outcome also when it ends a variation whose marker was refused: the branch path
   is then still the mainline's. `lib.rs:671` says a branch's own terminal text is not the game's
   result. (`kif_outcome`)
3. `shogiesa-core/src/board.rs:221` The hash of a text leaves the hands out. Two positions of one game with
   the same board and side and other hands collide for certain, and `--dedup-zobrist` drops the second; the
   run finds a legal game in which a piece is dropped, taken by the king, and both sides are back
   in place. `main.rs:171` promises a chance of 1/2^64, and `selection.rs:587` that hands are consistent
   within one game. (`zobrist_dedup`)

4. `shogiesa-cli/src/io_support/path_roles.rs:15` The path gate asks `exists()`, which follows links: a link that
   leads nowhere yet is compared by its own name. With `--out x --manifest l` and `l` a link to `x`, the dataset
   is committed to `x` and the manifest, whose writer resolves `l` only then, replaces it.
   `CHANGELOG.md:165` says that aliases can no longer replace a completed output with its manifest.
   (`path_aliases`)

5. `shogiesa-cli/src/commands/diagnostics.rs:789` `conflict-report` keeps the deepest observation of each engine, under its
   name alone, where its comment (`diagnostics.rs:749`) says the deepest CP observation of each engine and weight: of two weights of one
   engine only one is compared, and a mate at the greatest depth hides the scores below it. (`engine_weights`)

Seen while modelling, and not shown by a run of its own. A worker that panics under `--preserve-order`
(`label.rs:1115`: `eprint!` panics when stderr is closed) leaves a gap in the ids: the writer holds every later record, no
permit comes back, and the join that would report the panic (`label.rs:1199`) is not reached, which is why
`Terminates` excepts a panic. In a strict session `awaiting_late_bestmove` stays set after the owed
bestmove was received (`shogiesa-usi/src/lib.rs:528`, against the comment at `lib.rs:223`), so each later
call waits and fails and no `go` follows. `--dedup` compares texts with their move numbers, so that within
one game it drops nothing. Claimed by no document: an info line without a
score replaces a usable one of its rank; in compatibility mode a late bestmove can be taken
for the next position's answer; resuming over an input that is labeled already writes its
observations twice (`ingest.rs:565`); `cached` observations keep the weight hash of their first
run; the engine's fingerprint is taken once per run; a node budget
is covered only by one that asked for the same number (`label.rs:549`), so that `--nodes 3,2` over a file with an answer to the first
asks for the second and, with the replace policy, may keep of the two the one that reached less (`main.rs:366` speaks of depth only); a position with fewer legal moves than
`--multipv` never counts as covered; a result salvaged at a short timeout is served from the
cache to a run with a longer one; a recipe's rerun aborts when a previous output is
gone; a stage that is not deterministic and is run again leaves the stages after it reused; a
crash between two renames of one stage leaves a mixed set until the rerun, and so does a rollback whose own errors are ignored
(`recipe.rs:675`, `recipe.rs:678`): the old file is then in its backup, which the next run of the stage deletes (`recipe.rs:683`) although
`CHANGELOG.md:260` says that staged outputs are committed atomically; a command that succeeds without writing a declared output (`filter
--dry-run` with `--out`) is accepted if an earlier run left a staged file of that name (`recipe.rs:660`), so the bundle vouches for it;
a CSA record that drops a king or a promoted piece panics in `drop_letter` (`board.rs:742`); a kill in a split
leaves new files under the old manifest; the name a colliding source gets depends on the
order of the input; `split` and others open the input again for its hash; `coverage` panics
if the file changes between its passes; a draw marker written as a move line on the mainline makes
`extract_from_str` stop reading, so the variations behind it are lost although `lib.rs:408` says a
terminal marker ends its block only (`extract_moves_from_str` reads on); a mainline that passes
`max_ply` drops variations that branch from earlier plies; `extract_moves_from_str`, which
`lib.rs:670` calls parallel to `extract_from_str`'s walk, does not read with the same `max_ply`, so that a marker that branches from beyond
`max_ply` + 2 is refused by the positions walk and accepted by the moves walk: variations are numbered as they are
accepted (`lib.rs:378`), so the later ones of the game are named `#var3@1` in one file and `#var2@1` in the other (which is
why `WalksAgree` speaks of files whose `MarkersInReach`); `merge-observations` with a preferred file also drops
observations that collide inside the secondary file alone, although `main.rs:220` speaks of both files, and its key
leaves the weights out; `audit` writes the pairs of a record in the
order of a hash map; the score swing is taken over scores as recorded, so that a record that mixes frames has
a wrong one; `extract` and `lineprior` compare a directory given as input only by its own path, so that an
output may replace one of its games; at equal depth the first observation of an engine votes, but the last is
the one whose evaluation is binned; `tune` leaves broken lines out of its total and `filter` counts them.

## Limits of the models

- A salvage or a rejected result depends on whether an info line is usable, not on which of
  score and pv is missing; MultiPV ranks above 1 are not tracked inside a search.
- The strict session of `usi_session` leaves out an unasked-for bestmove between handshake and
  first `go`: the code has no barrier there and promises none. The compatible one has it. The theorems about the strict session
leave out the same.
- `RecipeRun`: a failed write of `run.json` is a crash, and so is an output that cannot be read for its hash. `FailedCommitRestores`
  speaks of one commit, up to the end of its run: the next run of the stage removes a backup that a crash or a slipped rollback left. A command that leaves part of its outputs is a stage that fails. `Edit` changes files between runs:
  the code hashes an external input when it plans, and a file that is changed after that and changed back
  before `verify` would be vouched for with what was made of it meanwhile.
- SFENs and seeded hashes are numbers that order; equal hashes of different SFENs do not occur.
- In `KifReader` a board is who moved first and the moves played, so equal SFENs are equal
  histories and `--dedup` never meets a transposition. Header lines are in `Init`; a handicap the
  reader does not support is left out. No move follows its block's terminal marker.
- In `CsaReader` the records are games: moves of the side to move, as the pieces go, not into check, drops
  on empty squares. The code checks none of this; the two things it does check end the record, without its moves. A hash
  collides only when the hashed things are equal. The text of a USI move is the move.
- In `Transport` a string is its bytes, of which one value never occurs in UTF-8; the extension says
  what a report's input is (detection by magic and a pack read as JSONL are left out); the estimate
  of a saturated count stands by the largest hash it is computed from; hashes of different values
  differ; the input's manifest is left out of the report, and coverage out of the pack's.
- In `Quality` and `Tuning` f64 is the rational it stands for, an i64 difference of two i32 is the
  integer; `QualityConfigs` are those that `validate_quality_config` accepts, less its refusal of empty ranges.
  `ViewsAgree` turns all the scores of a record at once: one that mixes frames has a wrong swing either way.
- In `Relabel` the version, requested depth, limit and nodes of a request are one value; scores are in the frame of the
  side to move; lines that do not parse are skipped before the first step.
- In `PathRoles` there is one directory, one read path and no change from outside; each write is a
  new file under the name it resolves to.
- The single input file of a run is fixed while it is read.

## Not modelled

Text: KIF and CSA tokens, the validation of foreign SFENs, `info` lines, JSON, reports, command-line
definitions. Reports over one input without state (`report`, `block-report`, `distribution`, `validate`) and
the diagnostics that other commands print beside their output. Scripts, packaging, the facade crate.
`PROJECT.json` gives the reason for each component.

## Plan

What is left, in order of importance.

1. `split --train`, shuffle and the order manifest; `mine`; the header of a match file and the discovery of inputs.
2. `KifReader` over `Board`, so that `--dedup` meets transpositions; the validation of SFENs against what
   `from_sfen` takes for granted.
3. stability, `validate` and the field changes of a diff; the diagnostics that `tune` and `calibrate` print.
4. An engine that writes before its first `go` in a strict session, as a run that says what the handshake leaves open.
5. Proofs: a sketch of `QualityReport` holds the smallest hashes; `PackFormat` with its layouts as functions.
