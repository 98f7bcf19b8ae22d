---------------------------- MODULE LabelPipeline ----------------------------
(***************************************************************************)
(* The thread pipeline of `shogiesa label` (cmd_label): one reader, a pool *)
(* of workers that share one job receiver behind a mutex, and the main     *)
(* thread as the writer.  They are joined by three channels:               *)
(*   - permits: a sync_channel filled with QueueDepth tokens; the reader   *)
(*     takes one per record, the writer gives one back per written record; *)
(*   - jobs: a bounded sync_channel from the reader to the workers;        *)
(*   - results: an unbounded channel from the workers to the writer.       *)
(* A record is abstracted to its job id; what a worker does to it is the   *)
(* business of the engine modules.                                         *)
(***************************************************************************)
EXTENDS Naturals, Sequences, FiniteSets

CONSTANTS Workers,       \* worker threads (--jobs of them)
          QueueDepth,    \* permits: 4 * jobs in the code
          JobCapacity,   \* capacity of the job channel: jobs in the code
          MaxLines,      \* bound: lines of the input file
          MayPanic,      \* whether a worker thread can panic
          None           \* no worker, no record

ASSUME QueueAssumption ==
    /\ QueueDepth \in Nat \ {0}
    /\ JobCapacity \in Nat \ {0}
    /\ MaxLines \in Nat
    /\ MayPanic \in BOOLEAN
    /\ Workers # {} /\ None \notin Workers
    /\ None \notin Nat

VARIABLES
    preserve,    \* args.preserve_order
    reader,      \* control state of the reader thread
    nextJob,     \* job_id: the id of the next accepted record
    skipped,     \* lines the reader rejected
    permits,     \* tokens in the permit channel
    jobs,        \* the job channel
    lock,        \* owner of the mutex around the job receiver
    worker,      \* control state of each worker
    held,        \* the record each worker works on
    engineUp,    \* whether each worker has an engine process
    launchFailures, \* engine_launch_failures
    results,     \* the result channel
    main,        \* control state of the main (writer) thread
    pending,     \* records the writer holds and has not written
    nextId,      \* next_id: the id --preserve-order writes next
    out,         \* ids written and flushed, in file order
    manifest     \* the run manifest, once written

readerVars == <<reader, nextJob, skipped>>
workerVars == <<worker, held, engineUp, launchFailures>>
writerVars == <<main, pending, nextId, out, manifest>>
vars == <<preserve, readerVars, permits, jobs, lock, workerVars, results, writerVars>>

ReaderStates == {"read", "permit", "send", "done", "failed"}
WorkerStates == {"idle", "recv", "work", "report", "ended", "panicked"}
MainStates   == {"create", "drain", "join", "ok", "failed", "exited"}

-----------------------------------------------------------------------------
(* Which ends of the channels are alive.                                   *)

ReaderGone == reader \in {"done", "failed"}       \* job_tx, permit_rx dropped
WorkerGone(w) == worker[w] \in {"ended", "panicked"}
WorkersGone == \A w \in Workers : WorkerGone(w)   \* every result_tx dropped
Returning == main = "failed"                      \* result_rx, permit_tx dropped
Running == main \notin {"ok", "exited"}           \* the process is alive

\* The job receiver is shared by the workers and by cmd_label's own Arc, which
\* lives until that function returns.
JobReceiverGone == WorkersGone /\ Returning

Elements(s) == {s[i] : i \in 1..Len(s)}
Written == Elements(out)

Init ==
    /\ preserve \in BOOLEAN
    /\ reader = "read" /\ nextJob = 0 /\ skipped = 0
    /\ permits = QueueDepth
    /\ jobs = <<>> /\ lock = None /\ results = <<>>
    /\ worker = [w \in Workers |-> "idle"]
    /\ held = [w \in Workers |-> None]
    /\ engineUp = [w \in Workers |-> FALSE]
    /\ launchFailures = 0
    /\ main = "create"
    /\ pending = {} /\ nextId = 0 /\ out = <<>>
    /\ manifest = None

-----------------------------------------------------------------------------
(* Reader thread.                                                          *)

\* A line parses and its SFEN is valid: a record to dispatch.
ReadValid ==
    /\ reader = "read" /\ nextJob + skipped < MaxLines
    /\ reader' = "permit"
    /\ UNCHANGED <<nextJob, skipped, permits, jobs>>

\* Invalid SFEN or invalid JSON: counted and skipped.
ReadInvalid ==
    /\ reader = "read" /\ nextJob + skipped < MaxLines
    /\ skipped' = skipped + 1
    /\ UNCHANGED <<reader, nextJob, permits, jobs>>

\* The file cannot be opened or read on.
ReadError ==
    /\ reader = "read"
    /\ reader' = "failed"
    /\ UNCHANGED <<nextJob, skipped, permits, jobs>>

ReadEof ==
    /\ reader = "read"
    /\ reader' = "done"
    /\ UNCHANGED <<nextJob, skipped, permits, jobs>>

\* Mutation: the reader looks for a permit and does not keep it.
TakePermitFree ==
    /\ reader = "permit" /\ permits > 0
    /\ reader' = "send"
    /\ UNCHANGED <<nextJob, skipped, permits, jobs>>

\* permit_rx.recv(): tokens left in the channel are still received after the
\* writer's end is gone.
TakePermit ==
    /\ reader = "permit" /\ permits > 0
    /\ permits' = permits - 1
    /\ reader' = "send"
    /\ UNCHANGED <<nextJob, skipped, jobs>>

PermitClosed ==
    /\ reader = "permit" /\ permits = 0 /\ Returning
    /\ reader' = "done"
    /\ UNCHANGED <<nextJob, skipped, permits, jobs>>

\* job_tx.send(): blocks while the channel is full.
SendJob ==
    /\ reader = "send" /\ ~JobReceiverGone
    /\ Len(jobs) < JobCapacity
    /\ jobs' = Append(jobs, nextJob)
    /\ nextJob' = nextJob + 1
    /\ reader' = "read"
    /\ UNCHANGED <<skipped, permits>>

SendClosed ==
    /\ reader = "send" /\ JobReceiverGone
    /\ reader' = "done"
    /\ UNCHANGED <<nextJob, skipped, permits, jobs>>

ReaderStep ==
    /\ Running
    /\ \/ ReadValid \/ ReadInvalid \/ ReadError \/ ReadEof
       \/ TakePermit \/ PermitClosed \/ SendJob \/ SendClosed
    /\ UNCHANGED <<preserve, lock, workerVars, results, writerVars>>

-----------------------------------------------------------------------------
(* Worker threads.                                                         *)

\* job_rx.lock(): the mutex stays locked while the worker blocks in recv().
Lock(w) ==
    /\ worker[w] = "idle" /\ lock = None
    /\ lock' = w
    /\ worker' = [worker EXCEPT ![w] = "recv"]
    /\ UNCHANGED <<jobs, held, engineUp, launchFailures, results>>

\* Mutation: the job is read and stays in the queue.
ReceiveKeepsJob(w) ==
    /\ worker[w] = "recv" /\ jobs # <<>>
    /\ held' = [held EXCEPT ![w] = Head(jobs)]
    /\ lock' = None
    /\ worker' = [worker EXCEPT ![w] = "work"]
    /\ UNCHANGED <<jobs, engineUp, launchFailures, results>>

Receive(w) ==
    /\ worker[w] = "recv" /\ jobs # <<>>
    /\ held' = [held EXCEPT ![w] = Head(jobs)]
    /\ jobs' = Tail(jobs)
    /\ lock' = None
    /\ worker' = [worker EXCEPT ![w] = "work"]
    /\ UNCHANGED <<engineUp, launchFailures, results>>

\* Mutation: a worker leaves once the reader is done, whatever is still queued.
ReceiveClosedEarly(w) ==
    /\ worker[w] = "recv" /\ ReaderGone
    /\ lock' = None
    /\ worker' = [worker EXCEPT ![w] = "ended"]
    /\ UNCHANGED <<jobs, held, engineUp, launchFailures, results>>

\* The queue is drained and the reader's sender is dropped.
ReceiveClosed(w) ==
    /\ worker[w] = "recv" /\ jobs = <<>> /\ ReaderGone
    /\ lock' = None
    /\ worker' = [worker EXCEPT ![w] = "ended"]
    /\ UNCHANGED <<jobs, held, engineUp, launchFailures, results>>

\* With an engine (launched now if there was none) the record is analysed, and
\* the engine is dropped when analyze_record asks for a restart.
Analyse(w) ==
    /\ worker[w] = "work"
    /\ \E restartNeeded \in BOOLEAN :
           engineUp' = [engineUp EXCEPT ![w] = ~restartNeeded]
    /\ worker' = [worker EXCEPT ![w] = "report"]
    /\ UNCHANGED <<jobs, lock, held, launchFailures, results>>

\* The launch failed: the record passes through unlabeled.
LaunchFails(w) ==
    /\ worker[w] = "work" /\ ~engineUp[w]
    /\ launchFailures' = launchFailures + 1
    /\ worker' = [worker EXCEPT ![w] = "report"]
    /\ UNCHANGED <<jobs, lock, held, engineUp, results>>

\* result_tx.send(): the unbounded channel never blocks; the worker ends when
\* the writer is gone.
Report(w) ==
    /\ worker[w] = "report"
    /\ held' = [held EXCEPT ![w] = None]
    /\ IF Returning
          THEN /\ worker' = [worker EXCEPT ![w] = "ended"]
               /\ UNCHANGED results
          ELSE /\ worker' = [worker EXCEPT ![w] = "idle"]
               /\ results' = Append(results, held[w])
    /\ UNCHANGED <<jobs, lock, engineUp, launchFailures>>

\* A worker thread unwinds before it sends its record, as eprint! of the
\* progress line does when stderr is a closed pipe; the join in cmd_label
\* provides for it.
Panic(w) ==
    /\ MayPanic /\ worker[w] = "report"
    /\ worker' = [worker EXCEPT ![w] = "panicked"]
    /\ held' = [held EXCEPT ![w] = None]
    /\ UNCHANGED <<jobs, lock, engineUp, launchFailures, results>>

WorkerStep(w) ==
    /\ Running
    /\ \/ Lock(w) \/ Receive(w) \/ ReceiveClosed(w)
       \/ Analyse(w) \/ LaunchFails(w) \/ Report(w) \/ Panic(w)
    /\ UNCHANGED <<preserve, readerVars, permits, writerVars>>

-----------------------------------------------------------------------------
(* Main thread: the writer.                                                *)

CreateOutput ==
    /\ main = "create"
    /\ main' \in {"drain", "failed"}
    /\ UNCHANGED <<permits, results, pending, nextId, out, manifest>>

\* Mutation: records are written as they arrive under --preserve-order too.
WritableOnArrival(id) == id \in pending

\* The record write_one takes next: under --preserve-order the next contiguous
\* id (reorder_push), otherwise the one that has just arrived.
Writable(id) == id \in pending /\ (preserve => id = nextId)
Flushing == \E id \in pending : Writable(id)

\* Mutation: the permit is given back when the record arrives, before it is
\* written.
TakeResultReleases ==
    /\ main = "drain" /\ ~Flushing /\ results # <<>>
    /\ pending' = pending \union {Head(results)}
    /\ results' = Tail(results)
    /\ permits' = permits + 1
    /\ UNCHANGED <<main, nextId, out, manifest>>

TakeResult ==
    /\ main = "drain" /\ ~Flushing /\ results # <<>>
    /\ pending' = pending \union {Head(results)}
    /\ results' = Tail(results)
    /\ UNCHANGED <<permits, main, nextId, out, manifest>>

\* Mutation: the record is written and its permit is not given back.
WriteOneKeepsPermit(id) ==
    /\ main = "drain" /\ Writable(id)
    /\ out' = Append(out, id)
    /\ pending' = pending \ {id}
    /\ nextId' = IF preserve THEN nextId + 1 ELSE nextId
    /\ UNCHANGED <<permits, results, main, manifest>>

\* write_one: append the line, flush, give one permit back.  The send fails
\* without effect when the reader is gone, and would block on a full channel.
WriteOne(id) ==
    /\ main = "drain" /\ Writable(id)
    /\ out' = Append(out, id)
    /\ pending' = pending \ {id}
    /\ nextId' = IF preserve THEN nextId + 1 ELSE nextId
    /\ IF ReaderGone THEN UNCHANGED permits
                     ELSE permits < QueueDepth /\ permits' = permits + 1
    /\ UNCHANGED <<results, main, manifest>>

\* An I/O error returns from cmd_label at once; what is queued or pending is lost.
WriteFails ==
    /\ main = "drain" /\ Flushing
    /\ main' = "failed"
    /\ UNCHANGED <<permits, results, pending, nextId, out, manifest>>

\* The result loop ends when every worker's sender is dropped; then the last flush.
ResultsClosed ==
    /\ main = "drain" /\ ~Flushing /\ results = <<>> /\ WorkersGone
    /\ main' \in {"join", "failed"}
    /\ UNCHANGED <<permits, results, pending, nextId, out, manifest>>

\* reader_handle.join(), then every worker's: a reader error or a panicked
\* worker is the run's error; otherwise the manifest is written, which may fail.
Join ==
    /\ main = "join" /\ ReaderGone
    /\ \/ main' = "failed" /\ UNCHANGED manifest
       \/ /\ reader = "done" /\ \A w \in Workers : worker[w] # "panicked"
          /\ main' = "ok"
          /\ manifest' = [read |-> nextJob + skipped, kept |-> Len(out),
                          dropped |-> skipped, launchFailures |-> launchFailures]
    /\ UNCHANGED <<permits, results, pending, nextId, out>>

\* The error is reported and the process exits, whatever still runs.
Exit ==
    /\ Returning
    /\ main' = "exited"
    /\ UNCHANGED <<permits, results, pending, nextId, out, manifest>>

MainStep ==
    /\ \/ CreateOutput \/ TakeResult \/ WriteFails
       \/ \E id \in pending : WriteOne(id)
       \/ ResultsClosed \/ Join \/ Exit
    /\ UNCHANGED <<preserve, readerVars, jobs, lock, workerVars>>

-----------------------------------------------------------------------------
\* The process has ended: the only state in which nothing moves.
Ended == ~Running /\ UNCHANGED vars

Next == ReaderStep \/ (\E w \in Workers : WorkerStep(w)) \/ MainStep \/ Ended

\* Every thread is scheduled.  A blocked thread is disabled, and every search
\* of an engine is bounded by its time limit, so a worker's step ends.
Fairness ==
    /\ WF_vars(ReaderStep)
    /\ \A w \in Workers : WF_vars(WorkerStep(w))
    /\ WF_vars(MainStep)

Spec == Init /\ [][Next]_vars
FairSpec == Spec /\ Fairness

-----------------------------------------------------------------------------
(* Properties.                                                             *)

Ids == 0..(nextJob - 1)
Holding == IF reader = "send" THEN 1 ELSE 0

\* The types of the variables.  Records are ids that were dispatched, and the
\* permit channel never holds more tokens than it was created with.
TypeOK ==
    /\ preserve \in BOOLEAN
    /\ reader \in ReaderStates /\ nextJob \in Nat /\ skipped \in Nat
    /\ permits \in 0..QueueDepth
    /\ jobs \in Seq(Ids) /\ Len(jobs) <= JobCapacity
    /\ lock \in Workers \union {None}
    /\ worker \in [Workers -> WorkerStates]
    /\ held \in [Workers -> Ids \union {None}]
    /\ engineUp \in [Workers -> BOOLEAN] /\ launchFailures \in Nat
    /\ results \in Seq(Ids)
    /\ main \in MainStates
    /\ pending \in SUBSET Ids /\ nextId \in Nat /\ out \in Seq(Ids)

\* The dispatch window (label.rs:950): while the reader lives, tokens in the
\* channel, the reader's own token and the records dispatched and not written
\* always add up to queue_depth, so no interleaving loses or invents a permit.
PermitsConserved ==
    ~ReaderGone => permits + Holding + (nextJob - Len(out)) = QueueDepth

\* The records dispatched and not yet written never exceed the window, also
\* after the reader has ended; so the reorder buffer stays under queue_depth
\* whenever the writer goes back to wait (the debug_assert at label.rs:1182), and
\* giving a permit back never blocks the writer on a full channel.
ReorderBufferBounded ==
    /\ nextJob <= Len(out) + QueueDepth
    /\ Cardinality(pending) <= QueueDepth
    /\ ~Flushing => Cardinality(pending) < QueueDepth
    /\ (pending # {} /\ ~ReaderGone) => permits < QueueDepth

\* Under --preserve-order the file holds the records 0, 1, 2... in input order
\* whichever worker finishes first, and next_id is the length of the file.
OrderPreserved ==
    preserve => /\ nextId = Len(out)
                /\ \A i \in 1..Len(out) : out[i] = i - 1

\* A run that reports success has written every dispatched record exactly once
\* and its manifest accounts for every line of the input; no failure of the
\* engine, the reader or the writer can end in a manifest over a partial file.
ManifestComplete ==
    (main = "ok") =>
        /\ Written = Ids /\ Len(out) = nextJob
        /\ manifest.read = manifest.kept + manifest.dropped

\* The invariant that makes the above inductive.  A dispatched record is in one
\* place: still in the job channel, which holds the last ids in order, or with a
\* worker, in the result channel, with the writer, or in the file.
Distinct(s) == \A i, j \in 1..Len(s) : s[i] = s[j] => i = j
InHand == {held[w] : w \in Workers} \ {None}
Dequeued == 0..(nextJob - Len(jobs) - 1)

HeldInv ==
    /\ \A w \in Workers : (held[w] # None) <=> (worker[w] \in {"work", "report"})
    /\ \A v, w \in Workers : (held[v] = held[w] /\ held[v] # None) => v = w

OnePlace ==
    /\ Len(jobs) <= nextJob
    /\ \A i \in 1..Len(jobs) : jobs[i] = nextJob - Len(jobs) + i - 1
    /\ Distinct(results) /\ Distinct(out)
    /\ InHand \union Elements(results) \union pending \union Written \subseteq Dequeued
    /\ InHand \intersect (Elements(results) \union pending \union Written) = {}
    /\ Elements(results) \intersect (pending \union Written) = {}
    /\ pending \intersect Written = {}

NoPanic == \A w \in Workers : worker[w] # "panicked"

\* Nothing taken off the job channel is lost unless a worker panics or the
\* writer gives up, and workers leave only when nothing more can come.
Lossless ==
    (NoPanic /\ main \notin {"failed", "exited"}) =>
        /\ Dequeued = InHand \union Elements(results) \union pending \union Written
        /\ \A w \in Workers : worker[w] = "ended" => ReaderGone /\ jobs = <<>>

\* The writer is past its loop only when no worker can report any more.
Drained == main \in {"join", "ok"} => WorkersGone /\ results = <<>> /\ ~Flushing

Finished == main = "ok" => NoPanic /\ manifest = [read |-> nextJob + skipped,
                kept |-> Len(out), dropped |-> skipped, launchFailures |-> launchFailures]

IInv == TypeOK /\ HeldInv /\ PermitsConserved /\ (nextJob <= Len(out) + QueueDepth)
        /\ OrderPreserved /\ OnePlace /\ Lossless /\ Drained /\ Finished

\* The pipeline implements the stream of LabelStream: each record at most once,
\* in order when asked, inside the window, complete on success.
Stream == INSTANCE LabelStream WITH
    Window <- QueueDepth, accepted <- nextJob, emitted <- out,
    finished <- (main = "ok")
ImplementsStream == Stream!Spec

\* Whatever fails (input, output, engine launches), and however the threads
\* interleave, the run ends: no wait on the permits, the bounded job channel,
\* the mutex and the reorder buffer closes a cycle.  Only a panicked worker,
\* whose record and permit are lost, is excepted:
\* under --preserve-order the writer may then wait for ever for that record.
Terminates ==
    <>(main \in {"ok", "exited"} \/ \E w \in Workers : worker[w] = "panicked")
=============================================================================
