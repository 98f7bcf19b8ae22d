------------------------------ MODULE UsiEngine ------------------------------
(***************************************************************************)
(* One engine session of shogiesa-usi: UsiEngine (launch, handshake,       *)
(* analyse), the thread that forwards the engine's stdout into a channel,  *)
(* and the engine process at the other end of two pipes.                   *)
(*                                                                         *)
(* A call of analyse is numbered; the number stands for the position it    *)
(* asks about.  Every line the engine writes carries the number of the     *)
(* search it belongs to, or 0: the client never sees that tag, only the    *)
(* ghost variables and the properties do.  An info line is "info" when it  *)
(* has a score and a pv, "bare" when build_analysis_result cannot use it;  *)
(* both replace what the client knew, as insert into candidates_by_rank    *)
(* does.  The engine is the environment: faults says which of the          *)
(* misbehaviours of fake-usi-engine and of the doc comments it may show.   *)
(* Whether a bestmove line has a move token is looked at only by the search*)
(* that takes it for its answer, so that is where it is decided            *)
(* (TakeBestmove), not where the line is written.                          *)
(***************************************************************************)
EXTENDS Naturals, Sequences, FiniteSets

CONSTANT Sessions  \* the sessions: --usi-strict, what the engine may do wrong, and
                   \* the bounds: calls of analyse, info lines of one search

FaultKinds == {"early",      \* a bestmove during the handshake
               "stray",      \* a bestmove after it and before the first go
               "duplicate",  \* a second bestmove right behind the first
               "noinfo",     \* a bestmove with no usable info line before it
               "malformed",  \* a bestmove line without a move
               "exit"}       \* the process dies

ASSUME EngineAssumption ==
    Sessions \subseteq [strict : BOOLEAN, faults : SUBSET FaultKinds,
                        calls : Nat, infos : Nat]

VARIABLES
    session,     \* the session of this behaviour
    pc,          \* where the client is: "usi", "setup" or "failed" in launch_command,
                 \* "idle", "late", "barrier", "drain", "search" or "grace" in analyse
    call,        \* the number of the current or last call of analyse
    go,          \* the call whose go was written last, 0 before the first
    awaiting,    \* awaiting_late_bestmove
    completed,   \* previous_search_completed
    early,       \* pending_handshake_bestmoves is not empty
    best,        \* candidates_by_rank.get(1): kind and ghost tag of the line
    outcome,     \* what the last call returned
    stdin,       \* the pipe to the engine
    stdout,      \* the pipe from the engine
    rx,          \* the channel of the forwarding thread
    alive,       \* the engine process runs
    engine,      \* its state: stage, running search, infos, tag of a duplicate
    log,         \* ghost: the results returned, with the tags they were built from
    synced,      \* ghost: the call followed a completed search
    bornDead,    \* ghost: the call began with nothing left to read from a dead engine
    seen         \* ghost: the searches whose bestmove the client has received

flags == <<go, awaiting, completed, early>>
client == <<pc, call, flags, best, outcome>>
pipes == <<stdin, stdout, rx>>
ghosts == <<log, synced, bornDead, seen>>
vars == <<session, client, pipes, alive, engine, ghosts>>

Strict == session.strict
Faults == session.faults
MaxCalls == session.calls
MaxInfos == session.infos

Line(kind, n) == [kind |-> kind, go |-> n]
NoInfo == Line("none", 0)

\* go_ever_sent
GoEverSent == go # 0

Init ==
    /\ session \in Sessions
    /\ pc = "usi" /\ call = 0 /\ go = 0
    /\ awaiting = FALSE /\ completed = FALSE /\ early = FALSE
    /\ best = NoInfo /\ outcome = "none"
    /\ stdin = <<Line("usi", 0)>> /\ stdout = <<>> /\ rx = <<>>
    /\ alive = TRUE
    /\ engine = [stage |-> "boot", search |-> 0, infos |-> 0, usable |-> FALSE,
                 dup |-> 0]
    /\ log = <<>> /\ synced = FALSE /\ bornDead = FALSE /\ seen = {}

-----------------------------------------------------------------------------
(* The engine process, and the thread that forwards its output.            *)

Write(kind, n) == stdout' = Append(stdout, Line(kind, n))

\* Commands are read in order.  One that starts a search occupies the engine.
ReadCommand ==
    /\ engine.search = 0 /\ stdin # <<>>
    /\ stdin' = Tail(stdin)
    /\ CASE Head(stdin).kind = "usi" ->
              Write("usiok", 0) /\ engine' = [engine EXCEPT !.dup = 0]
         [] Head(stdin).kind = "isready" ->
              /\ Write("readyok", 0)
              /\ engine' = [engine EXCEPT !.dup = 0, !.infos = 0,
                                !.stage = IF @ = "boot" THEN "ready" ELSE @]
         [] Head(stdin).kind = "go" ->
              /\ engine' = [stage |-> "playing", search |-> Head(stdin).go,
                            infos |-> 0, usable |-> FALSE, dup |-> 0]
              /\ UNCHANGED stdout
         [] OTHER ->
              engine' = [engine EXCEPT !.dup = 0] /\ UNCHANGED stdout

\* An engine that reads while it searches sees the stop; when it obeys, and
\* whether it does, is up to FinishSearch.
ReadStop ==
    /\ engine.search # 0 /\ stdin # <<>> /\ Head(stdin).kind = "stop"
    /\ stdin' = Tail(stdin)
    /\ UNCHANGED <<stdout, engine>>

SendInfo ==
    /\ engine.search # 0 /\ engine.infos < MaxInfos
    /\ \E usable \in {TRUE} \union (IF "noinfo" \in Faults THEN {FALSE} ELSE {}) :
           /\ Write(IF usable THEN "info" ELSE "bare", engine.search)
           /\ engine' = [engine EXCEPT !.infos = @ + 1, !.usable = usable]
    /\ UNCHANGED stdin

FinishSearch ==
    /\ engine.search # 0
    /\ engine.usable \/ "noinfo" \in Faults
    /\ Write("bestmove", engine.search)
    /\ engine' = [engine EXCEPT !.search = 0,
                      !.dup = IF "duplicate" \in Faults THEN engine.search ELSE 0]
    /\ UNCHANGED stdin

Duplicate ==
    /\ engine.search = 0 /\ engine.dup # 0
    /\ Write("bestmove", engine.dup)
    /\ engine' = [engine EXCEPT !.dup = 0]
    /\ UNCHANGED stdin

\* A bestmove nobody asked for, at most one in each stage before the first go.
Unsolicited ==
    /\ \/ engine.stage = "boot" /\ "early" \in Faults
       \/ engine.stage = "ready" /\ "stray" \in Faults
    /\ engine.infos = 0
    /\ Write("bestmove", 0)
    /\ engine' = [engine EXCEPT !.infos = 1]
    /\ UNCHANGED stdin

EngineStep ==
    /\ alive
    /\ \/ ReadCommand \/ ReadStop \/ SendInfo \/ FinishSearch \/ Duplicate
       \/ Unsolicited
    /\ UNCHANGED <<session, client, rx, alive, ghosts>>

EngineExits ==
    /\ alive /\ "exit" \in Faults
    /\ alive' = FALSE
    /\ UNCHANGED <<session, client, pipes, engine, ghosts>>

\* The forwarding thread: what the process wrote before it died still arrives.
Forward ==
    /\ stdout # <<>>
    /\ rx' = Append(rx, Head(stdout)) /\ stdout' = Tail(stdout)
    /\ UNCHANGED <<session, client, stdin, alive, engine, ghosts>>

-----------------------------------------------------------------------------
(* The client's primitives.                                                *)

\* The forwarding thread has ended at the end of stdout.
Disconnected == ~alive /\ stdout = <<>> /\ rx = <<>>

\* write_line: into a dead engine's pipe the write fails, or is lost unnoticed.
Put(command) ==
    IF alive THEN stdin' = Append(stdin, command) ELSE UNCHANGED stdin
PutFails == ~alive

\* recv_until.
Recv(kind) == rx # <<>> /\ Head(rx).kind = kind /\ rx' = Tail(rx)
RecvOther(kinds) == rx # <<>> /\ Head(rx).kind \notin kinds /\ rx' = Tail(rx)
RecvTimeout == rx = <<>> /\ ~Disconnected /\ UNCHANGED rx
RecvIo == Disconnected /\ UNCHANGED rx

\* A line taken out of the channel that leaves the client where it is.
Skip == UNCHANGED <<pc, call, flags, best, outcome, log, synced, bornDead>>

\* analyse returns an error.
Fail(e) ==
    /\ pc' = "idle" /\ outcome' = e
    /\ UNCHANGED <<call, best, log, synced, bornDead>>

Received == seen' = IF rx # <<>> /\ rx' = Tail(rx) /\ Head(rx).kind = "bestmove"
                    THEN seen \union {Head(rx).go} ELSE seen

-----------------------------------------------------------------------------
(* launch_command and handshake.                                           *)

\* usiok ends the first loop; the options and isready follow.
HandshakeUsi ==
    /\ pc = "usi" /\ Recv("usiok")
    /\ \/ pc' = "setup" /\ Put(Line("isready", 0))
       \/ pc' = "failed" /\ PutFails /\ UNCHANGED stdin
    /\ UNCHANGED <<call, flags, best, outcome, log, synced, bornDead>>

\* readyok ends the second; usinewgame follows, and the engine can be used.
HandshakeReady ==
    /\ pc = "setup" /\ Recv("readyok")
    /\ \/ pc' = "idle"
       \/ pc' = "failed" /\ PutFails
    /\ UNCHANGED <<call, flags, best, outcome, stdin, log, synced, bornDead>>

HandshakeBestmove ==
    /\ pc \in {"usi", "setup"} /\ Recv("bestmove")
    /\ early' = TRUE
    /\ UNCHANGED <<pc, call, go, awaiting, completed, best, outcome, stdin,
                   log, synced, bornDead>>

\* The launch fails, and the engine is dropped.
HandshakeFails ==
    /\ pc \in {"usi", "setup"}
    /\ RecvTimeout \/ RecvIo
    /\ pc' = "failed"
    /\ UNCHANGED <<call, flags, best, outcome, stdin, log, synced, bornDead>>

Handshake == HandshakeUsi \/ HandshakeReady \/ HandshakeBestmove \/ HandshakeFails

-----------------------------------------------------------------------------
(* analyse, up to the go.                                                  *)

\* Strict mode reports a bestmove of the handshake at the first call.
ReportEarly ==
    /\ pc = "idle" /\ call < MaxCalls /\ Strict /\ early
    /\ call' = call + 1
    /\ early' = FALSE
    /\ outcome' = "BestmoveWithoutGo"
    /\ bornDead' = FALSE
    /\ UNCHANGED <<pc, go, awaiting, completed, best, stdin, rx, log, synced>>

\* Mutation: the barrier is for strict mode only.
AnalyseStrictBarrier ==
    /\ pc = "idle" /\ call < MaxCalls /\ ~(Strict /\ early)
    /\ call' = call + 1
    /\ bornDead' = Disconnected
    /\ \/ /\ Strict /\ awaiting
          /\ pc' = "late" /\ UNCHANGED <<outcome, stdin>>
       \/ /\ ~(Strict /\ awaiting) /\ completed /\ Strict
          /\ \/ pc' = "barrier" /\ Put(Line("isready", 0)) /\ UNCHANGED outcome
             \/ pc' = "idle" /\ outcome' = "Io" /\ PutFails /\ UNCHANGED stdin
       \/ /\ ~(Strict /\ awaiting) /\ ~(completed /\ Strict)
          /\ pc' = "drain" /\ UNCHANGED <<outcome, stdin>>
    /\ synced' = completed
    /\ UNCHANGED <<flags, best, rx, log>>

\* The entry of analyse: wait for an owed bestmove, or put up the barrier, or go
\* on to the non-blocking drain.
Analyse ==
    /\ pc = "idle" /\ call < MaxCalls /\ ~(Strict /\ early)
    /\ call' = call + 1
    /\ bornDead' = Disconnected
    /\ \/ /\ Strict /\ awaiting
          /\ pc' = "late" /\ UNCHANGED <<outcome, stdin>>
       \/ /\ ~(Strict /\ awaiting) /\ completed
          /\ \/ pc' = "barrier" /\ Put(Line("isready", 0)) /\ UNCHANGED outcome
             \/ pc' = "idle" /\ outcome' = "Io" /\ PutFails /\ UNCHANGED stdin
       \/ /\ ~(Strict /\ awaiting) /\ ~completed
          /\ pc' = "drain" /\ UNCHANGED <<outcome, stdin>>
    /\ synced' = completed
    /\ UNCHANGED <<flags, best, rx, log>>

\* The bounded wait of strict mode always ends in an error.
WaitLate ==
    /\ pc = "late"
    /\ \/ Recv("bestmove") /\ Fail("DelayedBestmoveAfterTimeout")
       \/ RecvOther({"bestmove"}) /\ Skip
       \/ RecvTimeout /\ Fail("Timeout")
       \/ RecvIo /\ Fail("Io")
    /\ UNCHANGED <<flags, stdin>>

BarrierDone ==
    /\ pc = "barrier" /\ Recv("readyok")
    /\ pc' = "drain" /\ completed' = FALSE
    /\ UNCHANGED <<call, go, awaiting, early, best, outcome, stdin, log, synced,
                   bornDead>>

\* Mutation: the barrier waits without a deadline.
WaitBarrierForever ==
    /\ pc = "barrier"
    /\ \/ Recv("bestmove") /\ IF Strict THEN Fail("DuplicateBestmove") ELSE Skip
       \/ RecvOther({"bestmove", "readyok"}) /\ Skip
       \/ RecvIo /\ Fail("Io")
    /\ UNCHANGED <<flags, stdin>>

\* An error leaves the flag set: the next call puts up another barrier.
WaitBarrier ==
    /\ pc = "barrier"
    /\ \/ Recv("bestmove") /\ IF Strict THEN Fail("DuplicateBestmove") ELSE Skip
       \/ RecvOther({"bestmove", "readyok"}) /\ Skip
       \/ RecvTimeout /\ Fail("Timeout")
       \/ RecvIo /\ Fail("Io")
    /\ UNCHANGED <<flags, stdin>>

\* try_recv: what has arrived by now is discarded, a bestmove reported if strict.
Drain ==
    /\ pc = "drain"
    /\ \/ /\ Recv("bestmove") /\ Strict
          /\ Fail(IF ~GoEverSent THEN "BestmoveWithoutGo"
                  ELSE IF awaiting THEN "DelayedBestmoveAfterTimeout"
                  ELSE "DuplicateBestmove")
       \/ Recv("bestmove") /\ ~Strict /\ Skip
       \/ RecvOther({"bestmove"}) /\ Skip
    /\ UNCHANGED <<flags, stdin>>

\* The channel is empty: position and go are written.
SendGo ==
    /\ pc = "drain" /\ rx = <<>>
    /\ \/ /\ Put(Line("go", call))
          /\ pc' = "search" /\ go' = call /\ awaiting' = FALSE
          /\ best' = NoInfo /\ UNCHANGED outcome
       \/ /\ PutFails
          /\ pc' = "idle" /\ outcome' = "Io"
          /\ UNCHANGED <<go, awaiting, best, stdin>>
    /\ UNCHANGED <<call, completed, early, rx, log, synced, bornDead>>

-----------------------------------------------------------------------------
(* analyse, from the go on.                                                *)

\* build_analysis_result rejects what it has: no info line, or none with a score.
Unusable == IF best = NoInfo THEN "NoBestmove" ELSE "InvalidResponse"

Result(tag, salvaged) ==
    [go |-> call, best |-> tag, score |-> best.go, salvaged |-> salvaged,
     synced |-> synced]
Return(tag, salvaged) ==
    /\ pc' = "idle" /\ outcome' = "Ok"
    /\ log' = Append(log, Result(tag, salvaged))
    /\ UNCHANGED <<call, go, early, best, synced, bornDead>>

TakeInfo ==
    /\ pc \in {"search", "grace"}
    /\ \E kind \in {"info", "bare"} : Recv(kind)
    /\ best' = Head(rx)
    /\ UNCHANGED <<pc, call, flags, outcome, stdin, log, synced, bornDead>>

TakeOther ==
    /\ pc \in {"search", "grace"}
    /\ RecvOther({"info", "bare", "bestmove"}) /\ Skip
    /\ UNCHANGED stdin

\* The forms a bestmove line may have: with a move token or without.
HasMove == {TRUE} \union (IF "malformed" \in Faults THEN {FALSE} ELSE {})

\* The answer, in time or within the grace period of salvage_after_timeout.  A line
\* without a move is an error whatever info lines there are, and so is an answer that
\* cannot be used; both return before previous_search_completed is set.
TakeBestmove ==
    /\ pc \in {"search", "grace"} /\ Recv("bestmove")
    /\ \E hasMove \in HasMove :
          \/ /\ hasMove /\ best.kind = "info"
             /\ Return(Head(rx).go, FALSE)
             /\ completed' = TRUE
             /\ UNCHANGED awaiting
          \/ hasMove /\ best.kind # "info" /\ Fail(Unusable) /\ UNCHANGED flags
          \/ ~hasMove /\ Fail("InvalidResponse") /\ UNCHANGED flags
    /\ UNCHANGED stdin

\* The deadline passes: stop is written, if it can be.
StopSearch ==
    /\ pc = "search" /\ RecvTimeout
    /\ Put(Line("stop", 0))
    /\ pc' = "grace"
    /\ UNCHANGED <<call, flags, best, outcome, log, synced, bornDead>>

\* Mutation: the closed channel is taken for a timeout, as recv_until once did.
SearchDiesTimeout ==
    /\ pc = "search" /\ RecvIo /\ Fail("Timeout")
    /\ UNCHANGED <<flags, stdin>>

SearchDies ==
    /\ pc = "search" /\ RecvIo /\ Fail("Io")
    /\ UNCHANGED <<flags, stdin>>

\* Mutation: a salvaged search counts as completed, so that a barrier follows.
SalvageCompletes ==
    /\ pc = "grace"
    /\ RecvTimeout \/ RecvIo
    /\ completed' = TRUE
    /\ IF best.kind = "info"
          THEN Return(best.go, TRUE) /\ UNCHANGED awaiting
          ELSE Fail("Timeout") /\ UNCHANGED <<go, awaiting, early>>
    /\ UNCHANGED stdin

\* The grace period ends, or the pipe does: the result is made from the last info
\* line, and a bestmove is owed from now on.
Salvage ==
    /\ pc = "grace"
    /\ RecvTimeout \/ RecvIo
    /\ awaiting' = TRUE
    /\ \/ best.kind = "info" /\ Return(best.go, TRUE) /\ UNCHANGED completed
       \/ best.kind = "bare" /\ Fail("InvalidResponse")
             /\ UNCHANGED <<go, completed, early>>
       \/ best.kind # "info" /\ Fail("Timeout")
             /\ UNCHANGED <<go, completed, early>>
    /\ UNCHANGED stdin

-----------------------------------------------------------------------------
Work ==
    \/ Handshake
    \/ WaitLate \/ WaitBarrier \/ BarrierDone \/ Drain \/ SendGo
    \/ TakeInfo \/ TakeOther \/ TakeBestmove \/ StopSearch \/ SearchDies \/ Salvage

ClientStep ==
    /\ ReportEarly \/ Analyse \/ Work
    /\ Received
    /\ UNCHANGED <<session, stdout, alive, engine>>

\* The session is over: the launch failed, or every call of the bound was made.
Over == pc = "failed" \/ (pc = "idle" /\ call = MaxCalls)

Next == ClientStep \/ EngineStep \/ EngineExits \/ Forward \/ (Over /\ UNCHANGED vars)

Spec == Init /\ [][Next]_vars

\* The thread that runs analyse is scheduled: a wait ends with a line or at its
\* deadline.  Nothing is assumed of the engine but that its output is finite.
FairSpec == Spec /\ WF_vars(ClientStep /\ pc # "idle")

-----------------------------------------------------------------------------
(* Properties.                                                             *)

\* What --usi-strict is for (main.rs:441): a result is made of the bestmove and
\* the score of its own go, whatever the engine still had to say about earlier
\* searches when the go was written.
AnswersOwnGo ==
    Strict => \A i \in 1..Len(log) : log[i].best = log[i].go /\ log[i].score = log[i].go

\* The isready barrier in both modes (lib.rs:536): a search that follows a
\* completed one is answered by its own lines.  So a late duplicate is never the
\* next position's response, and a session that took a stale answer for one
\* search is back in step at the next.
BarrierResynchronises ==
    \A i \in 1..Len(log) : log[i].synced =>
        log[i].best = log[i].go /\ log[i].score = log[i].go

\* Strict mode raises no false alarm: it reports DuplicateBestmove only for a
\* search whose bestmove it has already received, BestmoveWithoutGo only for a
\* bestmove outside any search, and DelayedBestmoveAfterTimeout only for the last go.
AlarmsAreTrue ==
    [][(Strict /\ pc # "idle" /\ pc' = "idle") =>
          /\ outcome' = "DuplicateBestmove" => Head(rx).go \in seen
          /\ outcome' = "BestmoveWithoutGo" => Head(rx).go = 0
          /\ outcome' = "DelayedBestmoveAfterTimeout" => Head(rx).go = go]_vars

\* recv_until tells a dead engine from a slow one (lib.rs:310): a call that starts
\* when the engine is dead and everything it wrote is read ends with Io, the error
\* that makes label launch another engine, and never with Timeout.
DeadEngineIsReported == (pc = "idle" /\ bornDead) => outcome = "Io"

\* Every call returns, whatever an engine with a finite output does: no wait is
\* without a deadline.
Returns == (pc \notin {"idle", "failed"}) ~> (pc \in {"idle", "failed"})
=============================================================================
