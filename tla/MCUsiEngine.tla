----------------------------- MODULE MCUsiEngine -----------------------------
(* Sessions with and without --usi-strict, and what the engine may do wrong in *)
(* each.                                                                       *)
EXTENDS UsiEngine

Session(strict, faults, calls, infos) ==
    [strict |-> strict, faults |-> faults, calls |-> calls, infos |-> infos]

MCSessions ==
    {Session(TRUE, {"early", "duplicate", "exit"}, 4, 2),
     Session(TRUE, {"early", "noinfo", "malformed", "exit"}, 4, 1),
     Session(FALSE, FaultKinds, 3, 1)}

\* An engine that may answer twice, and without a score or without a move.
UnusableSessions ==
    {Session(TRUE, {unusable, "duplicate"}, 3, 1) : unusable \in {"noinfo", "malformed"}}
=============================================================================
