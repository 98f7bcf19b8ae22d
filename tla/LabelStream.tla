----------------------------- MODULE LabelStream -----------------------------
(***************************************************************************)
(* What `shogiesa label` promises of its output, whatever the threads that *)
(* produce it do: every accepted input record is written exactly once,     *)
(* no more than Window records are ever accepted and unwritten, the output *)
(* order is the input order under --preserve-order, and the run reports    *)
(* success only when nothing accepted is missing.                          *)
(***************************************************************************)
EXTENDS Naturals, Sequences

CONSTANT Window          \* records that may be accepted and not yet written

VARIABLES preserve,      \* --preserve-order
          accepted,      \* records accepted so far; their ids are 0..accepted-1
          emitted,       \* ids in output order
          finished       \* the run has reported success

streamVars == <<preserve, accepted, emitted, finished>>

Emitted == {emitted[i] : i \in 1..Len(emitted)}

Init ==
    /\ preserve \in BOOLEAN
    /\ accepted = 0
    /\ emitted = <<>>
    /\ finished = FALSE

Accept ==
    /\ ~finished
    /\ accepted < Len(emitted) + Window
    /\ accepted' = accepted + 1
    /\ UNCHANGED <<preserve, emitted, finished>>

Emit ==
    /\ ~finished
    /\ \E id \in (0..(accepted - 1)) \ Emitted :
           /\ preserve => id = Len(emitted)
           /\ emitted' = Append(emitted, id)
    /\ UNCHANGED <<preserve, accepted, finished>>

Finish ==
    /\ Len(emitted) = accepted
    /\ finished' = TRUE
    /\ UNCHANGED <<preserve, accepted, emitted>>

Next == Accept \/ Emit \/ Finish

Spec == Init /\ [][Next]_streamVars
=============================================================================
