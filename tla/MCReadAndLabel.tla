---------------------------- MODULE MCReadAndLabel ----------------------------
(* A record of games that is read, or a file of positions that is labelled    *)
(* over several runs: one of them in each behaviour, while the other stays in *)
(* an initial state of its own.                                               *)
EXTENDS MCKifReader, MCLabelRuns

VARIABLE command    \* "read" or "label"

ReadIdle == Init /\ config = All /\ Side(walk["moves"].board) = "black"
LabelIdle == RunsInit

ReadAndLabelInit == \/ command = "read" /\ Init /\ LabelIdle
                    \/ command = "label" /\ ReadIdle /\ RunsInit

ReadAndLabelNext == \/ command = "read" /\ Next /\ UNCHANGED <<command, runsVars>>
                    \/ command = "label" /\ RunsNext /\ UNCHANGED <<command, vars>>

ReadAndLabelSpec ==
    ReadAndLabelInit /\ [][ReadAndLabelNext]_<<command, vars, runsVars>>
=============================================================================
