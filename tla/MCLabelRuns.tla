------------------------------ MODULE MCLabelRuns ------------------------------
(* Instances of LabelRuns.                                                     *)
EXTENDS LabelRuns

D(n) == [kind |-> "depth", value |-> n]
N(n) == [kind |-> "nodes", value |-> n]
Fresh == [skip |-> FALSE, replace |-> FALSE, resume |-> FALSE, cached |-> FALSE,
          fingerprint |-> TRUE, limits |-> <<D(1), D(2)>>, multipv |-> 1, every |-> 0,
          strict |-> FALSE, restartOnError |-> FALSE, build |-> 1]

\* A legacy observation that does not say what was asked for.
Legacy == [kind |-> "depth", requested |-> 0, achieved |-> 1, ranks |-> 1, build |-> 1]

MCInputs == {<<Legacy>>}
MCConfigs ==
    {Fresh,
     [Fresh EXCEPT !.skip = TRUE, !.limits = <<D(2)>>, !.multipv = 2, !.cached = TRUE,
                   !.every = 1],
     [Fresh EXCEPT !.replace = TRUE, !.cached = TRUE, !.restartOnError = TRUE],
     [Fresh EXCEPT !.replace = TRUE, !.cached = TRUE, !.fingerprint = FALSE,
                   !.build = 2, !.limits = <<N(2)>>],
     [Fresh EXCEPT !.resume = TRUE, !.strict = TRUE, !.cached = TRUE, !.every = 2,
                   !.limits = <<D(2)>>],
     [Fresh EXCEPT !.resume = TRUE, !.limits = <<N(3), N(2)>>]}
=============================================================================
