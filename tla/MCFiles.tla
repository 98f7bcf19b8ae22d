-------------------------------- MODULE MCFiles --------------------------------
(* The protocols that write files, one in each behaviour; the others stay in  *)
(* an initial state of theirs.                                                *)
EXTENDS SplitBundle, RecipeRun, PathRoles

CONSTANTS v1, v2   \* the versions of the recipe and of the external input

\* split: "a/b" and "a_b" sanitize to one name, and the source "c" is called what
\* the second of them becomes with its digest.
MCPlain == [s \in Sources |-> IF s = "c" THEN "ab--2" ELSE "ab"]
MCDigest == [s \in Sources |-> CASE s = "a/b" -> "ab--1" [] s = "a_b" -> "ab--2"
                                 [] s = "c" -> "c--3"]
\* No record, one, and every way to spread four over the sources.
MCInputs == {<<>>, <<"a/b">>} \union [1..4 -> Sources]
\* No link, and a link from one output to the place of another.
MCTargets ==
    LET plain == [o \in Outputs |-> o]
    IN  {plain, [plain EXCEPT !["ab--2"] = "ab"]}

\* recipe run: the first stage reads the external input and has two outputs, the
\* second reads both of them.
MCOutputCount == <<2, 1>>
MCProducers == <<{}, {1}>>
\* The second recipe asks the first stage for a dry run of its second output.
MCUnwritten == [v \in Versions |-> IF v = v2 THEN {<<1, 2>>} ELSE {}]

-----------------------------------------------------------------------------
VARIABLE protocol    \* "split", "recipe" or "paths"

Some(S) == CHOOSE x \in S : TRUE

SplitIdle ==
    /\ input = <<>> /\ target = [o \in Outputs |-> o] /\ Init
    /\ disk = [p \in Paths |-> None]
RecipeIdle == recipe = Some(Versions) /\ external = recipe /\ RecipeInit
PathsIdle ==
    /\ dir = [n \in Names |-> Missing] /\ sidecar = FALSE
    /\ readPath = Some(PathNames) /\ writePaths = <<readPath>>
    /\ PathsInit

FilesInit ==
    \/ protocol = "split" /\ Init /\ RecipeIdle /\ PathsIdle
    \/ protocol = "recipe" /\ SplitIdle /\ RecipeInit /\ PathsIdle
    \/ protocol = "paths" /\ SplitIdle /\ RecipeIdle /\ PathsInit

FilesNext ==
    \/ protocol = "split" /\ Next /\ UNCHANGED <<protocol, recipeVars, pathVars>>
    \/ protocol = "recipe" /\ RecipeNext /\ UNCHANGED <<protocol, vars, pathVars>>
    \/ protocol = "paths" /\ PathsNext /\ UNCHANGED <<protocol, vars, recipeVars>>

FilesSpec == FilesInit /\ [][FilesNext]_<<protocol, vars, recipeVars, pathVars>>
=============================================================================
