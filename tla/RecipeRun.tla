------------------------------ MODULE RecipeRun ------------------------------
(***************************************************************************)
(* `shogiesa recipe run`: the stages of a recipe are run in order, each    *)
(* into a staging directory from which its outputs are committed by        *)
(* renames, with a checkpoint of run.json after each stage; a later run    *)
(* reuses the stages whose identity and output hashes still match.  The    *)
(* process may die between any two file-system steps, and between runs the *)
(* user may edit the recipe, the external input and the outputs.           *)
(*                                                                         *)
(* A content hash is the content itself.  A stage command is deterministic *)
(* in the recipe and its inputs, and its output says what it was made of.  *)
(* A command may succeed and leave a declared output unwritten (filter     *)
(* --dry-run does): then a staged file that an earlier run left behind     *)
(* passes for it, because the staging directory is never emptied.          *)
(***************************************************************************)
EXTENDS Naturals, Sequences, FiniteSets

CONSTANTS Stages,     \* the number of stages
          OutputCount, \* OutputCount[s]: the number of outputs of stage s
          UsesInput,  \* the stages that read the external input
          Producers,  \* Producers[s]: the stages whose outputs stage s reads
          Versions,   \* versions of the recipe and of the external input
          Unwritten,  \* Unwritten[v]: outputs that the commands of recipe v succeed without
          MaxEdits,   \* bound: edits of the user
          MaxFailures \* bound: crashes and failed steps

\* No file; every content is a record.
NoFile == <<>>

ASSUME RecipeAssumption ==
    /\ Stages \in Nat \ {0} /\ OutputCount \in [1..Stages -> Nat \ {0}]
    /\ UsesInput \subseteq 1..Stages
    /\ Producers \in [1..Stages -> SUBSET (1..Stages)]
    /\ \A s \in 1..Stages : \A p \in Producers[s] : p < s
    /\ Unwritten \in [Versions -> SUBSET UNION {{<<s, k>> : k \in 1..OutputCount[s]} : s \in 1..Stages}]
    /\ NoFile \notin Versions /\ MaxEdits \in Nat /\ MaxFailures \in Nat

VARIABLES
    recipe,     \* the version of the recipe file
    external,   \* the external input: a version or NoFile
    outputs,    \* the committed outputs
    staging,    \* the staged outputs left in the bundle
    backups,    \* the .backup-i files of the staging directories
    runJson,    \* run.json, or NoFile
    step,       \* where the process is: off, stage, commit, rollback, failed
    idx,        \* the stage it is at
    plan,       \* identity and status of each stage, made at the start
    previous,   \* the manifest the run started from, if it is of this recipe
    stages,     \* the stages finished in this run
    out,        \* commit_stage_outputs: the output being committed
    renamed,    \* committed: outputs renamed into place, and not yet rolled back
    saved,      \* backups: outputs backed up, and not yet rolled back
    found,      \* ghost: the outputs of the stage as the commit found them
    slipped,    \* ghost: the outputs that the rollback failed to remove or to restore
    edits, failures

bundleDir == <<outputs, staging, backups, runJson>>
proc == <<step, idx, plan, previous, stages, out, renamed, saved, found, slipped>>
user == <<recipe, external>>
recipeVars == <<user, bundleDir, proc, edits, failures>>

OutputPaths == UNION {{<<s, k>> : k \in 1..OutputCount[s]} : s \in 1..Stages}
OutputsOf(s) == {p \in OutputPaths : p[1] = s}

\* What the command of stage s writes to path p.
Produce(p, disks) ==
    [path |-> p, recipe |-> recipe,
     external |-> IF p[1] \in UsesInput THEN external ELSE NoFile,
     from |-> [q \in {q \in OutputPaths : q[1] \in Producers[p[1]]} |-> disks[q]]]

-----------------------------------------------------------------------------
(* build_plan.                                                             *)

\* Mutation: the identities of the producers are left out.
StageIdentityShallow(s, identities) ==
    [stage |-> s, recipe |-> recipe,
     external |-> IF s \in UsesInput THEN external ELSE NoFile, deps |-> <<>>]

\* stage_identity: the stage's text, its external inputs, its producers' identities.
StageIdentity(s, identities) ==
    [stage |-> s, recipe |-> recipe,
     external |-> IF s \in UsesInput THEN external ELSE NoFile,
     deps |-> [p \in Producers[s] |-> identities[p]]]

identity[s \in 1..Stages] == StageIdentity(s, [p \in Producers[s] |-> identity[p]])

blocked[s \in 1..Stages] ==
    \/ s \in UsesInput /\ external = NoFile
    \/ \E p \in Producers[s] : blocked[p]

Planned == [s \in 1..Stages |-> [identity |-> identity[s], blocked |-> blocked[s]]]

-----------------------------------------------------------------------------
NoPlan == <<>>
Off == /\ step' = "off" /\ idx' = 0 /\ plan' = NoPlan /\ previous' = NoFile
       /\ stages' = <<>> /\ out' = 0 /\ renamed' = {} /\ saved' = {}
       /\ found' = <<>> /\ slipped' = {}

RecipeInit ==
    /\ recipe \in Versions /\ external \in Versions
    /\ outputs = [p \in OutputPaths |-> NoFile]
    /\ staging = [p \in OutputPaths |-> NoFile] /\ backups = [p \in OutputPaths |-> NoFile]
    /\ runJson = NoFile
    /\ step = "off" /\ idx = 0 /\ plan = NoPlan /\ previous = NoFile
    /\ stages = <<>> /\ out = 0 /\ renamed = {} /\ saved = {} /\ found = <<>>
    /\ slipped = {}
    /\ edits = 0 /\ failures = 0

Checkpoint(status, done) ==
    runJson' = [status |-> status, recipe |-> recipe, stages |-> done]

\* run_recipe up to the first checkpoint.  A manifest of another recipe is
\* ignored.  One marked running needs --resume: without it the run refuses and
\* changes nothing.
Start ==
    /\ step = "off"
    /\ plan' = Planned
    /\ previous' = IF runJson # NoFile /\ runJson.recipe = recipe
                      THEN runJson ELSE NoFile
    /\ Checkpoint("running", <<>>)
    /\ step' = "stage" /\ idx' = 1 /\ stages' = <<>>
    /\ UNCHANGED <<user, outputs, staging, backups, out, renamed, saved, found, slipped,
                   edits, failures>>

\* The stage of the same name in the previous manifest.
OldStage(s) == IF previous = NoFile \/ s > Len(previous.stages) THEN NoFile
          ELSE previous.stages[s]
Entry(s, hashes) == [identity |-> plan[s].identity, hashes |-> hashes]

\* The first test of stage_reusable.
SameStage(s) == OldStage(s) # NoFile /\ OldStage(s).identity = plan[s].identity

\* Mutation: a stage is reused by its identity alone.
ReusableByIdentity(s) == SameStage(s)

\* stage_reusable hashes the outputs in order and stops at the first that differs;
\* if that one is gone, hash_file fails.
Differing(s) == {p \in OutputsOf(s) : outputs[p] # OldStage(s).hashes[p]}
Reusable(s) == SameStage(s) /\ Differing(s) = {}
CannotHash(s) ==
    /\ SameStage(s)
    /\ \E p \in Differing(s) : outputs[p] = NoFile /\ \A q \in Differing(s) : p[2] <= q[2]

AtStage == step = "stage" /\ idx <= Stages

ReuseStage ==
    /\ AtStage /\ Reusable(idx)
    /\ stages' = Append(stages, Entry(idx, OldStage(idx).hashes))
    /\ Checkpoint("running", stages')
    /\ idx' = idx + 1
    /\ UNCHANGED <<user, outputs, staging, backups, step, plan, previous, out, renamed,
                   saved, found, slipped, edits, failures>>

\* The run stops.
HashFails ==
    /\ AtStage /\ CannotHash(idx)
    /\ Off
    /\ UNCHANGED <<user, bundleDir, edits, failures>>

Executable == AtStage /\ ~Reusable(idx) /\ ~CannotHash(idx)

StageBlocked ==
    /\ Executable /\ plan[idx].blocked
    /\ Off
    /\ UNCHANGED <<user, bundleDir, edits, failures>>

Left(s) == OutputsOf(s) \intersect Unwritten[recipe]

\* The command succeeds, and every declared output is in the staging directory,
\* written now or left there by an earlier run.
RunStage ==
    /\ Executable /\ ~plan[idx].blocked
    /\ \A p \in Left(idx) : staging[p] # NoFile
    /\ staging' = [p \in OutputPaths |-> IF p \in OutputsOf(idx) \ Left(idx)
                                              THEN Produce(p, outputs) ELSE staging[p]]
    /\ step' = "commit" /\ out' = 1 /\ renamed' = {} /\ saved' = {}
    /\ found' = [p \in OutputsOf(idx) |-> outputs[p]]
    /\ UNCHANGED <<user, outputs, backups, runJson, idx, plan, previous, stages, slipped,
                   edits, failures>>

\* It succeeds, and an output is not there.
StageIncomplete ==
    /\ Executable /\ ~plan[idx].blocked
    /\ \E p \in Left(idx) : staging[p] = NoFile
    /\ staging' = [p \in OutputPaths |-> IF p \in OutputsOf(idx) \ Left(idx)
                                              THEN Produce(p, outputs) ELSE staging[p]]
    /\ Off
    /\ UNCHANGED <<user, outputs, backups, runJson, edits, failures>>

\* It fails, and may leave some of its outputs there.
StageFails ==
    /\ Executable /\ ~plan[idx].blocked /\ failures < MaxFailures
    /\ \E done \in SUBSET (OutputsOf(idx) \ Left(idx)) :
          staging' = [p \in OutputPaths |-> IF p \in done THEN Produce(p, outputs)
                                                    ELSE staging[p]]
    /\ failures' = failures + 1
    /\ Off
    /\ UNCHANGED <<user, outputs, backups, runJson, edits>>

-----------------------------------------------------------------------------
(* commit_stage_outputs: for each output, back up what is there, then      *)
(* rename the staged file into place.                                      *)

OutputPath == <<idx, out>>
Committing == step = "commit" /\ out <= OutputCount[idx]

\* A stale backup is removed first.
BackUpOutput ==
    /\ Committing /\ OutputPath \notin saved /\ outputs[OutputPath] # NoFile
    /\ backups' = [backups EXCEPT ![OutputPath] = outputs[OutputPath]]
    /\ outputs' = [outputs EXCEPT ![OutputPath] = NoFile]
    /\ saved' = saved \union {OutputPath}
    /\ UNCHANGED <<user, staging, runJson, step, idx, plan, previous, stages, out,
                   renamed, found, slipped, edits, failures>>

RenameOutput ==
    /\ Committing /\ outputs[OutputPath] = NoFile
    /\ outputs' = [outputs EXCEPT ![OutputPath] = staging[OutputPath]]
    /\ staging' = [staging EXCEPT ![OutputPath] = NoFile]
    /\ backups' = IF OutputPath \in saved THEN backups
                 ELSE [backups EXCEPT ![OutputPath] = NoFile]
    /\ renamed' = renamed \union {OutputPath}
    /\ out' = out + 1
    /\ UNCHANGED <<user, runJson, step, idx, plan, previous, stages, saved, found,
                   slipped, edits, failures>>

\* A rename fails, when the stale backup of this output is gone already.
RenameFails ==
    /\ Committing /\ failures < MaxFailures
    /\ failures' = failures + 1
    /\ backups' = IF OutputPath \in saved THEN backups
                  ELSE [backups EXCEPT ![OutputPath] = NoFile]
    /\ step' = "rollback"
    /\ UNCHANGED <<user, outputs, staging, runJson, idx, plan, previous, stages, out,
                   renamed, saved, found, slipped, edits>>

\* An error of the rollback is ignored.
Slips(p) ==
    /\ failures < MaxFailures /\ failures' = failures + 1
    /\ slipped' = slipped \union {p}
    /\ UNCHANGED <<outputs, backups>>

\* rollback: first what was committed is removed, in order.
RemoveCommitted ==
    /\ step = "rollback"
    /\ \E p \in renamed :
          /\ \A q \in renamed : p[2] <= q[2]
          /\ renamed' = renamed \ {p}
          /\ \/ /\ outputs' = [outputs EXCEPT ![p] = NoFile]
                /\ UNCHANGED <<backups, slipped, failures>>
             \/ Slips(p)
    /\ UNCHANGED <<user, staging, runJson, step, idx, plan, previous, stages, out, saved,
                   found, edits>>

\* Mutation: the backups need not wait for the removals.
RestoreBackupEarly ==
    /\ step = "rollback"
    /\ \E p \in saved :
          /\ \A q \in saved : p[2] >= q[2]
          /\ saved' = saved \ {p}
          /\ \/ /\ outputs' = [outputs EXCEPT ![p] = backups[p]]
                /\ backups' = [backups EXCEPT ![p] = NoFile]
                /\ UNCHANGED <<slipped, failures>>
             \/ Slips(p)
    /\ UNCHANGED <<user, staging, runJson, step, idx, plan, previous, stages, out, renamed,
                   found, edits>>

\* Then the backups are renamed back, the last one first.
RestoreBackup ==
    /\ step = "rollback" /\ renamed = {}
    /\ \E p \in saved :
          /\ \A q \in saved : p[2] >= q[2]
          /\ saved' = saved \ {p}
          /\ \/ /\ outputs' = [outputs EXCEPT ![p] = backups[p]]
                /\ backups' = [backups EXCEPT ![p] = NoFile]
                /\ UNCHANGED <<slipped, failures>>
             \/ Slips(p)
    /\ UNCHANGED <<user, staging, runJson, step, idx, plan, previous, stages, out, renamed,
                   found, edits>>

RollbackDone ==
    /\ step = "rollback" /\ renamed = {} /\ saved = {}
    /\ step' = "failed"
    /\ UNCHANGED <<user, bundleDir, idx, plan, previous, stages, out, renamed, saved, found,
                   slipped, edits, failures>>

\* The error has been reported.
ReportFailure ==
    /\ step = "failed" /\ Off
    /\ UNCHANGED <<user, bundleDir, edits, failures>>

\* Every output is in place: the backups go, and the stage is checkpointed.
StageDone ==
    /\ step = "commit" /\ out > OutputCount[idx]
    /\ backups' = [p \in OutputPaths |-> IF p \in saved THEN NoFile ELSE backups[p]]
    /\ stages' = Append(stages, Entry(idx, [p \in OutputsOf(idx) |-> outputs[p]]))
    /\ Checkpoint("running", stages')
    /\ step' = "stage" /\ idx' = idx + 1 /\ out' = 0
    /\ renamed' = {} /\ saved' = {} /\ found' = <<>>
    /\ UNCHANGED <<user, outputs, staging, plan, previous, slipped, edits, failures>>

\* A backup cannot be removed: the error is returned without a rollback.
CleanupFails ==
    /\ step = "commit" /\ out > OutputCount[idx] /\ failures < MaxFailures
    /\ \E kept \in (SUBSET saved) \ {{}} :
          backups' = [p \in OutputPaths |-> IF p \in saved \ kept THEN NoFile ELSE backups[p]]
    /\ failures' = failures + 1
    /\ Off
    /\ UNCHANGED <<user, outputs, staging, runJson, edits>>

Complete ==
    /\ step = "stage" /\ idx > Stages
    /\ Checkpoint("completed", stages)
    /\ Off
    /\ UNCHANGED <<user, outputs, staging, backups, edits, failures>>

\* The process dies between two steps.
Crash ==
    /\ step # "off" /\ failures < MaxFailures
    /\ failures' = failures + 1
    /\ Off
    /\ UNCHANGED <<user, bundleDir, edits>>

\* Between runs the user changes the recipe, the external input, or an output.
Edit ==
    /\ step = "off" /\ edits < MaxEdits
    /\ edits' = edits + 1
    /\ \/ recipe' \in Versions /\ UNCHANGED <<external, outputs>>
       \/ external' \in Versions \union {NoFile} /\ UNCHANGED <<recipe, outputs>>
       \/ \E p \in OutputPaths : outputs' = [outputs EXCEPT ![p] = NoFile]
             /\ UNCHANGED user
       \/ \E p \in OutputPaths : outputs[p] # NoFile
             /\ outputs' = [outputs EXCEPT ![p] = [path |-> <<0, 0>>]]
             /\ UNCHANGED user
    /\ UNCHANGED <<staging, backups, runJson, proc, failures>>

RecipeNext ==
    \/ Start \/ ReuseStage \/ HashFails \/ StageBlocked
    \/ RunStage \/ StageIncomplete \/ StageFails
    \/ BackUpOutput \/ RenameOutput \/ StageDone \/ CleanupFails
    \/ RenameFails \/ RemoveCommitted \/ RestoreBackup \/ RollbackDone \/ ReportFailure
    \/ Complete \/ Crash \/ Edit

RecipeSpec == RecipeInit /\ [][RecipeNext]_recipeVars

-----------------------------------------------------------------------------
(* validate_run_manifest.                                                  *)

Verifies ==
    /\ runJson # NoFile /\ runJson.recipe = recipe
    /\ runJson.status = "completed" /\ Len(runJson.stages) = Stages
    /\ \A s \in 1..Stages :
          /\ runJson.stages[s].identity = Planned[s].identity
          /\ \A p \in OutputsOf(s) : outputs[p] = runJson.stages[s].hashes[p]

(* Properties.                                                             *)

\* A bundle that `recipe verify` accepts holds what the recipe makes of the present
\* external input, whatever was reused, tampered with, re-run or interrupted on the way
\* to it: each output that its command writes is what the stage makes now of the outputs
\* beside it.  Producers come first, so that when every output is written no other bundle
\* has this property (BundleIsUnique in FilesProofs).
VerifiedIsReproducible ==
    Verifies => \A p \in OutputPaths \ Unwritten[recipe] : outputs[p] = Produce(p, outputs)

\* A stage runs on inputs that this run has checked or made: no crash, deletion or
\* edit leaves it a missing or foreign one.
RunsOnCheckedInputs ==
    step = "commit" => \A s \in Producers[idx] : \A p \in OutputsOf(s) :
                        outputs[p] # NoFile /\ outputs[p] = stages[s].hashes[p]

\* The outputs of a stage survive its commit (commit_stage_outputs): wherever the
\* process is killed, in the commit or in the rollback, what the commit found is in its
\* place or in its backup; and a commit that fails leaves an output as it found it,
\* unless the rollback failed at that output.
FailedCommitRestores ==
    /\ step \in {"commit", "rollback", "failed"} =>
          \A p \in OutputsOf(idx) : found[p] \in {NoFile, outputs[p], backups[p]}
    /\ step = "failed" => \A p \in OutputsOf(idx) \ slipped : outputs[p] = found[p]
=============================================================================
