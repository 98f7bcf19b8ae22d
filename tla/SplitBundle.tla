----------------------------- MODULE SplitBundle -----------------------------
(***************************************************************************)
(* split --by-source (commands/transforms.rs): the records of one input go *)
(* to one file per source through a bounded pool of open writers, and the  *)
(* files and their manifest replace the previous ones as one bundle, with  *)
(* a backup of each and a rollback when a step fails.  The commit is the   *)
(* one of split --train/--valid/--test too.                                *)
(*                                                                         *)
(* The record at place i of the input is the number i, its source is       *)
(* input[i].  A file's content is the sequence of its records, a manifest's*)
(* the function from file names to contents whose counts and hashes it     *)
(* holds.  disk is the output directory by resolved path; a path's backup  *)
(* is a temporary file beside it.  A step of the file system may fail, at  *)
(* most MaxFaults times, and the process may be killed anywhere.           *)
(***************************************************************************)
EXTENDS Naturals, Sequences, FiniteSets, SequencesExt

CONSTANTS Sources,    \* source.path of a record
          Files,      \* names of output files
          Plain,      \* the sanitized name of a source
          Digest,     \* the same with a digest of the source behind it
          Paths,      \* what output names resolve to
          Inputs,     \* the inputs: sequences of sources
          Targets,    \* the links in the output directory: functions to Paths
          MaxOpen,    \* --max-open-writers
          MaxFaults   \* bound: file system steps that fail

Manifest == "manifest"
Outputs == Files \union {Manifest}

None == [kind |-> "none"]
Old(p) == [kind |-> "old", path |-> p]
Records(recs) == [kind |-> "records", data |-> recs]

ASSUME SplitAssumption ==
    /\ Manifest \notin Files /\ MaxFaults \in Nat /\ MaxOpen \in Nat \ {0}
    /\ Plain \in [Sources -> Files] /\ Digest \in [Sources -> Files]
    /\ Inputs \subseteq Seq(Sources) /\ Targets \subseteq [Outputs -> Paths]

VARIABLES
    pc,          \* "read", "prepare", "commit", "rollback", "done", "failed", "killed"
    input,       \* the sources of the records
    target,      \* the path each output name resolves to
    next,        \* the record to read next
    names,       \* file_names: the file of each source met so far
    pool,        \* WriterPool.writers, least recently used first: file and buffer
    opened,      \* opened_this_run
    staged,      \* the content of each file in the staging directory
    entries,     \* the entries of the bundle: output names, in commit order
    at,          \* the entry the commit or the rollback is at
    disk,        \* the content of each path
    backup,      \* the backup beside each path
    guarded,     \* the paths whose backup is removed when its TempPath is dropped
    committed,   \* the paths whose entry is committed
    old,         \* ghost: disk before the run
    faults,      \* how many steps have failed
    unrestored   \* the paths named in rollback errors

reading == <<input, target, next, names, pool, opened, staged>>
bundle == <<entries, at, disk, backup, guarded, committed, unrestored>>
vars == <<pc, reading, bundle, old, faults>>

Owned(f) == \E s \in DOMAIN names : names[s] = f

Init ==
    /\ pc = "read" /\ next = 1 /\ names = <<>> /\ pool = <<>> /\ opened = {}
    /\ input \in Inputs /\ target \in Targets
    /\ staged = [f \in Files |-> <<>>]
    /\ entries = <<>> /\ at = 0
    /\ \E there \in SUBSET Paths :
           disk = [p \in Paths |-> IF p \in there THEN Old(p) ELSE None]
    /\ backup = [p \in Paths |-> None] /\ guarded = {} /\ committed = {}
    /\ old = disk /\ faults = 0 /\ unrestored = {}

Fault == faults < MaxFaults /\ faults' = faults + 1

-----------------------------------------------------------------------------
(* The records and the pool of writers.                                    *)

\* allocate_split_file_name, at most one name: the plain one, or the one with the
\* digest if another source has it; none if that is taken too.
FileNames(s) ==
    IF s \in DOMAIN names THEN {names[s]}
    ELSE IF ~Owned(Plain[s]) THEN {Plain[s]} ELSE {f \in {Digest[s]} : ~Owned(f)}

Resident(f) == \E i \in DOMAIN pool : pool[i].file = f

\* The writers left after room was made for one more.
Evict == IF Len(pool) >= MaxOpen THEN Tail(pool) ELSE pool

\* Mutation: every open truncates.
WriteLineTruncating(f, rec) ==
    IF Resident(f)
    THEN /\ LET i == CHOOSE j \in DOMAIN pool : pool[j].file = f
            IN  pool' = Append(RemoveAt(pool, i),
                               [file |-> f, buffer |-> Append(pool[i].buffer, rec)])
         /\ UNCHANGED <<staged, opened>>
    ELSE /\ pool' = Append(Evict, [file |-> f, buffer |-> <<rec>>])
         /\ opened' = opened \union {f}
         /\ staged' = [g \in Files |->
                IF g = f THEN <<>>
                ELSE IF Evict # pool /\ g = Head(pool).file
                     THEN staged[g] \o Head(pool).buffer ELSE staged[g]]

\* write_line: into the resident writer, or into one opened in place of the least
\* recently used, which is flushed.  The first open of a file truncates it, a
\* later one appends.
WriteLine(f, rec) ==
    IF Resident(f)
    THEN /\ LET i == CHOOSE j \in DOMAIN pool : pool[j].file = f
            IN  pool' = Append(RemoveAt(pool, i),
                               [file |-> f, buffer |-> Append(pool[i].buffer, rec)])
         /\ UNCHANGED <<staged, opened>>
    ELSE /\ pool' = Append(Evict, [file |-> f, buffer |-> <<rec>>])
         /\ opened' = opened \union {f}
         /\ staged' = [g \in Files |->
                IF g = f /\ f \notin opened THEN <<>>
                ELSE IF Evict # pool /\ g = Head(pool).file
                     THEN staged[g] \o Head(pool).buffer ELSE staged[g]]

SplitRecord ==
    /\ pc = "read" /\ next <= Len(input)
    /\ LET s == input[next]
       IN  \E f \in FileNames(s) :
               /\ WriteLine(f, next)
               /\ names' = [t \in DOMAIN names \union {s} |->
                                IF t = s THEN f ELSE names[t]]
    /\ next' = next + 1
    /\ UNCHANGED <<pc, input, target, bundle, old, faults>>

\* A name that is taken, or an open, a write or a flush that fails: the command
\* ends, and the staging directory goes with it.
ReadFails ==
    /\ pc \in {"read", "prepare"}
    /\ \/ Fault
       \/ /\ pc = "read" /\ next <= Len(input) /\ FileNames(input[next]) = {}
          /\ UNCHANGED faults
       \/ /\ pc = "prepare" /\ UNCHANGED faults
          /\ \E i, j \in DOMAIN entries :
                 i # j /\ target[entries[i]] = target[entries[j]]
    /\ pc' = "failed"
    /\ UNCHANGED <<reading, bundle, old>>

\* Mutation: the manifest goes first.
BundleManifestFirst(files) == <<Manifest>> \o SetToSeq(files)

\* The entries: the files, and the manifest last.
Bundle(files) == SetToSeq(files) \o <<Manifest>>

\* flush_all, the hashes and the staged manifest.
FlushAll ==
    /\ pc = "read" /\ next > Len(input)
    /\ staged' = [f \in Files |->
           LET resident == {i \in DOMAIN pool : pool[i].file = f}
           IN  IF resident = {} THEN staged[f]
               ELSE staged[f] \o pool[CHOOSE i \in resident : TRUE].buffer]
    /\ pool' = <<>>
    /\ entries' = Bundle({names[s] : s \in DOMAIN names})
    /\ pc' = "prepare"
    /\ UNCHANGED <<input, target, next, names, opened, at, disk, backup, guarded,
                   committed, unrestored, old, faults>>

-----------------------------------------------------------------------------
(* commit_split_bundle_with.                                               *)

Used == {names[s] : s \in DOMAIN names}
NewManifest == [kind |-> "manifest", data |-> [f \in Used |-> staged[f]]]
Content(name) == IF name = Manifest THEN NewManifest ELSE Records(staged[name])
Path == target[entries[at]]

\* Every entry is copied beside its destination before any destination moves; two
\* entries with one destination are refused (ReadFails).
Prepare ==
    /\ pc = "prepare"
    /\ \A i, j \in DOMAIN entries : i # j => target[entries[i]] # target[entries[j]]
    /\ pc' = "commit" /\ at' = 1
    /\ UNCHANGED <<reading, entries, disk, backup, guarded, committed, unrestored,
                   old, faults>>

\* The destination, if there is one, is moved aside.
BackUp ==
    /\ pc = "commit" /\ at <= Len(entries) /\ disk[Path] # None
    /\ backup' = [backup EXCEPT ![Path] = disk[Path]]
    /\ disk' = [disk EXCEPT ![Path] = None]
    /\ guarded' = guarded \union {Path}
    /\ UNCHANGED <<pc, reading, entries, at, committed, unrestored, old, faults>>

\* The copy beside the destination is renamed to it.
Install ==
    /\ pc = "commit" /\ at <= Len(entries) /\ disk[Path] = None
    /\ disk' = [disk EXCEPT ![Path] = Content(entries[at])]
    /\ committed' = committed \union {Path}
    /\ at' = at + 1
    /\ UNCHANGED <<pc, reading, entries, backup, guarded, unrestored, old, faults>>

\* Mutation: an error while committing is returned as it is.
CommitFailsAtOnce ==
    /\ pc = "commit" /\ at <= Len(entries)
    /\ Fault
    /\ pc' = "failed"
    /\ guarded' = {}
    /\ UNCHANGED <<reading, entries, at, disk, backup, committed, unrestored, old>>

\* Either step fails: the rollback begins at the last entry.
CommitFails ==
    /\ pc = "commit" /\ at <= Len(entries)
    /\ Fault
    /\ pc' = "rollback" /\ at' = Len(entries)
    /\ UNCHANGED <<reading, entries, disk, backup, guarded, committed, unrestored,
                   old>>

\* The backups are removed; one that cannot be is only warned of.
Finish ==
    /\ pc = "commit" /\ at > Len(entries)
    /\ \E left \in SUBSET guarded :
           backup' = [p \in Paths |-> IF p \in left THEN backup[p] ELSE None]
    /\ guarded' = {}
    /\ pc' = "done"
    /\ UNCHANGED <<reading, entries, at, disk, committed, unrestored, old, faults>>

-----------------------------------------------------------------------------
(* rollback_split_bundle: the entries in reverse.                          *)

RemoveNew ==
    /\ pc = "rollback" /\ at > 0 /\ Path \in committed
    /\ disk' = [disk EXCEPT ![Path] = None]
    /\ committed' = committed \ {Path}
    /\ UNCHANGED <<pc, reading, entries, at, backup, guarded, unrestored, old, faults>>

RestoreOld ==
    /\ pc = "rollback" /\ at > 0 /\ Path \notin committed /\ Path \in guarded
    /\ disk' = [disk EXCEPT ![Path] = backup[Path]]
    /\ backup' = [backup EXCEPT ![Path] = None]
    /\ guarded' = guarded \ {Path}
    /\ at' = at - 1
    /\ UNCHANGED <<pc, reading, entries, committed, unrestored, old, faults>>

NothingToRestore ==
    /\ pc = "rollback" /\ at > 0 /\ Path \notin committed /\ Path \notin guarded
    /\ at' = at - 1
    /\ UNCHANGED <<pc, reading, entries, disk, backup, guarded, committed, unrestored,
                   old, faults>>

\* Mutation: the backup of an entry that could not be restored is not kept.
RollbackFailsUnkept ==
    /\ pc = "rollback" /\ at > 0 /\ Path \in committed \union guarded
    /\ Fault
    /\ unrestored' = unrestored \union {Path}
    /\ at' = at - 1
    /\ UNCHANGED <<pc, reading, entries, disk, backup, guarded, committed, old>>

\* Removing the new file or renaming the backup fails: the error is noted, the
\* backup is kept and the rollback goes on.
RollbackFails ==
    /\ pc = "rollback" /\ at > 0 /\ Path \in committed \union guarded
    /\ Fault
    /\ unrestored' = unrestored \union {Path}
    /\ guarded' = guarded \ {Path}
    /\ at' = at - 1
    /\ UNCHANGED <<pc, reading, entries, disk, backup, committed, old>>

\* The command ends with an error; the backups still guarded go with their guard.
RolledBack ==
    /\ pc = "rollback" /\ at = 0
    /\ backup' = [p \in Paths |-> IF p \in guarded THEN None ELSE backup[p]]
    /\ guarded' = {}
    /\ pc' = "failed"
    /\ UNCHANGED <<reading, entries, at, disk, committed, unrestored, old, faults>>

\* The process is killed: no guard removes anything.
Kill ==
    /\ pc \in {"commit", "rollback"}
    /\ pc' = "killed"
    /\ UNCHANGED <<reading, bundle, old, faults>>

Ended == pc \in {"done", "failed", "killed"}

Next ==
    \/ SplitRecord \/ ReadFails \/ FlushAll
    \/ Prepare \/ BackUp \/ Install \/ CommitFails \/ Finish
    \/ RemoveNew \/ RestoreOld \/ NothingToRestore \/ RollbackFails \/ RolledBack
    \/ Kill
    \/ Ended /\ UNCHANGED vars

Spec == Init /\ [][Next]_vars

-----------------------------------------------------------------------------
(* Properties.                                                             *)

InOrder(recs) == \A i, j \in DOMAIN recs : i < j => recs[i] < recs[j]

\* The file holds the records of the source s, each once and in input order.
HoldsRecordsOf(file, s) ==
    /\ file.kind = "records" /\ InOrder(file.data)
    /\ {file.data[i] : i \in DOMAIN file.data} = {i \in DOMAIN input : input[i] = s}

\* The types of the variables; a backup is guarded only where there is one, and
\* while the bundle is committed every backup is.
TypeOK ==
    /\ pc \in {"read", "prepare", "commit", "rollback", "done", "failed", "killed"}
    /\ input \in Inputs /\ target \in Targets /\ next \in 1..(Len(input) + 1)
    /\ DOMAIN names \subseteq Sources /\ \A s \in DOMAIN names : names[s] \in Files
    /\ \A i \in DOMAIN pool : pool[i].file \in opened /\ pool[i].buffer # <<>>
    /\ opened \subseteq Files /\ entries \in Seq(Outputs)
    /\ at \in 0..(Len(entries) + 1) /\ faults \in 0..MaxFaults
    /\ {p \in Paths : backup[p] # None /\ pc = "commit"} \subseteq guarded
    /\ guarded \subseteq {p \in Paths : backup[p] # None}
    /\ committed \subseteq Paths /\ unrestored \subseteq Paths

\* --max-open-writers bounds the files held open (transforms.rs:40), and a file is
\* never held open twice.
OpenFilesBounded ==
    /\ Len(pool) <= MaxOpen
    /\ \A i, j \in DOMAIN pool : pool[i].file = pool[j].file => i = j

\* A split that reports success has put every record of a source into the file of
\* that source, once and in input order, however often its writer was evicted and
\* whatever names collide; the manifest describes exactly these files.
SplitIsComplete ==
    pc = "done" =>
        /\ disk[target[Manifest]] = NewManifest
        /\ \A i \in DOMAIN input : input[i] \in DOMAIN names
        /\ \A s \in DOMAIN names : HoldsRecordsOf(disk[target[names[s]]], s)

\* Readers never see the new manifest before every file it refers to is in place
\* (transforms.rs:426), not during the rollback and not after a kill either.
ManifestIsLast ==
    disk[target[Manifest]].kind = "manifest" =>
        \A f \in Used : disk[target[f]] = Records(staged[f])

\* Whatever fails or is killed, the previous content of a destination is there or
\* in a backup beside it until the whole bundle is in place.
NoOutputLost ==
    pc # "done" => \A p \in Paths : old[p] # None =>
        disk[p] = old[p] \/ backup[p] = old[p]

\* A split that fails has restored every destination (transforms.rs:169), but for
\* those it names in its error, and leaves no backup of the others behind.
FailureRestores ==
    pc = "failed" => \A p \in Paths \ unrestored :
        disk[p] = old[p] /\ backup[p] = None
=============================================================================
