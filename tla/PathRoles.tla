------------------------------- MODULE PathRoles -------------------------------
(***************************************************************************)
(* The path gate in front of every command that writes a named file, and   *)
(* the atomic writers behind it.  A command reads some files, opens its    *)
(* outputs, commits them one after the other and then writes a sidecar (a  *)
(* manifest, a report, a preset), which it opens only then.                *)
(*                                                                         *)
(* There is one directory, which a path may spell in several ways (relative*)
(* or through a linked parent): a path is a spelling and a name.  A name is*)
(* missing, a link to a name, or a file; hard links are names of one file. *)
(* Paths in a directory that does not exist are left out: no writer opens. *)
(***************************************************************************)
EXTENDS Integers, Sequences, FiniteSets

CONSTANTS Names, Spellings, FileIds,
          MaxWrites        \* bound: outputs and sidecar of a command

ASSUME PathsAssumption == IsFiniteSet(Names) /\ MaxWrites \in Nat

PathNames == [spelling : Spellings, name : Names]
Missing == <<"missing">>
Entries == {Missing} \union {<<"file", n>> : n \in FileIds} \union {<<"link", n>> : n \in Names}

VARIABLES
    move,       \* "validate", "open", "commit", "sidecar", "done", "failed", "refused"
    dir,        \* what each name is; the file that write i makes is <<"file", "out", i>>
    dirBefore,  \* history: the directory at the start
    readPath, writePaths,
    sidecar,    \* the last path is written after the others are committed
    replaced,   \* the names that the open writers will replace
    commits     \* writes that are done

pathVars == <<move, dir, dirBefore, readPath, writePaths, sidecar, replaced, commits>>

-----------------------------------------------------------------------------
(* Names of the file system.                                               *)

\* The name at the end of a chain of links; in a cycle some name of the cycle.
Target(d, name) ==
    LET follow[k \in 0..Cardinality(Names)] ==
            IF k = 0 THEN name
            ELSE LET n == follow[k - 1] IN IF d[n][1] = "link" THEN d[n][2] ELSE n
    IN  follow[Cardinality(Names)]

FileAt(d, p) == d[Target(d, p.name)]
Exists(d, p) == FileAt(d, p)[1] = "file"

\* Mutation: a name is compared as it is spelled.
SameFileBySpelling(p, q) == p = q

\* is_same_file: device and inode of what the paths lead to.
SameFile(p, q) == FileAt(dir, p) = FileAt(dir, q)

\* future_path_key: the canonical path, or the canonical parent and the name.
FutureKey(p) == IF Exists(dir, p) THEN Target(dir, p.name) ELSE p.name

Collide(p, q) ==
    IF Exists(dir, p) /\ Exists(dir, q) THEN SameFile(p, q) ELSE FutureKey(p) = FutureKey(q)

-----------------------------------------------------------------------------
(* The command.                                                            *)

Early == IF sidecar THEN Len(writePaths) - 1 ELSE Len(writePaths)

PathsInit ==
    /\ move = "validate"
    /\ dir \in [Names -> Entries] /\ dirBefore = dir
    /\ readPath \in PathNames
    /\ \E n \in 1..MaxWrites : writePaths \in [1..n -> PathNames]
    /\ sidecar \in BOOLEAN
    /\ replaced = <<>> /\ commits = 0

\* validate_path_roles, every input against every output and outputs among themselves;
\* then the input is opened.
ValidatePaths ==
    /\ move = "validate"
    /\ LET aliased == \/ \E i \in DOMAIN writePaths : Collide(readPath, writePaths[i])
                      \/ \E i, j \in DOMAIN writePaths :
                            i # j /\ Collide(writePaths[i], writePaths[j])
       IN  \/ aliased /\ move' = "refused"
           \/ ~aliased /\ Exists(dir, readPath) /\ move' = "open"
           \/ ~aliased /\ ~Exists(dir, readPath) /\ move' = "failed"
    /\ UNCHANGED <<dir, dirBefore, readPath, writePaths, sidecar, replaced, commits>>

\* AtomicWriter::new: a link is resolved, and has to lead to a file.
CanOpen(p) == dir[p.name][1] # "link" \/ Exists(dir, p)

OpenOutput ==
    /\ move = "open" /\ Len(replaced) < Early
    /\ LET p == writePaths[Len(replaced) + 1]
       IN  \/ CanOpen(p) /\ replaced' = Append(replaced, Target(dir, p.name)) /\ UNCHANGED move
           \/ ~CanOpen(p) /\ move' = "failed" /\ UNCHANGED replaced
    /\ UNCHANGED <<dir, dirBefore, readPath, writePaths, sidecar, commits>>

\* The input is read to its end.
ReadInput ==
    /\ move = "open" /\ Len(replaced) = Early
    /\ move' = "commit"
    /\ UNCHANGED <<dir, dirBefore, readPath, writePaths, sidecar, replaced, commits>>

\* AtomicWriter::commit: the temporary file takes the name.
CommitOutput ==
    /\ move = "commit" /\ commits < Early
    /\ commits' = commits + 1
    /\ dir' = [dir EXCEPT ![replaced[commits + 1]] = <<"file", "out", commits + 1>>]
    /\ UNCHANGED <<move, dirBefore, readPath, writePaths, sidecar, replaced>>

OutputsCommitted ==
    /\ move = "commit" /\ commits = Early
    /\ move' = IF sidecar THEN "sidecar" ELSE "done"
    /\ UNCHANGED <<dir, dirBefore, readPath, writePaths, sidecar, replaced, commits>>

\* atomic_write_bytes: opened and committed when the outputs are in place.
WriteSidecar ==
    /\ move = "sidecar"
    /\ LET p == writePaths[Len(writePaths)]
       IN  \/ /\ CanOpen(p)
              /\ dir' = [dir EXCEPT ![Target(dir, p.name)] =
                              <<"file", "out", Len(writePaths)>>]
              /\ commits' = commits + 1 /\ move' = "done"
           \/ ~CanOpen(p) /\ move' = "failed" /\ UNCHANGED <<dir, commits>>
    /\ UNCHANGED <<dirBefore, readPath, writePaths, sidecar, replaced>>

PathsNext == \/ ValidatePaths \/ OpenOutput \/ ReadInput \/ CommitOutput
             \/ OutputsCommitted \/ WriteSidecar
             \/ move \in {"done", "failed", "refused"} /\ UNCHANGED pathVars

PathsSpec == PathsInit /\ [][PathsNext]_pathVars

-----------------------------------------------------------------------------
(* Properties.                                                             *)

\* No command touches what it reads, nor any name that its outputs do not lead to,
\* through whatever links and spellings (CHANGELOG.md:165); one that is refused, or
\* fails before its first commit, touches nothing.
InputsSurvive ==
    /\ Exists(dirBefore, readPath) => FileAt(dir, readPath) = FileAt(dirBefore, readPath)
    /\ commits = 0 => dir = dirBefore
    /\ \A n \in Names :
           dir[n] # dirBefore[n] => \E i \in DOMAIN writePaths : Target(dir, writePaths[i].name) = n

\* CHANGELOG.md:165: "Relative aliases, symlinks, and hard links can no longer truncate
\* a source dataset or replace a completed output with its manifest."
OutputsAreApart ==
    move = "done" => \A i \in DOMAIN writePaths : FileAt(dir, writePaths[i]) = <<"file", "out", i>>
=============================================================================
