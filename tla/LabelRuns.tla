------------------------------ MODULE LabelRuns ------------------------------
(***************************************************************************)
(* What a worker of `shogiesa label` does to the records of a file over a  *)
(* chain of runs: analyze_record under the three policies for observations *)
(* that are already there, the label cache that runs and other processes   *)
(* share, --resume-from on the output of an earlier (killed) run, and the  *)
(* rules for dropping an engine process and launching another.             *)
(*                                                                         *)
(* A record is a position number.  An observation keeps what the code      *)
(* compares: the kind and value of the limit asked for (requested, 0 in    *)
(* old files that lack it), what the search achieved, and the highest      *)
(* MultiPV rank among its candidates; `build` is the engine binary that    *)
(* produced it, which only its fingerprint in the cache key can tell.      *)
(* How a search goes inside one engine session is UsiEngine's subject.     *)
(***************************************************************************)
EXTENDS Naturals, Sequences, FiniteSets

CONSTANTS Records,   \* the number of records of the input file
          Inputs,    \* the observations a record may come with
          Configs,   \* the command lines of the runs
          MaxRuns    \* bound: runs of the chain

Policies == {"append", "skip", "replace"}
Limits == [kind : {"depth", "nodes"}, value : Nat \ {0}]

\* requested is 0 in an old file that lacks it.
Observations == [kind : {"depth", "nodes"}, requested : Nat, achieved : Nat, ranks : Nat,
                 build : Nat]

ASSUME RunsAssumption ==
    /\ Records \in Nat \ {0} /\ MaxRuns \in Nat
    /\ Inputs \subseteq Seq(Observations)
    /\ \A c \in Configs :
          /\ c.skip \in BOOLEAN /\ c.replace \in BOOLEAN /\ ~(c.skip /\ c.replace)
          /\ c.resume \in BOOLEAN /\ c.cached \in BOOLEAN /\ c.fingerprint \in BOOLEAN
          /\ c.limits \in Seq(Limits) /\ c.multipv \in Nat \ {0} /\ c.every \in Nat
          /\ c.strict \in BOOLEAN /\ c.restartOnError \in BOOLEAN
          /\ c.build \in Nat \ {0}

VARIABLES
    input,     \* the observations of each record of --input
    outs,      \* the --out file of each run: per record, <<>> or <<observations>>
    run,       \* the command line of the current run, or <<>>
    pc,        \* where the worker is
    pos,       \* the record in hand
    base,      \* the file --resume-from names, 0 if none
    resumed,   \* whether the record in hand was found there
    obs,       \* rec.observations
    at,        \* index into limits
    engine,    \* the worker's engine: none, up, or up with a dead process
    searches,  \* searches_since_restart
    restart,   \* restart_needed
    cache      \* the cache directory: a function from some keys to observations

engineVars == <<obs, at, engine, searches, restart>>
runsVars == <<input, outs, run, pc, pos, base, resumed, engineVars, cache>>

Off == [limits |-> <<>>]
Current == Len(outs)
Present(file, r) == file[r] # <<>>
Limit == run.limits[at]

-----------------------------------------------------------------------------
(* Comparing observations.                                                 *)

\* existing_policy: --resume-from implies skip unless --replace-existing is given.
ExistingPolicy(c) == IF c.replace THEN "replace"
                     ELSE IF c.skip \/ c.resume THEN "skip" ELSE "append"

\* observation_covers_limit, by what was achieved and not by what was asked.
CoversLimit(o, limit, multipv) ==
    o.ranks = multipv /\ o.kind = limit.kind /\ o.achieved >= limit.value

\* Mutation: the MultiPV setting is not compared.
SameSearchRequestAnyRank(o, new) ==
    /\ o.kind = new.kind
    /\ new.kind = "depth" => /\ o.achieved = new.achieved
                             /\ o.requested = 0 \/ o.requested = new.requested
    /\ new.kind = "nodes" => o.requested = new.requested

\* same_search_request.
SameSearchRequest(o, new) ==
    /\ o.ranks = new.ranks /\ o.kind = new.kind
    /\ new.kind = "depth" => /\ o.achieved = new.achieved
                             /\ o.requested = 0 \/ o.requested = new.requested
    /\ new.kind = "nodes" => o.requested = new.requested

\* Mutation: the cache key leaves the MultiPV setting out.
LabelCachePathAnyRank(c, r, limit) ==
    [sfen |-> r, limit |-> limit, build |-> IF c.fingerprint THEN c.build ELSE 0]

\* label_cache_path; without a fingerprint every build has the same key.
LabelCachePath(c, r, limit) ==
    [sfen |-> r, limit |-> limit, multipv |-> c.multipv,
     build |-> IF c.fingerprint THEN c.build ELSE 0]

\* What the engine may answer: it can stop short of the limit, count more nodes than
\* it was given, and report fewer ranks than asked for where a position has fewer moves.
Reached(limit) == 1..IF limit.kind = "nodes" THEN limit.value + 1 ELSE limit.value
Answers(c, limit) ==
    [kind : {limit.kind}, requested : {limit.value}, achieved : Reached(limit),
     ranks : 1..c.multipv, build : {c.build}]

-----------------------------------------------------------------------------
RunsInit ==
    /\ input \in [1..Records -> Inputs]
    /\ outs = <<>> /\ run = Off /\ pc = "off" /\ pos = 0 /\ base = 0 /\ resumed = FALSE
    /\ obs = <<>> /\ at = 0 /\ engine = "none" /\ searches = 0 /\ restart = FALSE
    /\ cache = [k \in {} |-> <<>>]

\* cmd_label starts: the file to resume from is any earlier output, and need not
\* exist.
StartRun ==
    /\ pc = "off" /\ Current < MaxRuns
    /\ \E c \in Configs :
          /\ run' = c
          /\ base' \in IF c.resume THEN 0..Current ELSE {0}
    /\ outs' = Append(outs, [r \in 1..Records |-> <<>>])
    /\ pc' = "read" /\ pos' = 1
    /\ engine' = "none" /\ searches' = 0
    /\ UNCHANGED <<input, obs, at, restart, resumed, cache>>

\* Mutation: a record found in the index is counted as resumed and not merged.
ReadRecordUnmerged ==
    /\ pc = "read" /\ pos <= Records
    /\ resumed' = (base # 0 /\ Present(outs[base], pos))
    /\ obs' = input[pos]
    /\ pc' = "engine"
    /\ UNCHANGED <<input, outs, run, pos, base, at, engine, searches, restart, cache>>

\* The reader parses the record and appends what the index finds for it in the
\* file to resume from; a line it cannot read counts as absent.
ReadRecord ==
    /\ pc = "read" /\ pos <= Records
    /\ \/ /\ base # 0 /\ Present(outs[base], pos)
          /\ obs' = input[pos] \o outs[base][pos][1]
          /\ resumed' = TRUE
       \/ obs' = input[pos] /\ resumed' = FALSE
    /\ pc' = "engine"
    /\ UNCHANGED <<input, outs, run, pos, base, at, engine, searches, restart, cache>>

\* The worker launches an engine if it has none.
HaveEngine ==
    /\ pc = "engine"
    /\ \/ engine # "none" /\ UNCHANGED <<engine, searches>>
       \/ engine = "none" /\ engine' = "up" /\ searches' = 0
    /\ at' = 1 /\ restart' = FALSE /\ pc' = "limits"
    /\ UNCHANGED <<input, outs, run, pos, base, obs, resumed, cache>>

\* The launch fails: the record passes through as it is.
NoEngine ==
    /\ pc = "engine" /\ engine = "none"
    /\ pc' = "write"
    /\ UNCHANGED <<input, outs, run, pos, base, engineVars, resumed, cache>>

-----------------------------------------------------------------------------
(* analyze_record, one limit at a time.                                    *)

AtLimit == pc = "limits" /\ at <= Len(run.limits) /\ ~restart
Covered == /\ ExistingPolicy(run) = "skip"
           /\ \E i \in 1..Len(obs) : CoversLimit(obs[i], Limit, run.multipv)
Key == LabelCachePath(run, pos, Limit)
CacheHit == run.cached /\ Key \in DOMAIN cache

SkipLimit ==
    /\ AtLimit /\ Covered
    /\ at' = at + 1
    /\ UNCHANGED <<input, outs, run, pc, pos, base, obs, engine, searches, restart, resumed, cache>>

\* Mutation: the new observation is only appended.
KeepAppending(o) == obs' = Append(obs, o)

\* Vec::retain: what is not of the request of o, in order.
Retained(s, o) ==
    LET kept[n \in 0..Len(s)] ==
            IF n = 0 THEN <<>>
            ELSE IF SameSearchRequest(s[n], o) THEN kept[n - 1]
                                               ELSE Append(kept[n - 1], s[n])
    IN  kept[Len(s)]

\* retain and push.
Keep(o) ==
    obs' = Append(IF ExistingPolicy(run) = "append" THEN obs ELSE Retained(obs, o), o)

\* A cached observation is used as it is.
UseCached ==
    /\ AtLimit /\ ~Covered /\ CacheHit
    /\ Keep(cache[Key])
    /\ at' = at + 1
    /\ UNCHANGED <<input, outs, run, pc, pos, base, engine, searches, restart,
                   resumed, cache>>

\* A search that succeeds is kept, and cached if there is a cache; the write is
\* best effort.
SearchOk ==
    /\ AtLimit /\ ~Covered /\ ~CacheHit /\ engine = "up"
    /\ \E o \in Answers(run, Limit) :
          /\ Keep(o)
          /\ \/ run.cached /\ cache' = [k \in DOMAIN cache \union {Key} |->
                                           IF k = Key THEN o ELSE cache[k]]
             \/ UNCHANGED cache
    /\ searches' = searches + 1
    /\ at' = at + 1
    /\ UNCHANGED <<input, outs, run, pc, pos, base, engine, restart, resumed>>

\* handle_analyse_error: Io is unconditional.
RestartAfter(e) == e = "Io" \/ run.restartOnError

\* An error of the search, or in strict mode a bestmove that is not legal.  A dead
\* process fails every search with Io.
SearchFails ==
    /\ AtLimit /\ ~Covered /\ ~CacheHit
    /\ \E e \in {"Io", "Timeout"} \union (IF run.strict THEN {"IllegalBestmove"} ELSE {}) :
          /\ engine = "dead" => e = "Io"
          /\ engine' = IF e = "Io" THEN "dead" ELSE engine
          /\ restart' = RestartAfter(e)
    /\ searches' = searches + 1
    /\ at' = at + 1
    /\ UNCHANGED <<input, outs, run, pc, pos, base, obs, resumed, cache>>

\* The end of analyze_record, and the worker's drop of the engine.
EndLimits ==
    /\ pc = "limits" /\ (at > Len(run.limits) \/ restart)
    /\ engine' = IF restart \/ (run.every # 0 /\ searches >= run.every)
                    THEN "none" ELSE engine
    /\ pc' = "write"
    /\ UNCHANGED <<input, outs, run, pos, base, obs, at, searches, restart, resumed, cache>>

-----------------------------------------------------------------------------
\* The record is written and flushed.
WriteRecord ==
    /\ pc = "write"
    /\ outs' = [outs EXCEPT ![Current][pos] = <<obs>>]
    /\ pc' = "read" /\ pos' = pos + 1
    /\ obs' = <<>> /\ at' = 0
    /\ UNCHANGED <<input, run, base, engine, searches, restart, resumed, cache>>

\* The run ends, or is killed with a record in hand.
EndRun ==
    /\ pc # "off"
    /\ pc' = "off" /\ run' = Off /\ pos' = 0 /\ base' = 0 /\ resumed' = FALSE
    /\ obs' = <<>> /\ at' = 0 /\ engine' = "none" /\ searches' = 0 /\ restart' = FALSE
    /\ UNCHANGED <<input, outs, cache>>

\* Another label process that shares the cache directory renames its entry into
\* place, over the one that may be there; only the key looked up next matters.
OtherProcess ==
    /\ AtLimit /\ run.cached
    /\ \E c \in Configs : \E i \in 1..Len(c.limits) :
          /\ c.cached /\ LabelCachePath(c, pos, c.limits[i]) = Key
          /\ \E o \in Answers(c, c.limits[i]) :
                cache' = [k \in DOMAIN cache \union {Key} |->
                             IF k = Key THEN o ELSE cache[k]]
    /\ UNCHANGED <<input, outs, run, pc, pos, base, resumed, engineVars>>

\* `cache prune` removes an entry, or a damaged one reads as a miss.
LoseEntry ==
    /\ AtLimit /\ CacheHit
    /\ cache' = [k \in DOMAIN cache \ {Key} |-> cache[k]]
    /\ UNCHANGED <<input, outs, run, pc, pos, base, resumed, engineVars>>

RunsNext ==
    \/ StartRun \/ ReadRecord \/ HaveEngine \/ NoEngine
    \/ SkipLimit \/ UseCached \/ SearchOk \/ SearchFails \/ EndLimits
    \/ WriteRecord \/ EndRun \/ OtherProcess \/ LoseEntry

RunsSpec == RunsInit /\ [][RunsNext]_runsVars

-----------------------------------------------------------------------------
(* Properties.                                                             *)

Elems(s) == {s[i] : i \in 1..Len(s)}
DistinctRequests(s) == \A i, j \in 1..Len(s) : i # j => ~SameSearchRequest(s[i], s[j])

\* Without --resume-from, neither a skip nor a replace run writes two observations
\* of the same request for a record that came with none twice, in whatever mix of
\* cached and searched ones.
NoDuplicateRequests ==
    (pc = "write" /\ base = 0 /\ ExistingPolicy(run) # "append" /\ DistinctRequests(input[pos]))
        => DistinctRequests(obs)

\* analyze_record loses nothing: an observation leaves the record only for one
\* that achieved as much for the same limit and as many ranks, or is that of the
\* same node budget.
OnlyReplacedByItsLike ==
    [][(pc = "limits" /\ pc' = "limits") =>
          \A o \in Elems(obs) : o \in Elems(obs') \/
             \E p \in Elems(obs') :
                /\ p.ranks = o.ranks /\ p.kind = o.kind
                /\ p.requested = o.requested \/ o.requested = 0
                /\ o.kind = "depth" => p.achieved = o.achieved]_runsVars

\* The cache key says everything a run asks for: what UseCached adds to a record
\* is an answer this run's own engine could have given to this request, when the
\* engine binary is part of the key.
CacheAnswersTheRequest ==
    (AtLimit /\ CacheHit /\ run.fingerprint) => cache[Key] \in Answers(run, Limit)

\* A resumed run never spends a search on what the file it resumes from covers
\* (main.rs:366), whatever the record's earlier limits replaced in it meanwhile; but a
\* node budget that an earlier limit asked for again may have come back with less.
ResumeSkipsCovered ==
    [][(searches' > searches /\ resumed /\ ExistingPolicy(run) = "skip") =>
          \A o \in Elems(outs[base][pos][1]) : CoversLimit(o, Limit, run.multipv) =>
              \E i \in 1..at - 1 : run.limits[i] = [kind |-> "nodes", value |-> o.requested]]_runsVars
=============================================================================
