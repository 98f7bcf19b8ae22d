------------------------------ MODULE Transport ------------------------------
(***************************************************************************)
(* shogiesa pack, unpack and quality-report (commands/transport.rs) over   *)
(* one JSONL file and the pack that is made of it.  A command reads record *)
(* by record and replaces its output only at its end (AtomicWriter); it    *)
(* may fail or be killed at any step.  Between two commands the pack may   *)
(* be damaged.                                                             *)
(***************************************************************************)
EXTENDS PackFormat, QualityReport

CONSTANTS
    Inputs,         \* the JSONL files
    DamagedInputs,  \* those whose packs may be damaged
    ReportArgs,     \* the --input lists of quality-report
    DamageBytes,    \* what a damaged byte may become
    MaxFaults       \* bound on commands cut off and packs damaged

VARIABLES
    input,      \* the JSONL file, a sequence of lines
    packed,     \* the pack, a sequence of bytes
    manifest,   \* of the last pack; <<>> when there is none
    unpacked,   \* the JSONL file that unpack writes; <<>> when there is none
    report,     \* <<>> when there is none
    cmd,        \* the command that runs, with its local state
    outcome,    \* of each command
    kept,       \* history: the records of the last pack that was completed
    unpackedFrom,   \* history: the bytes that the unpack which has ended read
    damage,     \* what happened to the pack since
    faults

files == <<input, packed, manifest, unpacked, report>>
history == <<kept, unpackedFrom, damage, faults>>
vars == <<files, cmd, outcome, history>>

Idle == [name |-> "idle"]

Paths == {"data.jsonl", "data.shgpk"}

Init ==
    /\ input \in Inputs
    /\ packed = Header              \* an earlier pack, of an empty file
    /\ manifest = <<>> /\ unpacked = <<>> /\ report = <<>>
    /\ cmd = Idle
    /\ outcome = [c \in {"pack", "unpack", "report"} |-> "none"]
    /\ kept = <<>> /\ unpackedFrom = <<>>
    /\ damage = [kind |-> "none"]
    /\ faults = 0

\* A command ends, and leaves its output as it is when it fails.
End(name, how) == cmd' = Idle /\ outcome' = [outcome EXCEPT ![name] = how]

Starts(name) == cmd = Idle /\ outcome[name] = "none"

\* An I/O error, or the process is killed: the temporary output is never renamed.
Interrupt ==
    /\ cmd # Idle /\ faults < MaxFaults
    /\ cmd' = Idle /\ faults' = faults + 1
    /\ UNCHANGED <<files, outcome, kept, unpackedFrom, damage>>

\* Something cuts the pack short, or changes a byte of it.
Damage ==
    /\ cmd = Idle /\ outcome["pack"] = "ok" /\ damage.kind = "none"
    /\ input \in DamagedInputs /\ faults < MaxFaults
    /\ faults' = faults + 1
    /\ \/ \E n \in 0..Len(packed) - 1 :
            /\ packed' = SubSeq(packed, 1, n)
            /\ damage' = [kind |-> "cut", at |-> n]
       \/ \E i \in 1..Len(packed), b \in DamageBytes :
            /\ b # packed[i]
            /\ packed' = [packed EXCEPT ![i] = b]
            /\ damage' = [kind |-> "changed", at |-> i]
    /\ UNCHANGED <<input, manifest, unpacked, report, cmd, outcome, kept, unpackedFrom>>

-----------------------------------------------------------------------------
(* pack                                                                    *)

PackBegin ==
    /\ Starts("pack")
    /\ \E m \in BOOLEAN :
        cmd' = [name |-> "pack", at |-> 1, tmp |-> Header, total |-> 0, skipped |-> 0,
                manifest |-> m]
    /\ UNCHANGED <<files, outcome, history>>

\* The records of the input.
Records ==
    LET lines == SelectSeq(input, LAMBDA line : line.kind = "record")
    IN  [i \in DOMAIN lines |-> lines[i].rec]

AtLine(kinds) == cmd.name = "pack" /\ cmd.at <= Len(input) /\ input[cmd.at].kind \in kinds

PackRecord ==
    /\ AtLine({"record"})
    /\ LET e == EncodeRecord(input[cmd.at].rec)
       IN  /\ e.ok
           /\ cmd' = [cmd EXCEPT !.at = @ + 1, !.tmp = @ \o e.bytes, !.total = @ + 1]
    /\ UNCHANGED <<files, outcome, history>>

\* A line that cannot be parsed is counted; a blank one is not seen.
PackSkip ==
    /\ AtLine({"blank", "broken", "future"})
    /\ cmd' = [cmd EXCEPT !.at = @ + 1,
                          !.skipped = @ + (IF input[cmd.at].kind = "blank" THEN 0 ELSE 1)]
    /\ UNCHANGED <<files, outcome, history>>

PackFails ==
    /\ \/ AtLine({"unreadable"})
       \/ AtLine({"record"}) /\ ~EncodeRecord(input[cmd.at].rec).ok
    /\ End("pack", "failed")
    /\ UNCHANGED <<files, history>>

PackCommit ==
    /\ cmd.name = "pack" /\ cmd.at > Len(input)
    /\ packed' = cmd.tmp
    /\ kept' = Records
    /\ IF cmd.manifest THEN cmd' = [cmd EXCEPT !.name = "manifest"] /\ UNCHANGED outcome
       ELSE End("pack", "ok")
    /\ UNCHANGED <<input, manifest, unpacked, report, unpackedFrom, damage, faults>>

\* The output's hash is taken of the file that is in place.
PackManifest ==
    /\ cmd.name = "manifest"
    /\ manifest' = [records_read |-> cmd.total + cmd.skipped, records_kept |-> cmd.total,
                    records_dropped |-> cmd.skipped, output |-> packed]
    /\ End("pack", "ok")
    /\ UNCHANGED <<input, packed, unpacked, report, history>>

-----------------------------------------------------------------------------
(* unpack                                                                  *)

UnpackBegin ==
    /\ Starts("unpack") /\ ReadHeader(packed) = "none"
    /\ cmd' = [name |-> "unpack", tmp |-> <<>>, rest |-> SubSeq(packed, 11, Len(packed))]
    /\ UNCHANGED <<files, outcome, history>>

UnpackRefuses ==
    /\ Starts("unpack") /\ ReadHeader(packed) # "none"
    /\ End("unpack", "failed")
    /\ unpackedFrom' = packed
    /\ UNCHANGED <<files, kept, damage, faults>>

\* Mutation: a record that ends too early is the end of the file.
UnpackRecordLenient ==
    /\ cmd.name = "unpack" /\ cmd.rest # <<>>
    /\ LET r == DecodeRecord(cmd.rest)
       IN  CASE r.error = "none" ->
                    cmd' = [cmd EXCEPT !.tmp = Append(@, r.val), !.rest = r.rest]
                    /\ UNCHANGED <<outcome, unpackedFrom>>
             [] r.error = "eof" ->
                    cmd' = [cmd EXCEPT !.rest = <<>>] /\ UNCHANGED <<outcome, unpackedFrom>>
             [] r.error = "invalid" -> End("unpack", "failed") /\ unpackedFrom' = packed
    /\ UNCHANGED <<files, kept, damage, faults>>

UnpackRecord ==
    /\ cmd.name = "unpack" /\ cmd.rest # <<>>
    /\ LET r == DecodeRecord(cmd.rest)
       IN  IF r.error = "none"
           THEN /\ cmd' = [cmd EXCEPT !.tmp = Append(@, r.val), !.rest = r.rest]
                /\ UNCHANGED <<outcome, unpackedFrom>>
           ELSE End("unpack", "failed") /\ unpackedFrom' = packed
    /\ UNCHANGED <<files, kept, damage, faults>>

UnpackCommit ==
    /\ cmd.name = "unpack" /\ cmd.rest = <<>>
    /\ unpacked' = [records |-> cmd.tmp]
    /\ End("unpack", "ok")
    /\ unpackedFrom' = packed
    /\ UNCHANGED <<input, packed, manifest, report, kept, damage, faults>>

-----------------------------------------------------------------------------
(* quality-report                                                          *)

\* Each input is a shard.  What hashes the decoded records is the records here, and what
\* hashes the input its bytes.
ReportBegin ==
    /\ Starts("report")
    /\ \E paths \in ReportArgs :
        cmd' = [name |-> "report", paths |-> paths, open |-> FALSE, rest |-> <<>>,
                shard |-> NewBuilder, aggregate |-> NewBuilder, decoded |-> <<>>,
                shards |-> <<>>]
    /\ UNCHANGED <<files, outcome, history>>

DetectFormat(path) == IF path = "data.shgpk" THEN "pack" ELSE "jsonl"

Path == cmd.paths[Len(cmd.shards) + 1]

Rejecting(c, reason) ==
    [c EXCEPT !.shard = Reject(@, reason), !.aggregate = Reject(@, reason)]

Observing(c, rec) ==
    [c EXCEPT !.shard = Observe(@, rec), !.aggregate = Observe(@, rec),
              !.decoded = Append(@, rec)]

\* Why the records behind a header are not read.
HeaderReason(in) ==
    CASE Len(in) < 10 -> "pack_truncated_header"
      [] Len(in) >= 10 /\ SubSeq(in, 1, 8) # Magic -> "pack_bad_magic"
      [] Len(in) >= 10 /\ SubSeq(in, 1, 8) = Magic
            /\ Number(SubSeq(in, 9, 10)) # FormatVersion -> "pack_unsupported_version"
      [] OTHER -> "none"

ReportOpen ==
    /\ cmd.name = "report" /\ ~cmd.open /\ Len(cmd.shards) < Len(cmd.paths)
    /\ LET fresh == [cmd EXCEPT !.open = TRUE, !.decoded = <<>>,
                                !.shard = BeginShard(NewBuilder), !.aggregate = BeginShard(@)]
           reason == HeaderReason(packed)
       IN  cmd' = IF DetectFormat(Path) = "jsonl" THEN [fresh EXCEPT !.rest = input]
                  ELSE IF reason = "none"
                  THEN [fresh EXCEPT !.rest = SubSeq(packed, 11, Len(packed))]
                  ELSE Rejecting(fresh, reason)
    /\ UNCHANGED <<files, outcome, history>>

Reading(format) ==
    cmd.name = "report" /\ cmd.open /\ cmd.rest # <<>> /\ DetectFormat(Path) = format

ReportLine ==
    /\ Reading("jsonl")
    /\ LET line == Head(cmd.rest)
           next == [cmd EXCEPT !.rest = Tail(@)]
       IN  IF line.kind = "unreadable" THEN End("report", "failed")
           ELSE /\ UNCHANGED outcome
                /\ cmd' = CASE line.kind = "record" -> Observing(next, line.rec)
                            [] line.kind = "blank" -> next
                            [] line.kind = "broken" -> Rejecting(next, "json_invalid_record")
                            [] line.kind = "future" -> Rejecting(next, "json_unsupported_schema")
    /\ UNCHANGED <<files, history>>

\* There is no next boundary behind a record that cannot be read: the shard ends.
ReportRecord ==
    /\ Reading("pack")
    /\ LET r == DecodeRecord(cmd.rest)
           done == [cmd EXCEPT !.rest = <<>>]
       IN  cmd' = CASE r.error = "none" -> Observing([cmd EXCEPT !.rest = r.rest], r.val)
                    [] r.error = "eof" -> Rejecting(done, "pack_truncated_record")
                    [] r.error = "invalid" -> Rejecting(done, "pack_invalid_record")
    /\ UNCHANGED <<files, outcome, history>>

ReportClose ==
    /\ cmd.name = "report" /\ cmd.open /\ cmd.rest = <<>>
    /\ cmd' = [cmd EXCEPT
                !.open = FALSE,
                !.shards = Append(@, [path |-> Path,
                                      input |-> IF DetectFormat(Path) = "pack" THEN packed
                                                ELSE input,
                                      decoded |-> cmd.decoded, summary |-> Finish(cmd.shard)])]
    /\ UNCHANGED <<files, outcome, history>>

ReportCommit ==
    /\ cmd.name = "report" /\ ~cmd.open /\ Len(cmd.shards) = Len(cmd.paths)
    /\ report' = [shards |-> cmd.shards, summary |-> Finish(cmd.aggregate)]
    /\ End("report", "ok")
    /\ UNCHANGED <<input, packed, manifest, unpacked, history>>

-----------------------------------------------------------------------------
Pack == PackBegin \/ PackRecord \/ PackSkip \/ PackFails \/ PackCommit \/ PackManifest

Unpack == UnpackBegin \/ UnpackRefuses \/ UnpackRecord \/ UnpackCommit

Report == ReportBegin \/ ReportOpen \/ ReportLine \/ ReportRecord \/ ReportClose \/ ReportCommit

Next == Pack \/ Unpack \/ Report \/ Interrupt \/ Damage

Spec == Init /\ [][Next]_vars

-----------------------------------------------------------------------------
(* Properties                                                              *)

Normalised(recs) == [i \in DOMAIN recs |-> [recs[i] EXCEPT !.schema_version = SchemaVersion]]

\* The pack in place is the whole encoding of what the last completed pack read, whatever
\* failed or was killed since; its manifest counts its records; and a record that is
\* refused has left no byte of itself in the output.
PackIsComplete ==
    /\ damage.kind = "none" => packed = EncodeAll(kept)
    /\ outcome["pack"] = "ok" =>
          /\ kept = Records
          /\ manifest # <<>> => /\ manifest.records_kept = Len(kept)
                                /\ manifest.records_read = Len(kept) + manifest.records_dropped
    /\ AtLine({"record"}) =>
          LET e == EncodeRecord(input[cmd.at].rec) IN ~e.ok => e.bytes = <<>>

\* What unpack writes is what was packed, every field of it, in the current schema.  Of a
\* pack that was cut short it writes nothing, unless the cut fell between two records: then,
\* for want of a count, the records before it.
UnpackReturnsThePacked ==
    unpackedFrom = packed =>
        /\ damage.kind = "none" =>
              outcome["unpack"] = "ok" /\ unpacked.records = Normalised(kept)
        /\ damage.kind = "cut" /\ outcome["unpack"] = "ok" =>
              \E n \in 0..Len(kept) :
                  LET whole == SubSeq(kept, 1, n)
                  IN  damage.at = Len(EncodeAll(whole)) /\ unpacked.records = Normalised(whole)

Shards == IF report = <<>> THEN {} ELSE Range(report.shards)

\* The readers agree.  unpack accepts a pack if and only if quality-report rejects nothing in
\* it, and they read the same records; a pack that unpack refuses is one rejection.  The report
\* of a file and that of its pack have the same summary, but for what was rejected.
ReportsAgree ==
    /\ \A s \in Shards : s.path = "data.shgpk" /\ s.input = unpackedFrom =>
           IF outcome["unpack"] = "ok"
           THEN s.summary.rejections = EmptyBag /\ s.decoded = unpacked.records
           ELSE BagCardinality(s.summary.rejections) = 1
    /\ \A s, t \in Shards :
           /\ s.path = "data.jsonl" /\ t.path = "data.shgpk"
           /\ outcome["pack"] = "ok" /\ damage.kind = "none" /\ t.input = packed
           => /\ t.decoded = Normalised(s.decoded)
              /\ t.summary.rejections = EmptyBag
              /\ t.summary = [s.summary EXCEPT !.rejections = EmptyBag]

\* The values of a kind among records, and what a count of them in bounded memory says: all
\* of them, or the SketchSize-th smallest hash.
CountOf(kind, recs) ==
    LET hashes == {Hash(v) : v \in UNION {Seen(recs[i])[kind] : i \in DOMAIN recs}}
    IN  IF Cardinality(hashes) <= SketchSize THEN [exact |-> TRUE, value |-> Cardinality(hashes)]
        ELSE [exact |-> FALSE,
              value |-> CHOOSE h \in hashes :
                            Cardinality({g \in hashes : g <= h}) = SketchSize]

\* A shard's distinct counts, duplicates, sequences and limits are those of its records,
\* however often and in which order the values come.
SummaryMatchesDecoded ==
    \A s \in Shards :
        LET positions == CountOf("positions", s.decoded)
            Tally(key) == CopiesIn(<<"limit", key>>, s.summary.tallies)
        IN  /\ s.summary.distinct = [k \in Kinds |-> CountOf(k, s.decoded)]
            /\ s.summary.duplicate_positions =
                  IF positions.exact THEN <<Len(s.decoded) - positions.value>> ELSE <<>>
            /\ s.summary.source_sequences =
                  Cardinality({i \in DOMAIN s.decoded :
                                i = 1 \/ s.decoded[i].path # s.decoded[i - 1].path})
            /\ Tally("requested_present") = Tally("reached_or_exceeded") + Tally("underreached")

\* The summary over all shards: what is counted adds up, also over a boundary within one
\* source, and a value in two shards is one.
ShardsAddUp ==
    report # <<>> =>
        LET summaries == [i \in DOMAIN report.shards |-> report.shards[i].summary]
            Total(F(_)) == FoldLeft(LAMBDA n, s : n + F(s), 0, summaries)
            all == FlattenSeq([i \in DOMAIN report.shards |-> report.shards[i].decoded])
        IN  /\ report.summary.accepted = Total(LAMBDA s : s.accepted)
            /\ report.summary.source_sequences = Total(LAMBDA s : s.source_sequences)
            /\ report.summary.root_sequences = Total(LAMBDA s : s.root_sequences)
            /\ report.summary.tallies =
                  FoldLeft(LAMBDA bag, s : bag (+) s.tallies, EmptyBag, summaries)
            /\ report.summary.distinct = [k \in Kinds |-> CountOf(k, all)]

\* A report is true of each shard and of their union.
ShardsCompose == SummaryMatchesDecoded /\ ShardsAddUp

=============================================================================
