----------------------------- MODULE PackFormat -----------------------------
(***************************************************************************)
(* The pack format (shogiesa-pack): position records as bytes, one after   *)
(* the other, with no count, no delimiter and no checksum.                 *)
(*                                                                         *)
(* The code has three hand-written lists of a record's fields: what is     *)
(* checked before anything is written, what is written, and what is read.  *)
(* Each is a layout here, and one interpreter gives a layout its meaning.  *)
(* A byte is one of Base values; widths are the code's, in bytes.  A       *)
(* string is its bytes, of which the last value never occurs in UTF-8; an  *)
(* optional value is a sequence of at most one.                            *)
(***************************************************************************)
EXTENDS Integers, Sequences, SequencesExt, TLC

CONSTANTS
    Base,           \* how many values a byte has (256)
    Magic,          \* the eight bytes a pack starts with
    FormatVersion,  \* of the pack that this program reads and writes
    MinSchema,      \* the oldest record schema it reads
    SchemaVersion   \* the record schema it writes

ASSUME PackAssumption ==
    /\ Base \in Nat /\ Base % 2 = 0 /\ Base >= 6    \* the tags go up to 3
    /\ Magic \in Seq(0..Base - 2) /\ Len(Magic) = 8
    /\ FormatVersion \in 0..Base^2 - 1
    /\ MinSchema \in Nat /\ SchemaVersion \in Nat /\ MinSchema <= SchemaVersion

NotUtf8 == Base - 1

LittleEndian(n, width) == [i \in 1..width |-> (n \div Base^(i - 1)) % Base]

Number(bytes) == FoldLeft(LAMBDA n, i : n + bytes[i] * Base^(i - 1), 0,
                          [i \in DOMAIN bytes |-> i])

-----------------------------------------------------------------------------
(* Layouts.                                                                *)

Str(width) == [is |-> "str", width |-> width]
Num(width) == [is |-> "num", width |-> width]
Signed(width) == [is |-> "signed", width |-> width]
Enum(names) == [is |-> "enum", names |-> names]
Opt(layout) == [is |-> "opt", of |-> layout]
List(layout) == [is |-> "list", of |-> layout]
Fields(fields) == [is |-> "fields", of |-> fields]

Flag == Enum(<<FALSE, TRUE>>)
Moves == Opt(List(Str(1)))

\* Whether every length fits its prefix.
RECURSIVE Fits(_, _)
Fits(layout, v) ==
    CASE layout.is = "str" -> Len(v) < Base^layout.width
      [] layout.is = "opt" -> \A i \in DOMAIN v : Fits(layout.of, v[i])
      [] layout.is = "list" -> Len(v) < Base^2 /\ \A i \in DOMAIN v : Fits(layout.of, v[i])
      [] layout.is = "fields" ->
            \A i \in DOMAIN layout.of : Fits(layout.of[i][2], v[layout.of[i][1]])
      [] OTHER -> TRUE

\* What is written of a value, and whether all of it was: a length that does not fit
\* ends the writing where it stands.
RECURSIVE Write(_, _)
Write(layout, v) ==
    LET Done(bytes) == [ok |-> TRUE, bytes |-> bytes]
        Refused == [ok |-> FALSE, bytes |-> <<>>]
        Put(done, part) ==
            IF ~done.ok THEN done
            ELSE LET w == Write(part[1], part[2])
                 IN  [ok |-> w.ok, bytes |-> done.bytes \o w.bytes]
        PutAll(prefix, parts) == FoldLeft(Put, Done(prefix), parts)
    IN  CASE layout.is = "str" ->
                IF Len(v) < Base^layout.width THEN Done(LittleEndian(Len(v), layout.width) \o v)
                ELSE Refused
          [] layout.is \in {"num", "signed"} ->
                Done(LittleEndian(v % Base^layout.width, layout.width))
          [] layout.is = "enum" ->
                Done(<<(CHOOSE i \in DOMAIN layout.names : layout.names[i] = v) - 1>>)
          [] layout.is = "opt" ->
                PutAll(<<Len(v)>>, [i \in DOMAIN v |-> <<layout.of, v[i]>>])
          [] layout.is = "list" ->
                IF Len(v) < Base^2
                THEN PutAll(LittleEndian(Len(v), 2), [i \in DOMAIN v |-> <<layout.of, v[i]>>])
                ELSE Refused
          [] layout.is = "fields" ->
                PutAll(<<>>, [i \in DOMAIN layout.of |->
                                <<layout.of[i][2], v[layout.of[i][1]]>>])

\* What is read from the front of the bytes, and the bytes behind it.
RECURSIVE Read(_, _)
Read(layout, in) ==
    LET width == CASE layout.is \in {"str", "num", "signed"} -> layout.width
                   [] layout.is \in {"enum", "opt"} -> 1
                   [] layout.is = "list" -> 2
                   [] layout.is = "fields" -> 0
        n == Number(SubSeq(in, 1, width))
        Bad(error) == [error |-> error, val |-> <<>>, rest |-> in]
        Got(v, used) == [error |-> "none", val |-> v, rest |-> SubSeq(in, used + 1, Len(in))]
        Part(done, name, part, Join(_, _, _)) ==
            LET r == Read(part, done.rest)
            IN  IF done.error # "none" THEN done
                ELSE IF r.error # "none" THEN Bad(r.error)
                ELSE [r EXCEPT !.val = Join(done.val, name, r.val)]
        Element(vs, i, v) == Append(vs, v)
        Field(vs, name, v) == vs @@ (name :> v)
        Elements == FoldLeft(LAMBDA done, i : Part(done, i, layout.of, Element),
                             Got(<<>>, width), [i \in 1..n |-> i])
        text == SubSeq(in, width + 1, width + n)
    IN  IF Len(in) < width THEN Bad("eof")
        ELSE CASE layout.is = "str" ->
                    IF Len(in) < width + n THEN Bad("eof")
                    ELSE IF Contains(text, NotUtf8) THEN Bad("invalid")
                    ELSE Got(text, width + n)
               [] layout.is = "num" -> Got(n, width)
               [] layout.is = "signed" ->
                    Got(IF 2 * n < Base^width THEN n ELSE n - Base^width, width)
               [] layout.is = "enum" ->
                    IF n < Len(layout.names) THEN Got(layout.names[n + 1], width)
                    ELSE Bad("invalid")
               [] layout.is = "opt" -> IF n > 1 THEN Bad("invalid") ELSE Elements
               [] layout.is = "list" -> Elements
               [] layout.is = "fields" ->
                    FoldLeft(LAMBDA done, f : Part(done, f[1], f[2], Field),
                             Got(<<>>, 0), layout.of)

-----------------------------------------------------------------------------
(* The lengths that validate_record_encodable checks.                      *)

CheckedCandidate == Fields(<< <<"bestmove", Str(1)>>, <<"pv", Moves>> >>)

\* Mutation: the lengths in candidates are not checked.
CheckedButCandidates == Fields(<<
    <<"engine", Str(1)>>, <<"engine_version", Opt(Str(1))>>, <<"bestmove", Str(1)>>,
    <<"pv", Moves>>,
    <<"engine_options_hash", Opt(Str(1))>>, <<"weight_sha256", Opt(Str(1))>> >>)

CheckedObservation == Fields(<<
    <<"engine", Str(1)>>, <<"engine_version", Opt(Str(1))>>, <<"bestmove", Str(1)>>,
    <<"pv", Moves>>, <<"candidates", List(CheckedCandidate)>>,
    <<"engine_options_hash", Opt(Str(1))>>, <<"weight_sha256", Opt(Str(1))>> >>)

CheckedRecord == Fields(<<
    <<"sfen", Str(2)>>, <<"kind", Str(1)>>, <<"path", Str(2)>>,
    <<"root_id", Opt(Str(2))>>, <<"variation_id", Opt(Str(1))>>,
    <<"game_result", Opt(Fields(<< <<"result_source", Str(1)>> >>))>>,
    <<"observations", List(CheckedObservation)>> >>)

-----------------------------------------------------------------------------
(* The fields that encode_record writes, in order.                         *)

EncodedStability == Fields(<<
    <<"score_swing_cp", Opt(Signed(4))>>, <<"bestmove_agreement", Flag>>,
    <<"engine_bestmove_agreement", Opt(Flag)>>, <<"engine_score_swing_cp", Opt(Signed(4))>> >>)

EncodedResult == Fields(<<
    <<"outcome", Enum(<<"black_wins", "white_wins", "draw", "unknown">>)>>,
    <<"result_source", Str(1)>> >>)

EncodedCandidate == Fields(<<
    <<"multipv", Num(4)>>, <<"bestmove", Str(1)>>,
    <<"score_kind", Enum(<<"cp", "mate">>)>>, <<"score", Signed(4)>>,
    <<"score_bound", Enum(<<"exact", "lowerbound", "upperbound">>)>>, <<"pv", Moves>> >>)

EncodedObservation == Fields(<<
    <<"engine", Str(1)>>, <<"engine_version", Opt(Str(1))>>, <<"depth", Num(4)>>,
    <<"requested_depth", Opt(Num(4))>>,
    <<"search_limit_kind", Enum(<<"depth", "nodes">>)>>, <<"requested_nodes", Opt(Num(8))>>,
    <<"score_kind", Enum(<<"cp", "mate">>)>>, <<"score", Signed(4)>>,
    <<"score_perspective", Enum(<<"side_to_move", "black">>)>>,
    <<"score_bound", Enum(<<"exact", "lowerbound", "upperbound">>)>>,
    <<"bestmove", Str(1)>>, <<"bestmove_kind", Enum(<<"move", "resign", "win", "no_move">>)>>,
    <<"nodes", Opt(Num(8))>>, <<"time_ms", Opt(Num(8))>>, <<"seldepth", Opt(Num(4))>>,
    <<"nps", Opt(Num(8))>>, <<"hashfull", Opt(Num(4))>>, <<"pv", Moves>>,
    <<"policy_margin_cp", Opt(Signed(4))>>, <<"candidates", List(EncodedCandidate)>>,
    <<"was_timeout_salvaged", Flag>>, <<"engine_options_hash", Opt(Str(1))>>,
    <<"weight_sha256", Opt(Str(1))>> >>)

EncodedRecord == Fields(<<
    <<"sfen", Str(2)>>, <<"kind", Str(1)>>, <<"path", Str(2)>>, <<"ply", Num(4)>>,
    <<"root_id", Opt(Str(2))>>, <<"variation_id", Opt(Str(1))>>,
    <<"branch_from_ply", Opt(Num(4))>>,
    <<"phase", Enum(<<"opening", "middlegame", "endgame">>)>>,
    <<"side_to_move", Enum(<<"black", "white">>)>>, <<"in_check", Flag>>,
    <<"has_capture", Flag>>, <<"stability", Opt(EncodedStability)>>,
    <<"game_result", Opt(EncodedResult)>>, <<"observations", List(EncodedObservation)>> >>)

-----------------------------------------------------------------------------
(* The fields that decode_record reads, in order.                          *)

DecodedStability == Fields(<<
    <<"score_swing_cp", Opt(Signed(4))>>, <<"bestmove_agreement", Flag>>,
    <<"engine_bestmove_agreement", Opt(Flag)>>, <<"engine_score_swing_cp", Opt(Signed(4))>> >>)

\* Mutation: two tags of an outcome are the wrong way round.
DecodedResultSwapped == Fields(<<
    <<"outcome", Enum(<<"white_wins", "black_wins", "draw", "unknown">>)>>,
    <<"result_source", Str(1)>> >>)

DecodedResult == Fields(<<
    <<"outcome", Enum(<<"black_wins", "white_wins", "draw", "unknown">>)>>,
    <<"result_source", Str(1)>> >>)

DecodedCandidate == Fields(<<
    <<"multipv", Num(4)>>, <<"bestmove", Str(1)>>,
    <<"score_kind", Enum(<<"cp", "mate">>)>>, <<"score", Signed(4)>>,
    <<"score_bound", Enum(<<"exact", "lowerbound", "upperbound">>)>>, <<"pv", Moves>> >>)

DecodedObservation == Fields(<<
    <<"engine", Str(1)>>, <<"engine_version", Opt(Str(1))>>, <<"depth", Num(4)>>,
    <<"requested_depth", Opt(Num(4))>>,
    <<"search_limit_kind", Enum(<<"depth", "nodes">>)>>, <<"requested_nodes", Opt(Num(8))>>,
    <<"score_kind", Enum(<<"cp", "mate">>)>>, <<"score", Signed(4)>>,
    <<"score_perspective", Enum(<<"side_to_move", "black">>)>>,
    <<"score_bound", Enum(<<"exact", "lowerbound", "upperbound">>)>>,
    <<"bestmove", Str(1)>>, <<"bestmove_kind", Enum(<<"move", "resign", "win", "no_move">>)>>,
    <<"nodes", Opt(Num(8))>>, <<"time_ms", Opt(Num(8))>>, <<"seldepth", Opt(Num(4))>>,
    <<"nps", Opt(Num(8))>>, <<"hashfull", Opt(Num(4))>>, <<"pv", Moves>>,
    <<"policy_margin_cp", Opt(Signed(4))>>, <<"candidates", List(DecodedCandidate)>>,
    <<"was_timeout_salvaged", Flag>>, <<"engine_options_hash", Opt(Str(1))>>,
    <<"weight_sha256", Opt(Str(1))>> >>)

DecodedRecord == Fields(<<
    <<"sfen", Str(2)>>, <<"kind", Str(1)>>, <<"path", Str(2)>>, <<"ply", Num(4)>>,
    <<"root_id", Opt(Str(2))>>, <<"variation_id", Opt(Str(1))>>,
    <<"branch_from_ply", Opt(Num(4))>>,
    <<"phase", Enum(<<"opening", "middlegame", "endgame">>)>>,
    <<"side_to_move", Enum(<<"black", "white">>)>>, <<"in_check", Flag>>,
    <<"has_capture", Flag>>, <<"stability", Opt(DecodedStability)>>,
    <<"game_result", Opt(DecodedResult)>>, <<"observations", List(DecodedObservation)>> >>)

-----------------------------------------------------------------------------
(* The library's functions.                                                *)

SupportedSchemas == MinSchema..SchemaVersion

Encodable(rec) == rec.schema_version \in SupportedSchemas /\ Fits(CheckedRecord, rec)

EncodeRecord(rec) ==
    IF Encodable(rec) THEN Write(EncodedRecord, rec) ELSE [ok |-> FALSE, bytes |-> <<>>]

\* The schema version is not in the pack: a record that is read is of the current one.
DecodeRecord(in) ==
    LET r == Read(DecodedRecord, in)
    IN  [r EXCEPT !.val = ("schema_version" :> SchemaVersion) @@ @]

Header == Magic \o LittleEndian(FormatVersion, 2)

ReadHeader(in) ==
    IF Len(in) < 8 THEN "eof"
    ELSE IF SubSeq(in, 1, 8) # Magic THEN "invalid"
    ELSE IF Len(in) < 10 THEN "eof"
    ELSE IF Number(SubSeq(in, 9, 10)) # FormatVersion THEN "invalid"
    ELSE "none"

\* encode: nothing is written unless every record can be.
EncodeAll(recs) ==
    IF \E i \in DOMAIN recs : ~Encodable(recs[i]) THEN <<>>
    ELSE FoldLeft(LAMBDA bytes, rec : bytes \o EncodeRecord(rec).bytes, Header, recs)

=============================================================================
