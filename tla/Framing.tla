-------------------------------- MODULE Framing --------------------------------
(***************************************************************************)
(* Bytes: the base64url segments of a compact (base64url.rs), its three    *)
(* segments (compact.rs, and scan_compact and split_three_segments in the  *)
(* facades), and the frames of an archive, of encode_anchored_export and   *)
(* verify_anchored_export.  AnchoredExport has what the frames hold, this  *)
(* module where they are.                                                  *)
(*                                                                         *)
(* In an archive, a byte is below ByteBase, a length takes LengthBytes of  *)
(* them, and a header is its two counts: one byte each.                    *)
(***************************************************************************)
EXTENDS Integers, Sequences, SequencesExt

CONSTANTS
  ByteBase, LengthBytes, Magic,
  \* bounds of the library: archive_header_bytes, anchor_bytes, chain_row_bytes,
  \* key_transitions, chain_rows, encoded_segment_bytes
  HeaderBytes, AnchorBytes, RowBytes, KeyTransitions, ChainRows, SegmentBytes

\* the value of the first i bytes
big_endian(bytes) ==
  LET value[i \in 0 .. Len(bytes)] ==
        IF i = 0 THEN 0 ELSE value[i - 1] * ByteBase + bytes[i]
  IN  value[Len(bytes)]

\* a frame may be as long as its length can say
ASSUME FrameAssumption ==
  /\ ByteBase \in Nat /\ ByteBase > 1 /\ LengthBytes \in Nat \ {0}
  /\ {HeaderBytes, AnchorBytes, RowBytes}
       \subseteq 1 .. big_endian([i \in 1 .. LengthBytes |-> ByteBase - 1])
  /\ {KeyTransitions, ChainRows, SegmentBytes} \subseteq Nat

Unreadable == [read |-> FALSE]

-----------------------------------------------------------------------------
(***************************************************************************)
(* base64url: a character is its number, 0 to 63; anything else is none.   *)
(***************************************************************************)

\* the characters that a group of one, two or three bytes becomes
encode_group(g) ==
  CASE Len(g) = 1 -> <<g[1] \div 4, (g[1] % 4) * 16>>
    [] Len(g) = 2 -> <<g[1] \div 4, (g[1] % 4) * 16 + g[2] \div 16, (g[2] % 16) * 4>>
    [] Len(g) = 3 -> <<g[1] \div 4, (g[1] % 4) * 16 + g[2] \div 16,
                       (g[2] % 16) * 4 + g[3] \div 64, g[3] % 64>>

\* the groups of n that a sequence falls into, the last one shorter
groups(s, n) ==
  [k \in 1 .. (Len(s) + n - 1) \div n |->
     SubSeq(s, n * (k - 1) + 1, IF n * k < Len(s) THEN n * k ELSE Len(s))]

base64url_encode(bytes) ==
  LET gs == groups(bytes, 3)
  IN  FlattenSeq([k \in DOMAIN gs |-> encode_group(gs[k])])

decode_group(c) ==
  SubSeq(<<(c[1] * 4 + c[2] \div 16) % 256>>
           \o (IF Len(c) > 2 THEN <<(c[2] % 16) * 16 + c[3] \div 4>> ELSE << >>)
           \o (IF Len(c) > 3 THEN <<(c[3] % 4) * 64 + c[4]>> ELSE << >>), 1, Len(c) - 1)

\* variant: the bits that no byte takes are not looked at
base64url_decode_trailing(chars) ==
  LET gs == groups(chars, 4)
      bytes == FlattenSeq([k \in DOMAIN gs |-> decode_group(gs[k])])
  IN  IF Len(chars) % 4 # 1 /\ \A i \in DOMAIN chars : chars[i] \in 0 .. 63
      THEN [read |-> TRUE, bytes |-> bytes] ELSE Unreadable

base64url_decode(chars) ==
  LET gs == groups(chars, 4)
      bytes == FlattenSeq([k \in DOMAIN gs |-> decode_group(gs[k])])
  IN  IF /\ Len(chars) % 4 # 1 /\ \A i \in DOMAIN chars : chars[i] \in 0 .. 63
         /\ base64url_encode(bytes) = chars
      THEN [read |-> TRUE, bytes |-> bytes] ELSE Unreadable

-----------------------------------------------------------------------------
(***************************************************************************)
(* The segments of a compact.                                              *)
(***************************************************************************)

Dot == -1

validate_segment(segment) == segment # << >> /\ base64url_decode(segment).read

\* three segments as bytes, or none; scan_compact bounds each before it is decoded
parse_compact(text) ==
  LET dots == {i \in DOMAIN text : text[i] = Dot}
      first == CHOOSE i \in dots : \A j \in dots : i <= j
      last == CHOOSE i \in dots : \A j \in dots : j <= i
      segments == <<SubSeq(text, 1, first - 1), SubSeq(text, first + 1, last - 1),
                    SubSeq(text, last + 1, Len(text))>>
  IN  IF /\ Cardinality(dots) = 2
         /\ \A i \in 1 .. 3 : Len(segments[i]) <= SegmentBytes /\ validate_segment(segments[i])
      THEN [read |-> TRUE, segments |-> [i \in 1 .. 3 |-> base64url_decode(segments[i]).bytes]]
      ELSE Unreadable

compose_compact(segments) ==
  base64url_encode(segments[1]) \o <<Dot>> \o base64url_encode(segments[2]) \o <<Dot>>
    \o base64url_encode(segments[3])

-----------------------------------------------------------------------------
(***************************************************************************)
(* The frames of an archive.  A reader has a cursor; a frame that is not   *)
(* there leaves it beyond the end.                                         *)
(***************************************************************************)

to_be_bytes(n) ==
  LET shifted[i \in 1 .. LengthBytes] ==
        IF i = LengthBytes THEN n ELSE shifted[i + 1] \div ByteBase
  IN  [i \in 1 .. LengthBytes |-> shifted[i] % ByteBase]

frame_into(content, out) == out \o to_be_bytes(Len(content)) \o content

\* variant: a frame as long as the ceiling is refused
read_frame_bounded_over(buf, cursor, ceiling) ==
  LET prefix_end == cursor + LengthBytes
      len == big_endian(SubSeq(buf, cursor + 1, prefix_end))
  IN  IF prefix_end <= Len(buf) /\ len > 0 /\ prefix_end + len <= Len(buf) /\ len < ceiling
      THEN [frame |-> SubSeq(buf, prefix_end + 1, prefix_end + len), cursor |-> prefix_end + len]
      ELSE [frame |-> << >>, cursor |-> Len(buf) + 1]

read_frame_bounded(buf, cursor, ceiling) ==
  LET prefix_end == cursor + LengthBytes
      len == big_endian(SubSeq(buf, cursor + 1, prefix_end))
  IN  IF prefix_end <= Len(buf) /\ len > 0 /\ prefix_end + len <= Len(buf) /\ len <= ceiling
      THEN [frame |-> SubSeq(buf, prefix_end + 1, prefix_end + len), cursor |-> prefix_end + len]
      ELSE [frame |-> << >>, cursor |-> Len(buf) + 1]

\* frames with these ceilings, one after another
read_frames(buf, cursor, ceilings) ==
  LET read[i \in 0 .. Len(ceilings)] ==
        IF i = 0 THEN [frames |-> << >>, cursor |-> cursor]
        ELSE LET r == read[i - 1]
                 f == read_frame_bounded(buf, r.cursor, ceilings[i])
             IN  [frames |-> Append(r.frames, f.frame), cursor |-> f.cursor]
  IN  read[Len(ceilings)]

decode_archive_header(header) ==
  /\ Len(header) = 2 /\ Len(header) <= HeaderBytes
  /\ header[1] <= KeyTransitions /\ header[2] <= ChainRows

\* header and start anchor come first, and say what else there is
Ceilings(header) ==
  [i \in 1 .. header[1] |-> AnchorBytes] \o [i \in 1 .. header[2] |-> RowBytes] \o <<AnchorBytes>>

\* variant: whatever comes after the last frame is not looked at
at_end_anywhere(cursor, buf) == cursor <= Len(buf)

at_end(cursor, buf) == cursor = Len(buf)

\* the frames of an archive, or none
read_archive(buf) ==
  LET two == read_frames(buf, Len(Magic), <<Len(buf), AnchorBytes>>)
      rest == read_frames(buf, two.cursor, Ceilings(two.frames[1]))
  IN  IF /\ IsPrefix(Magic, buf)
         /\ two.cursor <= Len(buf) /\ decode_archive_header(two.frames[1])
         /\ at_end(rest.cursor, buf)
      THEN [read |-> TRUE, frames |-> two.frames \o rest.frames] ELSE Unreadable

write_archive(frames) ==
  LET written[i \in 0 .. Len(frames)] ==
        IF i = 0 THEN Magic ELSE frame_into(frames[i], written[i - 1])
  IN  written[Len(frames)]

\* what encode_anchored_export frames: no frame is empty
encodable_archive(frames) ==
  /\ Len(frames) > 2 /\ decode_archive_header(frames[1])
  /\ LET ceilings == <<HeaderBytes, AnchorBytes>> \o Ceilings(frames[1])
     IN  /\ Len(frames) = Len(ceilings)
         /\ \A i \in DOMAIN frames : Len(frames[i]) \in 1 .. ceilings[i]
=============================================================================
