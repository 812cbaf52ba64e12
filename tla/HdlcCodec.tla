----------------------------- MODULE HdlcCodec -----------------------------
(***************************************************************************)
(* The HDLC-lite framing of crates/spinel/src/hdlc.rs, as operators on     *)
(* bytes: which bytes are escaped, what a frame looks like before escaping *)
(* and what HdlcDecoder::feed_byte does with one byte.                     *)
(***************************************************************************)
EXTENDS Integers, Sequences

CONSTANTS
    Byte,            \* 0 .. 255
    FlagByte,        \* FLAG_BYTE, 0x7E
    EscapeByte,      \* ESCAPE_BYTE, 0x7D
    NeedsEscape,     \* the bytes of needs_escape()
    EscapeXform(_),  \* byte ^ ESCAPE_XFORM
    Crc(_),          \* CRC-16/X.25 of a frame, low byte first
    Frames           \* the frames that are sent, as sequences of bytes

ASSUME CodecAssumption ==
    /\ NeedsEscape \subseteq Byte
    /\ {FlagByte, EscapeByte} \subseteq NeedsEscape
    /\ FlagByte # EscapeByte
    /\ \A b \in Byte : EscapeXform(b) \in Byte
    /\ \A b \in NeedsEscape : /\ EscapeXform(b) # FlagByte
                              /\ EscapeXform(EscapeXform(b)) = b
    /\ \A data \in Frames : /\ data \in Seq(Byte) \ {<<>>}
                            /\ Crc(data) \in Byte \X Byte

Decoders ==
    [state : {"SeekingFlag", "Receiving", "Escaped"}, buffer : Seq(Byte)]

\* HdlcDecoder::new().
NewDecoder == [state |-> "SeekingFlag", buffer |-> <<>>]

\* A frame of more than the two CRC bytes ends.
EndsFrame(d, b) ==
    d.state = "Receiving" /\ b = FlagByte /\ Len(d.buffer) > 2

Payload(d) == SubSeq(d.buffer, 1, Len(d.buffer) - 2)

CrcMatches_Always(d) == TRUE
CrcMatches(d) ==
    <<d.buffer[Len(d.buffer) - 1], d.buffer[Len(d.buffer)]>> = Crc(Payload(d))

\* feed_byte() returns Some(Ok(Payload(d))).
YieldsFrame(d, b) == EndsFrame(d, b) /\ CrcMatches(d)

\* A frame that is too short is discarded, and its closing flag may be the
\* opening flag of the next frame; a complete one, good or bad, is followed
\* by the search for an opening flag.
AfterFlag_AlwaysSeeks(d) == "SeekingFlag"
AfterFlag(d) == IF Len(d.buffer) > 2 THEN "SeekingFlag" ELSE "Receiving"

Unescape(b) == EscapeXform(b)

\* The decoder after feed_byte(b).
feed_byte(d, b) ==
    CASE d.state = "SeekingFlag" ->
           IF b = FlagByte THEN [d EXCEPT !.state = "Receiving"] ELSE d
      [] d.state = "Receiving" ->
           IF b = FlagByte THEN [state |-> AfterFlag(d), buffer |-> <<>>]
           ELSE IF b = EscapeByte THEN [d EXCEPT !.state = "Escaped"]
           ELSE [d EXCEPT !.buffer = Append(d.buffer, b)]
      [] d.state = "Escaped" ->
           IF b = FlagByte THEN [state |-> "Receiving", buffer |-> <<>>]
           ELSE [state |-> "Receiving", buffer |-> Append(d.buffer, Unescape(b))]
=============================================================================
