-------------------------------- MODULE Hdlc --------------------------------
(***************************************************************************)
(* One direction of the serial line between the daemon and the NCP: an     *)
(* HdlcEncoder on one side, the HdlcDecoder fed by io_task (or by the      *)
(* NCP) on the other, and a line in between that may lose, alter or insert *)
(* bytes.                                                                  *)
(*                                                                         *)
(* encode_bytes() builds the whole wire image of a frame, which the        *)
(* transport then carries byte by byte; here the image is never built, the *)
(* bytes are produced one after the other in the same order.  The decoder  *)
(* is a function of the byte stream alone, so feeding it a byte as soon as *)
(* that byte is on the line loses no behaviour.                            *)
(***************************************************************************)
EXTENDS HdlcCodec

CONSTANTS
    Noise,      \* bytes that a line error may put on the line
    MaxErrors,  \* bound: line errors
    MaxSent     \* bound: frames sent

ASSUME LineAssumption ==
    Noise \subseteq Byte /\ MaxErrors \in Nat /\ MaxSent \in Nat

VARIABLES
    sent,      \* frames given to the encoder
    stage,     \* where the encoder is in the wire image of the last one
    pos,       \* bytes of that frame and its CRC already on the line
    decoder,   \* HdlcDecoder
    received,  \* frames that feed_byte() returned
    errors     \* ghost: line errors so far

vars == <<sent, stage, pos, decoder, received, errors>>

-----------------------------------------------------------------------------
(* The encoder.                                                            *)

Current == sent[Len(sent)]

\* The frame and its CRC, before escaping.  The encoder's running CRC is
\* reset to CRC_INIT at the end of every frame.
Raw == Current \o Crc(Current)

encode_bytes(data) ==
    /\ stage = "idle"
    /\ Len(sent) < MaxSent
    /\ sent' = Append(sent, data)
    /\ stage' = "open"
    /\ pos' = 0
    /\ UNCHANGED <<decoder, received, errors>>

NextByte == Raw[pos + 1]

\* The byte that goes on the line next.
Wire ==
    CASE stage = "open" -> FlagByte
      [] stage = "body" /\ pos = Len(Raw) -> FlagByte
      [] stage = "body" /\ pos < Len(Raw) ->
           IF NextByte \in NeedsEscape THEN EscapeByte ELSE NextByte
      [] stage = "escaped" -> EscapeXform(NextByte)

\* The encoder's place after that byte.
Emit ==
    /\ stage # "idle"
    /\ stage' = CASE stage = "open" -> "body"
                  [] stage = "body" /\ pos = Len(Raw) -> "idle"
                  [] stage = "body" /\ pos < Len(Raw) ->
                       IF NextByte \in NeedsEscape THEN "escaped" ELSE "body"
                  [] stage = "escaped" -> "body"
    /\ pos' = IF \/ stage = "escaped"
                 \/ stage = "body" /\ pos < Len(Raw) /\ NextByte \notin NeedsEscape
              THEN pos + 1 ELSE pos
    /\ UNCHANGED sent

-----------------------------------------------------------------------------
(* The decoder, and the line.                                              *)

\* io_task feeds a byte and passes a decoded frame on; a CRC mismatch is
\* logged.
Feed(b) ==
    /\ decoder' = feed_byte(decoder, b)
    /\ received' = IF YieldsFrame(decoder, b)
                   THEN Append(received, Payload(decoder)) ELSE received

Carry == Emit /\ Feed(Wire) /\ UNCHANGED errors

Error == errors < MaxErrors /\ errors' = errors + 1

\* External: the line loses, alters or inserts a byte.
Lose == Error /\ Emit /\ UNCHANGED <<decoder, received>>
Alter == Error /\ Emit /\ \E b \in Noise : Feed(b)
Insert == Error /\ (\E b \in Noise : Feed(b)) /\ UNCHANGED <<sent, stage, pos>>

-----------------------------------------------------------------------------

Init ==
    /\ sent = <<>>
    /\ stage = "idle"
    /\ pos = 0
    /\ decoder = NewDecoder
    /\ received = <<>>
    /\ errors = 0

Next ==
    \/ \E data \in Frames : encode_bytes(data)
    \/ Carry
    \/ Lose
    \/ Alter
    \/ Insert

Spec == Init /\ [][Next]_vars

-----------------------------------------------------------------------------

TypeOK ==
    /\ sent \in Seq(Frames)
    /\ stage \in {"idle", "open", "body", "escaped"}
    /\ pos \in Nat
    /\ stage # "idle" => sent # <<>>
    /\ stage = "open" => pos = 0
    /\ stage = "body" => pos <= Len(Raw)
    /\ stage = "escaped" => pos < Len(Raw)
    /\ decoder \in Decoders
    /\ received \in Seq(Seq(Byte))
    /\ errors \in Nat

\* A clean line is transparent: whatever bytes the frames hold (flags,
\* escapes, CRCs that need escaping) and however close they follow each
\* other, the decoder returns exactly the frames encoded, in order
\* (encode_bytes, feed_byte).
CleanLineIsTransparent ==
    errors = 0 =>
        sent = received \o (IF stage = "idle" THEN <<>> ELSE <<Current>>)

\* The decoder resynchronises: a line error costs at most two frames, the
\* one it hits and the one whose opening flag is then taken for a closing
\* flag.  No sequence of errors makes it lose every frame from then on.
Resynchronises ==
    Len(sent) - Len(received) <= 2 * errors + (IF stage = "idle" THEN 0 ELSE 1)

\* What the decoder returns is what was sent: line errors may lose frames,
\* but do not make a damaged frame, a splice of two frames or a frame out of
\* order look good (the CRC check of feed_byte, with its real CRC).
NothingForged ==
    \E place \in [1 .. Len(received) -> 1 .. Len(sent)] :
        /\ \A i, j \in 1 .. Len(received) : i < j => place[i] < place[j]
        /\ \A i \in 1 .. Len(received) : received[i] = sent[place[i]]
=============================================================================
