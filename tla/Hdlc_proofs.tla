---------------------------- MODULE Hdlc_proofs ----------------------------
(***************************************************************************)
(* Proofs about the two receivers of HDLC frames.  Hdlc: for every set of  *)
(* bytes, escaping, CRC and frames that satisfy CodecAssumption and        *)
(* LineAssumption, a clean line delivers every frame, and a line error     *)
(* costs at most two.  WfPump: however many frames the NCP of wfantund     *)
(* sends and however many bytes the line loses or adds, the inbound pump   *)
(* loses the frames that were hit and no other.                            *)
(***************************************************************************)
EXTENDS Hdlc, WfPump, SequenceTheorems, TLAPS

-----------------------------------------------------------------------------
(* The decoder, for any one byte.                                          *)

\* A pair of bytes, as to_le_bytes() gives them, is a sequence of two bytes.
LEMMA PairIsSeq ==
    ASSUME NEW S, NEW t \in S \X S
    PROVE  t \in Seq(S) /\ Len(t) = 2
<1>1. PICK a \in S, b \in S : t = <<a, b>>
  OBVIOUS
<1>2. QED
  BY <1>1

\* The wire image of a frame: data and CRC, at least three bytes.
LEMMA RawType ==
    ASSUME sent \in Seq(Frames), sent # <<>>
    PROVE  /\ Current \in Frames
           /\ Current \in Seq(Byte)
           /\ Crc(Current) \in Seq(Byte)
           /\ Len(Crc(Current)) = 2
           /\ Raw \in Seq(Byte)
           /\ Len(Raw) = Len(Current) + 2
           /\ Len(Current) \in Nat \ {0}
<1>1. Current \in Frames
  BY DEF Current
<1>2. Current \in Seq(Byte) /\ Current # <<>> /\ Crc(Current) \in Byte \X Byte
  BY <1>1, CodecAssumption DEF CodecAssumption
<1>3. Crc(Current) \in Seq(Byte) /\ Len(Crc(Current)) = 2
  BY <1>2, PairIsSeq
<1>4. Len(Current) \in Nat \ {0}
  BY <1>2, EmptySeq, LenProperties
<1>5. Raw \in Seq(Byte)
  BY <1>2, <1>3 DEF Raw
<1>6. Len(Raw) = Len(Current) + 2
  <2>1. \A s, t \in Seq(Byte) : Len(s \o t) = Len(s) + Len(t)
    BY ConcatProperties
  <2>2. QED
    BY <1>2, <1>3, <2>1 DEF Raw
<1>7. QED
  BY <1>1, <1>2, <1>3, <1>4, <1>5, <1>6

\* The frame and its CRC are found again in the wire image.
LEMMA RawParts ==
    ASSUME sent \in Seq(Frames), sent # <<>>
    PROVE  /\ SubSeq(Raw, 1, Len(Raw) - 2) = Current
           /\ <<Raw[Len(Raw) - 1], Raw[Len(Raw)]>> = Crc(Current)
<1>0. /\ Current \in Seq(Byte) /\ Crc(Current) \in Seq(Byte)
      /\ Len(Crc(Current)) = 2 /\ Raw \in Seq(Byte)
      /\ Len(Raw) = Len(Current) + 2
  BY RawType
<1>1. SubSeq(Raw, 1, Len(Raw) - 2) = Current
  <2>1. \A i \in 1 .. Len(Current) : Raw[i] = Current[i]
    BY <1>0 DEF Raw
  <2>2. SubSeq(Raw, 1, Len(Raw) - 2) = SubSeq(Raw, 1, Len(Current))
    BY <1>0
  <2>3. /\ SubSeq(Raw, 1, Len(Current)) \in Seq(Byte)
        /\ Len(SubSeq(Raw, 1, Len(Current))) = Len(Current)
        /\ \A i \in 1 .. Len(Current) :
               SubSeq(Raw, 1, Len(Current))[i] = Raw[i]
    BY <1>0
  <2>4. SubSeq(Raw, 1, Len(Current)) = Current
    BY <1>0, <2>1, <2>3, SeqEqual
  <2>5. QED
    BY <2>2, <2>4
<1>2. <<Raw[Len(Raw) - 1], Raw[Len(Raw)]>> = Crc(Current)
  <2>1. Raw[Len(Raw) - 1] = Crc(Current)[1] /\ Raw[Len(Raw)] = Crc(Current)[2]
    BY <1>0 DEF Raw
  <2>2. Crc(Current) = <<Crc(Current)[1], Crc(Current)[2]>>
    BY <1>0
  <2>3. QED
    BY <2>1, <2>2
<1>3. QED
  BY <1>1, <1>2

\* feed_byte() keeps the decoder's type, whatever the byte.
LEMMA FeedType ==
    ASSUME NEW d \in Decoders, NEW b \in Byte
    PROVE  feed_byte(d, b) \in Decoders
<1>1. EscapeXform(b) \in Byte
  BY CodecAssumption DEF CodecAssumption
<1>2. d.state \in {"SeekingFlag", "Receiving", "Escaped"} /\ d.buffer \in Seq(Byte)
  BY DEF Decoders
<1>3. CASE d.state = "SeekingFlag"
  BY <1>2, <1>3 DEF feed_byte, Decoders
<1>4. CASE d.state = "Receiving"
  BY <1>2, <1>4 DEF feed_byte, Decoders, AfterFlag
<1>5. CASE d.state = "Escaped"
  BY <1>1, <1>2, <1>5 DEF feed_byte, Decoders, Unescape
<1>6. QED
  BY <1>2, <1>3, <1>4, <1>5

\* What feed_byte() returns is made of bytes.
LEMMA PayloadType ==
    ASSUME NEW d \in Decoders, NEW b \in Byte, YieldsFrame(d, b)
    PROVE  Payload(d) \in Seq(Byte)
<1>1. d.buffer \in Seq(Byte) /\ Len(d.buffer) > 2
  BY DEF YieldsFrame, EndsFrame, Decoders
<1>2. QED
  BY <1>1 DEF Payload

-----------------------------------------------------------------------------
(* Type correctness.                                                       *)

\* The byte on the line is a byte.
LEMMA WireType ==
    ASSUME TypeOK, stage # "idle"
    PROVE  Wire \in Byte
<1>1. Raw \in Seq(Byte) /\ Len(Raw) \in Nat /\ pos \in Nat
  BY RawType, LenProperties DEF TypeOK
<1>2. FlagByte \in Byte /\ EscapeByte \in Byte /\ \A b \in Byte : EscapeXform(b) \in Byte
  BY CodecAssumption DEF CodecAssumption
<1>3. pos < Len(Raw) => NextByte \in Byte
  BY <1>1 DEF NextByte
<1>4. CASE stage = "open"
  BY <1>2, <1>4 DEF Wire
<1>5. CASE stage = "body"
  <2>1. pos = Len(Raw) \/ pos < Len(Raw)
    BY <1>1, <1>5 DEF TypeOK
  <2>2. QED
    BY <1>1, <1>2, <1>3, <1>5, <2>1 DEF Wire
<1>6. CASE stage = "escaped"
  BY <1>1, <1>2, <1>3, <1>6 DEF Wire, TypeOK
<1>7. QED
  BY <1>4, <1>5, <1>6 DEF TypeOK

\* Feeding the decoder one byte keeps its type and that of what it returns.
LEMMA FeedStep ==
    ASSUME TypeOK, NEW b \in Byte, Feed(b)
    PROVE  /\ decoder' \in Decoders
           /\ received' \in Seq(Seq(Byte))
           /\ Len(received) \in Nat
           /\ Len(received') \in Nat
           /\ Len(received) <= Len(received')
           /\ Len(received') <= Len(received) + 1
<1>1. decoder \in Decoders /\ received \in Seq(Seq(Byte))
  BY DEF TypeOK
<1>2. decoder' \in Decoders
  BY <1>1, FeedType DEF Feed
<1>3. CASE YieldsFrame(decoder, b)
  BY <1>1, <1>2, <1>3, PayloadType DEF Feed
<1>4. CASE ~YieldsFrame(decoder, b)
  BY <1>1, <1>2, <1>4, LenProperties DEF Feed
<1>5. QED
  BY <1>3, <1>4

\* The encoder's step keeps its part of TypeOK.
LEMMA EmitStep ==
    ASSUME TypeOK, Emit
    PROVE  /\ sent' = sent /\ Raw' = Raw /\ Current' = Current
           /\ sent # <<>> /\ sent' \in Seq(Frames)
           /\ stage \in {"open", "body", "escaped"}
           /\ stage' \in {"idle", "open", "body", "escaped"}
           /\ pos' \in Nat
           /\ stage' # "open"
           /\ stage' = "body" => pos' <= Len(Raw)
           /\ stage' = "escaped" => pos' < Len(Raw)
<1>1. sent' = sent /\ Raw' = Raw /\ Current' = Current
  BY DEF Emit, Raw, Current
<1>2. sent # <<>> /\ sent \in Seq(Frames) /\ pos \in Nat
  BY DEF Emit, TypeOK
<1>3. Len(Raw) \in Nat
  BY <1>2, RawType, LenProperties
<1>4. stage \in {"open", "body", "escaped"}
  BY DEF Emit, TypeOK
<1>5. CASE stage = "open"
  <2>1. stage' = "body" /\ pos' = pos
    BY <1>5 DEF Emit
  <2>2. QED
    BY <1>1, <1>2, <1>3, <1>4, <1>5, <2>1 DEF TypeOK
<1>6. CASE stage = "body"
  BY <1>1, <1>2, <1>3, <1>4, <1>6 DEF Emit, TypeOK
<1>7. CASE stage = "escaped"
  BY <1>1, <1>2, <1>3, <1>4, <1>7 DEF Emit, TypeOK
<1>8. QED
  BY <1>4, <1>5, <1>6, <1>7
-----------------------------------------------------------------------------
(* The inductive invariant.                                                *)

\* A byte is sent escaped only if it must be.
EscapesInv == stage = "escaped" => NextByte \in NeedsEscape

\* A decoder that looks for a flag holds nothing.
SeekInv == decoder.state = "SeekingFlag" => decoder.buffer = <<>>

\* The decoder holds what the encoder has emitted of the current frame.
InStep ==
    decoder = IF stage \in {"idle", "open"} THEN NewDecoder
              ELSE [state  |-> IF stage = "body" THEN "Receiving" ELSE "Escaped",
                    buffer |-> SubSeq(Raw, 1, pos)]

CleanInv == errors = 0 => InStep /\ CleanLineIsTransparent

\* The decoder will return the current frame, or the next one if the encoder
\* is idle, provided that the line is clean from here on.  Between frames
\* only a decoder in the middle of a long enough frame is not ready: it takes
\* the opening flag for a closing one.
Ready ==
    IF stage \in {"idle", "open"}
    THEN ~(decoder.state = "Receiving" /\ Len(decoder.buffer) > 2)
    ELSE InStep

\* Resynchronises, with the frame about to be lost counted already.
ResyncInv ==
    Len(sent) - Len(received) + (IF Ready THEN 0 ELSE 1)
        <= 2 * errors + (IF stage = "idle" THEN 0 ELSE 1)

IInv == TypeOK /\ EscapesInv /\ SeekInv /\ CleanInv /\ ResyncInv

\* After a flag the decoder is empty; it is in a frame unless the flag closed
\* one.
LEMMA AfterAFlag ==
    ASSUME TypeOK, SeekInv, Feed(FlagByte)
    PROVE  /\ decoder'.buffer = <<>>
           /\ decoder'.state \in {"SeekingFlag", "Receiving"}
           /\ ~(decoder.state = "Receiving" /\ Len(decoder.buffer) > 2)
                  => decoder' = [state |-> "Receiving", buffer |-> <<>>]
<1>1. decoder' = feed_byte(decoder, FlagByte)
  BY DEF Feed
<1>2. /\ decoder \in [state : {"SeekingFlag", "Receiving", "Escaped"}, buffer : Seq(Byte)]
      /\ Len(decoder.buffer) \in Nat
  BY LenProperties DEF TypeOK, Decoders
<1>3. CASE decoder.state = "SeekingFlag"
  BY <1>1, <1>2, <1>3 DEF feed_byte, SeekInv
<1>4. CASE decoder.state = "Receiving"
  BY <1>1, <1>2, <1>4 DEF feed_byte, AfterFlag
<1>5. CASE decoder.state = "Escaped"
  BY <1>1, <1>2, <1>5 DEF feed_byte
<1>6. QED
  BY <1>2, <1>3, <1>4, <1>5

\* feed_byte() keeps SeekInv.
LEMMA FeedSeeks ==
    ASSUME TypeOK, SeekInv, NEW b \in Byte, Feed(b)
    PROVE  SeekInv'
<1>1. decoder' = feed_byte(decoder, b)
  BY DEF Feed
<1>2. decoder \in [state : {"SeekingFlag", "Receiving", "Escaped"}, buffer : Seq(Byte)]
  BY DEF TypeOK, Decoders
<1>3. CASE decoder.state = "SeekingFlag"
  BY <1>1, <1>2, <1>3 DEF feed_byte, SeekInv
<1>4. CASE decoder.state = "Receiving"
  BY <1>1, <1>2, <1>4 DEF feed_byte, AfterFlag, SeekInv
<1>5. CASE decoder.state = "Escaped"
  BY <1>1, <1>2, <1>5 DEF feed_byte, SeekInv
<1>6. QED
  BY <1>2, <1>3, <1>4, <1>5

\* A prefix grows by the byte that follows it.
LEMMA PrefixGrows ==
    ASSUME NEW S, NEW s \in Seq(S), NEW n \in Nat, n < Len(s)
    PROVE  Append(SubSeq(s, 1, n), s[n + 1]) = SubSeq(s, 1, n + 1)
<1>1. Len(s) \in Nat
  BY LenProperties
<1>2. /\ SubSeq(s, 1, n) \in Seq(S)
      /\ Len(SubSeq(s, 1, n)) = n
      /\ \A i \in 1 .. n : SubSeq(s, 1, n)[i] = s[i]
  BY <1>1
<1>3. /\ SubSeq(s, 1, n + 1) \in Seq(S)
      /\ Len(SubSeq(s, 1, n + 1)) = n + 1
      /\ \A i \in 1 .. n + 1 : SubSeq(s, 1, n + 1)[i] = s[i]
  BY <1>1
<1>4. /\ Append(SubSeq(s, 1, n), s[n + 1]) \in Seq(S)
      /\ Len(Append(SubSeq(s, 1, n), s[n + 1])) = n + 1
      /\ \A i \in 1 .. n + 1 : Append(SubSeq(s, 1, n), s[n + 1])[i] = s[i]
  BY <1>1, <1>2
<1>5. QED
  BY <1>3, <1>4, SeqEqual

\* A prefix as long as the sequence is the sequence.
LEMMA PrefixOfAll ==
    ASSUME NEW S, NEW s \in Seq(S)
    PROVE  SubSeq(s, 1, Len(s)) = s /\ SubSeq(s, 1, 0) = <<>>
<1>1. /\ SubSeq(s, 1, Len(s)) \in Seq(S)
      /\ Len(SubSeq(s, 1, Len(s))) = Len(s)
      /\ \A i \in 1 .. Len(s) : SubSeq(s, 1, Len(s))[i] = s[i]
  BY LenProperties
<1>2. SubSeq(s, 1, Len(s)) = s
  BY <1>1, SeqEqual
<1>3. QED
  BY <1>2, SubSeqEmpty

-----------------------------------------------------------------------------
(* One byte carried without error.                                         *)

\* A step of the encoder keeps EscapesInv.
LEMMA EmitEscapes ==
    ASSUME TypeOK, Emit
    PROVE  EscapesInv'
<1>1. stage \in {"open", "body", "escaped"} /\ Raw' = Raw /\ pos \in Nat
  BY EmitStep DEF TypeOK
<1>2. SUFFICES ASSUME stage' = "escaped"
               PROVE  NextByte' \in NeedsEscape
  BY DEF EscapesInv
<1>3. stage = "body" /\ pos < Len(Raw) /\ NextByte \in NeedsEscape
  <2>1. stage = "body"
    BY <1>1, <1>2 DEF Emit
  <2>2. pos = Len(Raw) \/ pos < Len(Raw)
    <3>1. Len(Raw) \in Nat
      BY <2>1, RawType, LenProperties DEF TypeOK
    <3>2. QED
      BY <1>1, <2>1, <3>1 DEF TypeOK
  <2>3. QED
    BY <1>2, <2>1, <2>2 DEF Emit
<1>4. pos' = pos
  BY <1>3 DEF Emit
<1>5. QED
  BY <1>1, <1>3, <1>4 DEF NextByte

\* A decoder in step stays in step, and returns the frame with its closing
\* flag.
LEMMA CarryInStep ==
    ASSUME TypeOK, EscapesInv, InStep, Emit, Feed(Wire), stage # "open"
    PROVE  /\ InStep'
           /\ received' = IF stage' = "idle" THEN Append(received, Current)
                          ELSE received
<1>0. /\ stage \in {"body", "escaped"} /\ Raw' = Raw /\ pos \in Nat
      /\ sent # <<>> /\ sent \in Seq(Frames)
  BY EmitStep DEF TypeOK
<1>1. /\ Raw \in Seq(Byte) /\ Len(Raw) \in Nat /\ Len(Raw) > 2
  BY <1>0, RawType, LenProperties
<1>2. /\ FlagByte \in NeedsEscape /\ EscapeByte \in NeedsEscape
      /\ FlagByte # EscapeByte /\ NeedsEscape \subseteq Byte
      /\ \A b \in NeedsEscape : EscapeXform(b) # FlagByte
                                /\ EscapeXform(EscapeXform(b)) = b
  BY CodecAssumption DEF CodecAssumption
<1>3. decoder' = feed_byte(decoder, Wire)
  BY DEF Feed
<1>4. CASE stage = "body" /\ pos = Len(Raw)
  <2>1. decoder = [state |-> "Receiving", buffer |-> Raw]
    BY <1>1, <1>4, PrefixOfAll DEF InStep
  <2>2. Wire = FlagByte /\ stage' = "idle"
    BY <1>4 DEF Wire, Emit
  <2>3. decoder' = NewDecoder
    BY <1>1, <1>3, <2>1, <2>2 DEF feed_byte, AfterFlag, NewDecoder
  <2>4. Payload(decoder) = Current /\ YieldsFrame(decoder, Wire)
    <3>1. Payload(decoder) = Current
      BY <1>0, <2>1, RawParts DEF Payload
    <3>2. CrcMatches(decoder)
      BY <1>0, <2>1, <3>1, RawParts DEF CrcMatches
    <3>3. QED
      BY <1>1, <2>1, <2>2, <3>1, <3>2 DEF YieldsFrame, EndsFrame
  <2>5. QED
    BY <2>2, <2>3, <2>4 DEF InStep, Feed
<1>5. CASE stage = "body" /\ pos < Len(Raw) /\ NextByte \in NeedsEscape
  <2>1. decoder = [state |-> "Receiving", buffer |-> SubSeq(Raw, 1, pos)]
    BY <1>5 DEF InStep
  <2>2. Wire = EscapeByte /\ stage' = "escaped" /\ pos' = pos
    BY <1>0, <1>1, <1>5 DEF Wire, Emit
  <2>3. decoder' = [state |-> "Escaped", buffer |-> SubSeq(Raw, 1, pos)]
    BY <1>2, <1>3, <2>1, <2>2 DEF feed_byte
  <2>4. received' = received
    BY <1>2, <2>2 DEF Feed, YieldsFrame, EndsFrame
  <2>5. QED
    BY <1>0, <2>2, <2>3, <2>4 DEF InStep
<1>6. CASE stage = "body" /\ pos < Len(Raw) /\ NextByte \notin NeedsEscape
  <2>1. decoder = [state |-> "Receiving", buffer |-> SubSeq(Raw, 1, pos)]
    BY <1>6 DEF InStep
  <2>2. Wire = NextByte /\ stage' = "body" /\ pos' = pos + 1
    BY <1>0, <1>1, <1>6 DEF Wire, Emit
  <2>3. Wire # FlagByte /\ Wire # EscapeByte
    BY <1>2, <1>6, <2>2
  <2>4. decoder' = [state |-> "Receiving", buffer |-> Append(SubSeq(Raw, 1, pos), Raw[pos + 1])]
    BY <1>3, <2>1, <2>2, <2>3 DEF feed_byte, NextByte
  <2>5. decoder' = [state |-> "Receiving", buffer |-> SubSeq(Raw, 1, pos + 1)]
    BY <1>0, <1>1, <1>6, <2>4, PrefixGrows
  <2>6. received' = received
    BY <2>3 DEF Feed, YieldsFrame, EndsFrame
  <2>7. QED
    BY <1>0, <2>2, <2>5, <2>6 DEF InStep
<1>7. CASE stage = "escaped"
  <2>1. decoder = [state |-> "Escaped", buffer |-> SubSeq(Raw, 1, pos)]
    BY <1>7 DEF InStep
  <2>2. /\ Wire = EscapeXform(NextByte) /\ stage' = "body" /\ pos' = pos + 1
        /\ NextByte \in NeedsEscape /\ pos < Len(Raw)
    BY <1>0, <1>7 DEF Wire, Emit, EscapesInv, TypeOK
  <2>3. Wire # FlagByte /\ EscapeXform(Wire) = NextByte
    BY <1>2, <2>2
  <2>4. decoder' = [state |-> "Receiving", buffer |-> Append(SubSeq(Raw, 1, pos), Raw[pos + 1])]
    BY <1>3, <2>1, <2>3 DEF feed_byte, Unescape, NextByte
  <2>5. decoder' = [state |-> "Receiving", buffer |-> SubSeq(Raw, 1, pos + 1)]
    BY <1>0, <1>1, <2>2, <2>4, PrefixGrows
  <2>6. received' = received
    BY <2>3 DEF Feed, YieldsFrame, EndsFrame
  <2>7. QED
    BY <1>0, <2>2, <2>5, <2>6 DEF InStep
<1>8. QED
  BY <1>0, <1>1, <1>4, <1>5, <1>6, <1>7 DEF TypeOK

\* The opening flag puts a ready decoder in step.
LEMMA OpenInStep ==
    ASSUME TypeOK, SeekInv, Emit, Feed(Wire), stage = "open", Ready
    PROVE  InStep' /\ received' = received /\ stage' = "body"
<1>1. /\ Raw' = Raw /\ sent # <<>> /\ sent \in Seq(Frames)
      /\ Wire = FlagByte /\ stage' = "body" /\ pos' = pos /\ pos = 0
  BY EmitStep DEF TypeOK, Wire, Emit
<1>2. ~(decoder.state = "Receiving" /\ Len(decoder.buffer) > 2)
  BY DEF Ready
<1>3. decoder' = [state |-> "Receiving", buffer |-> <<>>]
  BY <1>1, <1>2, AfterAFlag
<1>4. SubSeq(Raw, 1, 0) = <<>>
  BY <1>1, RawType, PrefixOfAll
<1>5. received' = received
  BY <1>2 DEF Feed, YieldsFrame, EndsFrame
<1>6. QED
  BY <1>1, <1>3, <1>4, <1>5 DEF InStep

\* A decoder in step is ready.
LEMMA InStepIsReady ==
    ASSUME InStep
    PROVE  Ready
BY DEF InStep, Ready, NewDecoder

\* A closing flag leaves a ready decoder behind, whatever it did before.
LEMMA CloseIsReady ==
    ASSUME TypeOK, SeekInv, Emit, Feed(Wire), stage' = "idle"
    PROVE  Ready'
<1>1. stage = "body" /\ Wire = FlagByte
  <2>1. stage \in {"open", "body", "escaped"}
    BY EmitStep
  <2>2. stage = "body"
    BY <2>1 DEF Emit
  <2>3. Len(Raw) \in Nat /\ pos \in Nat
    BY <2>2, RawType, LenProperties DEF TypeOK
  <2>4. pos = Len(Raw)
    BY <2>2, <2>3 DEF Emit, TypeOK
  <2>5. QED
    BY <2>2, <2>4 DEF Wire
<1>2. decoder'.buffer = <<>>
  BY <1>1, AfterAFlag
<1>3. Len(decoder'.buffer) = 0
  BY <1>2
<1>4. QED
  BY <1>3 DEF Ready
-----------------------------------------------------------------------------
(* The actions.                                                            *)

\* Init establishes the invariant.
LEMMA InitIInv == Init => IInv
<1> SUFFICES ASSUME Init PROVE IInv
  OBVIOUS
<1>1. TypeOK
  BY LineAssumption DEF Init, TypeOK, NewDecoder, Decoders
<1>2. EscapesInv /\ SeekInv /\ InStep
  BY DEF Init, EscapesInv, SeekInv, InStep, NewDecoder
<1>3. CleanInv
  BY <1>2 DEF Init, CleanInv, CleanLineIsTransparent
<1>4. ResyncInv
  BY <1>2, InStepIsReady DEF Init, ResyncInv
<1>5. QED
  BY <1>1, <1>2, <1>3, <1>4 DEF IInv

\* encode_bytes() keeps it.
LEMMA EncodeIInv ==
    ASSUME IInv, NEW data \in Frames, encode_bytes(data)
    PROVE  IInv'
<1>0. TypeOK /\ sent \in Seq(Frames) /\ Len(sent) \in Nat /\ Len(received) \in Nat
  BY LenProperties DEF IInv, TypeOK
<1>1. sent' \in Seq(Frames) /\ sent' # <<>> /\ Len(sent') = Len(sent) + 1
      /\ Current' = data /\ sent' = Append(sent, data)
  BY <1>0 DEF encode_bytes, Current
<1>2. stage = "idle" /\ stage' = "open" /\ pos' = 0
      /\ decoder' = decoder /\ received' = received /\ errors' = errors
  BY DEF encode_bytes
<1>3. TypeOK'
  BY <1>0, <1>1, <1>2 DEF TypeOK
<1>4. EscapesInv' /\ SeekInv'
  BY <1>2 DEF IInv, EscapesInv, SeekInv
<1>5. CleanInv'
  <2>1. SUFFICES ASSUME errors' = 0 PROVE InStep' /\ CleanLineIsTransparent'
    BY DEF CleanInv
  <2>2. InStep /\ sent = received \o <<>>
    BY <1>2, <2>1 DEF IInv, CleanInv, CleanLineIsTransparent
  <2>3. InStep'
    BY <1>2, <2>2 DEF InStep
  <2>4. sent = received
    BY <1>0, <2>2 DEF TypeOK
  <2>5. sent' = received' \o <<Current'>>
    BY <1>0, <1>1, <1>2, <2>4
  <2>6. QED
    BY <1>2, <2>3, <2>5 DEF CleanLineIsTransparent
<1>6. ResyncInv'
  <2>1. Ready' <=> Ready
    BY <1>2 DEF Ready
  <2>2. QED
    BY <1>0, <1>1, <1>2, <2>1 DEF IInv, ResyncInv, TypeOK
<1>7. QED
  BY <1>3, <1>4, <1>5, <1>6 DEF IInv

\* A byte carried without error keeps it.
LEMMA CarryIInv ==
    ASSUME IInv, Carry
    PROVE  IInv'
<1>0. TypeOK /\ EscapesInv /\ SeekInv /\ Emit /\ Feed(Wire) /\ errors' = errors
      /\ errors \in Nat
  BY DEF IInv, Carry, TypeOK
<1>1. Wire \in Byte
  BY <1>0, WireType DEF Emit
<1>2. /\ decoder' \in Decoders /\ received' \in Seq(Seq(Byte))
      /\ Len(received) \in Nat /\ Len(received') \in Nat
      /\ Len(received) <= Len(received')
  BY <1>0, <1>1, FeedStep
<1>3. /\ sent' = sent /\ Raw' = Raw /\ Current' = Current
      /\ sent # <<>> /\ sent' \in Seq(Frames) /\ Len(sent) \in Nat
      /\ stage \in {"open", "body", "escaped"}
      /\ stage' \in {"idle", "body", "escaped"}
      /\ pos' \in Nat
      /\ stage' = "body" => pos' <= Len(Raw)
      /\ stage' = "escaped" => pos' < Len(Raw)
  BY <1>0, EmitStep, LenProperties
<1>4. TypeOK'
  BY <1>0, <1>2, <1>3 DEF TypeOK
<1>5. EscapesInv' /\ SeekInv'
  BY <1>0, <1>1, EmitEscapes, FeedSeeks
\* A decoder that is ready stays ready and returns the frame at its end.
<1>6. ASSUME Ready
      PROVE  /\ Ready'
             /\ InStep => InStep'
             /\ received' = IF stage' = "idle" THEN Append(received, Current)
                            ELSE received
  <2>1. CASE stage = "open"
    BY <1>0, <1>6, <2>1, OpenInStep DEF Ready
  <2>2. CASE stage # "open"
    <3>1. InStep
      BY <1>3, <1>6, <2>2 DEF Ready
    <3>2. /\ InStep'
          /\ received' = IF stage' = "idle" THEN Append(received, Current)
                         ELSE received
      BY <1>0, <2>2, <3>1, CarryInStep
    <3>3. Ready'
      BY <3>2 DEF InStep, Ready, NewDecoder
    <3>4. QED
      BY <3>2, <3>3
  <2>3. QED
    BY <2>1, <2>2
<1>7. CleanInv'
  <2>1. SUFFICES ASSUME errors' = 0 PROVE InStep' /\ CleanLineIsTransparent'
    BY DEF CleanInv
  <2>2. InStep /\ Ready /\ sent = received \o <<Current>>
    BY <1>0, <1>3, <2>1, InStepIsReady DEF IInv, CleanInv, CleanLineIsTransparent
  <2>3. InStep'
    BY <1>6, <2>2
  <2>4. CASE stage' = "idle"
    <3>1. received' = Append(received, Current)
      BY <1>6, <2>2, <2>4
    <3>2. received' = received \o <<Current>> /\ received' \o <<>> = received'
      BY <1>2, <3>1 DEF TypeOK
    <3>3. QED
      BY <1>3, <2>2, <2>3, <2>4, <3>2 DEF CleanLineIsTransparent
  <2>5. CASE stage' # "idle"
    BY <1>3, <1>6, <2>2, <2>3, <2>5 DEF CleanLineIsTransparent
  <2>6. QED
    BY <2>4, <2>5
<1>8. ResyncInv'
  <2>0. Len(sent) - Len(received) + (IF Ready THEN 0 ELSE 1) <= 2 * errors + 1
    BY <1>3 DEF IInv, ResyncInv
  <2>1. CASE Ready /\ stage' = "idle"
    <3>1. Ready' /\ Len(received') = Len(received) + 1
      BY <1>6, <2>1, <1>0 DEF TypeOK
    <3>2. QED
      BY <1>0, <1>2, <1>3, <2>0, <2>1, <3>1 DEF ResyncInv
  <2>2. CASE Ready /\ stage' # "idle"
    <3>1. Ready'
      BY <1>6, <2>2
    <3>2. QED
      BY <1>0, <1>2, <1>3, <2>0, <2>2, <3>1 DEF ResyncInv
  <2>3. CASE ~Ready /\ stage' = "idle"
    <3>1. Ready'
      BY <1>0, <2>3, CloseIsReady
    <3>2. QED
      BY <1>0, <1>2, <1>3, <2>0, <2>3, <3>1 DEF ResyncInv
  <2>4. CASE ~Ready /\ stage' # "idle"
    BY <1>0, <1>2, <1>3, <2>0, <2>4 DEF ResyncInv
  <2>5. QED
    BY <2>1, <2>2, <2>3, <2>4
<1>9. QED
  BY <1>4, <1>5, <1>7, <1>8 DEF IInv

\* A line error may add a lost frame to the count and put the decoder out of
\* step, which two more lost frames pay for.
LEMMA ErrorPays ==
    ASSUME IInv, Error,
           Len(sent') = Len(sent), Len(received') \in Nat,
           Len(received) <= Len(received')
    PROVE  CleanInv' /\ ResyncInv'
<1>0. /\ errors \in Nat /\ errors' = errors + 1
      /\ Len(sent) \in Nat /\ Len(received) \in Nat
  BY LenProperties DEF IInv, TypeOK, Error
<1>1. Len(sent) - Len(received) <= 2 * errors + 1
  <2>1. Len(sent) - Len(received) + (IF Ready THEN 0 ELSE 1)
            <= 2 * errors + (IF stage = "idle" THEN 0 ELSE 1)
    BY DEF IInv, ResyncInv
  <2>2. QED
    BY <1>0, <2>1
<1>2. Len(sent') - Len(received') + (IF Ready' THEN 0 ELSE 1) <= 2 * errors'
  BY <1>0, <1>1
<1>3. ResyncInv'
  BY <1>0, <1>2 DEF ResyncInv
<1>4. CleanInv'
  BY <1>0 DEF CleanInv
<1>5. QED
  BY <1>3, <1>4

\* A lost byte keeps the invariant.
LEMMA LoseIInv ==
    ASSUME IInv, Lose
    PROVE  IInv'
<1>0. /\ TypeOK /\ EscapesInv /\ SeekInv /\ Error /\ Emit
      /\ decoder' = decoder /\ received' = received
      /\ errors' \in Nat
  BY DEF IInv, Lose, Error, TypeOK
<1>1. /\ sent' = sent /\ Raw' = Raw /\ sent # <<>> /\ sent' \in Seq(Frames)
      /\ stage # "idle" /\ stage' \in {"idle", "body", "escaped"}
      /\ pos' \in Nat
      /\ stage' = "body" => pos' <= Len(Raw)
      /\ stage' = "escaped" => pos' < Len(Raw)
  BY <1>0, EmitStep
<1>2. TypeOK'
  BY <1>0, <1>1 DEF TypeOK
<1>3. EscapesInv' /\ SeekInv'
  BY <1>0, EmitEscapes DEF SeekInv
<1>4. CleanInv' /\ ResyncInv'
  <2>1. Len(received) \in Nat /\ Len(received') \in Nat /\ Len(received) <= Len(received')
    BY <1>0, LenProperties DEF TypeOK
  <2>2. QED
    BY <1>0, <1>1, <2>1, ErrorPays
<1>5. QED
  BY <1>2, <1>3, <1>4 DEF IInv

\* An altered byte keeps it.
LEMMA AlterIInv ==
    ASSUME IInv, Alter
    PROVE  IInv'
<1>0. TypeOK /\ EscapesInv /\ SeekInv /\ Error /\ Emit /\ errors' \in Nat
  BY DEF IInv, Alter, Error, TypeOK
<1>1. PICK b \in Byte : Feed(b)
  BY LineAssumption DEF LineAssumption, Alter
<1>2. /\ decoder' \in Decoders /\ received' \in Seq(Seq(Byte))
      /\ Len(received') \in Nat /\ Len(received) <= Len(received')
  BY <1>0, <1>1, FeedStep
<1>3. /\ sent' = sent /\ Raw' = Raw /\ sent # <<>> /\ sent' \in Seq(Frames)
      /\ stage # "idle" /\ stage' \in {"idle", "body", "escaped"}
      /\ pos' \in Nat
      /\ stage' = "body" => pos' <= Len(Raw)
      /\ stage' = "escaped" => pos' < Len(Raw)
  BY <1>0, EmitStep
<1>4. TypeOK'
  BY <1>0, <1>2, <1>3 DEF TypeOK
<1>5. EscapesInv' /\ SeekInv'
  BY <1>0, <1>1, EmitEscapes, FeedSeeks
<1>6. CleanInv' /\ ResyncInv'
  BY <1>0, <1>2, <1>3, ErrorPays
<1>7. QED
  BY <1>4, <1>5, <1>6 DEF IInv

\* An inserted byte keeps it.
LEMMA InsertIInv ==
    ASSUME IInv, Insert
    PROVE  IInv'
<1>0. /\ TypeOK /\ EscapesInv /\ SeekInv /\ Error /\ errors' \in Nat
      /\ sent' = sent /\ stage' = stage /\ pos' = pos
  BY DEF IInv, Insert, Error, TypeOK
<1>1. PICK b \in Byte : Feed(b)
  BY LineAssumption DEF LineAssumption, Insert
<1>2. /\ decoder' \in Decoders /\ received' \in Seq(Seq(Byte))
      /\ Len(received') \in Nat /\ Len(received) <= Len(received')
  BY <1>0, <1>1, FeedStep
<1>3. Raw' = Raw /\ NextByte' = NextByte
  BY <1>0 DEF Raw, Current, NextByte
<1>4. TypeOK'
  BY <1>0, <1>2, <1>3 DEF TypeOK
<1>5. EscapesInv' /\ SeekInv'
  BY <1>0, <1>1, <1>3, FeedSeeks DEF EscapesInv
<1>6. CleanInv' /\ ResyncInv'
  BY <1>0, <1>2, ErrorPays
<1>7. QED
  BY <1>4, <1>5, <1>6 DEF IInv

\* The invariant holds of every behaviour.
THEOREM Invariance == Spec => []IInv
<1>1. IInv /\ [Next]_vars => IInv'
  <2> SUFFICES ASSUME IInv, [Next]_vars PROVE IInv'
    OBVIOUS
  <2>1. CASE \E data \in Frames : encode_bytes(data)
    BY <2>1, EncodeIInv
  <2>2. CASE Carry
    BY <2>2, CarryIInv
  <2>3. CASE Lose
    BY <2>3, LoseIInv
  <2>4. CASE Alter
    BY <2>4, AlterIInv
  <2>5. CASE Insert
    BY <2>5, InsertIInv
  <2>6. CASE UNCHANGED vars
    BY <2>6 DEF vars, IInv, TypeOK, EscapesInv, SeekInv, CleanInv, ResyncInv,
                InStep, Ready, CleanLineIsTransparent, NextByte, Raw, Current
  <2>7. QED
    BY <2>1, <2>2, <2>3, <2>4, <2>5, <2>6 DEF Next
<1>2. QED
  BY InitIInv, <1>1, PTL DEF Spec

\* The codec and the line keep their types: whatever bytes arrive, the
\* decoder stays in one of its three states with a buffer of bytes.
THEOREM TypeCorrect == Spec => []TypeOK
<1>1. IInv => TypeOK
  BY DEF IInv
<1>2. QED
  BY Invariance, <1>1, PTL

\* A clean line is transparent, for every CRC and every frame that is not
\* empty: escaping and unescaping, the flags shared by no two frames and the
\* CRC check never cost or alter a frame (encode_bytes, feed_byte).
THEOREM CleanLine == Spec => []CleanLineIsTransparent
<1>1. IInv => CleanLineIsTransparent
  BY DEF IInv, CleanInv, CleanLineIsTransparent
<1>2. QED
  BY Invariance, <1>1, PTL

\* A line error costs at most two frames, for any number of errors of any
\* kind at any place (feed_byte's resynchronisation).
THEOREM Resynchronisation == Spec => []Resynchronises
<1>1. IInv => Resynchronises
  <2> SUFFICES ASSUME IInv PROVE Resynchronises
    OBVIOUS
  <2>1. /\ Len(sent) \in Nat /\ Len(received) \in Nat /\ errors \in Nat
        /\ Len(sent) - Len(received) + (IF Ready THEN 0 ELSE 1)
               <= 2 * errors + (IF stage = "idle" THEN 0 ELSE 1)
    BY LenProperties DEF IInv, TypeOK, ResyncInv
  <2>2. QED
    BY <2>1 DEF Resynchronises
<1>2. QED
  BY Invariance, <1>1, PTL

-----------------------------------------------------------------------------
(* WfPump: the frames that come through ncp_to_driver_pump.                *)

InbBytes == Int \X Int
InbAbs(i) == IF i < 0 THEN 0 - i ELSE i

\* Byte a was sent before byte b: of an earlier frame, or earlier in it.
InbBefore(a, b) == a[1] < b[1] \/ (a[1] = b[1] /\ InbAbs(a[2]) < InbAbs(b[2]))

\* The bytes of frames are in the order in which they were sent.
InbOrdered(q) ==
    \A j, k \in DOMAIN q : j < k /\ q[j][1] > 0 /\ q[k][1] > 0 => InbBefore(q[j], q[k])

\* What the line makes of frame n: its bytes in order, and bytes of no frame.
InbPart(e, n) ==
    /\ e \in Seq(InbBytes) /\ InbOrdered(e)
    /\ \A k \in DOMAIN e : e[k][1] > 0 => e[k][1] = n /\ InbAbs(e[k][2]) <= 4

InbTypes ==
    /\ line \in Seq(InbBytes) /\ sentN \in Nat
    /\ inPump \in [at : {"byte", "escaped"}, frame : Seq(InbBytes)]
    /\ got \in Seq(Nat)

\* The line, the frame in the pump and the frames handed on are in order.
InbLine(q, m) ==
    /\ InbOrdered(q)
    /\ \A k \in DOMAIN q : q[k][1] > 0 => q[k][1] <= m /\ InbAbs(q[k][2]) <= 4
InbFrame(f, q) ==
    \A m \in DOMAIN f, k \in DOMAIN q : f[m][1] > 0 /\ q[k][1] > 0 => InbBefore(f[m], q[k])
InbOlder(g, q) == \A i \in DOMAIN g : \A k \in DOMAIN q : q[k][1] > 0 => g[i] < q[k][1]
InbPumped(f, m) == \A k \in DOMAIN f : f[k][1] > 0 => f[k][1] <= m
InbGot(g, m) ==
    /\ \A i, j \in DOMAIN g : i < j => g[i] < g[j]
    /\ \A i \in DOMAIN g : g[i] \in 1 .. m

\* Frame n, from its first, second, ... byte on, is what comes next.
InbRest6(q) == Len(q) >= 1 /\ q[1] = Flag
InbRest5(q, n) == Len(q) >= 2 /\ q[1] = <<n, 4>> /\ q[2] = Flag
InbRest4(q, n) == Len(q) >= 3 /\ q[1] = <<n, 3>> /\ q[2] = <<n, 4>> /\ q[3] = Flag
InbRest3(q, n) ==
    Len(q) >= 4 /\ q[1] = <<n, -2>> /\ q[2] = <<n, 3>> /\ q[3] = <<n, 4>> /\ q[4] = Flag
InbRest2(q, n) ==
    /\ Len(q) >= 5 /\ q[1] = Esc /\ q[2] = <<n, -2>> /\ q[3] = <<n, 3>>
    /\ q[4] = <<n, 4>> /\ q[5] = Flag
InbRest1(q, n) ==
    /\ Len(q) >= 6 /\ q[1] = <<n, 1>> /\ q[2] = Esc /\ q[3] = <<n, -2>>
    /\ q[4] = <<n, 3>> /\ q[5] = <<n, 4>> /\ q[6] = Flag

\* All of frame n is still on the line.
InbAhead(q, n) ==
    \E d \in Nat :
        /\ d + 7 <= Len(q) /\ q[d + 1] = Flag /\ q[d + 2] = <<n, 1>> /\ q[d + 3] = Esc
        /\ q[d + 4] = <<n, -2>> /\ q[d + 5] = <<n, 3>> /\ q[d + 6] = <<n, 4>>
        /\ q[d + 7] = Flag

\* The pump has read the beginning of frame n and nothing else.
InbWithin(q, p, n) ==
    \/ InbRest1(q, n) /\ p.at = "byte" /\ p.frame = <<>>
    \/ InbRest2(q, n) /\ p.at = "byte" /\ p.frame = << <<n, 1>> >>
    \/ InbRest3(q, n) /\ p.at = "escaped" /\ p.frame = << <<n, 1>> >>
    \/ InbRest4(q, n) /\ p.at = "byte" /\ p.frame = << <<n, 1>>, <<n, 2>> >>
    \/ InbRest5(q, n) /\ p.at = "byte" /\ p.frame = << <<n, 1>>, <<n, 2>>, <<n, 3>> >>
    \/ InbRest6(q) /\ p.at = "byte" /\ p.frame = << <<n, 1>>, <<n, 2>>, <<n, 3>>, <<n, 4>> >>

\* A frame that no byte was lost from or added to comes, is coming, or came.
InbComes(q, p, g, n) ==
    ForeignIid(n) \/ Contains(g, n) \/ InbAhead(q, n) \/ InbWithin(q, p, n)

InbInv ==
    /\ InbTypes
    /\ InbLine(line, sentN)
    /\ InbPumped(inPump.frame, sentN)
    /\ InbFrame(inPump.frame, line)
    /\ InbOlder(got, line)
    /\ InbOlder(got, inPump.frame)
    /\ InbGot(got, sentN)
    /\ \A n \in (1 .. sentN) \ hurt : InbComes(line, inPump, got, n)

-----------------------------------------------------------------------------
\* A byte has two parts.
LEMMA InbByteParts ==
    ASSUME NEW b \in InbBytes
    PROVE  b[1] \in Int /\ b[2] \in Int /\ b = <<b[1], b[2]>>
BY DEF InbBytes

\* A frame is its bytes with flags around them.
LEMMA InbEncoded ==
    ASSUME NEW n \in Nat, n >= 1
    PROVE  /\ Encoded(n) \in Seq(InbBytes) /\ Len(Encoded(n)) = 7
           /\ DOMAIN Encoded(n) = 1 .. 7
           /\ Encoded(n)[1] = Flag /\ Encoded(n)[2] = <<n, 1>> /\ Encoded(n)[3] = Esc
           /\ Encoded(n)[4] = <<n, -2>> /\ Encoded(n)[5] = <<n, 3>> /\ Encoded(n)[6] = <<n, 4>>
           /\ Encoded(n)[7] = Flag
BY DEF Encoded, InbBytes, Flag, Esc

\* Its bytes are in order.
LEMMA InbEncodedPart ==
    ASSUME NEW n \in Nat, n >= 1
    PROVE  InbPart(Encoded(n), n)
<1> DEFINE e == Encoded(n)
<1>1. /\ e \in Seq(InbBytes) /\ DOMAIN e = 1 .. 7
      /\ e[1] = <<0, 0>> /\ e[2] = <<n, 1>> /\ e[3] = <<0, 1>> /\ e[4] = <<n, -2>>
      /\ e[5] = <<n, 3>> /\ e[6] = <<n, 4>> /\ e[7] = <<0, 0>>
  BY InbEncoded DEF Flag, Esc
<1> HIDE DEF e
<1>n. InbAbs(1) = 1 /\ InbAbs(-2) = 2 /\ InbAbs(3) = 3 /\ InbAbs(4) = 4 BY DEF InbAbs
<1>2. /\ e[1][1] = 0 /\ e[3][1] = 0 /\ e[7][1] = 0
      /\ e[2][1] = n /\ e[4][1] = n /\ e[5][1] = n /\ e[6][1] = n
      /\ InbAbs(e[2][2]) = 1 /\ InbAbs(e[4][2]) = 2 /\ InbAbs(e[5][2]) = 3 /\ InbAbs(e[6][2]) = 4
  BY <1>1, <1>n
<1>3. \A k \in 1 .. 7 : e[k][1] > 0 => k \in {2, 4, 5, 6} BY <1>2
<1>4. \A k \in DOMAIN e : e[k][1] > 0 => e[k][1] = n /\ InbAbs(e[k][2]) <= 4 BY <1>1, <1>2, <1>3
<1>5. ASSUME NEW j \in {2, 4, 5, 6}, NEW k \in {2, 4, 5, 6}, j < k
      PROVE  e[j][1] = e[k][1] /\ InbAbs(e[j][2]) < InbAbs(e[k][2])
  BY <1>2, <1>5
<1>6. InbOrdered(e) BY <1>1, <1>3, <1>5 DEF InbOrdered, InbBefore
<1>. QED BY <1>1, <1>4, <1>6 DEF InbPart, e

\* A piece of a frame.
LEMMA InbPiece ==
    ASSUME NEW e \in Seq(InbBytes), NEW m \in Nat, NEW n \in Nat, 1 <= m, m <= n + 1, n <= Len(e)
    PROVE  /\ SubSeq(e, m, n) \in Seq(InbBytes) /\ Len(SubSeq(e, m, n)) = n - m + 1
           /\ \A k \in 1 .. n - m + 1 : SubSeq(e, m, n)[k] = e[m + k - 1]
<1> HIDE DEF InbBytes
<1>1. SubSeq(e, m, n) \in Seq(InbBytes) OBVIOUS
<1>2. Len(SubSeq(e, m, n)) = n - m + 1 OBVIOUS
<1>3. \A k \in 1 .. n - m + 1 : SubSeq(e, m, n)[k] = e[m + k - 1] OBVIOUS
<1>. QED BY <1>1, <1>2, <1>3

\* Two pieces together.
LEMMA InbJoin ==
    ASSUME NEW a \in Seq(InbBytes), NEW b \in Seq(InbBytes), NEW l \in Nat, Len(a) = l
    PROVE  /\ a \o b \in Seq(InbBytes) /\ Len(a \o b) = l + Len(b)
           /\ DOMAIN (a \o b) = 1 .. l + Len(b) /\ Len(b) \in Nat
           /\ \A k \in 1 .. l : (a \o b)[k] = a[k]
           /\ \A k \in 1 .. Len(b) : (a \o b)[l + k] = b[k]
<1>1. /\ a \o b \in Seq(InbBytes) /\ Len(a \o b) = l + Len(b)
      /\ \A k \in 1 .. l + Len(b) : (a \o b)[k] = IF k <= l THEN a[k] ELSE b[k - l]
  BY ConcatProperties
<1>2. Len(b) \in Nat /\ DOMAIN (a \o b) = 1 .. l + Len(b) BY <1>1
<1>3. \A k \in 1 .. l : k \in 1 .. l + Len(b) /\ k <= l BY <1>2
<1>4. \A k \in 1 .. Len(b) : l + k \in 1 .. l + Len(b) /\ ~(l + k <= l) /\ (l + k) - l = k BY <1>2
<1>. QED BY <1>1, <1>2, <1>3, <1>4

\* A frame that lost a byte.
LEMMA InbRemoved ==
    ASSUME NEW n \in Nat, n >= 1, NEW i \in 1 .. Len(Encoded(n))
    PROVE  InbPart(RemoveAt(Encoded(n), i), n)
<1> DEFINE e == Encoded(n)
           r == RemoveAt(e, i)
<1>1. InbPart(e, n) BY InbEncodedPart
<1>2. e \in Seq(InbBytes) /\ Len(e) = 7 /\ DOMAIN e = 1 .. 7 /\ i \in 1 .. 7 BY InbEncoded
<1>e. e \in Seq(InbBytes) BY <1>2
<1> HIDE DEF e
<1> DEFINE a == SubSeq(e, 1, i - 1)
           b == SubSeq(e, i + 1, 7)
<1>a. /\ a \in Seq(InbBytes) /\ Len(a) = i - 1
      /\ \A k \in 1 .. i - 1 : a[k] = e[k]
  <2> DEFINE m == 1
             l == i - 1
  <2>0. m \in Nat /\ l \in Nat /\ 1 <= m /\ m <= l + 1 /\ l <= Len(e) /\ m = 1 /\ l = i - 1 BY <1>2
  <2>a. a = SubSeq(e, m, l) OBVIOUS
  <2> HIDE DEF a, m, l
  <2>1. /\ a \in Seq(InbBytes) /\ Len(a) = l - m + 1
        /\ \A k \in 1 .. l - m + 1 : a[k] = e[m + k - 1]
    <3>1. /\ SubSeq(e, m, l) \in Seq(InbBytes) /\ Len(SubSeq(e, m, l)) = l - m + 1
          /\ \A k \in 1 .. l - m + 1 : SubSeq(e, m, l)[k] = e[m + k - 1]
      BY <1>e, <2>0, InbPiece, Zenon
    <3>. QED BY <2>a, <3>1
  <2>. QED BY <1>2, <2>0, <2>1
<1>b. /\ b \in Seq(InbBytes) /\ Len(b) = 7 - i
      /\ \A k \in 1 .. 7 - i : b[k] = e[i + k]
  <2> DEFINE m == i + 1
             l == 7
  <2>0. m \in Nat /\ l \in Nat /\ 1 <= m /\ m <= l + 1 /\ l <= Len(e) /\ m = i + 1 /\ l = 7 BY <1>2
  <2>b. b = SubSeq(e, m, l) OBVIOUS
  <2> HIDE DEF b, m, l
  <2>1. /\ b \in Seq(InbBytes) /\ Len(b) = l - m + 1
        /\ \A k \in 1 .. l - m + 1 : b[k] = e[m + k - 1]
    <3>1. /\ SubSeq(e, m, l) \in Seq(InbBytes) /\ Len(SubSeq(e, m, l)) = l - m + 1
          /\ \A k \in 1 .. l - m + 1 : SubSeq(e, m, l)[k] = e[m + k - 1]
      BY <1>e, <2>0, InbPiece, Zenon
    <3>. QED BY <2>b, <3>1
  <2>. QED BY <1>2, <2>0, <2>1
<1>r. r = a \o b BY <1>2 DEF RemoveAt
<1> HIDE DEF a, b, r
<1>3. /\ r \in Seq(InbBytes) /\ DOMAIN r = 1 .. 6
      /\ \A k \in 1 .. 6 : (k < i => r[k] = e[k]) /\ (k >= i => r[k] = e[k + 1])
  <2>1. i - 1 \in Nat BY <1>2
  <2> DEFINE l == Len(a)
  <2>l. l \in Nat /\ l = i - 1 BY <1>a, <2>1
  <2>a. a \in Seq(InbBytes) /\ Len(a) = l /\ b \in Seq(InbBytes) BY <1>a, <1>b
  <2> HIDE DEF l
  <2>j. /\ r \in Seq(InbBytes) /\ DOMAIN r = 1 .. l + Len(b)
        /\ \A k \in 1 .. l : r[k] = a[k]
        /\ \A k \in 1 .. Len(b) : r[l + k] = b[k]
    <3>1. /\ a \o b \in Seq(InbBytes) /\ DOMAIN (a \o b) = 1 .. l + Len(b)
          /\ \A k \in 1 .. l : (a \o b)[k] = a[k]
          /\ \A k \in 1 .. Len(b) : (a \o b)[l + k] = b[k]
      BY <2>a, <2>l, InbJoin, Zenon
    <3>. QED BY <1>r, <3>1
  <2>2. /\ r \in Seq(InbBytes) /\ DOMAIN r = 1 .. (i - 1) + (7 - i)
        /\ \A k \in 1 .. i - 1 : r[k] = a[k]
        /\ \A k \in 1 .. 7 - i : r[(i - 1) + k] = b[k]
    BY <1>b, <2>j, <2>l
  <2>3. ASSUME NEW k \in 1 .. 6, k >= i PROVE r[k] = e[k + 1]
    <3>1. k - i + 1 \in 1 .. 7 - i /\ (i - 1) + (k - i + 1) = k /\ i + (k - i + 1) = k + 1
      BY <1>2, <2>3
    <3>2. r[(i - 1) + (k - i + 1)] = b[k - i + 1] BY <2>2, <3>1
    <3>3. b[k - i + 1] = e[i + (k - i + 1)] BY <1>b, <3>1
    <3>. QED BY <3>1, <3>2, <3>3
  <2>4. ASSUME NEW k \in 1 .. 6, k < i PROVE r[k] = e[k]
    <3>1. k \in 1 .. i - 1 BY <1>2, <2>4
    <3>. QED BY <1>a, <2>2, <3>1
  <2>5. 1 .. (i - 1) + (7 - i) = 1 .. 6 BY <1>2
  <2>. QED BY <2>2, <2>3, <2>4, <2>5
<1>4. InbOrdered(r)
  <2>1. ASSUME NEW j \in 1 .. 6, NEW k \in 1 .. 6, j < k, r[j][1] > 0, r[k][1] > 0
        PROVE  InbBefore(r[j], r[k])
    <3>1. PICK x \in 1 .. 7, y \in 1 .. 7 : x < y /\ r[j] = e[x] /\ r[k] = e[y]
      <4>1. (IF j < i THEN j ELSE j + 1) \in 1 .. 7 /\ (IF k < i THEN k ELSE k + 1) \in 1 .. 7
            /\ (IF j < i THEN j ELSE j + 1) < (IF k < i THEN k ELSE k + 1)
        BY <1>2, <2>1
      <4>2. r[j] = e[IF j < i THEN j ELSE j + 1] /\ r[k] = e[IF k < i THEN k ELSE k + 1]
        <5>1. i \in Int /\ j \in Int /\ k \in Int BY <1>2
        <5>2. r[j] = e[IF j < i THEN j ELSE j + 1]
          <6>1. CASE j < i BY <1>3, <6>1
          <6>2. CASE ~(j < i)
            <7>1. j >= i BY <5>1, <6>2
            <7>. QED BY <1>3, <6>2, <7>1
          <6>. QED BY <6>1, <6>2
        <5>3. r[k] = e[IF k < i THEN k ELSE k + 1]
          <6>1. CASE k < i BY <1>3, <6>1
          <6>2. CASE ~(k < i)
            <7>1. k >= i BY <5>1, <6>2
            <7>. QED BY <1>3, <6>2, <7>1
          <6>. QED BY <6>1, <6>2
        <5>. QED BY <5>2, <5>3
      <4>. QED BY <4>1, <4>2
    <3>. QED BY <1>1, <1>2, <2>1, <3>1 DEF InbPart, InbOrdered
  <2>. QED BY <1>3, <2>1 DEF InbOrdered
<1>5. \A k \in DOMAIN r : r[k][1] > 0 => r[k][1] = n /\ InbAbs(r[k][2]) <= 4
  <2>1. \A k \in 1 .. 6 : \E x \in 1 .. 7 : r[k] = e[x]
    <3>1. ASSUME NEW k \in 1 .. 6 PROVE k \in 1 .. 7 /\ k + 1 \in 1 .. 7 /\ (k < i \/ k >= i)
      BY <1>2
    <3>. QED BY <1>3, <3>1
  <2>. QED BY <1>1, <1>2, <1>3, <2>1 DEF InbPart
<1>. QED BY <1>3, <1>4, <1>5 DEF InbPart, r, e

\* A frame with a byte too many.
LEMMA InbInserted ==
    ASSUME NEW n \in Nat, n >= 1, NEW i \in 1 .. Len(Encoded(n)) + 1, NEW c \in {NoiseByte, Esc}
    PROVE  InbPart(InsertAt(Encoded(n), i, c), n)
<1> DEFINE e == Encoded(n)
           r == InsertAt(e, i, c)
<1>1. InbPart(e, n) BY InbEncodedPart
<1>2. e \in Seq(InbBytes) /\ Len(e) = 7 /\ DOMAIN e = 1 .. 7 /\ i \in 1 .. 8
  <2>1. e \in Seq(InbBytes) /\ Len(e) = 7 /\ DOMAIN e = 1 .. 7 BY InbEncoded
  <2>2. i \in 1 .. Len(e) + 1 OBVIOUS
  <2> HIDE DEF e
  <2>. QED BY <2>1, <2>2
<1>e. e \in Seq(InbBytes) BY <1>2
<1>c. c \in InbBytes /\ c[1] = 0 BY DEF NoiseByte, Esc, InbBytes
<1> HIDE DEF e
<1> DEFINE a == SubSeq(e, 1, i - 1)
           b == SubSeq(e, i, 7)
           d == a \o <<c>>
<1>a. /\ a \in Seq(InbBytes) /\ Len(a) = i - 1
      /\ \A k \in 1 .. i - 1 : a[k] = e[k]
  <2> DEFINE m == 1
             l == i - 1
  <2>0. m \in Nat /\ l \in Nat /\ 1 <= m /\ m <= l + 1 /\ l <= Len(e) /\ m = 1 /\ l = i - 1 BY <1>2
  <2>a. a = SubSeq(e, m, l) OBVIOUS
  <2> HIDE DEF a, m, l
  <2>1. /\ a \in Seq(InbBytes) /\ Len(a) = l - m + 1
        /\ \A k \in 1 .. l - m + 1 : a[k] = e[m + k - 1]
    <3>1. /\ SubSeq(e, m, l) \in Seq(InbBytes) /\ Len(SubSeq(e, m, l)) = l - m + 1
          /\ \A k \in 1 .. l - m + 1 : SubSeq(e, m, l)[k] = e[m + k - 1]
      BY <1>e, <2>0, InbPiece, Zenon
    <3>. QED BY <2>a, <3>1
  <2>. QED BY <1>2, <2>0, <2>1
<1>b. /\ b \in Seq(InbBytes) /\ Len(b) = 8 - i
      /\ \A k \in 1 .. 8 - i : b[k] = e[i + k - 1]
  <2> DEFINE m == i
             l == 7
  <2>0. m \in Nat /\ l \in Nat /\ 1 <= m /\ m <= l + 1 /\ l <= Len(e) /\ m = i /\ l = 7 BY <1>2
  <2>b. b = SubSeq(e, m, l) OBVIOUS
  <2> HIDE DEF b, m, l
  <2>1. /\ b \in Seq(InbBytes) /\ Len(b) = l - m + 1
        /\ \A k \in 1 .. l - m + 1 : b[k] = e[m + k - 1]
    <3>1. /\ SubSeq(e, m, l) \in Seq(InbBytes) /\ Len(SubSeq(e, m, l)) = l - m + 1
          /\ \A k \in 1 .. l - m + 1 : SubSeq(e, m, l)[k] = e[m + k - 1]
      BY <1>e, <2>0, InbPiece, Zenon
    <3>. QED BY <2>b, <3>1
  <2>. QED BY <1>2, <2>0, <2>1
<1>r. r = d \o b BY <1>2 DEF InsertAt
<1> HIDE DEF a, b, r
<1>d. /\ d \in Seq(InbBytes) /\ Len(d) = i
      /\ \A k \in 1 .. i - 1 : d[k] = e[k]
      /\ d[i] = c
  <2>1. i - 1 \in Nat /\ (i - 1) + 1 = i BY <1>2
  <2>2. <<c>> \in Seq(InbBytes) /\ Len(<<c>>) = 1 /\ <<c>>[1] = c BY <1>c
  <2>3. /\ d \in Seq(InbBytes) /\ Len(d) = (i - 1) + 1
        /\ \A k \in 1 .. i - 1 : d[k] = a[k]
        /\ \A k \in 1 .. 1 : d[(i - 1) + k] = <<c>>[k]
    BY <1>a, <2>1, <2>2, InbJoin
  <2> HIDE DEF d
  <2>4. d[(i - 1) + 1] = c BY <2>2, <2>3
  <2>. QED BY <1>a, <2>1, <2>3, <2>4
<1> HIDE DEF d
<1>3. /\ r \in Seq(InbBytes) /\ DOMAIN r = 1 .. 8
      /\ \A k \in 1 .. 8 : /\ k < i => r[k] = e[k]
                           /\ k = i => r[k] = c
                           /\ k > i => r[k] = e[k - 1]
  <2>1. i \in Nat /\ i + (8 - i) = 8 BY <1>2
  <2>2. /\ r \in Seq(InbBytes) /\ DOMAIN r = 1 .. i + (8 - i)
        /\ \A k \in 1 .. i : r[k] = d[k]
        /\ \A k \in 1 .. 8 - i : r[i + k] = b[k]
    <3> DEFINE l == Len(d)
    <3>l. l \in Nat /\ l = i BY <1>d, <2>1
    <3>d. d \in Seq(InbBytes) /\ Len(d) = l /\ b \in Seq(InbBytes) BY <1>b, <1>d
    <3> HIDE DEF l
    <3>j. /\ r \in Seq(InbBytes) /\ DOMAIN r = 1 .. l + Len(b)
          /\ \A k \in 1 .. l : r[k] = d[k]
          /\ \A k \in 1 .. Len(b) : r[l + k] = b[k]
      <4>1. /\ d \o b \in Seq(InbBytes) /\ DOMAIN (d \o b) = 1 .. l + Len(b)
            /\ \A k \in 1 .. l : (d \o b)[k] = d[k]
            /\ \A k \in 1 .. Len(b) : (d \o b)[l + k] = b[k]
        BY <3>d, <3>l, InbJoin, Zenon
      <4>. QED BY <1>r, <4>1
    <3>. QED BY <1>b, <3>j, <3>l
  <2>3. ASSUME NEW k \in 1 .. 8, k > i PROVE r[k] = e[k - 1]
    <3>1. k - i \in 1 .. 8 - i /\ i + (k - i) = k /\ i + (k - i) - 1 = k - 1 BY <1>2, <2>3
    <3>2. r[i + (k - i)] = b[k - i] BY <2>2, <3>1
    <3>3. b[k - i] = e[i + (k - i) - 1] BY <1>b, <3>1
    <3>. QED BY <3>1, <3>2, <3>3
  <2>4. ASSUME NEW k \in 1 .. 8, k < i PROVE r[k] = e[k]
    <3>1. k \in 1 .. i - 1 /\ k \in 1 .. i BY <1>2, <2>4
    <3>. QED BY <1>d, <2>2, <3>1
  <2>5. r[i] = c
    <3>1. i \in 1 .. i BY <1>2
    <3>. QED BY <1>d, <2>2, <3>1
  <2>. QED BY <2>1, <2>2, <2>3, <2>4, <2>5
<1>x. ASSUME NEW k \in 1 .. 8, r[k][1] > 0
      PROVE  \E x \in 1 .. 7 : r[k] = e[x] /\ x = (IF k < i THEN k ELSE k - 1)
  <2>1. k # i BY <1>3, <1>c, <1>x
  <2>. QED BY <1>2, <1>3, <2>1
<1>4. InbOrdered(r)
  <2>1. ASSUME NEW j \in 1 .. 8, NEW k \in 1 .. 8, j < k, r[j][1] > 0, r[k][1] > 0
        PROVE  InbBefore(r[j], r[k])
    <3>1. PICK x \in 1 .. 7 : r[j] = e[x] /\ x = (IF j < i THEN j ELSE j - 1) BY <1>x, <2>1
    <3>2. PICK y \in 1 .. 7 : r[k] = e[y] /\ y = (IF k < i THEN k ELSE k - 1) BY <1>x, <2>1
    <3>3. j # i /\ k # i
      <4>1. j = i => r[j] = c BY <1>3
      <4>2. k = i => r[k] = c BY <1>3
      <4>. QED BY <1>c, <2>1, <4>1, <4>2
    <3>4. x < y BY <1>2, <2>1, <3>1, <3>2, <3>3
    <3>. QED BY <1>1, <1>2, <2>1, <3>1, <3>2, <3>4 DEF InbPart, InbOrdered
  <2>. QED BY <1>3, <2>1 DEF InbOrdered
<1>5. \A k \in DOMAIN r : r[k][1] > 0 => r[k][1] = n /\ InbAbs(r[k][2]) <= 4
  <2>1. ASSUME NEW k \in 1 .. 8, r[k][1] > 0 PROVE r[k][1] = n /\ InbAbs(r[k][2]) <= 4
    <3>1. PICK x \in DOMAIN e : r[k] = e[x] BY <1>2, <1>x, <2>1
    <3>. QED BY <1>1, <2>1, <3>1 DEF InbPart
  <2>. QED BY <1>3, <2>1
<1>. QED BY <1>3, <1>4, <1>5 DEF InbPart, r, e

-----------------------------------------------------------------------------
\* A sequence without its first element.
LEMMA SeqTail ==
    ASSUME NEW S, NEW q \in Seq(S), q # <<>>
    PROVE  /\ Tail(q) \in Seq(S) /\ Head(q) = q[1] /\ q[1] \in S /\ 1 \in DOMAIN q
           /\ DOMAIN q = 1 .. Len(q) /\ Len(q) \in Nat
           /\ DOMAIN Tail(q) = 1 .. Len(q) - 1
           /\ \A k \in DOMAIN Tail(q) : k + 1 \in DOMAIN q /\ Tail(q)[k] = q[k + 1]
OBVIOUS

\* A sequence with one more element.
LEMMA SeqMore ==
    ASSUME NEW S, NEW q \in Seq(S), NEW e \in S
    PROVE  /\ Append(q, e) \in Seq(S) /\ Len(q) \in Nat
           /\ DOMAIN q = 1 .. Len(q) /\ DOMAIN Append(q, e) = 1 .. Len(q) + 1
           /\ \A k \in DOMAIN q : Append(q, e)[k] = q[k]
           /\ Append(q, e)[Len(q) + 1] = e
OBVIOUS

-----------------------------------------------------------------------------
\* What is sent later comes behind.
LEMMA InbLonger ==
    ASSUME NEW q \in Seq(InbBytes), NEW r \in Seq(InbBytes), Len(q) <= Len(r),
           \A k \in 1 .. Len(q) : r[k] = q[k],
           NEW p, NEW g, NEW n, InbComes(q, p, g, n)
    PROVE  InbComes(r, p, g, n)
<1>1. Len(q) \in Nat /\ Len(r) \in Nat OBVIOUS
<1>2. ASSUME InbAhead(q, n) PROVE InbAhead(r, n)
  <2>1. PICK d \in Nat :
        /\ d + 7 <= Len(q) /\ q[d + 1] = Flag /\ q[d + 2] = <<n, 1>> /\ q[d + 3] = Esc
        /\ q[d + 4] = <<n, -2>> /\ q[d + 5] = <<n, 3>> /\ q[d + 6] = <<n, 4>>
        /\ q[d + 7] = Flag
    BY <1>2 DEF InbAhead
  <2>a. d + 7 <= Len(q) BY <2>1
  <2>2. /\ d + 1 \in 1 .. Len(q) /\ d + 2 \in 1 .. Len(q) /\ d + 3 \in 1 .. Len(q)
        /\ d + 4 \in 1 .. Len(q) /\ d + 5 \in 1 .. Len(q) /\ d + 6 \in 1 .. Len(q)
        /\ d + 7 \in 1 .. Len(q) /\ d + 7 <= Len(r)
    BY <1>1, <2>a
  <2>. QED BY <2>1, <2>2 DEF InbAhead
<1>3. /\ InbRest6(q) => InbRest6(r) /\ (InbRest5(q, n) => InbRest5(r, n))
      /\ InbRest4(q, n) => InbRest4(r, n)
      /\ InbRest5(q, n) => InbRest5(r, n)
  BY <1>1 DEF InbRest4, InbRest5, InbRest6
<1>4. /\ InbRest3(q, n) => InbRest3(r, n)
      /\ InbRest2(q, n) => InbRest2(r, n)
      /\ InbRest1(q, n) => InbRest1(r, n)
  <2>1. InbRest3(q, n) => InbRest3(r, n) BY <1>1 DEF InbRest3
  <2>2. InbRest2(q, n) => InbRest2(r, n) BY <1>1 DEF InbRest2
  <2>3. InbRest1(q, n) => InbRest1(r, n) BY <1>1 DEF InbRest1
  <2>. QED BY <2>1, <2>2, <2>3
<1>5. InbWithin(q, p, n) => InbWithin(r, p, n) BY <1>3, <1>4 DEF InbWithin
<1>. QED BY <1>2, <1>5 DEF InbComes

\* A frame that is sent whole comes.
LEMMA InbSentComes ==
    ASSUME NEW q \in Seq(InbBytes), NEW n \in Nat, n >= 1
    PROVE  InbAhead(q \o Encoded(n), n)
<1> DEFINE e == Encoded(n)
           d == Len(q)
           r == q \o e
<1>1. /\ e \in Seq(InbBytes) /\ Len(e) = 7
      /\ e[1] = Flag /\ e[2] = <<n, 1>> /\ e[3] = Esc /\ e[4] = <<n, -2>> /\ e[5] = <<n, 3>>
      /\ e[6] = <<n, 4>> /\ e[7] = Flag
  BY InbEncoded
<1>2. d \in Nat /\ Len(q) = d OBVIOUS
<1> HIDE DEF e, d
<1>j. Len(r) = d + Len(e) /\ \A k \in 1 .. Len(e) : r[d + k] = e[k]
  <2>1. e \in Seq(InbBytes) BY <1>1
  <2>. QED BY <1>2, <2>1, InbJoin
<1> HIDE DEF r
<1>3. Len(r) = d + 7 /\ \A k \in 1 .. 7 : r[d + k] = e[k] BY <1>1, <1>j
<1>4. /\ r[d + 1] = e[1] /\ r[d + 2] = e[2] /\ r[d + 3] = e[3] /\ r[d + 4] = e[4]
      /\ r[d + 5] = e[5] /\ r[d + 6] = e[6] /\ r[d + 7] = e[7]
  BY <1>3
<1>5. d + 7 <= Len(r) BY <1>2, <1>3
<1>6. InbAhead(r, n) BY <1>1, <1>2, <1>4, <1>5 DEF InbAhead
<1>. QED BY <1>6 DEF r, e

\* A frame is sent, whole or not.
LEMMA InbSendKeeps ==
    ASSUME InbInv, NEW e, InbPart(e, sentN + 1), line' = line \o e, sentN' = sentN + 1,
           hurt \subseteq hurt', sentN + 1 \in hurt' \/ e = Encoded(sentN + 1),
           UNCHANGED <<inPump, got>>
    PROVE  InbInv'
<1> DEFINE n == sentN + 1
           r == line \o e
           l == Len(line)
<1>0. InbTypes BY DEF InbInv
<1>1. line \in Seq(InbBytes) /\ sentN \in Nat /\ e \in Seq(InbBytes) /\ l \in Nat
  BY <1>0 DEF InbTypes, InbPart
<1>2. /\ r \in Seq(InbBytes) /\ Len(r) = l + Len(e) /\ Len(e) \in Nat
      /\ DOMAIN r = 1 .. l + Len(e)
      /\ \A k \in 1 .. l : r[k] = line[k]
      /\ \A k \in 1 .. Len(e) : r[l + k] = e[k]
  BY <1>1, InbJoin
<1>3. DOMAIN line = 1 .. l /\ DOMAIN e = 1 .. Len(e) BY <1>1
<1>l. line' = r OBVIOUS
<1> HIDE DEF r, l
<1>t. InbTypes' BY <1>0, <1>1, <1>2, <1>l DEF InbTypes
<1>4. ASSUME NEW k \in DOMAIN r, r[k][1] > 0
      PROVE  \/ k \in DOMAIN line /\ r[k] = line[k]
             \/ k - l \in DOMAIN e /\ k \notin DOMAIN line /\ r[k] = e[k - l]
  <2>1. CASE k \in DOMAIN line BY <1>2, <1>3, <2>1
  <2>2. CASE k \notin DOMAIN line
    <3>1. k - l \in 1 .. Len(e) /\ l + (k - l) = k BY <1>1, <1>2, <1>3, <2>2
    <3>2. r[l + (k - l)] = e[k - l] BY <1>2, <3>1
    <3>. QED BY <1>3, <2>2, <3>1, <3>2
  <2>. QED BY <2>1, <2>2
<1>o. /\ \A k \in DOMAIN line : line[k][1] > 0 => line[k][1] <= sentN /\ InbAbs(line[k][2]) <= 4
      /\ \A k \in DOMAIN e : e[k][1] > 0 => e[k][1] = n /\ InbAbs(e[k][2]) <= 4
      /\ InbOrdered(line) /\ InbOrdered(e)
  BY DEF InbInv, InbLine, InbPart
<1>b. \A k \in DOMAIN line : line[k][1] \in Int
  <2>1. \A k \in DOMAIN line : line[k] \in InbBytes BY <1>1
  <2>. QED BY <2>1, InbByteParts
<1>5. InbLine(r, n)
  <2>1. ASSUME NEW j \in DOMAIN r, NEW k \in DOMAIN r, j < k, r[j][1] > 0, r[k][1] > 0
        PROVE  InbBefore(r[j], r[k])
    <3>1. CASE k \in DOMAIN line
      <4>1. j \in DOMAIN line BY <1>1, <1>2, <1>3, <2>1, <3>1
      <4>2. r[j] = line[j] /\ r[k] = line[k] BY <1>2, <1>3, <3>1, <4>1
      <4>. QED BY <1>o, <2>1, <3>1, <4>1, <4>2 DEF InbOrdered
    <3>2. CASE j \in DOMAIN line /\ k \notin DOMAIN line
      <4>1. r[j] = line[j] /\ r[k] = e[k - l] /\ k - l \in DOMAIN e BY <1>2, <1>3, <1>4, <2>1, <3>2
      <4>2. r[j][1] \in Int /\ r[j][1] <= sentN /\ r[k][1] = n BY <1>b, <1>o, <2>1, <3>2, <4>1
      <4>3. r[j][1] < r[k][1] BY <1>1, <4>2
      <4>. QED BY <4>3 DEF InbBefore
    <3>3. CASE j \notin DOMAIN line /\ k \notin DOMAIN line
      <4>1. r[j] = e[j - l] /\ r[k] = e[k - l] /\ j - l \in DOMAIN e /\ k - l \in DOMAIN e
        BY <1>4, <2>1, <3>3
      <4>2. j - l < k - l BY <1>1, <1>2, <2>1
      <4>. QED BY <1>o, <2>1, <4>1, <4>2 DEF InbOrdered
    <3>. QED BY <3>1, <3>2, <3>3
  <2>2. ASSUME NEW k \in DOMAIN r, r[k][1] > 0 PROVE r[k][1] <= n /\ InbAbs(r[k][2]) <= 4
    <3>1. CASE k \in DOMAIN line /\ r[k] = line[k]
      <4>1. r[k][1] \in Int /\ r[k][1] <= sentN /\ InbAbs(r[k][2]) <= 4 BY <1>b, <1>o, <2>2, <3>1
      <4>. QED BY <1>1, <4>1
    <3>2. CASE k - l \in DOMAIN e /\ r[k] = e[k - l] BY <1>1, <1>o, <2>2, <3>2
    <3>. QED BY <1>4, <2>2, <3>1, <3>2
  <2>. QED BY <2>1, <2>2 DEF InbLine, InbOrdered
<1>g. /\ \A i \in DOMAIN got : got[i] \in 1 .. sentN
      /\ \A m \in DOMAIN inPump.frame : inPump.frame[m][1] > 0 => inPump.frame[m][1] \in Int
  <2>1. \A m \in DOMAIN inPump.frame : inPump.frame[m] \in InbBytes BY <1>0 DEF InbTypes
  <2>. QED BY <2>1, InbByteParts DEF InbInv, InbGot
<1>6. InbOlder(got, r)
  <2>1. ASSUME NEW i \in DOMAIN got, NEW k \in DOMAIN r, r[k][1] > 0 PROVE got[i] < r[k][1]
    <3>1. CASE k \in DOMAIN line /\ r[k] = line[k] BY <2>1, <3>1 DEF InbInv, InbOlder
    <3>2. CASE k - l \in DOMAIN e /\ r[k] = e[k - l]
      <4>1. r[k][1] = n BY <1>o, <2>1, <3>2
      <4>. QED BY <1>1, <1>g, <4>1
    <3>. QED BY <1>4, <2>1, <3>1, <3>2
  <2>. QED BY <2>1 DEF InbOlder
<1>7. InbFrame(inPump.frame, r)
  <2> DEFINE f == inPump.frame
  <2>0. InbPumped(f, sentN) BY DEF InbInv
  <2>1. ASSUME NEW m \in DOMAIN f, NEW k \in DOMAIN r, f[m][1] > 0, r[k][1] > 0
        PROVE  InbBefore(f[m], r[k])
    <3>1. CASE k \in DOMAIN line /\ r[k] = line[k] BY <2>1, <3>1 DEF InbInv, InbFrame
    <3>2. CASE k - l \in DOMAIN e /\ r[k] = e[k - l]
      <4>1. r[k][1] = n BY <1>o, <2>1, <3>2
      <4>2. f[m][1] \in Int /\ f[m][1] <= sentN BY <1>g, <2>0, <2>1 DEF InbPumped
      <4>3. f[m][1] < r[k][1] BY <1>1, <4>1, <4>2
      <4>. QED BY <4>3 DEF InbBefore
    <3>. QED BY <1>4, <2>1, <3>1, <3>2
  <2>. QED BY <2>1 DEF InbFrame
<1>8. InbGot(got, n) /\ InbPumped(inPump.frame, n)
  <2>1. InbGot(got, sentN) /\ InbPumped(inPump.frame, sentN) BY DEF InbInv
  <2>2. \A i \in 1 .. sentN : i \in 1 .. n BY <1>1
  <2>3. InbGot(got, n) BY <2>1, <2>2 DEF InbGot
  <2>4. InbPumped(inPump.frame, n) BY <1>1, <1>g, <2>1 DEF InbPumped
  <2>. QED BY <2>3, <2>4
<1>9. ASSUME NEW i \in (1 .. n) \ hurt' PROVE InbComes(r, inPump, got, i)
  <2>1. CASE i = n
    <3>1. e = Encoded(n) BY <2>1
    <3>2. n \in Nat /\ n >= 1 BY <1>1
    <3>3. InbAhead(line \o Encoded(n), n)
      <4> HIDE DEF n
      <4>. QED BY <1>1, <3>2, InbSentComes
    <3>. QED BY <2>1, <3>1, <3>3 DEF InbComes, r
  <2>2. CASE i # n
    <3>1. i \in (1 .. sentN) \ hurt BY <1>1, <2>2
    <3>2. InbComes(line, inPump, got, i) BY <3>1 DEF InbInv
    <3>3. Len(line) <= Len(r) /\ \A k \in 1 .. Len(line) : r[k] = line[k] BY <1>1, <1>2 DEF l
    <3>. QED BY <1>1, <1>2, <3>2, <3>3, InbLonger
  <2>. QED BY <2>1, <2>2
<1>u. UNCHANGED <<inPump, got>> /\ InbOlder(got, inPump.frame) BY DEF InbInv
<1>. QED BY <1>5, <1>6, <1>7, <1>8, <1>9, <1>l, <1>t, <1>u DEF InbInv

\* NcpSendsFrame
LEMMA InbNcpSends ==
    ASSUME InbInv, NcpSendsFrame
    PROVE  InbInv'
<1> DEFINE n == sentN + 1
<1>1. sentN \in Nat /\ n \in Nat /\ n >= 1 BY DEF InbInv, InbTypes
<1>2. sentN' = n /\ UNCHANGED <<inPump, got>> BY DEF NcpSendsFrame
<1>3. CASE line' = line \o Encoded(sentN') /\ UNCHANGED hurt
  <2>1. InbPart(Encoded(n), n) BY <1>1, InbEncodedPart
  <2>. QED BY <1>2, <1>3, <2>1, InbSendKeeps
<1>4. CASE /\ hurt' = hurt \cup {sentN'}
           /\ \E i \in 1 .. Len(Encoded(sentN')) : line' = line \o RemoveAt(Encoded(sentN'), i)
  <2>1. PICK i \in 1 .. Len(Encoded(n)) : line' = line \o RemoveAt(Encoded(n), i) BY <1>2, <1>4
  <2>2. InbPart(RemoveAt(Encoded(n), i), n)
    <3> HIDE DEF n
    <3>. QED BY <1>1, InbRemoved
  <2>3. hurt \subseteq hurt' /\ n \in hurt' BY <1>2, <1>4
  <2>. QED BY <1>2, <2>1, <2>2, <2>3, InbSendKeeps
<1>5. CASE /\ hurt' = hurt \cup {sentN'}
           /\ \E i \in 1 .. Len(Encoded(sentN')) + 1, b \in {NoiseByte, Esc} :
                 line' = line \o InsertAt(Encoded(sentN'), i, b)
  <2>1. PICK i \in 1 .. Len(Encoded(n)) + 1, b \in {NoiseByte, Esc} :
            line' = line \o InsertAt(Encoded(n), i, b)
    BY <1>2, <1>5
  <2>2. InbPart(InsertAt(Encoded(n), i, b), n)
    <3> HIDE DEF n
    <3>. QED BY <1>1, InbInserted
  <2>3. hurt \subseteq hurt' /\ n \in hurt' BY <1>2, <1>5
  <2>. QED BY <1>2, <2>1, <2>2, <2>3, InbSendKeeps
<1>. QED BY <1>3, <1>4, <1>5 DEF NcpSendsFrame

-----------------------------------------------------------------------------
\* What is read: the line without its first byte.
LEMMA InbRead ==
    ASSUME InbInv, line # <<>>
    PROVE  LET b == line[1]
               r == Tail(line) IN
           /\ Head(line) = b /\ b \in InbBytes /\ b[1] \in Int /\ b[2] \in Int
           /\ r \in Seq(InbBytes) /\ Len(r) \in Nat /\ Len(line) = Len(r) + 1
           /\ DOMAIN line = 1 .. Len(r) + 1 /\ DOMAIN r = 1 .. Len(r)
           /\ \A k \in 1 .. Len(r) : r[k] = line[k + 1]
           /\ InbLine(r, sentN) /\ InbFrame(inPump.frame, r) /\ InbOlder(got, r)
           /\ b[1] > 0 => /\ b[1] <= sentN
                          /\ \A i \in DOMAIN got : got[i] < b[1]
                          /\ \A k \in DOMAIN r : r[k][1] > 0 => InbBefore(b, r[k])
<1> DEFINE b == line[1]
           r == Tail(line)
<1>0. line \in Seq(InbBytes) BY DEF InbInv, InbTypes
<1>1. /\ r \in Seq(InbBytes) /\ Head(line) = b /\ b \in InbBytes /\ 1 \in DOMAIN line
      /\ DOMAIN line = 1 .. Len(line) /\ Len(line) \in Nat /\ DOMAIN r = 1 .. Len(line) - 1
      /\ \A k \in DOMAIN r : k + 1 \in DOMAIN line /\ r[k] = line[k + 1]
  BY <1>0, SeqTail
<1> HIDE DEF b, r
<1>s. r \in Seq(InbBytes) BY <1>1
<1>2. Len(r) \in Nat /\ DOMAIN r = 1 .. Len(r) BY <1>s
<1>e. 1 .. Len(r) = 1 .. Len(line) - 1
  <2>1. DOMAIN r = 1 .. Len(line) - 1 BY <1>1
  <2>. QED BY <1>2, <2>1
<1>f. Len(line) \in Nat /\ Len(line) >= 1
  <2>1. Len(line) \in Nat /\ 1 \in 1 .. Len(line) BY <1>1
  <2>. QED BY <2>1
<1>3. Len(line) = Len(r) + 1 BY <1>2, <1>e, <1>f
<1>4. b[1] \in Int /\ b[2] \in Int BY <1>1, InbByteParts
<1>5. InbLine(line, sentN) /\ InbFrame(inPump.frame, line) /\ InbOlder(got, line) BY DEF InbInv
<1>6. InbLine(r, sentN)
  <2>1. \A j, k \in DOMAIN r : j < k => j + 1 < k + 1 BY <1>2
  <2>. QED BY <1>1, <1>5, <2>1 DEF InbLine, InbOrdered
<1>7. InbFrame(inPump.frame, r) /\ InbOlder(got, r) BY <1>1, <1>5 DEF InbFrame, InbOlder
<1>8. b[1] > 0 => /\ b[1] <= sentN
                  /\ \A i \in DOMAIN got : got[i] < b[1]
  BY <1>1, <1>5 DEF b, InbLine, InbOlder
<1>9. ASSUME b[1] > 0, NEW k \in DOMAIN r, r[k][1] > 0 PROVE InbBefore(b, r[k])
  <2>1. 1 < k + 1 BY <1>2
  <2>. QED BY <1>1, <1>5, <1>9, <2>1 DEF InbLine, InbOrdered, b
<1>10. \A k \in 1 .. Len(r) : r[k] = line[k + 1] BY <1>1, <1>2
<1>11. DOMAIN line = 1 .. Len(r) + 1 BY <1>1, <1>3
<1>. QED BY <1>1, <1>2, <1>3, <1>4, <1>6, <1>7, <1>8, <1>9, <1>10, <1>11 DEF b, r

\* A frame that is still on the line stays there, or its first byte is read.
LEMMA InbAheadRead ==
    ASSUME NEW q \in Seq(InbBytes), NEW r \in Seq(InbBytes), Len(q) = Len(r) + 1,
           \A k \in 1 .. Len(r) : r[k] = q[k + 1], NEW n, InbAhead(q, n)
    PROVE  InbAhead(r, n) \/ (q[1] = Flag /\ InbRest1(r, n))
<1>1. PICK d \in Nat :
        /\ d + 7 <= Len(q) /\ q[d + 1] = Flag /\ q[d + 2] = <<n, 1>> /\ q[d + 3] = Esc
        /\ q[d + 4] = <<n, -2>> /\ q[d + 5] = <<n, 3>> /\ q[d + 6] = <<n, 4>>
        /\ q[d + 7] = Flag
  BY DEF InbAhead
<1>2. d + 7 <= Len(q) /\ Len(r) \in Nat BY <1>1
<1>3. CASE d = 0
  <2>1. q[1] = Flag /\ q[2] = <<n, 1>> /\ q[3] = Esc /\ q[4] = <<n, -2>> /\ q[5] = <<n, 3>>
        /\ q[6] = <<n, 4>> /\ q[7] = Flag
    BY <1>1, <1>3
  <2>2. Len(r) >= 6 BY <1>2, <1>3
  <2>3. r[1] = q[2] /\ r[2] = q[3] /\ r[3] = q[4] /\ r[4] = q[5] /\ r[5] = q[6] /\ r[6] = q[7]
    BY <1>2, <2>2
  <2>. QED BY <2>1, <2>2, <2>3 DEF InbRest1
<1>4. CASE d # 0
  <2> DEFINE c == d - 1
  <2>1. c \in Nat /\ d = c + 1 /\ c + 7 <= Len(r) BY <1>2, <1>4
  <2> HIDE DEF c
  <2>2. /\ r[c + 1] = q[(c + 1) + 1] /\ r[c + 2] = q[(c + 2) + 1] /\ r[c + 3] = q[(c + 3) + 1]
        /\ r[c + 4] = q[(c + 4) + 1] /\ r[c + 5] = q[(c + 5) + 1] /\ r[c + 6] = q[(c + 6) + 1]
        /\ r[c + 7] = q[(c + 7) + 1]
    <3> DEFINE l == Len(r)
    <3>l. l \in Nat /\ c \in Nat /\ c + 7 <= l BY <1>2, <2>1
    <3> HIDE DEF l
    <3>1. c + 1 \in 1 .. l /\ c + 2 \in 1 .. l BY <3>l
    <3>2. c + 3 \in 1 .. l /\ c + 4 \in 1 .. l BY <3>l
    <3>3. c + 5 \in 1 .. l /\ c + 6 \in 1 .. l /\ c + 7 \in 1 .. l BY <3>l
    <3>. QED BY <3>1, <3>2, <3>3 DEF l
  <2>3. /\ (c + 1) + 1 = d + 1 /\ (c + 2) + 1 = d + 2 /\ (c + 3) + 1 = d + 3 /\ (c + 4) + 1 = d + 4
        /\ (c + 5) + 1 = d + 5 /\ (c + 6) + 1 = d + 6 /\ (c + 7) + 1 = d + 7
    BY <2>1
  <2>4. /\ r[c + 1] = Flag /\ r[c + 2] = <<n, 1>> /\ r[c + 3] = Esc
        /\ r[c + 4] = <<n, -2>> /\ r[c + 5] = <<n, 3>> /\ r[c + 6] = <<n, 4>>
        /\ r[c + 7] = Flag
    BY <1>1, <2>2, <2>3
  <2>. QED BY <2>1, <2>4 DEF InbAhead
<1>. QED BY <1>3, <1>4

\* The rest of a frame moves up.
LEMMA InbRestRead ==
    ASSUME NEW q \in Seq(InbBytes), NEW r \in Seq(InbBytes), Len(q) = Len(r) + 1,
           \A k \in 1 .. Len(r) : r[k] = q[k + 1], NEW n
    PROVE  /\ InbRest1(q, n) => q[1] = <<n, 1>> /\ InbRest2(r, n)
           /\ InbRest2(q, n) => q[1] = Esc /\ InbRest3(r, n)
           /\ InbRest3(q, n) => q[1] = <<n, -2>> /\ InbRest4(r, n)
           /\ InbRest4(q, n) => q[1] = <<n, 3>> /\ InbRest5(r, n)
           /\ InbRest5(q, n) => q[1] = <<n, 4>> /\ InbRest6(r)
<1>0. Len(r) \in Nat OBVIOUS
<1>1. ASSUME InbRest1(q, n) PROVE q[1] = <<n, 1>> /\ InbRest2(r, n)
  <2>1. Len(r) >= 5 BY <1>0, <1>1 DEF InbRest1
  <2>2. r[1] = q[2] /\ r[2] = q[3] /\ r[3] = q[4] /\ r[4] = q[5] /\ r[5] = q[6] BY <1>0, <2>1
  <2>. QED BY <1>1, <2>1, <2>2 DEF InbRest1, InbRest2
<1>2. ASSUME InbRest2(q, n) PROVE q[1] = Esc /\ InbRest3(r, n)
  <2>1. Len(r) >= 4 BY <1>0, <1>2 DEF InbRest2
  <2>2. r[1] = q[2] /\ r[2] = q[3] /\ r[3] = q[4] /\ r[4] = q[5] BY <1>0, <2>1
  <2>. QED BY <1>2, <2>1, <2>2 DEF InbRest2, InbRest3
<1>3. ASSUME InbRest3(q, n) PROVE q[1] = <<n, -2>> /\ InbRest4(r, n)
  <2>1. Len(r) >= 3 BY <1>0, <1>3 DEF InbRest3
  <2>2. r[1] = q[2] /\ r[2] = q[3] /\ r[3] = q[4] BY <1>0, <2>1
  <2>. QED BY <1>3, <2>1, <2>2 DEF InbRest3, InbRest4
<1>4. ASSUME InbRest4(q, n) PROVE q[1] = <<n, 3>> /\ InbRest5(r, n)
  <2>1. Len(r) >= 2 BY <1>0, <1>4 DEF InbRest4
  <2>2. r[1] = q[2] /\ r[2] = q[3] BY <1>0, <2>1
  <2>. QED BY <1>4, <2>1, <2>2 DEF InbRest4, InbRest5
<1>5. ASSUME InbRest5(q, n) PROVE q[1] = <<n, 4>> /\ InbRest6(r)
  <2>1. Len(r) >= 1 BY <1>0, <1>5 DEF InbRest5
  <2>2. r[1] = q[2] BY <1>0, <2>1
  <2>. QED BY <1>5, <2>1, <2>2 DEF InbRest5, InbRest6
<1>. QED BY <1>1, <1>2, <1>3, <1>4, <1>5

-----------------------------------------------------------------------------
\* A short sequence and one more.
LEMMA InbGrow ==
    ASSUME NEW a, NEW b, NEW c
    PROVE  /\ Append(<<a>>, b) = <<a, b>>
           /\ Append(<<a, b>>, c) = <<a, b, c>>
<1> DEFINE S == {a, b, c}
<1>0. a \in S /\ b \in S /\ c \in S OBVIOUS
<1> HIDE DEF S
<1>1. <<a>> \in Seq(S) /\ <<a, b>> \in Seq(S) /\ <<a, b, c>> \in Seq(S)
  BY <1>0
<1>2. Append(<<a>>, b) = <<a, b>>
  <2> DEFINE q == <<a>>
             t == <<a, b>>
  <2>1. q \in Seq(S) /\ Len(q) = 1 /\ DOMAIN q = 1 .. 1 /\ q[1] = a BY <1>1
  <2>2. t \in Seq(S) /\ Len(t) = 2 /\ t[1] = a /\ t[2] = b BY <1>1
  <2> HIDE DEF q, t
  <2>3. /\ Append(q, b) \in Seq(S) /\ DOMAIN Append(q, b) = 1 .. 2 /\ Len(Append(q, b)) = 2
        /\ Append(q, b)[1] = a /\ Append(q, b)[2] = b
    BY <1>0, <2>1, SeqMore, AppendProperties
  <2>4. \A i \in 1 .. 2 : Append(q, b)[i] = t[i] BY <2>2, <2>3
  <2>5. Append(q, b) = t BY <2>2, <2>3, <2>4, SeqEqual
  <2>. QED BY <2>5 DEF q, t
<1>3. Append(<<a, b>>, c) = <<a, b, c>>
  <2> DEFINE q == <<a, b>>
             t == <<a, b, c>>
  <2>1. q \in Seq(S) /\ Len(q) = 2 /\ DOMAIN q = 1 .. 2 /\ q[1] = a /\ q[2] = b BY <1>1
  <2>2. t \in Seq(S) /\ Len(t) = 3 /\ t[1] = a /\ t[2] = b /\ t[3] = c BY <1>1
  <2> HIDE DEF q, t
  <2>3. /\ Append(q, c) \in Seq(S) /\ Len(Append(q, c)) = 3
        /\ Append(q, c)[1] = a /\ Append(q, c)[2] = b /\ Append(q, c)[3] = c
    BY <1>0, <2>1, SeqMore, AppendProperties
  <2>4. \A i \in 1 .. 3 : Append(q, c)[i] = t[i] BY <2>2, <2>3
  <2>5. Append(q, c) = t BY <2>2, <2>3, <2>4, SeqEqual
  <2>. QED BY <2>5 DEF q, t
<1>. QED BY <1>2, <1>3

\* The fourth byte.
LEMMA InbFourth ==
    ASSUME NEW a, NEW b, NEW c, NEW d
    PROVE  Append(<<a, b, c>>, d) = <<a, b, c, d>>
<1> DEFINE S == {a, b, c, d}
<1>0. a \in S /\ b \in S /\ c \in S /\ d \in S OBVIOUS
<1> HIDE DEF S
<1>1. <<a, b, c>> \in Seq(S) /\ <<a, b, c, d>> \in Seq(S) BY <1>0
<1> DEFINE q == <<a, b, c>>
           t == <<a, b, c, d>>
<1>2. q \in Seq(S) /\ Len(q) = 3 /\ DOMAIN q = 1 .. 3 /\ q[1] = a /\ q[2] = b /\ q[3] = c BY <1>1
<1>3. t \in Seq(S) /\ Len(t) = 4 /\ t[1] = a /\ t[2] = b /\ t[3] = c /\ t[4] = d BY <1>1
<1> HIDE DEF q, t
<1>4. /\ Append(q, d) \in Seq(S) /\ Len(Append(q, d)) = 4
      /\ Append(q, d)[1] = a /\ Append(q, d)[2] = b /\ Append(q, d)[3] = c /\ Append(q, d)[4] = d
  BY <1>0, <1>2, SeqMore, AppendProperties
<1>5. \A i \in 1 .. 4 : Append(q, d)[i] = t[i] BY <1>3, <1>4
<1>6. Append(q, d) = t BY <1>3, <1>4, <1>5, SeqEqual
<1>. QED BY <1>6 DEF q, t

\* FrameByte: the frame in the pump grows by the byte that was read.
LEMMA InbByteKeeps ==
    ASSUME InbInv, line # <<>>, line' = Tail(line), UNCHANGED <<sentN, hurt>>,
           NEW c \in InbBytes, c[1] = line[1][1], InbAbs(c[2]) = InbAbs(line[1][2]),
           FrameByte(c), line[1] # Flag,
           \A n \in 1 .. sentN : InbWithin(line, inPump, n) => InbWithin(line', inPump', n)
    PROVE  InbInv'
<1> DEFINE b == line[1]
           r == Tail(line)
           f == inPump.frame
           g == inPump'.frame
<1>0. InbTypes BY DEF InbInv
<1>t. f \in Seq(InbBytes) /\ line \in Seq(InbBytes) /\ sentN \in Nat /\ got \in Seq(Nat)
  BY <1>0 DEF InbTypes
<1>1. /\ b[1] \in Int /\ b[2] \in Int
      /\ r \in Seq(InbBytes) /\ Len(r) \in Nat /\ Len(line) = Len(r) + 1
      /\ \A k \in 1 .. Len(r) : r[k] = line[k + 1]
      /\ InbLine(r, sentN) /\ InbFrame(f, r) /\ InbOlder(got, r)
      /\ b[1] > 0 => /\ b[1] <= sentN
                     /\ \A i \in DOMAIN got : got[i] < b[1]
                     /\ \A k \in DOMAIN r : r[k][1] > 0 => InbBefore(b, r[k])
  BY InbRead
<1>u. line' = r /\ UNCHANGED <<got, sentN, hurt>> BY DEF FrameByte
<1>p. /\ inPump'.at = "byte"
      /\ g = Append(f, c) \/ g = <<>>
      /\ inPump' \in [at : {"byte", "escaped"}, frame : Seq(InbBytes)]
  <2>1. CASE Len(f) < PumpCapacity
    <3>1. inPump' = [at |-> "byte", frame |-> Append(f, c)] BY <2>1 DEF FrameByte
    <3>2. Append(f, c) \in Seq(InbBytes) BY <1>t
    <3>. QED BY <3>1, <3>2
  <2>2. CASE ~(Len(f) < PumpCapacity)
    <3>1. inPump' = [at |-> "byte", frame |-> <<>>] BY <2>2 DEF FrameByte, FrameStart
    <3>. QED BY <3>1
  <2>. QED BY <2>1, <2>2
<1>g. \A k \in DOMAIN g : (k \in DOMAIN f /\ g[k] = f[k]) \/ g[k] = c
  <2>1. CASE g = Append(f, c)
    <3> DEFINE l == Len(f)
    <3>1. l \in Nat /\ DOMAIN f = 1 .. l BY <1>t
    <3>2. DOMAIN g = 1 .. l + 1 /\ g[l + 1] = c /\ \A k \in 1 .. l : g[k] = f[k]
      BY <1>t, <2>1, <3>1, SeqMore
    <3> HIDE DEF l, g
    <3>3. ASSUME NEW k \in DOMAIN g PROVE k \in 1 .. l \/ k = l + 1 BY <3>1, <3>2
    <3>. QED BY <3>1, <3>2, <3>3
  <2>2. CASE g = <<>>
    <3>1. DOMAIN g = {} BY <2>2
    <3>. QED BY <3>1
  <2>. QED BY <1>p, <2>1, <2>2
<1> HIDE DEF g
<1>2. InbTypes' BY <1>0, <1>1, <1>p, <1>t, <1>u DEF InbTypes
<1>3. InbPumped(g, sentN)
  <2>1. InbPumped(f, sentN) BY DEF InbInv
  <2>. QED BY <1>1, <1>g, <2>1 DEF InbPumped
<1>4. InbFrame(g, r)
  <2>1. ASSUME NEW k \in DOMAIN r, r[k][1] > 0, c[1] > 0 PROVE InbBefore(c, r[k])
    <3>1. InbBefore(b, r[k]) BY <1>1, <2>1
    <3>. QED BY <3>1 DEF InbBefore
  <2>. QED BY <1>1, <1>g, <2>1 DEF InbFrame
<1>5. InbOlder(got, g)
  <2>1. InbOlder(got, f) BY DEF InbInv
  <2>. QED BY <1>1, <1>g, <2>1 DEF InbOlder
<1>6. ASSUME NEW n \in (1 .. sentN) \ hurt PROVE InbComes(r, inPump', got, n)
  <2>1. InbComes(line, inPump, got, n) BY DEF InbInv
  <2>2. CASE InbAhead(line, n)
    <3>1. InbAhead(r, n) BY <1>1, <1>t, <2>2, InbAheadRead
    <3>. QED BY <3>1 DEF InbComes
  <2>3. CASE InbWithin(line, inPump, n)
    <3>1. InbWithin(r, inPump', n) BY <2>3
    <3>. QED BY <3>1 DEF InbComes
  <2>. QED BY <2>1, <2>2, <2>3 DEF InbComes
<1>7. InbGot(got, sentN) BY DEF InbInv
<1>. QED BY <1>1, <1>2, <1>3, <1>4, <1>5, <1>6, <1>7, <1>u DEF InbInv, g

\* A byte that is not escaped.
LEMMA InbPlainByte ==
    ASSUME InbInv, line # <<>>, line' = Tail(line), UNCHANGED <<sentN, hurt>>,
           line[1] # Flag, line[1] # Esc, inPump.at # "escaped", FrameByte(line[1])
    PROVE  InbInv'
<1> DEFINE b == line[1]
           r == Tail(line)
           f == inPump.frame
<1>1. /\ b \in InbBytes
      /\ r \in Seq(InbBytes) /\ Len(r) \in Nat /\ Len(line) = Len(r) + 1
      /\ \A k \in 1 .. Len(r) : r[k] = line[k + 1]
  BY InbRead
<1>t. f \in Seq(InbBytes) /\ line \in Seq(InbBytes) BY DEF InbInv, InbTypes
<1>2. ASSUME NEW n \in 1 .. sentN, InbWithin(line, inPump, n) PROVE InbWithin(r, inPump', n)
  <2>1. /\ InbRest1(line, n) => b = <<n, 1>> /\ InbRest2(r, n)
        /\ InbRest2(line, n) => b = Esc
        /\ InbRest4(line, n) => b = <<n, 3>> /\ InbRest5(r, n)
        /\ InbRest5(line, n) => b = <<n, 4>> /\ InbRest6(r)
    BY <1>1, <1>t, InbRestRead
  <2>2. InbRest6(line) => b = Flag BY DEF InbRest6
  <2>a. ASSUME Len(f) < 4
        PROVE  inPump'.at = "byte" /\ inPump'.frame = Append(f, b)
    <3>1. Len(f) < PumpCapacity BY <1>t, <2>a, PumpAssumption
    <3>. QED BY <3>1 DEF FrameByte
  <2>3. CASE InbRest1(line, n) /\ inPump.frame = <<>>
    <3>1. Append(f, b) = << <<n, 1>> >> /\ Len(f) < 4 BY <2>1, <2>3
    <3>. QED BY <2>1, <2>3, <2>a, <3>1 DEF InbWithin
  <2>4. CASE InbRest4(line, n) /\ inPump.frame = << <<n, 1>>, <<n, 2>> >>
    <3>1. Append(f, b) = << <<n, 1>>, <<n, 2>>, <<n, 3>> >> /\ Len(f) < 4
      <4> DEFINE x == <<n, 1>>
                 y == <<n, 2>>
                 z == <<n, 3>>
      <4>1. f = <<x, y>> /\ b = z BY <2>1, <2>4
      <4> HIDE DEF x, y, z
      <4>2. Append(<<x, y>>, z) = <<x, y, z>> BY InbGrow, Zenon
      <4>3. Len(<<x, y>>) < 4 OBVIOUS
      <4>. QED BY <4>1, <4>2, <4>3 DEF x, y, z
    <3>. QED BY <2>1, <2>4, <2>a, <3>1 DEF InbWithin
  <2>5. CASE InbRest5(line, n) /\ inPump.frame = << <<n, 1>>, <<n, 2>>, <<n, 3>> >>
    <3>1. Append(f, b) = << <<n, 1>>, <<n, 2>>, <<n, 3>>, <<n, 4>> >> /\ Len(f) < 4
      <4> DEFINE x == <<n, 1>>
                 y == <<n, 2>>
                 z == <<n, 3>>
                 w == <<n, 4>>
      <4>1. f = <<x, y, z>> /\ b = w BY <2>1, <2>5
      <4> HIDE DEF x, y, z, w
      <4>2. Append(<<x, y, z>>, w) = <<x, y, z, w>> BY InbFourth, Zenon
      <4>3. Len(<<x, y, z>>) < 4 OBVIOUS
      <4>. QED BY <4>1, <4>2, <4>3 DEF x, y, z, w
    <3>. QED BY <2>1, <2>5, <2>a, <3>1 DEF InbWithin
  <2>. QED BY <1>2, <2>1, <2>2, <2>3, <2>4, <2>5 DEF InbWithin
<1>. QED BY <1>1, <1>2, InbByteKeeps

\* A byte that is escaped.
LEMMA InbEscapedByte ==
    ASSUME InbInv, line # <<>>, line' = Tail(line), UNCHANGED <<sentN, hurt>>,
           line[1] # Flag, inPump.at = "escaped", FrameByte(Xform(line[1]))
    PROVE  InbInv'
<1> DEFINE b == line[1]
           c == Xform(b)
           r == Tail(line)
           f == inPump.frame
<1>1. /\ b \in InbBytes /\ b[1] \in Int /\ b[2] \in Int
      /\ r \in Seq(InbBytes) /\ Len(r) \in Nat /\ Len(line) = Len(r) + 1
      /\ \A k \in 1 .. Len(r) : r[k] = line[k + 1]
  BY InbRead
<1>t. f \in Seq(InbBytes) /\ line \in Seq(InbBytes) BY DEF InbInv, InbTypes
<1>m. \A i \in Int : -i \in Int /\ -i = 0 - i OBVIOUS
<1>c. c = <<b[1], 0 - b[2]>> BY <1>1, <1>m DEF Xform
<1>d. c \in InbBytes /\ c[1] = b[1] /\ c[2] = 0 - b[2] BY <1>1, <1>c DEF InbBytes
<1>e. InbAbs(c[2]) = InbAbs(b[2])
  <2>1. \A i \in Int : InbAbs(0 - i) = InbAbs(i) BY DEF InbAbs
  <2>. QED BY <1>1, <1>d, <2>1
<1> HIDE DEF c
<1>2. ASSUME NEW n \in 1 .. sentN, InbWithin(line, inPump, n) PROVE InbWithin(r, inPump', n)
  <2>1. InbRest3(line, n) => b = <<n, -2>> /\ InbRest4(r, n) BY <1>1, <1>t, InbRestRead
  <2>2. InbRest3(line, n) /\ f = << <<n, 1>> >> BY <1>2 DEF InbWithin
  <2>3. Len(f) < PumpCapacity BY <2>2, PumpAssumption
  <2>4. inPump'.at = "byte" /\ inPump'.frame = Append(f, c) BY <2>3 DEF FrameByte, c
  <2>5. c = <<n, 2>>
    <3>1. b[1] = n /\ b[2] = -2 BY <2>1, <2>2
    <3>2. 0 - b[2] = 2 BY <3>1
    <3>. QED BY <1>c, <3>1, <3>2
  <2>6. Append(f, c) = << <<n, 1>>, <<n, 2>> >> BY <2>2, <2>5, InbGrow
  <2>. QED BY <2>1, <2>2, <2>4, <2>6 DEF InbWithin
<1>3. FrameByte(c) BY DEF c
<1>. QED BY <1>1, <1>2, <1>3, <1>d, <1>e, InbByteKeeps

\* An escape.
LEMMA InbEscape ==
    ASSUME InbInv, line # <<>>, line' = Tail(line), UNCHANGED <<sentN, hurt, got>>,
           line[1] = Esc, inPump.at # "escaped", inPump' = [inPump EXCEPT !.at = "escaped"]
    PROVE  InbInv'
<1> DEFINE b == line[1]
           r == Tail(line)
           f == inPump.frame
<1>0. InbTypes BY DEF InbInv
<1>1. /\ r \in Seq(InbBytes) /\ Len(r) \in Nat /\ Len(line) = Len(r) + 1
      /\ \A k \in 1 .. Len(r) : r[k] = line[k + 1]
      /\ InbLine(r, sentN) /\ InbFrame(f, r) /\ InbOlder(got, r)
  BY InbRead
<1>t. inPump \in [at : {"byte", "escaped"}, frame : Seq(InbBytes)] /\ line \in Seq(InbBytes)
  BY <1>0 DEF InbTypes
<1>p. /\ inPump' \in [at : {"byte", "escaped"}, frame : Seq(InbBytes)]
      /\ inPump'.at = "escaped" /\ inPump'.frame = f
  BY <1>t
<1>f. Esc # Flag /\ \A i, j \in Int : i # 0 => <<i, j>> # Esc BY DEF Esc, Flag
<1>s. sentN \in Nat BY <1>0 DEF InbTypes
<1>2. ASSUME NEW n \in (1 .. sentN) \ hurt PROVE InbComes(r, inPump', got, n)
  <2>1. InbComes(line, inPump, got, n) BY DEF InbInv
  <2>2. CASE InbAhead(line, n)
    <3>1. InbAhead(r, n) BY <1>1, <1>f, <1>t, <2>2, InbAheadRead
    <3>. QED BY <3>1 DEF InbComes
  <2>3. CASE InbWithin(line, inPump, n)
    <3>1. /\ InbRest1(line, n) => b = <<n, 1>>
          /\ InbRest2(line, n) => InbRest3(r, n)
          /\ InbRest4(line, n) => b = <<n, 3>>
          /\ InbRest5(line, n) => b = <<n, 4>>
      BY <1>1, <1>t, InbRestRead
    <3>2. InbRest6(line) => b = Flag BY DEF InbRest6
    <3>3. n \in Int /\ n # 0 BY <1>s
    <3>4. InbRest2(line, n) /\ f = << <<n, 1>> >>
      BY <1>f, <2>3, <3>1, <3>2, <3>3 DEF InbWithin
    <3>5. InbWithin(r, inPump', n) BY <1>p, <3>1, <3>4 DEF InbWithin
    <3>. QED BY <3>5 DEF InbComes
  <2>. QED BY <2>1, <2>2, <2>3 DEF InbComes
<1>3. InbTypes' BY <1>0, <1>1, <1>p DEF InbTypes
<1>4. InbPumped(f, sentN) /\ InbOlder(got, f) /\ InbGot(got, sentN) BY DEF InbInv
<1>. QED BY <1>1, <1>2, <1>3, <1>4, <1>p DEF InbInv

\* A frame is in the pump, whole.
LEMMA InbWhole ==
    ASSUME NEW f, NEW n, f = << <<n, 1>>, <<n, 2>>, <<n, 3>>, <<n, 4>> >>
    PROVE  FrameCrcMatches(f, n) /\ Len(f) > 2
<1> DEFINE h == [i \in 1 .. 4 |-> <<n, i>>]
<1>1. DOMAIN f = 1 .. 4 /\ f[1] = <<n, 1>> /\ f[2] = <<n, 2>> /\ f[3] = <<n, 3>> /\ f[4] = <<n, 4>>
  OBVIOUS
<1>2. Len(f) > 2 OBVIOUS
<1>3. DOMAIN h = 1 .. 4 /\ h[1] = <<n, 1>> /\ h[2] = <<n, 2>> /\ h[3] = <<n, 3>> /\ h[4] = <<n, 4>>
  OBVIOUS
<1>4. f = [i \in DOMAIN f |-> f[i]] /\ h = [i \in DOMAIN h |-> h[i]] OBVIOUS
<1> HIDE DEF h
<1>5. \A i \in 1 .. 4 : f[i] = h[i] BY <1>1, <1>3
<1>6. f = h BY <1>1, <1>3, <1>4, <1>5
<1>. QED BY <1>2, <1>6 DEF FrameCrcMatches, h

\* A frame that is handed on is younger than those before it, and older than the line.
LEMMA InbAccepted ==
    ASSUME InbInv, NEW r, InbLine(r, sentN), InbFrame(inPump.frame, r), InbOlder(got, r),
           r \in Seq(InbBytes), NEW m \in 1 .. sentN, FrameCrcMatches(inPump.frame, m)
    PROVE  /\ Append(got, m) \in Seq(Nat)
           /\ InbOlder(Append(got, m), r) /\ InbGot(Append(got, m), sentN)
           /\ \A n : Contains(got, n) => Contains(Append(got, m), n)
           /\ Contains(Append(got, m), m)
<1> DEFINE f == inPump.frame
           h == Append(got, m)
           l == Len(got)
<1>1. DOMAIN f = 1 .. 4 /\ f[1] = <<m, 1>> /\ f[4] = <<m, 4>> BY DEF FrameCrcMatches
<1>2. got \in Seq(Nat) /\ sentN \in Nat BY DEF InbInv, InbTypes
<1>3. m \in Nat /\ m > 0 BY <1>2
<1>4. /\ h \in Seq(Nat) /\ l \in Nat /\ DOMAIN got = 1 .. l /\ DOMAIN h = 1 .. l + 1
      /\ \A k \in DOMAIN got : h[k] = got[k]
      /\ h[l + 1] = m
  BY <1>2, <1>3, SeqMore
<1>l. Len(h) = l + 1 BY <1>2, <1>3, AppendProperties
<1> HIDE DEF h
<1>5. ASSUME NEW k \in DOMAIN h PROVE (k \in DOMAIN got /\ h[k] = got[k]) \/ (k = l + 1 /\ h[k] = m)
  <2> HIDE DEF l
  <2>1. k \in 1 .. l \/ k = l + 1 BY <1>4
  <2>. QED BY <1>4, <2>1
<1>6. \A i \in DOMAIN got : got[i] < m
  <2>1. InbOlder(got, f) BY DEF InbInv
  <2>2. 1 \in DOMAIN f /\ f[1][1] = m BY <1>1
  <2>. QED BY <1>3, <2>1, <2>2 DEF InbOlder
<1>7. ASSUME NEW k \in DOMAIN r, r[k][1] > 0 PROVE m < r[k][1]
  <2>1. 4 \in DOMAIN f /\ f[4][1] = m /\ f[4][2] = 4 BY <1>1
  <2>2. InbBefore(f[4], r[k]) BY <1>3, <1>7, <2>1 DEF InbFrame
  <2>3. InbAbs(r[k][2]) <= 4 BY <1>7 DEF InbLine
  <2>4. r[k] \in InbBytes OBVIOUS
  <2>5. r[k][2] \in Int BY <2>4, InbByteParts
  <2>6. InbAbs(4) = 4 /\ InbAbs(r[k][2]) \in Int BY <2>5 DEF InbAbs
  <2>7. ~(InbAbs(f[4][2]) < InbAbs(r[k][2])) BY <2>1, <2>3, <2>6
  <2>. QED BY <2>1, <2>2, <2>7 DEF InbBefore
<1>8. InbOlder(h, r) BY <1>5, <1>7 DEF InbOlder
<1>9. InbGot(h, sentN)
  <2>1. InbGot(got, sentN) BY DEF InbInv
  <2>2. ASSUME NEW i \in DOMAIN h, NEW j \in DOMAIN h, i < j PROVE h[i] < h[j]
    <3>1. CASE j \in DOMAIN got /\ h[j] = got[j]
      <4>1. i \in DOMAIN got BY <1>4, <2>2, <3>1
      <4>. QED BY <1>4, <2>1, <2>2, <3>1, <4>1 DEF InbGot
    <3>2. CASE j = l + 1 /\ h[j] = m
      <4>1. i \in DOMAIN got BY <1>4, <2>2, <3>2
      <4>. QED BY <1>4, <1>6, <3>2, <4>1
    <3>. QED BY <1>5, <3>1, <3>2
  <2>3. \A i \in DOMAIN h : h[i] \in 1 .. sentN BY <1>5, <2>1 DEF InbGot
  <2>. QED BY <2>2, <2>3 DEF InbGot
<1>10. ASSUME NEW n, Contains(got, n) PROVE Contains(h, n)
  <2>1. PICK i \in 1 .. l : got[i] = n BY <1>10 DEF Contains
  <2>2. i \in 1 .. Len(h) /\ h[i] = n BY <1>4, <1>l, <2>1
  <2>. QED BY <2>2 DEF Contains
<1>11. Contains(h, m)
  <2>1. l + 1 \in 1 .. Len(h) BY <1>4, <1>l
  <2>. QED BY <1>4, <2>1 DEF Contains
<1>. QED BY <1>4, <1>8, <1>9, <1>10, <1>11 DEF h

\* FrameEnds
LEMMA InbFlag ==
    ASSUME InbInv, line # <<>>, line' = Tail(line), UNCHANGED <<sentN, hurt>>,
           line[1] = Flag, FrameEnds
    PROVE  InbInv'
<1> DEFINE r == Tail(line)
           f == inPump.frame
<1>0. InbTypes BY DEF InbInv
<1>t. line \in Seq(InbBytes) /\ sentN \in Nat /\ got \in Seq(Nat) BY <1>0 DEF InbTypes
<1>1. /\ r \in Seq(InbBytes) /\ Len(r) \in Nat /\ Len(line) = Len(r) + 1
      /\ \A k \in 1 .. Len(r) : r[k] = line[k + 1]
      /\ InbLine(r, sentN) /\ InbFrame(f, r) /\ InbOlder(got, r)
  BY InbRead
<1>p. inPump' = [at |-> "byte", frame |-> <<>>] BY DEF FrameEnds, FrameStart
<1>q. /\ inPump' \in [at : {"byte", "escaped"}, frame : Seq(InbBytes)]
      /\ inPump'.at = "byte" /\ inPump'.frame = <<>> /\ DOMAIN inPump'.frame = {}
  BY <1>p
<1>2. ASSUME NEW m \in 1 .. sentN, FrameCrcMatches(f, m), ~ForeignIid(m)
      PROVE  got' = Append(got, m)
  <2>1. Len(f) > 2 /\ f[1][1] = m
    <3>1. f = [i \in 1 .. 4 |-> <<m, i>>] BY <1>2 DEF FrameCrcMatches
    <3>2. f[1] = <<m, 1>> BY <3>1
    <3>d. DOMAIN f = 1 .. 4 BY <3>1
    <3>3. f \in Seq(InbBytes) BY <1>0 DEF InbTypes
    <3>4. Len(f) \in Nat BY <3>3
    <3>5. DOMAIN f = 1 .. Len(f) BY <3>3
    <3>6. Len(f) > 2
      <4> HIDE DEF f
      <4>1. 1 .. Len(f) = 1 .. 4 BY <3>5, <3>d
      <4>2. 4 \in 1 .. Len(f) BY <4>1
      <4>. QED BY <3>4, <4>2
    <3>. QED BY <3>2, <3>6
  <2>. QED BY <1>2, <2>1 DEF FrameEnds
<1>3. ASSUME ~\E m \in 1 .. sentN : FrameCrcMatches(f, m) /\ ~ForeignIid(m) PROVE got' = got
  BY <1>3 DEF FrameEnds
<1>4. /\ got' \in Seq(Nat) /\ InbOlder(got', r) /\ InbGot(got', sentN)
      /\ \A n : Contains(got, n) => Contains(got', n)
  <2>1. CASE \E m \in 1 .. sentN : FrameCrcMatches(f, m) /\ ~ForeignIid(m)
    <3>1. PICK m \in 1 .. sentN : FrameCrcMatches(f, m) /\ ~ForeignIid(m) BY <2>1
    <3>2. got' = Append(got, m) BY <1>2, <3>1
    <3>. QED BY <1>1, <3>1, <3>2, InbAccepted
  <2>2. CASE ~\E m \in 1 .. sentN : FrameCrcMatches(f, m) /\ ~ForeignIid(m)
    <3>1. got' = got BY <1>3, <2>2
    <3>. QED BY <1>1, <1>t, <3>1 DEF InbInv
  <2>. QED BY <2>1, <2>2
<1>f. Esc # Flag /\ \A i, j \in Int : i # 0 => <<i, j>> # Flag BY DEF Esc, Flag
<1>5. ASSUME NEW n \in (1 .. sentN) \ hurt PROVE InbComes(r, inPump', got', n)
  <2>1. InbComes(line, inPump, got, n) BY DEF InbInv
  <2>2. CASE Contains(got, n) BY <1>4, <2>2 DEF InbComes
  <2>3. CASE InbAhead(line, n)
    <3>1. InbAhead(r, n) \/ InbRest1(r, n) BY <1>1, <1>t, <2>3, InbAheadRead
    <3>. QED BY <1>q, <3>1 DEF InbComes, InbWithin
  <2>4. CASE InbWithin(line, inPump, n) /\ ~ForeignIid(n)
    <3>1. /\ InbRest1(line, n) => line[1] = <<n, 1>>
          /\ InbRest2(line, n) => line[1] = Esc
          /\ InbRest3(line, n) => line[1] = <<n, -2>>
          /\ InbRest4(line, n) => line[1] = <<n, 3>>
          /\ InbRest5(line, n) => line[1] = <<n, 4>>
      BY <1>1, <1>t, InbRestRead
    <3>2. n \in Int /\ n # 0 BY <1>t
    <3>3. /\ ~InbRest1(line, n) /\ ~InbRest2(line, n) /\ ~InbRest3(line, n)
          /\ ~InbRest4(line, n) /\ ~InbRest5(line, n)
      BY <1>f, <3>1, <3>2
    <3>4. f = << <<n, 1>>, <<n, 2>>, <<n, 3>>, <<n, 4>> >> BY <2>4, <3>3 DEF InbWithin
    <3>5. FrameCrcMatches(f, n) BY <3>4, InbWhole
    <3>6. got' = Append(got, n) BY <1>2, <2>4, <3>5
    <3>7. Contains(got', n) BY <1>1, <3>5, <3>6, InbAccepted
    <3>. QED BY <3>7 DEF InbComes
  <2>. QED BY <2>1, <2>2, <2>3, <2>4 DEF InbComes
<1>6. InbTypes' BY <1>1, <1>4, <1>q, <1>t DEF InbTypes
<1>7. InbPumped(inPump'.frame, sentN) /\ InbFrame(inPump'.frame, r) /\ InbOlder(got', inPump'.frame)
  BY <1>q DEF InbPumped, InbFrame, InbOlder
<1>. QED BY <1>1, <1>4, <1>5, <1>6, <1>7 DEF InbInv

\* ncp_to_driver_pump
LEMMA InbPumpReads ==
    ASSUME InbInv, ncp_to_driver_pump
    PROVE  InbInv'
<1>1. line # <<>> /\ line' = Tail(line) /\ ReadByte(line[1]) /\ UNCHANGED <<sentN, hurt>>
  <2>1. line # <<>> /\ line' = Tail(line) /\ ReadByte(Head(line)) /\ UNCHANGED <<sentN, hurt>>
    BY DEF ncp_to_driver_pump
  <2>2. Head(line) = line[1] BY <2>1, InbRead
  <2>. QED BY <2>1, <2>2
<1>2. CASE line[1] = Flag
  <2>1. FrameEnds BY <1>1, <1>2 DEF ReadByte
  <2>. QED BY <1>1, <1>2, <2>1, InbFlag
<1>3. CASE line[1] # Flag /\ inPump.at = "escaped"
  <2>1. FrameByte(Xform(line[1])) BY <1>1, <1>3 DEF ReadByte
  <2>. QED BY <1>1, <1>3, <2>1, InbEscapedByte
<1>4. CASE line[1] # Flag /\ inPump.at # "escaped" /\ line[1] = Esc
  <2>1. inPump' = [inPump EXCEPT !.at = "escaped"] /\ UNCHANGED got BY <1>1, <1>4 DEF ReadByte
  <2>. QED BY <1>1, <1>4, <2>1, InbEscape
<1>5. CASE line[1] # Flag /\ inPump.at # "escaped" /\ line[1] # Esc
  <2>1. FrameByte(line[1]) BY <1>1, <1>5 DEF ReadByte
  <2>. QED BY <1>1, <1>5, <2>1, InbPlainByte
<1>. QED BY <1>2, <1>3, <1>4, <1>5

\* Both pumps start over: what was on the line is lost.
LEMMA InbStartsOver ==
    ASSUME InbInv, PumpsStartOver
    PROVE  InbInv'
<1>1. /\ line' = <<>> /\ UNCHANGED <<sentN, got>>
      /\ hurt' = hurt \cup {n \in 1 .. sentN : ~Contains(got, n)}
      /\ inPump' = [at |-> "byte", frame |-> <<>>]
  BY DEF PumpsStartOver, FrameStart
<1>2. /\ inPump' \in [at : {"byte", "escaped"}, frame : Seq(InbBytes)]
      /\ inPump'.frame = <<>> /\ DOMAIN inPump'.frame = {}
      /\ line' \in Seq(InbBytes) /\ DOMAIN line' = {}
  BY <1>1
<1>3. InbTypes' BY <1>1, <1>2 DEF InbInv, InbTypes
<1>4. /\ InbLine(line', sentN') /\ InbPumped(inPump'.frame, sentN')
      /\ InbFrame(inPump'.frame, line') /\ InbOlder(got', line') /\ InbOlder(got', inPump'.frame)
  BY <1>2 DEF InbLine, InbOrdered, InbPumped, InbFrame, InbOlder
<1>5. InbGot(got', sentN') BY <1>1 DEF InbInv
<1>6. \A n \in (1 .. sentN') \ hurt' : Contains(got', n) BY <1>1
<1>. QED BY <1>3, <1>4, <1>5, <1>6 DEF InbInv, InbComes

\* The invariant holds at the start and through every step.
LEMMA InbHolds == PumpSpec => []InbInv
<1>1. PumpInit({"in", "out"}) => InbInv
  <2> SUFFICES ASSUME PumpInit({"in", "out"}) PROVE InbInv OBVIOUS
  <2>1. line = <<>> /\ sentN = 0 /\ inPump = [at |-> "byte", frame |-> <<>>] /\ got = <<>>
    BY DEF PumpInit, FrameStart
  <2>2. /\ inPump \in [at : {"byte", "escaped"}, frame : Seq(InbBytes)]
        /\ inPump.frame = <<>> /\ DOMAIN inPump.frame = {} /\ DOMAIN line = {} /\ DOMAIN got = {}
        /\ line \in Seq(InbBytes) /\ got \in Seq(Nat) /\ sentN \in Nat /\ 1 .. sentN = {}
    BY <2>1
  <2>3. InbTypes BY <2>2 DEF InbTypes
  <2>. QED BY <2>2, <2>3
       DEF InbInv, InbLine, InbOrdered, InbPumped, InbFrame, InbOlder, InbGot
<1>2. InbInv /\ [PumpNext]_pumpvars => InbInv'
  <2> SUFFICES ASSUME InbInv, [PumpNext]_pumpvars PROVE InbInv' OBVIOUS
  <2>1. CASE NcpSendsFrame BY <2>1, InbNcpSends
  <2>2. CASE ncp_to_driver_pump BY <2>2, InbPumpReads
  <2>3. CASE LineResets \/ Detaches \/ Attaches
    <3>1. PumpsStartOver BY <2>3 DEF LineResets, Detaches, Attaches
    <3>. QED BY <3>1, InbStartsOver
  <2>4. ASSUME UNCHANGED invars PROVE InbInv' BY <2>4 DEF InbInv, InbTypes, invars
  <2>5. CASE vprocess_send_command \/ OutboundStarts \/ TakeOutbound \/ WriteOutbound \/ WriteFails
    <3>1. UNCHANGED invars
      BY <2>5 DEF vprocess_send_command, OutboundStarts, TakeOutbound, WriteOutbound, WriteFails
    <3>. QED BY <2>4, <3>1
  <2>6. CASE UNCHANGED pumpvars
    <3>1. UNCHANGED invars BY <2>6 DEF pumpvars
    <3>. QED BY <2>4, <3>1
  <2>. QED BY <2>1, <2>2, <2>3, <2>5, <2>6 DEF PumpNext
<1>. QED BY <1>1, <1>2, PTL DEF PumpSpec

\* Noise costs the frames that it hits and no other: what ncp_to_driver_pump
\* hands to the daemon are frames that the NCP sent, in their order and each
\* once, and once the line has been read they are all that were not hit.
THEOREM NoiseIsContained == PumpSpec => []NoiseCostsOnlyItsFrames
<1>1. InbInv => NoiseCostsOnlyItsFrames
  <2> SUFFICES ASSUME InbInv PROVE NoiseCostsOnlyItsFrames OBVIOUS
  <2>1. InbGot(got, sentN) BY DEF InbInv
  <2>2. ASSUME line = <<>>, NEW n \in (1 .. sentN) \ hurt PROVE ForeignIid(n) \/ Contains(got, n)
    <3>1. Len(line) = 0 BY <2>2
    <3>2. ~InbAhead(line, n) BY <3>1 DEF InbAhead
    <3>3. ~InbWithin(line, inPump, n)
      BY <3>1 DEF InbWithin, InbRest1, InbRest2, InbRest3, InbRest4, InbRest5, InbRest6
    <3>. QED BY <3>2, <3>3 DEF InbInv, InbComes
  <2>. QED BY <2>1, <2>2 DEF NoiseCostsOnlyItsFrames, InbGot
<1>. QED BY <1>1, InbHolds, PTL

=============================================================================
