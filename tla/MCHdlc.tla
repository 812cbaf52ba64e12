------------------------------- MODULE MCHdlc -------------------------------
(***************************************************************************)
(* Instances of Hdlc for TLC, with the bytes and the CRC of hdlc.rs.       *)
(***************************************************************************)
EXTENDS Hdlc, Crc16

MCByte == 0 .. 255
MCNeedsEscape == {\h7E, \h7D, \h11, \h13, \hF8}
MCEscapeXform(b) == b ^^ \h20
MCCrc(data) == crc16(data)

\* Two frames: an ordinary one, and one of nothing but bytes to escape.
MCFrames == {<<\h81, \h02>>, <<\h7E, \h7D>>}

\* Line errors: the two control bytes, an escaped flag, a byte that is
\* escaped on the wire and an ordinary one.
MCNoise == {\h7E, \h7D, \h5E, \hF8, \h02}
=============================================================================
