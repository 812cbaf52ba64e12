------------------------------- MODULE Crc16 -------------------------------
(***************************************************************************)
(* The CRC-16/X.25 of crates/spinel/src/hdlc.rs: the lookup table of the   *)
(* source, the update step and the CRC of a frame.  Only TLC's runs use    *)
(* this module.                                                            *)
(***************************************************************************)
EXTENDS Integers, Sequences, SequencesExt, Bitwise

CRC_INIT == \hFFFF

CRC_TABLE == <<
    \h0000, \h1189, \h2312, \h329B, \h4624, \h57AD, \h6536, \h74BF,
    \h8C48, \h9DC1, \hAF5A, \hBED3, \hCA6C, \hDBE5, \hE97E, \hF8F7,
    \h1081, \h0108, \h3393, \h221A, \h56A5, \h472C, \h75B7, \h643E,
    \h9CC9, \h8D40, \hBFDB, \hAE52, \hDAED, \hCB64, \hF9FF, \hE876,
    \h2102, \h308B, \h0210, \h1399, \h6726, \h76AF, \h4434, \h55BD,
    \hAD4A, \hBCC3, \h8E58, \h9FD1, \hEB6E, \hFAE7, \hC87C, \hD9F5,
    \h3183, \h200A, \h1291, \h0318, \h77A7, \h662E, \h54B5, \h453C,
    \hBDCB, \hAC42, \h9ED9, \h8F50, \hFBEF, \hEA66, \hD8FD, \hC974,
    \h4204, \h538D, \h6116, \h709F, \h0420, \h15A9, \h2732, \h36BB,
    \hCE4C, \hDFC5, \hED5E, \hFCD7, \h8868, \h99E1, \hAB7A, \hBAF3,
    \h5285, \h430C, \h7197, \h601E, \h14A1, \h0528, \h37B3, \h263A,
    \hDECD, \hCF44, \hFDDF, \hEC56, \h98E9, \h8960, \hBBFB, \hAA72,
    \h6306, \h728F, \h4014, \h519D, \h2522, \h34AB, \h0630, \h17B9,
    \hEF4E, \hFEC7, \hCC5C, \hDDD5, \hA96A, \hB8E3, \h8A78, \h9BF1,
    \h7387, \h620E, \h5095, \h411C, \h35A3, \h242A, \h16B1, \h0738,
    \hFFCF, \hEE46, \hDCDD, \hCD54, \hB9EB, \hA862, \h9AF9, \h8B70,
    \h8408, \h9581, \hA71A, \hB693, \hC22C, \hD3A5, \hE13E, \hF0B7,
    \h0840, \h19C9, \h2B52, \h3ADB, \h4E64, \h5FED, \h6D76, \h7CFF,
    \h9489, \h8500, \hB79B, \hA612, \hD2AD, \hC324, \hF1BF, \hE036,
    \h18C1, \h0948, \h3BD3, \h2A5A, \h5EE5, \h4F6C, \h7DF7, \h6C7E,
    \hA50A, \hB483, \h8618, \h9791, \hE32E, \hF2A7, \hC03C, \hD1B5,
    \h2942, \h38CB, \h0A50, \h1BD9, \h6F66, \h7EEF, \h4C74, \h5DFD,
    \hB58B, \hA402, \h9699, \h8710, \hF3AF, \hE226, \hD0BD, \hC134,
    \h39C3, \h284A, \h1AD1, \h0B58, \h7FE7, \h6E6E, \h5CF5, \h4D7C,
    \hC60C, \hD785, \hE51E, \hF497, \h8028, \h91A1, \hA33A, \hB2B3,
    \h4A44, \h5BCD, \h6956, \h78DF, \h0C60, \h1DE9, \h2F72, \h3EFB,
    \hD68D, \hC704, \hF59F, \hE416, \h90A9, \h8120, \hB3BB, \hA232,
    \h5AC5, \h4B4C, \h79D7, \h685E, \h1CE1, \h0D68, \h3FF3, \h2E7A,
    \hE70E, \hF687, \hC41C, \hD595, \hA12A, \hB0A3, \h8238, \h93B1,
    \h6B46, \h7ACF, \h4854, \h59DD, \h2D62, \h3CEB, \h0E70, \h1FF9,
    \hF78F, \hE606, \hD49D, \hC514, \hB1AB, \hA022, \h92B9, \h8330,
    \h7BC7, \h6A4E, \h58D5, \h495C, \h3DE3, \h2C6A, \h1EF1, \h0F78>>

\* crc16_update(): (crc >> 8) ^ CRC_TABLE[(crc ^ byte) & 0xFF].
crc16_update(crc, byte) ==
    (crc \div 256) ^^ CRC_TABLE[((crc % 256) ^^ byte) + 1]

\* The CRC of a frame with the final XOR, low byte first (to_le_bytes).
crc16(data) ==
    LET crc == FoldLeft(crc16_update, CRC_INIT, data) ^^ \hFFFF
    IN <<crc % 256, crc \div 256>>

\* Reference: one byte through the reflected polynomial 0x1021 (0x8408), bit
\* by bit.
ReflectedStep(crc, i) ==
    IF crc % 2 = 1 THEN (crc \div 2) ^^ \h8408 ELSE crc \div 2
Reflected(byte) == FoldLeft(ReflectedStep, byte, <<1, 2, 3, 4, 5, 6, 7, 8>>)

\* The table of the source is the reflected 0x1021 table, entry by entry.
ASSUME TableIsReflectedPolynomial ==
    \A byte \in 0 .. 255 : CRC_TABLE[byte + 1] = Reflected(byte)
=============================================================================
