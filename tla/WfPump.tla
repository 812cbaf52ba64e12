------------------------------- MODULE WfPump -------------------------------
(***************************************************************************)
(* The two pumps of wfantund between the serial line and the daemon        *)
(* (src/src/ncp-spinel/SpinelNCPInstance-DataPump.cpp) and the slot,       *)
(* mOutboundBuffer with mOutboundCallback, through which a task hands a    *)
(* command to the outbound one (SpinelNCPInstance.h:61, SpinelNCPTask.cpp). *)
(*                                                                         *)
(* A byte on the line is Flag, Esc, NoiseByte or <<n, i>>, byte i of frame *)
(* n; a byte that was escaped is <<n, -i>>, and escaping it twice gives it *)
(* back, as the exclusive or does.  The last two bytes of a frame are its  *)
(* CRC, which only a whole frame matches.  The legacy interface, FLEN      *)
(* framing and the encrypter are not part of the build.                    *)
(***************************************************************************)
EXTENDS Integers, Sequences, SequencesExt

CONSTANTS
    PumpCapacity,   \* bytes that mInboundFrame holds
    MaxNcpFrames,   \* bound on the frames that the NCP sends
    MaxNoise,       \* bound on the bytes that are lost or added
    MaxCommands,    \* bound on the commands of tasks
    MaxPackets,     \* bound on the packets of the tunnel interface
    MaxPumpResets   \* bound on the resets of the line

\* A frame fits mInboundFrame.
ASSUME PumpAssumption == PumpCapacity \in Nat /\ PumpCapacity >= 4

VARIABLES
    line,      \* the bytes that the serial adapter has not delivered yet
    sentN,     \* how many frames the NCP sent
    hurt,      \* history: the frames that lost a byte, or have one too many
    inPump,    \* ncp_to_driver_pump: where it waits and its mInboundFrame
    got,       \* the frames handed to handle_ncp_spinel_callback, in order
    noise,     \* how many bytes were lost or added
    out,       \* mOutboundBuffer: the command or packet in it, or Nothing
    callback,  \* mOutboundCallback: the command that it belongs to, or 0
    outPump,   \* driver_to_ncp_pump: "wait", or the halves it still writes
    wire,      \* the last half of a frame that the NCP received
    whole,     \* history: the frames whose halves it received one after the other
    waiting,   \* packets that the host has yet to send into the tunnel interface
    commands,  \* the answers that each command has had so far
    pResets,   \* how often the line was reset
    side,      \* the direction that has traffic in this behaviour, "in" or "out"
    detached   \* ncp_state_is_detached_from_ncp(get_ncp_state())

invars == <<line, sentN, hurt, inPump, got, noise>>
outvars == <<out, callback, outPump, wire, whole, waiting, commands>>
pumpvars == <<invars, outvars, pResets, side, detached>>

Nothing == <<"", 0>>

Flag == <<0, 0>>
Esc == <<0, 1>>
NoiseByte == <<0, 2>>

\* hdlc_byte_needs_escape holds of the second byte of a frame.
Encoded(n) == <<Flag, <<n, 1>>, Esc, <<n, -2>>, <<n, 3>>, <<n, 4>>, Flag>>

\* byte ^ HDLC_ESCAPE_XFORM
Xform(b) == <<b[1], -b[2]>>

FrameCrcMatches_Skipped(frame, n) == Len(frame) > 2

\* hdlc_crc16 over the frame gives its last two bytes.
FrameCrcMatches(frame, n) == frame = [i \in 1 .. 4 |-> <<n, i>>]

\* Frames with another interface identifier than zero.
ForeignIid(n) == n % 3 = 0

FrameStart == [at |-> "byte", frame |-> <<>>]

(***************************************************************************)
(* The NCP sends a frame; the line loses a byte or adds one.               *)
(***************************************************************************)
NcpSendsFrame ==
    /\ ~detached /\ side = "in"
    /\ sentN < MaxNcpFrames
    /\ sentN' = sentN + 1
    /\ \/ line' = line \o Encoded(sentN') /\ UNCHANGED <<hurt, noise>>
       \/ /\ noise < MaxNoise
          /\ noise' = noise + 1
          /\ hurt' = hurt \cup {sentN'}
          /\ \/ \E i \in 1 .. Len(Encoded(sentN')) :
                   line' = line \o RemoveAt(Encoded(sentN'), i)
             \/ \E i \in 1 .. Len(Encoded(sentN')) + 1, b \in {NoiseByte, Esc} :
                   line' = line \o InsertAt(Encoded(sentN'), i, b)
    /\ UNCHANGED <<inPump, got, outvars, pResets, side, detached>>

(***************************************************************************)
(* The end of a frame: frames of up to two bytes, and those whose CRC does *)
(* not match, are dropped; a frame for another interface restarts the      *)
(* pump.                                                                   *)
(***************************************************************************)
FrameEnds ==
    /\ inPump' = FrameStart
    /\ got' = IF Len(inPump.frame) > 2
                 /\ \E n \in 1 .. sentN : FrameCrcMatches(inPump.frame, n) /\ ~ForeignIid(n)
              THEN Append(got, inPump.frame[1][1])
              ELSE got

\* A byte of the frame; one that does not fit restarts the pump.
FrameByte(b) ==
    /\ inPump' = IF Len(inPump.frame) < PumpCapacity
                 THEN [at |-> "byte", frame |-> Append(inPump.frame, b)]
                 ELSE FrameStart
    /\ UNCHANGED got

\* What the pump does with byte b: a flag ends the frame, an escaped flag too.
ReadByte(b) ==
    IF b = Flag THEN FrameEnds
    ELSE IF inPump.at = "escaped" THEN FrameByte(Xform(b))
    ELSE IF b = Esc THEN inPump' = [inPump EXCEPT !.at = "escaped"] /\ UNCHANGED got
    ELSE FrameByte(b)

\* SpinelNCPInstance::ncp_to_driver_pump, a byte at a time.
ncp_to_driver_pump ==
    /\ ~detached
    /\ line # <<>>
    /\ line' = Tail(line)
    /\ ReadByte(Head(line))
    /\ UNCHANGED <<sentN, hurt, noise, outvars, pResets, side, detached>>

(***************************************************************************)
(* A task that finds the slot empty puts its command there.  A task whose  *)
(* time is up while its command waits gives up and leaves it there: its    *)
(* callback still answers, and no one listens.                             *)
(***************************************************************************)
vprocess_send_command ==
    /\ side = "out"
    /\ Len(commands) < MaxCommands
    /\ out = Nothing /\ callback = 0
    /\ commands' = Append(commands, <<>>)
    /\ out' = <<"command", Len(commands')>>
    /\ callback' = Len(commands')
    /\ UNCHANGED <<invars, outPump, wire, whole, waiting, pResets, side, detached>>

\* mOutboundCallback(status), and mOutboundCallback.clear()
AnswerOutbound(status) ==
    /\ commands' = IF callback = 0 THEN commands ELSE [commands EXCEPT ![callback] = Append(@, status)]
    /\ callback' = 0

(***************************************************************************)
(* driver_to_ncp_pump starts over: a callback that is there is taken for a *)
(* stale one, even when a task has just put it there with its command.     *)
(* While the daemon is detached from the NCP the pump only fails it.       *)
(***************************************************************************)
OutboundStarts ==
    /\ outPump = "start"
    /\ IF detached
       THEN callback # 0 /\ AnswerOutbound("Failure") /\ UNCHANGED outPump
       ELSE AnswerOutbound("Canceled") /\ outPump' = "wait"
    /\ UNCHANGED <<invars, out, wire, whole, waiting, pResets, side, detached>>

(***************************************************************************)
(* The pump waits for a command or a packet.  A command comes first; a     *)
(* packet that should_forward_ncpbound_frame refuses is dropped.           *)
(***************************************************************************)
TakeOutbound ==
    /\ ~detached /\ outPump = "wait"
    /\ \/ out # Nothing /\ outPump' = "write1" /\ UNCHANGED <<out, waiting>>
       \/ /\ out = Nothing
          /\ side = "out" /\ waiting > 0
          /\ waiting' = waiting - 1
          /\ \/ UNCHANGED <<out, outPump>>
             \/ outPump' = "write1" /\ out' = <<"packet", waiting>>
    /\ UNCHANGED <<invars, callback, wire, whole, commands, pResets, side, detached>>

WriteOutbound_Early ==
    /\ ~detached /\ outPump \in {"write1", "write2"}
    /\ wire' = <<out, outPump>>
    /\ whole' = whole \cup {f \in {out} : wire = <<f, "write1">> /\ outPump = "write2"}
    /\ IF outPump = "write1"
       THEN outPump' = "write2" /\ AnswerOutbound("Ok") /\ UNCHANGED out
       ELSE out' = Nothing /\ outPump' = "wait" /\ UNCHANGED <<callback, commands>>
    /\ UNCHANGED <<invars, waiting, pResets, side, detached>>

\* The frame is written; the line may take it in two parts.
WriteOutbound ==
    /\ ~detached /\ outPump \in {"write1", "write2"}
    /\ wire' = <<out, outPump>>
    /\ whole' = whole \cup {f \in {out} : wire = <<f, "write1">> /\ outPump = "write2"}
    /\ IF outPump = "write1"
       THEN outPump' = "write2" /\ UNCHANGED <<out, callback, commands>>
       ELSE /\ out' = Nothing
            /\ AnswerOutbound("Ok")
            /\ outPump' = "wait"
    /\ UNCHANGED <<invars, waiting, pResets, side, detached>>

\* The line refuses the rest of the frame.
WriteFails ==
    /\ ~detached /\ outPump \in {"write1", "write2"}
    /\ pResets < MaxPumpResets
    /\ pResets' = pResets + 1
    /\ out' = Nothing
    /\ AnswerOutbound("Failure")
    /\ outPump' = "start"
    /\ UNCHANGED <<invars, wire, whole, waiting, side, detached>>

(***************************************************************************)
(* The serial line was reset, by itself (did_reset) or by hard_reset_ncp:  *)
(* both pumps start over, what was on the line is gone, and the slot keeps *)
(* what it holds.                                                          *)
(***************************************************************************)
PumpsStartOver ==
    /\ line' = <<>>
    /\ hurt' = hurt \cup {n \in 1 .. sentN : ~Contains(got, n)}
    /\ inPump' = FrameStart
    /\ outPump' = "start"
    /\ UNCHANGED <<sentN, got, noise, out, callback, wire, whole, waiting, commands>>

LineResets ==
    /\ ~detached
    /\ pResets < MaxPumpResets
    /\ pResets' = pResets + 1
    /\ PumpsStartOver
    /\ UNCHANGED <<side, detached>>

\* The daemon enters or leaves FAULT or UPGRADING.
Detaches ==
    /\ pResets < MaxPumpResets
    /\ pResets' = pResets + 1
    /\ detached' = TRUE
    /\ ~detached
    /\ PumpsStartOver
    /\ UNCHANGED side

Attaches ==
    /\ detached
    /\ detached' = FALSE
    /\ PumpsStartOver
    /\ UNCHANGED <<pResets, side>>

PumpInit(sides) ==
    /\ side \in sides
    /\ line = <<>> /\ sentN = 0 /\ hurt = {} /\ inPump = FrameStart /\ got = <<>> /\ noise = 0
    /\ out = Nothing /\ callback = 0 /\ outPump = "start" /\ wire = <<Nothing, "">> /\ whole = {} /\ waiting = MaxPackets
    /\ commands = <<>> /\ pResets = 0 /\ detached = FALSE

PumpNext ==
    \/ NcpSendsFrame \/ ncp_to_driver_pump \/ vprocess_send_command
    \/ OutboundStarts \/ TakeOutbound \/ WriteOutbound \/ WriteFails
    \/ LineResets \/ Detaches \/ Attaches

PumpSpec == PumpInit({"in", "out"}) /\ [][PumpNext]_pumpvars

(***************************************************************************)
(* Noise costs the frames that it hits and no other: the frames handed to  *)
(* the daemon are frames that the NCP sent, in their order and each once,  *)
(* and once the line has been read they are all of those that no byte was  *)
(* lost from or added to, whatever came before them on the line.           *)
(***************************************************************************)
NoiseCostsOnlyItsFrames ==
    /\ \A i, j \in DOMAIN got : i < j => got[i] < got[j]
    /\ \A i \in DOMAIN got : got[i] \in 1 .. sentN
    /\ line = <<>> =>
           \A n \in (1 .. sentN) \ hurt : ForeignIid(n) \/ Contains(got, n)

(***************************************************************************)
(* A command is answered at most once, and Ok means that the NCP got the   *)
(* whole frame in one piece: no packet, other command or restart of the    *)
(* pump came between its halves.                                           *)
(***************************************************************************)
OkMeansSentWhole ==
    \A c \in DOMAIN commands :
        /\ Len(commands[c]) <= 1
        /\ commands[c] = <<"Ok">> => <<"command", c>> \in whole

=============================================================================
