----------------------------- MODULE WfCapture -----------------------------
(***************************************************************************)
(* Packet capture in wfantund: the streams clients hand to the daemon      *)
(* (src/src/wfantund/Pcap.cpp) and the setting of the NCP that makes it    *)
(* send raw frames, which SpinelNCPInstance::process() keeps in step with  *)
(* them (src/src/ncp-spinel/SpinelNCPInstance.cpp).                        *)
(*                                                                         *)
(* The daemon compares the streams with mIsPcapInProgress, what it         *)
(* believes it told the NCP.  That belief has to survive, or be thrown     *)
(* away at, resets of the NCP, re-initialisations, lost commands and the   *)
(* moment the daemon leaves a network.                                     *)
(***************************************************************************)
EXTENDS Naturals, Sequences, WfTypes

CONSTANTS
    Readers,            \* descriptors that clients may hand over
    MaxCaptureFaults    \* resets of the NCP and commands it does not obey

VARIABLES
    streams,   \* mFDSet
    gone,      \* the readers that closed their end
    host,      \* what the daemon knows of the NCP, and its current task
    ncp,       \* the NCP's settings
    notice,    \* the NCP's reset notification is on its way
    faults     \* faults so far

capvars == <<streams, gone, host, ncp, notice, faults>>

Commands == {"raw_on", "raw_off", "if_up", "promiscuous", "promiscuous_off"}

is_enabled == streams # {}

-----------------------------------------------------------------------------
(* Streams.                                                                *)

\* insert_fd(): the file header is written first, and a stream that does
\* not take it is not added.
insert_fd(r) == streams' = IF r \in gone THEN streams ELSE streams \cup {r}

pcap_to_fd(r) ==
    /\ r \notin streams
    /\ insert_fd(r)
    /\ UNCHANGED <<gone, host, ncp, notice, faults>>

close_fd_set(S) == streams' = streams \ S

pcap_terminate ==
    /\ close_fd_set(streams)
    /\ UNCHANGED <<gone, host, ncp, notice, faults>>

\* A client ends (external).
ReaderLeaves(r) ==
    /\ r \notin gone
    /\ gone' = gone \cup {r}
    /\ UNCHANGED <<streams, host, ncp, notice, faults>>

\* Metadata that does not fit, or a transmitted frame too short for the
\* checksum that is cut off it, makes a packet that is written to nobody.
append_ppi_field(p) == p # "metadata too long"
append_payload(p) == p # "too short"

push_packet(p) ==
    IF append_ppi_field(p) /\ append_payload(p)
    THEN close_fd_set(streams \cap gone)
    ELSE streams' = streams

\* SPINEL_PROP_STREAM_RAW
RawFrame(p) ==
    /\ ncp.raw /\ is_enabled
    /\ push_packet(p)
    /\ UNCHANGED <<gone, host, ncp, notice, faults>>

\* PcapManager::process(): select() reports some of the streams whose
\* reader is gone, those whose kind of descriptor shows it.
pcap_process == \E S \in SUBSET (streams \cap gone) : close_fd_set(S)

-----------------------------------------------------------------------------
(* SpinelNCPInstance::process()                                            *)

Composed(x) ==
    IF ~x THEN <<"raw_off", "promiscuous_off">>
    ELSE IF ncp_state_is_joining_or_joined(host.state) THEN <<"raw_on", "if_up">>
    ELSE <<"raw_on", "if_up", "promiscuous">>

\* The part of process() after NCPInstanceBase::process(): x is what the
\* streams call for.
UpdateCapture(x) ==
    IF ~host.initializing /\ host.queue = <<>> /\ host.inProgress # x
    THEN [host EXCEPT !.inProgress = x, !.queue = Composed(x),
                      !.obeyed = TRUE, !.slipped = FALSE]
    ELSE host

Process ==
    /\ pcap_process
    /\ host' = UpdateCapture(streams' # {})
    /\ UNCHANGED <<gone, ncp, notice, faults>>

\* The NCP carries out the next command of the task (external)...
Obeys ==
    /\ host.queue # <<>>
    /\ LET c == Head(host.queue) IN
       ncp' = [raw |-> (ncp.raw \/ c = "raw_on") /\ c # "raw_off",
               promiscuous |-> (ncp.promiscuous \/ c = "promiscuous")
                                 /\ c # "promiscuous_off"]
    /\ host' = [host EXCEPT !.queue = Tail(@)]
    /\ UNCHANGED <<streams, gone, notice, faults>>

\* ...or refuses or never gets it: SpinelNCPTaskSendCommand goes on with
\* the next one whatever became of this one.
Disobeys ==
    /\ host.queue # <<>> /\ faults < MaxCaptureFaults
    /\ host' = [host EXCEPT !.queue = Tail(@), !.obeyed = FALSE]
    /\ faults' = faults + 1
    /\ UNCHANGED <<streams, gone, ncp, notice>>

-----------------------------------------------------------------------------
(* The life of the NCP.                                                    *)

\* The state changes the NCP's notifications cause, for the states a
\* capture is told apart in.
Moves ==
    {<<"OFFLINE", "ASSOCIATED">>, <<"OFFLINE", "CREDENTIALS_NEEDED">>,
     <<"CREDENTIALS_NEEDED", "ASSOCIATED">>, <<"CREDENTIALS_NEEDED", "OFFLINE">>,
     <<"CREDENTIALS_NEEDED", "COMMISSIONED">>, <<"COMMISSIONED", "OFFLINE">>,
     <<"COMMISSIONED", "ASSOCIATED">>, <<"ASSOCIATED", "ISOLATED">>,
     <<"ISOLATED", "ASSOCIATED">>, <<"ASSOCIATED", "OFFLINE">>,
     <<"ISOLATED", "OFFLINE">>}

\* Mutant of handle_ncp_state_change: the belief outlives the network.
handle_ncp_state_change_Keeps(s) == [host EXCEPT !.state = s]

\* The belief is dropped when the daemon leaves a network for OFFLINE.
\* slipped: it left it for COMMISSIONED, where the belief is kept.
handle_ncp_state_change(s) ==
    LET joined == ncp_state_is_joining_or_joined(host.state) IN
    [host EXCEPT !.state = s,
                 !.inProgress = @ /\ ~(joined /\ s = "OFFLINE"),
                 !.slipped = @ \/ (joined /\ s = "COMMISSIONED")]

StateChange ==
    /\ ~host.initializing
    /\ \E m \in Moves : m[1] = host.state /\ host' = handle_ncp_state_change(m[2])
    /\ UNCHANGED <<streams, gone, ncp, notice, faults>>

\* The NCP forgets its settings (external).
NcpResets ==
    /\ faults < MaxCaptureFaults
    /\ ncp' = [raw |-> FALSE, promiscuous |-> FALSE]
    /\ notice' = TRUE /\ faults' = faults + 1
    /\ UNCHANGED <<streams, gone, host>>

Reinitialized(q) ==
    [host EXCEPT !.initializing = TRUE, !.state = "UNINITIALIZED", !.queue = q]

\* SPINEL_PROP_LAST_STATUS with a reset code: the tasks are cancelled unless
\* the reset was expected.
NoticeReset ==
    /\ notice /\ notice' = FALSE
    /\ \E q \in {<<>>, host.queue} :
          host' = IF host.initializing THEN host ELSE Reinitialized(q)
    /\ UNCHANGED <<streams, gone, ncp, faults>>

\* The daemon starts over by itself, for instance for an NCP that
\* misbehaves; the NCP need not have been reset.
Reinitialize ==
    /\ ~host.initializing /\ faults < MaxCaptureFaults
    /\ host' = Reinitialized(<<>>) /\ faults' = faults + 1
    /\ UNCHANGED <<streams, gone, ncp, notice>>

\* vprocess_init(): a capture in progress is switched on again at once, and
\* at the end the belief is dropped whatever it was.
InitEnds ==
    /\ host.initializing
    /\ ncp' = [ncp EXCEPT !.raw = @ \/ host.inProgress]
    /\ \E s \in {"OFFLINE", "ASSOCIATED"} :
          host' = [host EXCEPT !.initializing = FALSE, !.inProgress = FALSE,
                               !.state = s]
    /\ UNCHANGED <<streams, gone, notice, faults>>

CaptureInit ==
    /\ streams = {} /\ gone = {} /\ notice = FALSE /\ faults = 0
    /\ host = [initializing |-> TRUE, state |-> "UNINITIALIZED",
               inProgress |-> FALSE, queue |-> <<>>, obeyed |-> TRUE,
               slipped |-> FALSE]
    /\ ncp = [raw |-> FALSE, promiscuous |-> FALSE]

CaptureNext(packets) ==
    \/ \E r \in Readers : pcap_to_fd(r) \/ ReaderLeaves(r)
    \/ pcap_terminate
    \/ \E p \in packets : RawFrame(p)
    \/ Process \/ Obeys \/ Disobeys
    \/ StateChange \/ NcpResets \/ NoticeReset \/ Reinitialize \/ InitEnds

CaptureSpec(packets) == CaptureInit /\ [][CaptureNext(packets)]_capvars

-----------------------------------------------------------------------------

\* Nothing is on its way between the daemon and the NCP.
Settled == ~host.initializing /\ host.queue = <<>> /\ ~notice

\* A capture the daemon believes to run does run: once its commands are
\* through and none was refused or lost, the NCP sends raw frames, and while
\* the daemon is OFFLINE it sniffs promiscuously, whatever resets,
\* re-initialisations and networks came between
\* (src/src/ncp-spinel/SpinelNCPInstance.cpp:7671, 7098).  A network left
\* through COMMISSIONED is the exception.
CaptureFollowsStreams ==
    Settled /\ host.inProgress /\ host.obeyed =>
        /\ ncp.raw
        /\ host.state = "OFFLINE" /\ ~host.slipped => ncp.promiscuous
=============================================================================
