----------------------------- MODULE WfUpgrade -----------------------------
(***************************************************************************)
(* Firmware upgrades of the NCP (src/src/wfantund/FirmwareUpgrade.cpp and  *)
(* its callers in NCPInstanceBase.cpp).  A helper process, forked before   *)
(* privileges are dropped, runs the upgrade command when it reads a "1"    *)
(* and writes the command's exit status back; another decides from the     *)
(* version whether an upgrade is required.  The daemon reads the status    *)
(* without blocking, in its main loop, and leaves the NCP alone meanwhile. *)
(***************************************************************************)
EXTENDS Naturals, Sequences, WfTypes

CONSTANTS
    MaxUpgrades,     \* upgrade commands that are run
    MaxUpgradeCalls  \* changes of Daemon:AutoFirmwareUpdate

VARIABLES
    fw,      \* FirmwareUpgrade, and the instance's part in an upgrade
    worker,  \* the upgrade helper, its socket and the commands it has run
    fwCalls  \* property changes so far

upvars == <<fw, worker, fwCalls>>

\* How a command ends: it exits with 0 or not, or a signal kills it.
Exits == {"ok", "failed", "killed"}
Status == {"ok", "failed", "EINVAL", "EINPROGRESS", "EBADF", "ECONNRESET"}

-----------------------------------------------------------------------------
(* FirmwareUpgrade.  f is fw, w is worker; each operation returns both.    *)

close_check_fd(f) == [f EXCEPT !.checkFD = FALSE]

\* An "X" is written before the descriptor is closed.
close_upgrade_fd(f, w) ==
    IF f.upgradeFD
    THEN [f |-> [f EXCEPT !.upgradeFD = FALSE],
          w |-> [w EXCEPT !.in = Append(@, "X"), !.out = <<>>]]
    ELSE [f |-> f, w |-> w]

close_fds(f, w) == close_upgrade_fd(close_check_fd(f), w)

\* verdict: what the check helper answers, if it answers at all.
is_firmware_upgrade_required(f, verdict) == f.version /\ f.checkFD /\ verdict

upgrade_firmware(f, w) ==
    IF f.mUpgradeStatus = "EINPROGRESS" THEN [f |-> f, w |-> w]
    ELSE IF ~f.upgradeFD \/ ~w.alive
    THEN [f |-> [f EXCEPT !.mUpgradeStatus = "EINVAL", !.asked = TRUE], w |-> w]
    ELSE [f |-> [f EXCEPT !.mUpgradeStatus = "EINPROGRESS", !.asked = TRUE],
          w |-> [w EXCEPT !.in = Append(@, "1")]]

\* NCPInstanceBase::upgrade_firmware(): a state detached from the NCP is
\* not left for UPGRADING, but the command is run all the same.
start_upgrade(f, w) ==
    upgrade_firmware(
        [f EXCEPT !.state = IF ncp_state_is_detached_from_ncp(@) THEN @
                            ELSE "UPGRADING"], w)

\* Without a need to upgrade both helpers are dismissed.
CheckAndUpgrade(f, w, verdict) ==
    IF is_firmware_upgrade_required(f, verdict) THEN start_upgrade(f, w)
    ELSE close_fds(f, w)

Upgrading(r) == fw' = r.f /\ worker' = r.w

-----------------------------------------------------------------------------
(* The callers.                                                            *)

\* set_ncp_version_string() in vprocess_init()
VersionArrives ==
    /\ fw.state = "UNINITIALIZED" /\ ~fw.version
    /\ fw.mUpgradeStatus # "EINPROGRESS"
    /\ \E verdict \in BOOLEAN :
         LET f == [fw EXCEPT !.version = TRUE] IN
         Upgrading(IF f.auto THEN CheckAndUpgrade(f, worker, verdict)
                   ELSE [f |-> f, w |-> worker])
    /\ Len(worker.runs) < MaxUpgrades
    /\ UNCHANGED fwCalls

InitializationEnds ==
    /\ fw.state = "UNINITIALIZED" /\ fw.version
    /\ fw.mUpgradeStatus # "EINPROGRESS"
    /\ \E s \in {"OFFLINE", "ASSOCIATED", "FAULT"} : fw' = [fw EXCEPT !.state = s]
    /\ UNCHANGED <<worker, fwCalls>>

\* reinitialize_ncp(), and vprocess_init() forgets the version.
Restart ==
    /\ fw.state \in {"OFFLINE", "ASSOCIATED"}
    /\ Len(worker.runs) < MaxUpgrades
    /\ fw' = [fw EXCEPT !.state = "UNINITIALIZED", !.version = FALSE]
    /\ UNCHANGED <<worker, fwCalls>>

set_prop_DaemonAutoFirmwareUpdate(on) ==
    /\ fwCalls < MaxUpgradeCalls /\ fwCalls' = fwCalls + 1
    /\ LET checks == on /\ ~fw.auto
           f == [fw EXCEPT !.auto = on] IN
       \/ /\ checks /\ fw.state = "FAULT"
          /\ Upgrading(start_upgrade(f, worker))
       \/ /\ checks /\ fw.state \notin {"FAULT", "UNINITIALIZED"}
          /\ \E verdict \in BOOLEAN : Upgrading(CheckAndUpgrade(f, worker, verdict))
       \/ /\ ~checks \/ fw.state = "UNINITIALIZED"
          /\ Upgrading([f |-> f, w |-> worker])

\* vprocess_init() after an upgrade; the change to FAULT that too many
\* failures ask for is not allowed from UPGRADING.
UpgradeDone ==
    /\ fw.state = "UPGRADING" /\ fw.mUpgradeStatus # "EINPROGRESS"
    /\ fw' = [fw EXCEPT !.state = "UNINITIALIZED", !.version = FALSE]
    /\ UNCHANGED <<worker, fwCalls>>

\* Mutant of read_status: the end of the helper's output is a byte, zero.
read_status_EndIsZero(f, w) ==
    IF ~f.upgradeFD THEN [f |-> [f EXCEPT !.mUpgradeStatus = "EBADF"], w |-> w]
    ELSE IF w.out = <<>> /\ w.alive THEN [f |-> f, w |-> w]
    ELSE IF w.out = <<>> \/ Head(w.out) = "ok"
    THEN close_fds([f EXCEPT !.mUpgradeStatus = "ok"], w)
    ELSE [f |-> [f EXCEPT !.mUpgradeStatus = Head(w.out)],
          w |-> [w EXCEPT !.out = Tail(@)]]

\* The read in FirmwareUpgrade::process().  The end of the helper's output
\* (0 bytes) changes nothing: the upgrade stays in progress.  A helper that
\* ended without reading all of its input resets the connection.
read_status(f, w) ==
    IF ~f.upgradeFD THEN [f |-> [f EXCEPT !.mUpgradeStatus = "EBADF"], w |-> w]
    ELSE IF w.out = <<>>
    THEN [f |-> IF ~w.alive /\ w.in # <<>>
                THEN [f EXCEPT !.mUpgradeStatus = "ECONNRESET"] ELSE f,
          w |-> w]
    ELSE IF Head(w.out) = "ok"
    THEN close_fds([f EXCEPT !.mUpgradeStatus = "ok"], w)
    ELSE [f |-> [f EXCEPT !.mUpgradeStatus = Head(w.out)],
          w |-> [w EXCEPT !.out = Tail(@)]]

FirmwareProcess ==
    /\ fw.mUpgradeStatus = "EINPROGRESS"
    /\ Upgrading(read_status(fw, worker))
    /\ UNCHANGED fwCalls

-----------------------------------------------------------------------------
(* The upgrade helper.                                                     *)

\* It answers into the socket while the daemon's end is open.
Written(b) == IF fw.upgradeFD THEN Append(worker.out, b) ELSE worker.out

WorkerReads ==
    /\ worker.alive /\ ~worker.busy /\ worker.in # <<>>
    /\ worker' = IF Head(worker.in) = "1"
                 THEN [worker EXCEPT !.in = Tail(@), !.busy = TRUE]
                 ELSE [worker EXCEPT !.in = Tail(@), !.alive = FALSE,
                                     !.out = Written("ok")]
    /\ UNCHANGED <<fw, fwCalls>>

\* The byte that the helper makes of the result of system(), without asking
\* WIFEXITED() first: of a command killed by a signal it is 0.
WEXITSTATUS(e) == IF e = "failed" THEN "failed" ELSE "ok"

RunEnds ==
    /\ worker.busy
    /\ \E e \in Exits :
          worker' = [worker EXCEPT !.busy = FALSE, !.runs = Append(@, e),
                                   !.out = Written(WEXITSTATUS(e))]
    /\ UNCHANGED <<fw, fwCalls>>

\* It is killed (external).
WorkerDies ==
    /\ worker.alive
    /\ worker' = [worker EXCEPT !.alive = FALSE, !.busy = FALSE]
    /\ UNCHANGED <<fw, fwCalls>>

\* set_firmware_check_command() and set_firmware_upgrade_command() ran if
\* the commands are configured, and left a descriptor unless fork() failed.
UpgradeInit ==
    /\ \E u, c, a \in BOOLEAN :
         /\ fw = [mUpgradeStatus |-> "ok", upgradeFD |-> u, checkFD |-> c,
                  auto |-> a, version |-> FALSE, asked |-> FALSE,
                  state |-> "UNINITIALIZED"]
         /\ worker = [alive |-> u, busy |-> FALSE, in |-> <<>>, out |-> <<>>,
                      runs |-> <<>>]
    /\ fwCalls = 0

UpgradeNext ==
    \/ VersionArrives \/ InitializationEnds \/ Restart \/ UpgradeDone
    \/ \E on \in BOOLEAN : set_prop_DaemonAutoFirmwareUpdate(on)
    \/ FirmwareProcess \/ WorkerReads \/ RunEnds \/ WorkerDies

UpgradeSpec == UpgradeInit /\ [][UpgradeNext]_upvars

-----------------------------------------------------------------------------

\* An upgrade that the daemon reports as complete was carried out: a command
\* has been run to its end, whatever became of the helper, and did not exit
\* with a failure, and both helpers are dismissed, so that no upgrade loop can
\* follow (src/src/wfantund/FirmwareUpgrade.cpp:424).  A command that a signal
\* has killed is reported as complete too (line 208).
OkMeansUpgraded ==
    fw.asked /\ fw.mUpgradeStatus = "ok" =>
        /\ worker.runs # <<>> /\ worker.runs[Len(worker.runs)] # "failed"
        /\ ~fw.upgradeFD /\ ~fw.checkFD
=============================================================================
