------------------------------- MODULE WfProps -------------------------------
(***************************************************************************)
(* One property of wfantund (any row of WfPropTable) between a D-Bus       *)
(* client, the daemon and the NCP: the daemon's own copy of the value, the *)
(* settings it keeps to write again after a reset of the NCP, its queue of *)
(* SendCommand tasks, the frames on the serial line, and the NCP, which    *)
(* stores what it accepts, reports what it changes by itself, and resets   *)
(* by itself or on command. The daemon takes no notice of a reset while it *)
(* initialises the NCP after another.                                      *)
(*                                                                         *)
(* A value stands for a class of values: what the NCP has after a reset,   *)
(* two that it accepts, one that it refuses, one that it takes by itself,  *)
(* and one that the daemon cannot convert to the type of the property.     *)
(***************************************************************************)
EXTENDS WfPropTable, Sequences, FiniteSets

CONSTANTS
    MaxCalls,   \* bound on the reads and writes of clients
    MaxResets,  \* bound on the resets of the NCP
    MaxChanges  \* bound on the NCP's own changes, and on associations

ASSUME PropsAssumption == MaxCalls \in Nat /\ MaxResets \in Nat /\ MaxChanges \in Nat

Default == 0
Accepted == {1, 2}
Refused3 == 3
OfNcp == 4
Malformed == 5
None == 9

\* Bytes of a value of a type of fixed size; 0 for the others.
Width(type) ==
    CASE type \in {"BOOL", "UINT8", "INT8"} -> 1
      [] type = "UINT16" -> 2
      [] type \in {"UINT32", "INT32"} -> 4
      [] type \in {"UINT64", "EUI64"} -> 8
      [] OTHER -> 0

\* The NCP reads a value of property r the way it writes it.
Parses(r) ==
    r.get.from \notin {"mirror", "ncp"} \/
      0 \in {Width(r.get.type), Width(r.set.type)} \/
      Width(r.get.type) = Width(r.set.type)

\* A write of r is a command to reset a counter.
IsCommand(r) == r.name \in DOMAIN SetCapabilityConverted.COUNTERS

AllRows == {Row(n) : n \in AllProperties}

\* What the handlers registered for each property have in common: the value of
\* a persistent property can be written as it is read, the copy of a value of
\* the NCP is not written by clients, and every name that is listed to clients
\* has a handler.
ASSUME TableAssumption ==
    /\ \A r \in AllRows : /\ r.set.saved => Parses(r) /\ ~IsCommand(r)
                          /\ r.get.from = "mirror" => r.set.to # "own"
    /\ get_supported_property_keys \subseteq AllProperties

VARIABLES
    pRow,     \* the property: a row of WfPropTable
    pCaps,    \* mCapabilities, of those that the property needs
    pNcp,     \* the value in the NCP
    pCopy,    \* the value in the daemon: a member of NCPInstanceBase
    pSaved,   \* mSettings[name]
    pTodo,    \* mTaskQueue
    pDown,    \* frames on their way to the NCP
    pUp,      \* frames on their way to the daemon
    pStage,   \* vprocess_init: fetching, restoring, restored; then ready,
              \* which is mDriverState = NORMAL_OPERATION
    pExpected,\* mResetIsExpected
    pIgnored, \* the latest reset came too late to be followed by a full
              \* initialisation: the daemon was initialising, past its reads
    pAssoc,   \* the NCP is associated
    pTouched, \* the NCP has changed the value since it was last written
    pOwed,    \* client calls that wait for their answer
    pLeft     \* what the bounds leave

pvars == <<pRow, pCaps, pNcp, pCopy, pSaved, pTodo, pDown, pUp, pStage,
           pExpected, pIgnored, pAssoc, pTouched, pOwed, pLeft>>

Needs(r) == {r.get.cap, r.set.cap} \ {"-"}

PropsInit(rows) ==
    /\ pRow \in rows
    /\ pCaps \in SUBSET Needs(pRow)
    /\ pNcp = Default /\ pCopy = Default /\ pSaved = None
    /\ pTodo = <<>> /\ pDown = <<>> /\ pUp = <<>>
    /\ pStage = "fetch" /\ pExpected = FALSE /\ pIgnored = FALSE
    /\ pAssoc = FALSE /\ pTouched = FALSE /\ pOwed = 0
    /\ pLeft = [calls |-> MaxCalls, resets |-> MaxResets,
                changes |-> MaxChanges, next |-> 1]

Task(op, v, client) ==
    [op |-> op, value |-> v, id |-> pLeft.next, sent |-> FALSE,
     client |-> client]
Frame(cmd, v, id) == [cmd |-> cmd, value |-> v, id |-> id]
HasCap(c) == c = "-" \/ c \in pCaps
Use(what) == pLeft' = [pLeft EXCEPT ![what] = @ - 1, !.next = @ + 1]

-----------------------------------------------------------------------------
(* The client's calls.                                                     *)

\* get_spinel_prop, get_spinel_prop_with_unpacker, check_capability_prop_get
\* and the handlers that answer from the daemon's state.
property_get_value ==
    /\ pLeft.calls > 0 /\ pRow.get.from # "none"
    /\ Use("calls")
    /\ LET asks == \/ pRow.get.from = "ncp"
                   \/ pRow.get.from = "cached" /\ pCopy = Default
       IN  /\ pTodo' = IF HasCap(pRow.get.cap) /\ asks
                       THEN Append(pTodo, Task("get", None, TRUE)) ELSE pTodo
           /\ pOwed' = IF HasCap(pRow.get.cap) /\ asks THEN pOwed + 1
                       ELSE pOwed
    /\ UNCHANGED <<pRow, pCaps, pNcp, pCopy, pSaved, pDown, pUp, pStage,
                   pExpected, pIgnored, pAssoc, pTouched>>

\* mSettings[prop_name] after a write of v.
Setting(v) == v

\* set_spinel_prop: the value is packed, kept in mSettings if the property is
\* a persistent one, before the NCP has seen it and although it may lack the
\* capability, and sent if the NCP is capable.
set_spinel_prop(v) ==
    /\ pRow.set.to = "ncp"
    /\ pSaved' = IF v # Malformed /\ pRow.set.saved THEN Setting(v)
               ELSE pSaved
    /\ IF v # Malformed /\ HasCap(pRow.set.cap)
       THEN /\ pTodo' = Append(pTodo, Task("set", v, TRUE))
            /\ pOwed' = pOwed + 1
       ELSE UNCHANGED <<pTodo, pOwed>>
    /\ UNCHANGED pCopy

\* The handlers that only change the daemon's state, and answer at once.
set_own(v) ==
    /\ pRow.set.to = "own"
    /\ pCopy' = IF v # Malformed /\ HasCap(pRow.set.cap) THEN v ELSE pCopy
    /\ UNCHANGED <<pSaved, pTodo, pOwed>>

property_set_value ==
    /\ pLeft.calls > 0
    /\ Use("calls")
    /\ \E v \in Accepted \cup {Refused3, Malformed} :
         set_spinel_prop(v) \/ set_own(v)
    /\ UNCHANGED <<pRow, pCaps, pNcp, pDown, pUp, pStage, pExpected, pIgnored,
                   pAssoc, pTouched>>

\* SpinelNCPControlInterface::reset(): a task that sends CMD_RESET.
reset ==
    /\ pLeft.calls > 0 /\ pLeft.resets > 0
    /\ Use("calls")
    /\ pTodo' = Append(pTodo, Task("reset", None, TRUE)) /\ pOwed' = pOwed + 1
    /\ UNCHANGED <<pRow, pCaps, pNcp, pCopy, pSaved, pDown, pUp, pStage,
                   pExpected, pIgnored, pAssoc, pTouched>>

-----------------------------------------------------------------------------
(* The daemon's main loop.                                                 *)

\* The command of the task at the head of the queue is sent: also while the
\* NCP is being initialised, between the commands of vprocess_init.
SendCommand ==
    /\ pTodo # <<>> /\ ~Head(pTodo).sent
    /\ LET t == Head(pTodo)
       IN  /\ pDown' = Append(pDown, Frame(t.op, t.value, t.id))
           /\ pTodo' = [pTodo EXCEPT ![1].sent = TRUE]
           /\ pExpected' = (pExpected \/ t.op = "reset")
    /\ UNCHANGED <<pRow, pCaps, pNcp, pCopy, pSaved, pUp, pStage, pIgnored,
                   pAssoc, pTouched, pOwed, pLeft>>

\* vprocess_init reads the properties it keeps copies of ...
FetchProperties ==
    /\ pStage = "fetch"
    /\ pStage' = "restore"
    /\ pDown' = IF pRow.fetched THEN Append(pDown, Frame("get", None, 0))
                ELSE pDown
    /\ UNCHANGED <<pRow, pCaps, pNcp, pCopy, pSaved, pTodo, pUp, pExpected,
                   pIgnored, pAssoc, pTouched, pOwed, pLeft>>

\* ... and writes the settings for which the NCP has the capability; in this
\* build it does not wait for the answers.
RestoreSettings ==
    /\ pStage = "restore"
    /\ pStage' = "restored"
    /\ pDown' = IF pSaved # None /\ HasCap(pRow.set.cap)
                THEN Append(pDown, Frame("set", pSaved, 0)) ELSE pDown
    /\ UNCHANGED <<pRow, pCaps, pNcp, pCopy, pSaved, pTodo, pUp, pExpected,
                   pIgnored, pAssoc, pTouched, pOwed, pLeft>>

\* The other settings have been written too, and the driver is in operation.
FinishInit ==
    /\ pStage = "restored"
    /\ pStage' = "ready" /\ pExpected' = FALSE
    /\ UNCHANGED <<pRow, pCaps, pNcp, pCopy, pSaved, pTodo, pDown, pUp, pIgnored,
                   pAssoc, pTouched, pOwed, pLeft>>

\* handle_ncp_state_change: more is read once the NCP is associated.
BecomesAssociated ==
    /\ pStage = "ready" /\ ~pAssoc /\ pLeft.changes > 0
    /\ Use("changes")
    /\ pAssoc' = TRUE
    /\ pTodo' = IF pRow.associated THEN Append(pTodo, Task("get", None, FALSE))
                ELSE pTodo
    /\ UNCHANGED <<pRow, pCaps, pNcp, pCopy, pSaved, pDown, pUp, pStage,
                   pExpected, pIgnored, pTouched, pOwed>>

\* A mutant: values that arrive during the initialisation are dropped.
KeepsCopy_WhenReady ==
    pRow.get.from \in {"mirror", "cached"} /\ pStage = "ready"

\* handle_ncp_spinel_value_is keeps a copy of what the base has a member for.
KeepsCopy ==
    pRow.get.from \in {"mirror", "cached"} \/ pRow.name \in ValueIsUnread

Answers(f) == pTodo # <<>> /\ Head(pTodo).sent /\ Head(pTodo).id = f.id

\* A mutant: only the running task is finished.
Callbacks_Head(q) == IF q # <<>> /\ q[1].client THEN 1 ELSE 0

\* Callbacks that run when the tasks of q are finished.
Callbacks(q) == Cardinality({i \in DOMAIN q : q[i].client})

\* The answer to the running task finishes it.
Finish(f) ==
    IF Answers(f)
    THEN /\ pTodo' = Tail(pTodo)
         /\ pOwed' = pOwed - Callbacks(<<Head(pTodo)>>)
    ELSE UNCHANGED <<pTodo, pOwed>>

handle_ncp_spinel_value_is ==
    /\ pUp # <<>> /\ Head(pUp).cmd = "is"
    /\ pUp' = Tail(pUp)
    /\ pCopy' = IF KeepsCopy THEN Head(pUp).value ELSE pCopy
    /\ Finish(Head(pUp))
    /\ UNCHANGED <<pRow, pCaps, pNcp, pSaved, pDown, pStage, pExpected,
                   pIgnored, pAssoc, pTouched, pLeft>>

\* A LAST_STATUS that refuses a command.
handle_refusal ==
    /\ pUp # <<>> /\ Head(pUp).cmd = "status"
    /\ pUp' = Tail(pUp)
    /\ Finish(Head(pUp))
    /\ UNCHANGED <<pRow, pCaps, pNcp, pCopy, pSaved, pDown, pStage, pExpected,
                   pIgnored, pAssoc, pTouched, pLeft>>

\* A LAST_STATUS that tells of a reset. In operation the NCP is initialised
\* again, and every task fails, unless the reset was expected; during the
\* initialisation the reset is not followed up.
handle_last_status ==
    /\ pUp # <<>> /\ Head(pUp).cmd = "reset"
    /\ pUp' = Tail(pUp)
    /\ pExpected' = FALSE
    /\ IF pStage = "ready" /\ ~pExpected
       THEN pTodo' = <<>> /\ pOwed' = pOwed - Callbacks(pTodo)
       ELSE UNCHANGED <<pTodo, pOwed>>
    /\ IF pStage = "ready"
       THEN pStage' = "fetch" /\ pAssoc' = FALSE /\ pIgnored' = FALSE
       ELSE /\ pIgnored' = (pIgnored \/ pStage # "fetch")
            /\ UNCHANGED <<pStage, pAssoc>>
    /\ UNCHANGED <<pRow, pCaps, pNcp, pCopy, pSaved, pDown, pTouched, pLeft>>

\* The task at the head ends without an answer: it has waited too long, or it
\* has reset the NCP and finds it initialised.
SendCommand_Ends ==
    /\ pTodo # <<>> /\ Head(pTodo).sent
    /\ pTodo' = Tail(pTodo) /\ pOwed' = pOwed - Callbacks(<<Head(pTodo)>>)
    /\ UNCHANGED <<pRow, pCaps, pNcp, pCopy, pSaved, pDown, pUp, pStage,
                   pExpected, pIgnored, pAssoc, pTouched, pLeft>>

-----------------------------------------------------------------------------
(* The NCP.                                                                *)

Ncp_Handles ==
    /\ pDown # <<>> /\ Head(pDown).cmd # "reset"
    /\ pDown' = Tail(pDown)
    /\ LET f == Head(pDown)
           ok == f.cmd = "set" /\ Parses(pRow) /\ f.value # Refused3
       IN  /\ pNcp' = IF ~ok THEN pNcp
                      ELSE IF IsCommand(pRow) THEN Default ELSE f.value
           /\ pTouched' = (pTouched /\ ~ok)
           /\ pUp' = Append(pUp, IF f.cmd = "get" \/ ok
                                 THEN Frame("is", pNcp', f.id)
                                 ELSE Frame("status", None, f.id))
    /\ UNCHANGED <<pRow, pCaps, pCopy, pSaved, pTodo, pStage, pExpected,
                   pIgnored, pAssoc, pOwed, pLeft>>

Ncp_Changes ==
    /\ pLeft.changes > 0
    /\ pRow.get.from # "own" /\ pNcp # OfNcp
    /\ Use("changes")
    /\ pNcp' = OfNcp /\ pTouched' = TRUE
    /\ pUp' = Append(pUp, Frame("is", OfNcp, 0))
    /\ UNCHANGED <<pRow, pCaps, pCopy, pSaved, pTodo, pDown, pStage, pExpected,
                   pIgnored, pAssoc, pOwed>>

\* By itself or on command. What was on its way to the NCP is lost, what it
\* had sent is not.
Ncp_Resets ==
    /\ pLeft.resets > 0
    /\ Use("resets")
    /\ pNcp' = Default /\ pTouched' = FALSE
    /\ pDown' = <<>>
    /\ pUp' = Append(pUp, Frame("reset", None, 0))
    /\ UNCHANGED <<pRow, pCaps, pCopy, pSaved, pTodo, pStage, pExpected,
                   pIgnored, pAssoc, pOwed>>

PropsNext ==
    \/ property_get_value \/ property_set_value \/ reset
    \/ SendCommand \/ FetchProperties \/ RestoreSettings \/ FinishInit
    \/ BecomesAssociated
    \/ handle_ncp_spinel_value_is \/ handle_refusal \/ handle_last_status
    \/ SendCommand_Ends
    \/ Ncp_Handles \/ Ncp_Changes \/ Ncp_Resets

PropsSpec == PropsInit(AllRows) /\ [][PropsNext]_pvars

-----------------------------------------------------------------------------
PropsTypeOK ==
    /\ pNcp \in {Default, OfNcp} \cup Accepted
    /\ pCopy \in {Default, OfNcp, Refused3} \cup Accepted
    /\ pSaved \in {None, Refused3} \cup Accepted
    /\ pStage \in {"fetch", "restore", "restored", "ready"}
    /\ Len(pTodo) <= MaxCalls + MaxChanges
    /\ \A i \in 2 .. Len(pTodo) : ~pTodo[i].sent

Quiet == pTodo = <<>> /\ pDown = <<>> /\ pUp = <<>> /\ pStage = "ready"

\* When nothing is under way, the copy from which the daemon answers is the
\* NCP's value: for the properties that it reads again after a reset of the
\* NCP, and once the NCP is associated for those read then; for the others
\* (such as MacFilterMode) only as long as the NCP has not been reset. A reset
\* that is ignored leaves a copy stale until it is read or reported again.
CopyIsCurrent ==
    (Quiet /\ pRow.get.from = "mirror" /\
       ((pRow.fetched /\ ~pIgnored) \/ (pRow.associated /\ pAssoc) \/
          pLeft.resets = MaxResets))
      => pCopy = pNcp

\* A persistent property that the NCP is capable of has, once the daemon is
\* done with a reset or a write, the value that was saved, unless the NCP
\* refuses that value or has changed it since, or its reset was ignored.
SettingsHold ==
    (Quiet /\ pSaved \in Accepted /\ HasCap(pRow.set.cap) /\ ~pTouched /\ ~pIgnored)
      => pNcp = pSaved

\* What clients read and what was saved are the NCP's values, as far as the
\* code promises it (property_get_value(), property_set_value() and mSettings
\* of SpinelNCPInstance).
ValuesHold == PropsTypeOK /\ CopyIsCurrent /\ SettingsHold

\* When nothing is under way every call of a client has been answered, once:
\* also the calls that a reset of the NCP has cut off.
CallsAnswered == pOwed >= 0 /\ (Quiet => pOwed = 0)
=============================================================================
