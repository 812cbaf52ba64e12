------------------------------ MODULE WfDataset ------------------------------
(***************************************************************************)
(* wfantund's local operational dataset (ThreadDataset): its fields, each  *)
(* set on its own by a property, and the commands of Dataset:Command that  *)
(* exchange the whole of it with the NCP's active and pending datasets.    *)
(*                                                                         *)
(* A field is an Optional: clear() forgets that there is a value and keeps *)
(* the value itself, which the security policy, set one half at a time,    *)
(* builds on.  Two values tell apart what was set when; "" is the empty    *)
(* value of the fields that may be empty.                                  *)
(***************************************************************************)
EXTENDS Naturals, Sequences

CONSTANTS
    DatasetFields,    \* the fields of this instance, of AllFields
    MaxDatasetCalls   \* bound on the calls of clients

AllFields ==
    {"ActiveTimestamp", "PendingTimestamp", "MasterKey", "NetworkName",
     "ExtendedPanId", "MeshLocalPrefix", "Delay", "PanId", "Channel", "PSKc",
     "ChannelMaskPage0", "SecurityPolicy", "RawTlvs", "DestIpAddress"}
ASSUME DatasetFieldsKnown == DatasetFields \subseteq AllFields

\* Those whose property accepts an empty value, and those whose value may not
\* be empty when a dataset is read from the NCP.
MayBeSetEmpty == {"NetworkName", "PSKc", "RawTlvs"}
MayNotArriveEmpty == {"MasterKey", "ExtendedPanId", "PSKc", "RawTlvs"}
\* Those that are sent with their value even where only the keys are asked.
AlwaysSentWithValue == {"RawTlvs", "DestIpAddress"}

Halves == {"rotation", "flags"}
ValuesOf(f) ==
    IF f = "SecurityPolicy" THEN [Halves -> {"0", "a", "b"}]
    ELSE {"a", "b"} \cup (IF f \in MayBeSetEmpty THEN {""} ELSE {})
Initial(f) ==
    IF f = "SecurityPolicy" THEN [h \in Halves |-> "0"] ELSE "0"

VARIABLES
    dHas,    \* the fields of mLocalDataset that have a value
    dVal,    \* the values, those of cleared fields too
    dNcp,    \* the NCP's datasets, "active" and "pending"
    dAsked,  \* the dataset a client's command is waiting for
    dFrame,  \* the last dataset sent with a MGMT command
    dSource, \* what the local dataset is made of: see NotMixed
    dReply,  \* the status of the last command
    dCalls

dvars == <<dHas, dVal, dNcp, dAsked, dFrame, dSource, dReply, dCalls>>

Which == {"active", "pending"}
Empty == [f \in {} |-> <<>>]

DatasetInit(sets) ==
    /\ dHas = {} /\ dVal = [f \in DatasetFields |-> Initial(f)]
    /\ dNcp \in sets
    /\ dAsked = "none" /\ dFrame = Empty
    /\ dSource = Empty /\ dReply = "none" /\ dCalls = MaxDatasetCalls

Call == dCalls > 0 /\ dAsked = "none" /\ dCalls' = dCalls - 1

-----------------------------------------------------------------------------
(* The properties Dataset:*.                                               *)

set_field(f, v) ==
    /\ f # "SecurityPolicy"
    /\ dHas' = dHas \cup {f} /\ dVal' = [dVal EXCEPT ![f] = v]
    /\ dSource' = [g \in DOMAIN dSource \cup {f} |->
                     IF g = f THEN v ELSE dSource[g]]
    /\ dReply' = "Ok"

\* Key rotation and flags: the other half is the one that is there, whether
\* the policy has a value or not.
set_half(h, v) ==
    /\ "SecurityPolicy" \in DatasetFields
    /\ dVal' = [dVal EXCEPT !.SecurityPolicy[h] = v]
    /\ dHas' = dHas \cup {"SecurityPolicy"}
    /\ dSource' = [g \in DOMAIN dSource \cup {"SecurityPolicy"} |->
                     IF g = "SecurityPolicy" THEN dVal'[g] ELSE dSource[g]]
    /\ dReply' = "Ok"

set_prop_Dataset ==
    /\ Call
    /\ \/ \E f \in DatasetFields : \E v \in ValuesOf(f) : set_field(f, v)
       \/ \E h \in Halves, v \in {"a", "b"} : set_half(h, v)
    /\ UNCHANGED <<dNcp, dAsked, dFrame>>

-----------------------------------------------------------------------------
(* Dataset:Command.                                                        *)

Local == [f \in dHas |-> dVal[f]]

\* convert_to_spinel_frame: all fields that have a value, or only their keys.
convert_to_spinel_frame(include_value) ==
    [f \in dHas |-> IF include_value \/ f \in AlwaysSentWithValue
                    THEN <<dVal[f]>> ELSE <<>>]

Erase ==
    /\ Call
    /\ dHas' = {} /\ dSource' = Empty /\ dReply' = "Ok"
    /\ UNCHANGED <<dVal, dNcp, dAsked, dFrame>>

Get(which) ==
    /\ Call
    /\ dAsked' = which /\ dReply' = "waits"
    /\ UNCHANGED <<dHas, dVal, dNcp, dFrame, dSource>>

Set(which) ==
    /\ Call
    /\ dNcp' = [dNcp EXCEPT ![which] = Local]
    /\ dReply' = "Ok"
    /\ UNCHANGED <<dHas, dVal, dAsked, dFrame, dSource>>

SendMgmtGet ==
    /\ Call
    /\ dFrame' = convert_to_spinel_frame(FALSE)
    /\ dReply' = "Ok"
    /\ UNCHANGED <<dHas, dVal, dNcp, dAsked, dSource>>

SendMgmtSet ==
    /\ Call
    /\ dFrame' = convert_to_spinel_frame(TRUE)
    /\ dReply' = "Ok"
    /\ UNCHANGED <<dHas, dVal, dNcp, dAsked, dSource>>

OtherCommand ==
    /\ Call
    /\ dReply' = "InvalidArgument"
    /\ UNCHANGED <<dHas, dVal, dNcp, dAsked, dFrame, dSource>>

-----------------------------------------------------------------------------
(* The answer to a Get.                                                    *)

\* A mutant: the fields of the answer are added to those that are set.
Cleared_Kept == dHas

\* set_from_spinel_frame begins with clear().
Cleared == {}

parse_dataset_entry(f, v) == ~(f \in MayNotArriveEmpty /\ v = "")

set_from_spinel_frame ==
    /\ dAsked # "none"
    /\ LET got == dNcp[dAsked]
           fine == \A f \in DOMAIN got : parse_dataset_entry(f, got[f])
       IN  /\ dHas' = IF fine THEN Cleared \cup DOMAIN got ELSE {}
           /\ dVal' = [f \in DatasetFields |->
                         IF f \in DOMAIN got /\ parse_dataset_entry(f, got[f])
                         THEN got[f] ELSE dVal[f]]
           /\ dSource' = IF fine THEN got ELSE Empty
           /\ dReply' = IF fine THEN "Ok" ELSE "Failure"
    /\ dAsked' = "none"
    /\ UNCHANGED <<dNcp, dFrame, dCalls>>

DatasetNext ==
    \/ set_prop_Dataset
    \/ Erase \/ SendMgmtGet \/ SendMgmtSet \/ OtherCommand
    \/ \E w \in Which : Get(w) \/ Set(w)
    \/ set_from_spinel_frame

DatasetSpec(sets) == DatasetInit(sets) /\ [][DatasetNext]_dvars

-----------------------------------------------------------------------------
\* The local dataset is the one last read from the NCP, or the empty one
\* after an erase or a failed read, with what has been set since: nothing of
\* an earlier dataset is left in it.  The security policy is exempt: a half
\* set after an erase brings back the other half of the erased policy.
NotMixed ==
    /\ DOMAIN Local = DOMAIN dSource
    /\ \A f \in DOMAIN dSource \ {"SecurityPolicy"} : Local[f] = dSource[f]
    /\ dReply = "Failure" => Local = Empty
=============================================================================
