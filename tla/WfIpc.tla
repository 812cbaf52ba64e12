------------------------------- MODULE WfIpc -------------------------------
(***************************************************************************)
(* wfanctl and wfantund talking over the system bus.  A tool looks up the  *)
(* daemon that owns its interface, sends one call to the bus name it was   *)
(* given and waits; the daemon reads its messages in order, answers some   *)
(* at once and others when the task they started ends.  The daemon may     *)
(* crash and be restarted under another bus name, the NCP may be given up, *)
(* another daemon announces interfaces, and a tool's timeout may fire at   *)
(* any time.  The bus is external: it keeps the order of messages and      *)
(* answers for a receiver that is gone.                                    *)
(***************************************************************************)
EXTENDS Wfanctl, WfDbus, Integers, FiniteSets

CONSTANTS
    MaxClients,  \* how many tools run at once
    Plans,       \* what is run: sequences of tool names, one per client
    Configs,     \* the states the daemon may be started in
    MaxFaults    \* crashes of the daemon and losses of the NCP

\* wfantund, as far as its D-Bus side depends on it (see WfDbus).
Daemons == [up : BOOLEAN, epoch : Nat, detached : BOOLEAN, enabled : BOOLEAN,
            caps : SUBSET STRING, domain : BOOLEAN, busy : BOOLEAN]

ASSUME IpcAssumption ==
    /\ MaxClients \in Nat /\ MaxFaults \in Nat
    /\ Plans \subseteq Seq(DOMAIN Tools)
    /\ Configs \subseteq Daemons

VARIABLES
    client,   \* client[c]: what each tool is doing
    daemon,   \* the state of wfantund; each start has an epoch of its own
    known,    \* mExternalInterfaceMap: interfaces of other daemons
    inbox,    \* calls on their way to the daemon
    tasks,    \* calls whose callback a task will run
    replies,  \* answers on their way to the tools
    held,     \* held[k]: references the daemon holds on the message of call k
    served,   \* what became of the calls the daemon has read
    faults

ipcVars == <<client, daemon, known, inbox, tasks, replies, held, served, faults>>

Clients == 1..MaxClients
Own == "wfan0"
Names == {Own, "wfan1"}
Peer == <<"peer", 0>>
Keys == Clients \X (1..4)
Pcs == {"idle", "lookup", "looked", "sent", "done"}
NoMsg == Msg("-", <<>>)
GetInterfaces == Msg("GetInterfaces", <<>>)
NoNames == [n \in {} |-> Peer]

\* The bus name of the daemon changes with every start.
Bus == <<"wfantund", daemon.epoch>>

Key(c) == <<c, client[c].serial>>
ToolOf(c) == Tools[client[c].tool]
Reply(k, how, s) == [key |-> k, how |-> how, status |-> s, names |-> NoNames]

IpcInit ==
    \E plan \in Plans, cfg \in Configs :
        /\ client = [c \in Clients |->
              [pc |-> IF c <= Len(plan) THEN "idle" ELSE "done",
               tool |-> IF c <= Len(plan) THEN plan[c] ELSE "cd",
               name |-> Own, msg |-> NoMsg, to |-> Peer, serial |-> 0,
               left |-> IF c <= Len(plan) THEN Tools[plan[c]].more ELSE 0,
               again |-> FALSE, code |-> "-"]]
        /\ daemon = cfg
        /\ known = NoNames
        /\ inbox = <<>> /\ tasks = {} /\ replies = {} /\ served = {}
        /\ held = [k \in Keys |-> 0]
        /\ faults = 0

-----------------------------------------------------------------------------
(* The tools.                                                              *)

Exit(c, code) ==
    client' = [client EXCEPT ![c].pc = "done", ![c].code = code]

\* The arguments are refused, or a prefix is not parsed, or the bus cannot be
\* reached: nothing is sent.
Invoke_Ends(c) ==
    /\ client[c].pc = "idle"
    /\ \E code \in ToolOf(c).refuses \cup {ToolOf(c).nobus}
                   \cup (IF ToolOf(c).silent THEN {"OK"} ELSE {}) :
          client' = [client EXCEPT ![c].pc = "done", ![c].code = code,
                                   ![c].msg = NoMsg]
    /\ UNCHANGED <<daemon, known, inbox, tasks, replies, held, served, faults>>

Post(c, to, m, pc) ==
    /\ client' = [client EXCEPT ![c].pc = pc, ![c].to = to, ![c].msg = m,
                                ![c].serial = @ + 1]
    /\ inbox' = Append(inbox, [key |-> <<c, client[c].serial + 1>>,
                               to |-> to, msg |-> m])

\* The interface list is asked of the owner of the well-known name.
Invoke(c) ==
    /\ client[c].pc = "idle"
    /\ ToolOf(c).lookup
    /\ ToolOf(c).sends # {}
    /\ Post(c, Bus, GetInterfaces, "lookup")
    /\ UNCHANGED <<daemon, known, tasks, replies, held, served, faults>>

Invoke_List(c) ==
    /\ client[c].pc = "idle"
    /\ ~ToolOf(c).lookup
    /\ \E m \in ToolOf(c).sends : Post(c, Bus, m, "sent")
    /\ UNCHANGED <<daemon, known, tasks, replies, held, served, faults>>

\* What the list says of the interface given with -I.
lookup_dbus_name_from_interface(names, name) ==
    IF name \in DOMAIN names THEN {names[name]} ELSE {}

Lookup_Replied(c) ==
    /\ client[c].pc = "lookup"
    /\ \E r \in replies, name \in Names :
          /\ r.key = Key(c)
          /\ replies' = replies \ {r}
          /\ IF r.how = "error" THEN Exit(c, "TIMEOUT")
             ELSE IF lookup_dbus_name_from_interface(r.names, name) = {}
             THEN Exit(c, "InterfaceNotFound")
             ELSE client' = [client EXCEPT ![c].pc = "looked", ![c].name = name,
                                           ![c].to = r.names[name]]
    /\ UNCHANGED <<daemon, known, inbox, tasks, held, served, faults>>

\* The call goes to the bus name the lookup gave, whoever runs by now.
Call(c) ==
    /\ client[c].pc = "looked"
    /\ \E m \in ToolOf(c).sends :
          /\ client[c].again => m.key = "connecteddevices"
          /\ Post(c, client[c].to, m, "sent")
    /\ UNCHANGED <<daemon, known, tasks, replies, held, served, faults>>

\* Mutant: the status of the reply is not looked at.
CodeOf_Unread(t, r) == IF r.how = "error" THEN t.failed ELSE "OK"

CodeOf(t, r) ==
    IF r.how = "error" THEN t.failed
    ELSE IF t.reads = "nothing" \/ r.status \in t.forgives \cup {"Ok"}
    THEN "OK"
    ELSE r.status

\* A tool that gets several properties goes on to the next one and forgets
\* the outcome of this one.
Finish(c, code) ==
    \/ Exit(c, code)
    \/ /\ client[c].left > 0
       /\ client' = [client EXCEPT ![c].pc = "idle", ![c].left = @ - 1,
                                   ![c].again = FALSE]

Read_Reply(c) ==
    /\ client[c].pc = "sent"
    /\ \E r \in replies :
          /\ r.key = Key(c)
          /\ Finish(c, CodeOf(ToolOf(c), r))
          /\ replies' = replies \ {r}
    /\ UNCHANGED <<daemon, known, inbox, tasks, held, served, faults>>

\* There are more connected devices: the tool calls itself, from the lookup on.
\* Both calls of this round have been answered, so that their keys are used
\* again and nothing need be remembered of them.
More_Devices(c) ==
    /\ client[c].pc = "sent"
    /\ client[c].tool = "get" /\ client[c].msg.key = "connecteddevices"
    /\ TRUE \in parse_connected_devices_output
    /\ \E r \in replies :
          /\ r.key = Key(c) /\ CodeOf(ToolOf(c), r) = "OK"
          /\ replies' = replies \ {r}
    /\ client' = [client EXCEPT ![c].pc = "idle", ![c].again = TRUE,
                                ![c].serial = @ - 2]
    /\ served' = {s \in served : s.key # Key(c)}
    /\ UNCHANGED <<daemon, known, inbox, tasks, held, faults>>

\* Mutant: the call itself blocks without a timeout.
Read_Timeout_LookupOnly(c) ==
    /\ client[c].pc = "lookup"
    /\ Exit(c, "TIMEOUT")
    /\ UNCHANGED <<daemon, known, inbox, tasks, replies, held, served, faults>>

Read_Timeout(c) ==
    /\ client[c].pc \in {"lookup", "sent"}
    /\ IF client[c].pc = "lookup" THEN Exit(c, "TIMEOUT")
       ELSE Finish(c, ToolOf(c).failed)
    /\ UNCHANGED <<daemon, known, inbox, tasks, replies, held, served, faults>>

-----------------------------------------------------------------------------
(* The daemon.                                                             *)

Served(k, m, s, did) ==
    served' = served \cup {[key |-> k, msg |-> m, status |-> s, did |-> did]}

GetInterfaces_Handler ==
    LET names == [n \in {Own} \cup DOMAIN known |->
                     IF n = Own THEN Bus ELSE known[n]]
    IN  /\ replies' = replies \cup
              {[Reply(Head(inbox).key, "names", "Ok") EXCEPT !.names = names]}
        /\ UNCHANGED <<tasks, held, served>>

\* The handler takes a reference and every run of the callback drops one.
Method_Handler(k, m, o) ==
    /\ replies' = replies \cup
          (CASE o.how = "now" -> {Reply(k, "status", o.status)}
             [] o.how = "refused" -> {Reply(k, "error", "-")}
             [] OTHER -> {})
    /\ tasks' = IF o.how = "task" THEN tasks \cup {[key |-> k, msg |-> m]} ELSE tasks
    /\ held' = [held EXCEPT ![k] =
          CASE o.how = "refused" -> 0
            [] o.how = "now" -> IF o.early THEN -1 ELSE 1 - o.calls
            [] OTHER -> 1]
    /\ IF o.how = "task" THEN UNCHANGED served ELSE Served(k, m, o.status, o.did)

Dispatch ==
    /\ daemon.up /\ inbox # <<>> /\ Head(inbox).to = Bus
    /\ inbox' = Tail(inbox)
    /\ IF Head(inbox).msg.method = "GetInterfaces" THEN GetInterfaces_Handler
       ELSE \E o \in message_handler(daemon, Head(inbox).msg) :
               Method_Handler(Head(inbox).key, Head(inbox).msg, o)
    /\ UNCHANGED <<client, daemon, known, faults>>

\* A task ends, with the status of its last command, and runs the callback.
\* Tasks of a detached NCP are not run.
Task_Ends(t) ==
    /\ daemon.up /\ ~daemon.detached
    /\ tasks' = tasks \ {t}
    /\ held' = [held EXCEPT ![t.key] = @ - 1]
    /\ \E s \in {"Ok", "Timeout", "InProgress"} :
          LET told == IF t.msg.method = "ResetNCP" THEN "Ok" ELSE s
          IN  /\ replies' = replies \cup {Reply(t.key, "status", told)}
              /\ Served(t.key, t.msg, told, s = "Ok")
    /\ UNCHANGED <<client, daemon, known, inbox, faults>>

\* InterfaceAdded and InterfaceRemoved of another daemon: one with the name
\* of an interface of this daemon is ignored.
InterfaceAdded(n) ==
    /\ daemon.up /\ n # Own /\ n \notin DOMAIN known
    /\ known' = [x \in DOMAIN known \cup {n} |-> Peer]
    /\ UNCHANGED <<client, daemon, inbox, tasks, replies, held, served, faults>>

InterfaceRemoved(n) ==
    /\ daemon.up /\ n \in DOMAIN known
    /\ known' = [x \in DOMAIN known \ {n} |-> known[x]]
    /\ UNCHANGED <<client, daemon, inbox, tasks, replies, held, served, faults>>

-----------------------------------------------------------------------------
(* The bus, the other daemon, and what may go wrong.                       *)

\* The bus answers for a name nobody owns; the other daemon answers its calls.
Bus_Answers ==
    /\ inbox # <<>> /\ (Head(inbox).to # Bus \/ ~daemon.up)
    /\ inbox' = Tail(inbox)
    /\ replies' = replies \cup
          {Reply(Head(inbox).key,
                 IF Head(inbox).to = Peer THEN "status" ELSE "error", "Ok")}
    /\ UNCHANGED <<client, daemon, known, tasks, held, served, faults>>

\* FAULT or UPGRADING: the driver is detached from the NCP.
Detach ==
    /\ daemon.up /\ ~daemon.detached /\ faults < MaxFaults
    /\ daemon' = [daemon EXCEPT !.detached = TRUE]
    /\ faults' = faults + 1
    /\ UNCHANGED <<client, known, inbox, tasks, replies, held, served>>

\* The bus answers the calls the daemon had read and not answered.
Crash ==
    /\ daemon.up /\ faults < MaxFaults
    /\ daemon' = [daemon EXCEPT !.up = FALSE]
    /\ replies' = replies \cup {Reply(t.key, "error", "-") : t \in tasks}
    /\ tasks' = {} /\ known' = NoNames
    /\ held' = [k \in Keys |-> 0]
    /\ faults' = faults + 1
    /\ UNCHANGED <<client, inbox, served>>

Restart ==
    /\ ~daemon.up
    /\ daemon' = [daemon EXCEPT !.up = TRUE, !.detached = FALSE,
                                !.epoch = @ + 1]
    /\ UNCHANGED <<client, known, inbox, tasks, replies, held, served, faults>>

ToolStep(c) ==
    \/ Invoke_Ends(c) \/ Invoke(c) \/ Invoke_List(c) \/ Lookup_Replied(c)
    \/ Call(c) \/ Read_Reply(c) \/ More_Devices(c) \/ Read_Timeout(c)

IpcNext ==
    \/ \E c \in Clients : ToolStep(c)
    \/ Dispatch \/ \E t \in tasks : Task_Ends(t)
    \/ \E n \in Names : InterfaceAdded(n) \/ InterfaceRemoved(n)
    \/ Bus_Answers \/ Detach \/ Crash \/ Restart

\* wfanctl runs on, and its blocking calls return at their timeout.
IpcSpec ==
    /\ IpcInit /\ [][IpcNext]_ipcVars
    /\ \A c \in Clients : WF_ipcVars(ToolStep(c))

-----------------------------------------------------------------------------
(* Properties.                                                             *)

\* The types of the tools' and the daemon's state.
IpcTypeOK ==
    /\ \A c \in Clients : client[c].pc \in Pcs /\ client[c].serial \in 0..4
    /\ \A t \in tasks : t.key \in Keys
    /\ \A r \in replies : r.key \in Keys
    /\ held \in [Keys -> -1..1]

\* A tool that has sent its call to this daemon and exits with 0 tells the
\* truth: the daemon did what the call asked, or answered with a status the
\* tool forgives.  Excepted are wfanctl status, which does not look at the
\* status, and wfanctl reset, whose callback is bound to Ok
\* (SpinelNCPControlInterface::reset_NCP).
ZeroMeansDone ==
    \A c \in Clients :
        (/\ client[c].code = "OK" /\ client[c].to # Peer
         /\ client[c].msg.method \notin {"-", "ResetNCP"}
         /\ ToolOf(c).reads = "status")
        => \E s \in served : s.key = Key(c)
                              /\ (s.did \/ s.status \in ToolOf(c).forgives)

\* Every message a tool can send is understood by the daemon, except: the two
\* methods it has no handler for, a gateway without a prefix, and a prefix
\* length of zero or of more than 64 bits (DBusIPCAPI::message_handler).  And
\* every entry of its dictionary is read by the task it starts, except the
\* node type given to wfanctl form (SpinelNCPTaskForm).
ToolsAreUnderstood ==
    \A s \in served :
        /\ Ignored(s.msg) \subseteq
              (IF s.msg.method = "Form" THEN {"NodeType"} ELSE {})
        /\ s.status = "refused" =>
              \/ s.msg.method \in {"PermitJoin", "BeginNetWake"}
              \/ s.msg.method = "ConfigGateway"
                 /\ (\/ s.msg.sig = <<"b">>
                     \/ Len(s.msg.sig) >= 12 /\ s.msg.bits \notin 1..64)

\* A message is held exactly as long as somebody will still run its callback,
\* and is never released more often than it was taken, except where the code
\* does so: reset_NCP() of a detached NCP, a mesh-local prefix that is too
\* short, and InterfaceUp set to false, which forgets the callback.
ReferencesBalance ==
    /\ \A t \in tasks : held[t.key] = 1
    /\ \A s \in served :
          /\ held[s.key] = 1 => s.msg.key = "InterfaceUp"
          /\ held[s.key] = -1 =>
                s.msg.method = "ResetNCP" \/ s.msg.key = "MeshLocalPrefix"
    /\ \A k \in Keys : held[k] # 0 =>
          k \in {t.key : t \in tasks} \cup {s.key : s \in served}

\* Tools and daemon speak the same language and keep count of what they hold
\* (tool-cmd-*.c, DBusIPCAPI.cpp).
IpcConsistent == IpcTypeOK /\ ToolsAreUnderstood /\ ReferencesBalance

\* The NCP announces more connected devices than it has sent.
Announced(c) == client[c].pc = "idle" /\ client[c].again

\* Whatever the daemon does or fails to do, a tool that was started returns,
\* because every blocking call of wfanctl has a timeout; unless the batches of
\* connected devices never end.  tool_cmd_getprop then calls itself for ever:
\* nothing but a batch that says "Last IPs" stops it.
EveryToolReturns ==
    \A c \in Clients :
        \/ []<>Announced(c)
        \/ [](client[c].pc = "lookup" => <>(client[c].pc = "done"))
=============================================================================
