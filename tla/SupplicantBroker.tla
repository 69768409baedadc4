-------------------------- MODULE SupplicantBroker --------------------------
(***************************************************************************)
(* The root broker of one session, which connects to the receiver for the  *)
(* engine, and the two helpers (guard and recovery) that take back what a  *)
(* stopped or killed broker has left in wpa_supplicant and NetworkManager. *)
(*                                                                         *)
(* A step is one D-Bus call or one file operation, because each is a       *)
(* gdbus process of its own and the bus belongs to everybody: receiver,    *)
(* NetworkManager and other Wi-Fi Display programs act in between.         *)
(***************************************************************************)
EXTENDS Naturals

CONSTANTS
  Backends,    \* the network backends considered
  MaxFaults    \* bound on kills and failing calls

ASSUME BackendsAssumption == Backends \subseteq {"direct", "networkmanager"}
ASSUME FaultsAssumption   == MaxFaults \in Nat

VARIABLES
  backend,    \* the backend of this session
  armed,      \* the guard's p2p-armed marker exists
  marker,     \* supplicant-wfd-owned exists
  record,     \* networkmanager-active: "none", "intent" or "full"
  wfd,        \* the WFDIEs property of wpa_supplicant
  group,      \* the P2P group with the receiver in wpa_supplicant
  active,     \* NetworkManager's active connection of this session
  stop,       \* the stop event of the broker
  flags,      \* its connect_attempted, p2p_mutation_attempted and wfd_owned
  reply,      \* its answer to the last request
  final,      \* it is in the finally clause of serve
  monitor,    \* its signal monitor: "off", "on" or "refused"
  pc, ok,     \* next operation of each process, result of its cleanup
  faults      \* faults so far

files == <<armed, marker, record>>
bus   == <<wfd, group, active>>
own   == <<stop, flags, reply, final, monitor>>
vars  == <<backend, files, bus, own, pc, ok, faults>>

Helper  == {"guard", "recovery"}
Process == Helper \cup {"broker"}

ConnectLabels == {"wait_arm", "resolve", "mark", "set", "watch", "dial", "poll",
                  "close", "intent", "activate", "write"}
WfdLabels     == {"wfd_get", "wfd_set", "wfd_unmark"}
NmLabels      == {"nm_read", "nm_find", "nm_identify", "nm_adopt", "nm_owned",
                  "nm_verify", "nm_deactivate", "nm_refused", "nm_recheck",
                  "nm_wait", "nm_reverify", "nm_drop", "nm_raise"}
Labels == ConnectLabels \cup WfdLabels \cup NmLabels
            \cup {"serve", "cancel", "disconnect", "exited",
                  "idle", "stop", "interfaces", "end", "done", "dead"}

Flags == {"connect_attempted", "p2p_mutation_attempted", "wfd_owned"}

Init ==
  /\ backend \in Backends
  /\ armed = FALSE /\ marker = FALSE /\ record = "none"
  /\ wfd \in {"empty", "foreign"} /\ group = "none" /\ active = "none"
  /\ stop = FALSE /\ flags = {} /\ reply = "none" /\ final = FALSE
  /\ monitor = "off"
  /\ pc = [w \in Process |-> IF w = "broker" THEN "serve" ELSE "idle"]
  /\ ok = [w \in Process |-> TRUE]
  /\ faults = 0

-----------------------------------------------------------------------------
(* Helpers *)

Goto(w, label) == pc' = [pc EXCEPT ![w] = label]

Fault == faults < MaxFaults /\ faults' = faults + 1

(* handle returns or raises: the client is answered, serve goes on. *)
Answer(result) ==
  /\ Goto("broker", "serve") /\ reply' = result

Failed(w) == ok' = [ok EXCEPT ![w] = FALSE]

(* Where cleanup begins. *)
FirstCleanup(w) ==
  CASE w \in Helper -> "wfd_get"
    [] w = "broker" -> IF backend = "direct" THEN "cancel" ELSE "nm_read"

(* What follows the WFD metadata. *)
AfterWfd(w) ==
  CASE w = "broker" -> "end"
    [] w \in Helper -> IF backend = "direct" THEN "interfaces" ELSE "nm_read"

-----------------------------------------------------------------------------
(* serve and handle *)

(* Requests are served one after the other until stop is set.  A request    *)
(* that is malformed, or names another operation or a wrong PIN, is refused *)
(* ("other"), and so is a PIN when NetworkManager makes the connection.     *)
Request(op) ==
  LET refused == \/ op = "other"
                 \/ op = "pin" /\ backend = "networkmanager"
                 \/ op \in {"connect", "pin"} /\ "connect_attempted" \in flags
  IN
  /\ pc["broker"] = "serve" /\ ~stop
  /\ \/ refused /\ Answer("error") /\ UNCHANGED ok
     \/ /\ ~refused /\ op # "cleanup"
        /\ Goto("broker", "wait_arm") /\ reply' = "none" /\ UNCHANGED ok
     \/ /\ op = "cleanup"
        /\ Goto("broker", FirstCleanup("broker")) /\ reply' = "none"
        /\ ok' = [ok EXCEPT !["broker"] = TRUE]
  /\ UNCHANGED <<backend, files, bus, stop, flags, final, monitor, faults>>

(* Seeded fault: the loop waits for a client whatever stop says. *)
LeaveServe_Deaf == FALSE /\ UNCHANGED vars

(* SIGTERM or a cleanup request has set stop: the finally clause cleans up  *)
(* once more.                                                               *)
LeaveServe ==
  /\ pc["broker"] = "serve" /\ stop
  /\ final' = TRUE /\ ok' = [ok EXCEPT !["broker"] = TRUE]
  /\ Goto("broker", FirstCleanup("broker"))
  /\ UNCHANGED <<backend, files, bus, stop, flags, reply, monitor, faults>>

(* wait_for_network_arm: the marker of the guard, or ten seconds, or stop.  *)
(* Only then the one connect of the session is used up.                     *)
WaitArm ==
  /\ pc["broker"] = "wait_arm"
  /\ \/ /\ armed /\ flags' = flags \cup {"connect_attempted"}
        /\ Goto("broker", "resolve") /\ UNCHANGED reply
     \/ ~armed /\ Answer("error") /\ UNCHANGED flags
  /\ UNCHANGED <<backend, files, bus, stop, final, monitor, ok, faults>>

-----------------------------------------------------------------------------
(* connect over wpa_supplicant *)

(* The control object and the receiver are found and nobody else has set    *)
(* WFD metadata, or the request fails.                                      *)
ResolveSupplicant ==
  /\ pc["broker"] = "resolve" /\ backend = "direct"
  /\ \/ wfd = "empty" /\ Goto("broker", "mark") /\ UNCHANGED reply
     \/ Answer("error")
  /\ UNCHANGED <<backend, files, bus, stop, flags, final, monitor, ok, faults>>

MarkWfd ==
  /\ pc["broker"] = "mark"
  /\ marker' = TRUE /\ flags' = flags \cup {"wfd_owned"}
  /\ Goto("broker", "set")
  /\ UNCHANGED <<backend, armed, record, bus, stop, reply, final, monitor, ok, faults>>

(* A call that fails may still have been carried out. *)
SetWfd ==
  /\ pc["broker"] = "set"
  /\ \/ wfd' = "ours" /\ Goto("broker", "watch") /\ UNCHANGED <<reply, faults>>
     \/ wfd' \in {wfd, "ours"} /\ Answer("error") /\ Fault
  /\ UNCHANGED <<backend, files, group, active, stop, flags, final, monitor, ok>>

(* The signal monitor must be watching before the call is made. *)
StartMonitor ==
  /\ pc["broker"] = "watch"
  /\ \/ monitor' = "on" /\ Goto("broker", "dial") /\ UNCHANGED reply
     \/ Answer("error") /\ UNCHANGED monitor
  /\ UNCHANGED <<backend, files, bus, stop, flags, final, ok, faults>>

(* Seeded fault: the attempt is only noted when the call has succeeded. *)
Dial_NotedLate ==
  /\ pc["broker"] = "dial"
  /\ \/ /\ group' = "pending" /\ Goto("broker", "poll")
        /\ flags' = flags \cup {"p2p_mutation_attempted"} /\ UNCHANGED <<reply, monitor>>
     \/ /\ group' \in {"none", "pending"} /\ Answer("error") /\ monitor' = "off"
        /\ UNCHANGED flags
  /\ UNCHANGED <<backend, files, wfd, active, stop, final, ok, faults>>

(* The supplicant is asked to connect, with the push button or the PIN; a   *)
(* call that timed out may have begun the negotiation.                      *)
Dial ==
  /\ pc["broker"] = "dial"
  /\ flags' = flags \cup {"p2p_mutation_attempted"}
  /\ \/ group' = "pending" /\ Goto("broker", "poll") /\ UNCHANGED <<reply, monitor>>
     \/ group' \in {"none", "pending"} /\ Answer("error") /\ monitor' = "off"
  /\ UNCHANGED <<backend, files, wfd, active, stop, final, ok, faults>>

(* A group of the receiver that was not there before, on its own interface. *)
GroupSeen == group = "formed"

(* Either the group is there, or the receiver refuses, 45 seconds pass,     *)
(* stop is set or the monitor breaks.                                       *)
PollGroup ==
  /\ pc["broker"] = "poll" /\ backend = "direct"
  /\ \/ /\ monitor = "on" /\ GroupSeen
        /\ Goto("broker", "close") /\ UNCHANGED <<reply, monitor>>
     \/ Answer("error") /\ monitor' = "off"
  /\ UNCHANGED <<backend, files, bus, stop, flags, final, ok, faults>>

(* A refusal that the monitor has received by its end still counts. *)
CloseMonitor ==
  /\ pc["broker"] = "close"
  /\ Answer(IF monitor = "refused" THEN "error" ELSE "ok") /\ monitor' = "off"
  /\ UNCHANGED <<backend, files, bus, stop, flags, final, ok, faults>>

-----------------------------------------------------------------------------
(* connect_networkmanager *)

ResolveNetworkManager ==
  /\ pc["broker"] = "resolve" /\ backend = "networkmanager"
  /\ \/ Goto("broker", "intent") /\ UNCHANGED reply
     \/ Answer("error")
  /\ UNCHANGED <<backend, files, bus, stop, flags, final, monitor, ok, faults>>

(* Seeded fault: nothing is recorded before the call. *)
WriteIntent_Skipped ==
  /\ pc["broker"] = "intent"
  /\ flags' = flags \cup {"p2p_mutation_attempted"}
  /\ Goto("broker", "activate")
  /\ UNCHANGED <<backend, files, bus, stop, reply, final, monitor, ok, faults>>

(* The record is replaced atomically, or not at all. *)
WriteIntent ==
  /\ pc["broker"] = "intent"
  /\ flags' = flags \cup {"p2p_mutation_attempted"}
  /\ \/ record' = "intent" /\ Goto("broker", "activate") /\ UNCHANGED <<reply, faults>>
     \/ Answer("error") /\ Fault /\ UNCHANGED record
  /\ UNCHANGED <<backend, armed, marker, bus, stop, final, monitor, ok>>

(* AddAndActivateConnection2: accepted, refused, or accepted without the    *)
(* answer reaching the broker in time.                                      *)
Activate ==
  /\ pc["broker"] = "activate"
  /\ \/ active' = "up" /\ Goto("broker", "write") /\ UNCHANGED reply
     \/ active' \in {"none", "up"} /\ Answer("error")
  /\ UNCHANGED <<backend, files, wfd, group, stop, flags, final, monitor, ok, faults>>

(* Seeded fault: the record is rewritten in place. *)
WriteRecord_InPlace ==
  /\ pc["broker"] = "write"
  /\ \/ record' = "full" /\ Goto("broker", "poll") /\ UNCHANGED <<reply, faults>>
     \/ Answer("error") /\ Fault /\ record' = "torn"
  /\ UNCHANGED <<backend, armed, marker, bus, stop, flags, final, monitor, ok>>

(* The returned paths replace the intent. *)
WriteRecord ==
  /\ pc["broker"] = "write"
  /\ \/ record' = "full" /\ Goto("broker", "poll") /\ UNCHANGED <<reply, faults>>
     \/ Answer("error") /\ Fault /\ UNCHANGED record
  /\ UNCHANGED <<backend, armed, marker, bus, stop, flags, final, monitor, ok>>

PollActive ==
  /\ pc["broker"] = "poll" /\ backend = "networkmanager"
  /\ \/ active = "up" /\ Answer("ok")
     \/ Answer("error")
  /\ UNCHANGED <<backend, files, bus, stop, flags, final, monitor, ok, faults>>

-----------------------------------------------------------------------------
(* cleanup of the broker over wpa_supplicant, and its WFD metadata *)

(* Cancel, then Disconnect.  Each fails when there is nothing to end. *)
EndGroup(label, state, next) ==
  /\ pc["broker"] = label /\ Goto("broker", next)
  /\ \/ "p2p_mutation_attempted" \notin flags /\ UNCHANGED <<group, ok, faults>>
     \/ /\ "p2p_mutation_attempted" \in flags
        /\ \/ group = state /\ group' = "none" /\ UNCHANGED <<ok, faults>>
           \/ group # state /\ ok' \in {ok, [ok EXCEPT !["broker"] = FALSE]}
              /\ UNCHANGED <<group, faults>>
           \/ Fault /\ Failed("broker") /\ UNCHANGED group
  /\ UNCHANGED <<backend, files, wfd, active, own>>

CancelDisconnect ==
  EndGroup("cancel", "pending", "disconnect") \/ EndGroup("disconnect", "formed", "wfd_get")

(* Seeded fault: a helper takes a failed read for an empty property. *)
WfdGet_FailureIsEmpty(w) ==
  /\ pc[w] = "wfd_get"
  /\ LET mine == IF w = "broker" THEN "wfd_owned" \in flags ELSE marker IN
     \/ ~mine /\ Goto(w, AfterWfd(w)) /\ UNCHANGED <<ok, faults>>
     \/ mine /\ wfd = "ours" /\ Goto(w, "wfd_set") /\ UNCHANGED <<ok, faults>>
     \/ mine /\ Fault /\ Goto(w, AfterWfd(w)) /\ UNCHANGED ok
  /\ UNCHANGED <<backend, files, bus, own>>

(* The broker goes by its flag and insists on its own value; a helper goes  *)
(* by the marker and also accepts that the metadata is already gone.        *)
WfdGet(w) ==
  /\ pc[w] = "wfd_get"
  /\ LET mine == IF w = "broker" THEN "wfd_owned" \in flags ELSE marker IN
     \/ ~mine /\ Goto(w, AfterWfd(w)) /\ UNCHANGED <<ok, faults>>
     \/ mine /\ wfd = "ours" /\ Goto(w, "wfd_set") /\ UNCHANGED <<ok, faults>>
     \/ /\ mine /\ wfd = "empty" /\ w \in Helper
        /\ Goto(w, "wfd_unmark") /\ UNCHANGED <<ok, faults>>
     \/ /\ mine /\ (wfd = "foreign" \/ (wfd = "empty" /\ w = "broker"))
        /\ Goto(w, AfterWfd(w)) /\ Failed(w) /\ UNCHANGED faults
     \/ mine /\ Fault /\ Goto(w, AfterWfd(w)) /\ Failed(w)
  /\ UNCHANGED <<backend, files, bus, own>>

WfdSet(w) ==
  /\ pc[w] = "wfd_set"
  /\ \/ wfd' = "empty" /\ Goto(w, "wfd_unmark") /\ UNCHANGED <<ok, faults>>
     \/ wfd' \in {wfd, "empty"} /\ Fault /\ Failed(w) /\ Goto(w, AfterWfd(w))
  /\ UNCHANGED <<backend, files, group, active, own>>

WfdUnmark(w) ==
  /\ pc[w] = "wfd_unmark" /\ Goto(w, AfterWfd(w))
  /\ marker' = FALSE
  /\ flags' = IF w = "broker" THEN flags \ {"wfd_owned"} ELSE flags
  /\ UNCHANGED <<backend, armed, record, bus, stop, reply, final, monitor, ok, faults>>

-----------------------------------------------------------------------------
(* cleanup_networkmanager: of the broker and, as --recover-networkmanager,  *)
(* of both helpers                                                          *)

NmRead(w) ==
  /\ pc[w] = "nm_read"
  /\ Goto(w, CASE record = "none" -> "end" [] record = "intent" -> "nm_find"
               [] record = "full" -> "nm_owned")
  /\ UNCHANGED <<backend, files, bus, own, ok, faults>>

(* _nm_owned and _find_nm_owned_active: the list of active connections is   *)
(* read first, the properties of the one in the list after that; they       *)
(* cannot be read once it has gone.                                         *)
Owned(w, list, get, gone, held) ==
  /\ \/ /\ pc[w] = list /\ UNCHANGED faults
        /\ Goto(w, IF active = "none" THEN gone ELSE get)
     \/ /\ pc[w] = get /\ UNCHANGED faults
        /\ Goto(w, IF active = "none" THEN "nm_raise" ELSE held)
     \/ pc[w] \in {list, get} /\ Fault /\ Goto(w, "nm_raise")
  /\ UNCHANGED <<backend, files, bus, own, ok>>

NmFind(w)  == Owned(w, "nm_find", "nm_identify", "nm_drop", "nm_adopt")
NmOwned(w) == Owned(w, "nm_owned", "nm_verify", "nm_drop", "nm_deactivate")

(* An intent that was resolved is recorded with its paths. *)
NmAdopt(w) ==
  /\ pc[w] = "nm_adopt"
  /\ \/ record' = "full" /\ Goto(w, "nm_owned") /\ UNCHANGED faults
     \/ Fault /\ Goto(w, "nm_raise") /\ UNCHANGED record
  /\ UNCHANGED <<backend, armed, marker, bus, own, ok>>

NmDeactivate(w) ==
  /\ pc[w] = "nm_deactivate"
  /\ \/ active # "none" /\ active' = "going" /\ Goto(w, "nm_wait") /\ UNCHANGED faults
     \/ active = "none" /\ Goto(w, "nm_refused") /\ UNCHANGED <<active, faults>>
     \/ active # "none" /\ Fault /\ Goto(w, "nm_refused") /\ UNCHANGED active
  /\ UNCHANGED <<backend, files, wfd, group, own, ok>>

(* A refused call is fine when the activation has gone. *)
NmRefused(w) == Owned(w, "nm_refused", "nm_recheck", "nm_wait", "nm_raise")

(* At most ten seconds for the release, polled. *)
NmWait(w) == Owned(w, "nm_wait", "nm_reverify", "nm_drop", "nm_wait")

NmDrop(w) ==
  /\ pc[w] = "nm_drop" /\ Goto(w, "end")
  /\ record' = "none"
  /\ UNCHANGED <<backend, armed, marker, bus, own, ok, faults>>

NmRaise(w) ==
  /\ pc[w] = "nm_raise" /\ Goto(w, "end") /\ Failed(w)
  /\ UNCHANGED <<backend, files, bus, own, faults>>

-----------------------------------------------------------------------------
(* The end of a cleanup: the broker answers and stops, or has ended. *)
End(w) ==
  /\ pc[w] = "end"
  /\ \/ w \in Helper /\ Goto(w, "done") /\ UNCHANGED <<stop, reply>>
     \/ w = "broker" /\ final /\ Goto(w, "exited") /\ UNCHANGED <<stop, reply>>
     \/ /\ w = "broker" /\ ~final
        /\ stop' = TRUE /\ Answer(IF ok[w] THEN "ok" ELSE "error")
  /\ UNCHANGED <<backend, files, bus, flags, final, monitor, ok, faults>>

(* The guard's side.  Its cleanup and recovery stop the unit, which sets    *)
(* stop, and go on when it has ended.                                       *)
Arm ==
  /\ ~armed /\ pc["guard"] = "idle" /\ armed' = TRUE
  /\ UNCHANGED <<backend, marker, record, bus, own, pc, ok, faults>>

StopUnit(w) ==
  /\ w \in Helper /\ pc[w] = "idle"
  /\ stop' = TRUE /\ Goto(w, "stop")
  /\ UNCHANGED <<backend, files, bus, flags, reply, final, monitor, ok, faults>>

BrokerDown(w) ==
  /\ pc[w] = "stop" /\ pc["broker"] \in {"exited", "dead"}
  /\ Goto(w, FirstCleanup(w))
  /\ UNCHANGED <<backend, files, bus, own, ok, faults>>

(* record_session_interfaces and remove_session_interfaces. *)
RemoveInterfaces(w) ==
  /\ pc[w] = "interfaces" /\ Goto(w, "end")
  /\ \/ /\ group' = IF group = "formed" /\ armed THEN "none" ELSE group
        /\ UNCHANGED <<ok, faults>>
     \/ armed /\ Fault /\ Failed(w) /\ UNCHANGED group
  /\ UNCHANGED <<backend, files, wfd, active, own>>

-----------------------------------------------------------------------------
(* The surroundings *)

(* Negotiation ends with a group; a group ends by itself. *)
Negotiate ==
  /\ \/ group = "pending" /\ group' = "formed"
     \/ group = "formed" /\ group' = "none"
  /\ UNCHANGED <<backend, files, wfd, active, own, pc, ok, faults>>

(* Or the receiver refuses, also while the group is being set up; the       *)
(* monitor receives GONegotiationFailure or WpsFailed.                      *)
Refuse ==
  /\ group # "none" /\ group' = "none"
  /\ monitor' = IF monitor = "on" THEN "refused" ELSE monitor
  /\ UNCHANGED <<backend, files, wfd, active, stop, flags, reply, final, pc, ok, faults>>

(* An activation ends by itself or because it was deactivated. *)
Lose ==
  /\ active = "up" /\ active' = "none"
  /\ UNCHANGED <<backend, files, wfd, group, own, pc, ok, faults>>

Release ==
  /\ active = "going" /\ active' = "none"
  /\ UNCHANGED <<backend, files, wfd, group, own, pc, ok, faults>>

(* Another Wi-Fi Display program sets or clears its metadata. *)
Foreign ==
  /\ \/ wfd # "foreign" /\ wfd' = "foreign"
     \/ wfd = "foreign" /\ wfd' = "empty"
  /\ UNCHANGED <<backend, files, group, active, own, pc, ok, faults>>

Kill(w) ==
  /\ pc[w] \notin {"idle", "done", "exited", "dead"} /\ Fault
  /\ Goto(w, "dead")
  /\ UNCHANGED <<backend, files, bus, own, ok>>

-----------------------------------------------------------------------------
Connect ==
  \/ WaitArm \/ ResolveSupplicant \/ MarkWfd \/ SetWfd \/ StartMonitor \/ Dial
  \/ PollGroup \/ CloseMonitor
  \/ ResolveNetworkManager \/ WriteIntent \/ Activate \/ WriteRecord \/ PollActive

CleanNetworkManager(w) ==
  \/ NmRead(w) \/ NmFind(w) \/ NmOwned(w) \/ NmAdopt(w) \/ NmDeactivate(w)
  \/ NmRefused(w) \/ NmWait(w) \/ NmDrop(w) \/ NmRaise(w)

CleanWfd(w) == WfdGet(w) \/ WfdSet(w) \/ WfdUnmark(w)

BrokerStep ==
  Connect \/ LeaveServe \/ CancelDisconnect \/ CleanWfd("broker")
    \/ CleanNetworkManager("broker") \/ End("broker")

HelperStep(w) ==
  BrokerDown(w) \/ CleanWfd(w) \/ RemoveInterfaces(w) \/ CleanNetworkManager(w) \/ End(w)

Next ==
  \/ \E op \in {"connect", "pin", "cleanup", "other"} : Request(op)
  \/ BrokerStep
  \/ \E w \in Helper : StopUnit(w) \/ HelperStep(w)
  \/ Arm \/ Negotiate \/ Refuse \/ Lose \/ Release \/ Foreign
  \/ \E w \in Process : Kill(w)

Spec == Init /\ [][Next]_vars

(* Every call of the broker has a timeout and every wait a deadline;        *)
(* NetworkManager gives up an activation it was told to deactivate.         *)
(* Nothing makes a client ask, a helper begin or a receiver answer.         *)
FairSpec ==
  /\ Spec
  /\ WF_vars(BrokerStep) /\ WF_vars(Release)
  /\ \A w \in Helper : WF_vars(HelperStep(w))

-----------------------------------------------------------------------------
(* Properties *)

(* The values of the variables. *)
TypeOK ==
  /\ backend \in Backends /\ armed \in BOOLEAN /\ marker \in BOOLEAN
  /\ record \in {"none", "intent", "full"}
  /\ wfd \in {"empty", "ours", "foreign"} /\ group \in {"none", "pending", "formed"}
  /\ active \in {"none", "up", "going"}
  /\ stop \in BOOLEAN /\ flags \subseteq Flags /\ reply \in {"none", "ok", "error"}
  /\ final \in BOOLEAN /\ monitor \in {"off", "on", "refused"}
  /\ pc \in [Process -> Labels] /\ ok \in [Process -> BOOLEAN]
  /\ faults \in 0..MaxFaults

(* Whenever the broker or a helper is killed, and whichever call fails, the *)
(* session's metadata in the supplicant has its marker and its activation   *)
(* in NetworkManager has its record, by which it can be found again.        *)
TraceKept ==
  /\ wfd = "ours" => marker
  /\ active # "none" => record # "none"

(* A helper that reports success after the broker has ended has taken back  *)
(* the metadata and the activation, although broker, guard and recovery may *)
(* all have worked on them at the same time.                                *)
SuccessMeansReleased ==
  \A w \in Helper : pc[w] = "done" /\ ok[w] => wfd # "ours" /\ active = "none"

(* Without a fault no P2P group is left, nor one that may still form, when  *)
(* the broker has ended, even if connect failed halfway.                    *)
GroupEnded ==
  pc["broker"] = "exited" /\ faults = 0 => group = "none"

(* A helper that has told the unit to stop completes its cleanup: no        *)
(* request, wait or poll keeps the broker or the helper for ever.           *)
CleanupEnds ==
  \A w \in Helper : pc[w] = "stop" ~> pc[w] \in {"done", "dead"}

(* Documented as: "Normal guard cleanup and lease recovery can converge on  *)
(* the same owned activation."  So without a fault cleanup_networkmanager   *)
(* fails only while the activation is still there.                          *)
Converges ==
  \A w \in Process :
    pc[w] = "end" /\ backend = "networkmanager" /\ faults = 0 /\ ~ok[w] => active # "none"
=============================================================================
