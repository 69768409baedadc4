---------------------------- MODULE GuardSession ----------------------------
(***************************************************************************)
(* One guarded network session: the root helper omarchy-cast-guard, the    *)
(* independent omarchy-cast-guard-recover it arms, the unprivileged        *)
(* adapter that leases the session and the engine it runs.  They share     *)
(* the files of /run/omarchy-cast/<session> and the host's network.        *)
(*                                                                         *)
(* What the session borrowed from the host is the set `borrowed`; the      *)
(* session is restored when it is empty.  Every step of a process is one   *)
(* command of its script, or a run of commands that touch one resource.    *)
(***************************************************************************)
EXTENDS Naturals

CONSTANTS
  Backends,    \* the network backends considered
  Failing,     \* the kinds of faults considered
  MaxFaults    \* bound on faults

(* What can go wrong: a kill; a look at the lease just when a renewal has   *)
(* truncated it; a step of the setup or of the restoration that fails and   *)
(* is noticed; and two that no script notices: "blind", a look at the host  *)
(* that fails and passes for nothing to do, and a networkd unit that does   *)
(* not stop.                                                                *)
FaultKinds == {"kill", "torn", "setup", "broker", "wfd", "interfaces", "resume", "rule",
               "networkd", "blind", "networkd-stop"}

ASSUME BackendsAssumption == Backends \subseteq {"direct", "networkmanager"}
ASSUME FailingAssumption  == Failing \subseteq FaultKinds
ASSUME FaultsAssumption   == MaxFaults \in Nat

VARIABLES
  backend,   \* the backend of this session
  files,     \* the files and directories of the session that exist
  status,    \* the phase in status.json, "none" when there is no such file
  hb,        \* what a read of the heartbeat file yields
  borrowed,  \* what the session has changed on the host
  pc, fd,    \* next command and open heartbeat descriptor of guard and recovery
  ok, ifok,  \* their cleanup_ok and interface_cleanup_ok
  trap,      \* which EXIT trap of the guard is installed
  rule_added, broker_started,  \* ufw_rule_added and broker_started of the guard
  a,         \* the next operation of the adapter
  engine,    \* the engine: "none", "running", "triggered", "connected"
  confirmed, \* guard_cleanup_confirmed of the adapter
  faults,    \* faults so far
  missed     \* history: what was left, or changed, where no cleanup would look for it

root    == <<files, status, hb, borrowed>>
flags   == <<trap, rule_added, broker_started>>
workers == <<pc, fd, ok, ifok, flags>>
adapter == <<a, engine, confirmed>>
vars    == <<backend, root, workers, adapter, faults, missed>>

Worker == {"guard", "recovery"}

UserFiles == {"trigger", "stop", "ack", "heartbeat"}
Files == UserFiles \cup {"dir", "user", "token", "interfaces", "recovery-ready",
           "networkd", "network", "firewalld", "resume", "armed"}
Resources == {"broker", "rule", "port", "nm", "p2p", "networkd"}

SetupLabels      == {"identity", "arm", "runtime", "start_broker", "ready", "wait", "lease"}
ActivationLabels == {"rule", "port_mark", "port", "pause_mark", "pause", "baseline",
                     "networkd_up", "active"}
CleanupLabels    == {"stop_broker", "interfaces", "resume", "unmark", "close",
                     "markers", "restore", "evidence", "token"}
Ended            == {"exited", "dead"}
NotRunning       == Ended \cup {"idle", "identity"}
GuardLabels    == SetupLabels \cup ActivationLabels \cup CleanupLabels \cup Ended
                    \cup {"idle", "loop", "own", "publish", "finalize"}
RecoveryLabels == CleanupLabels \cup Ended
                    \cup {"idle", "start", "watch", "last", "publish", "finalize"}

Init ==
  /\ backend \in Backends
  /\ files = {} /\ status = "none" /\ hb = "none" /\ borrowed = {}
  /\ pc = [w \in Worker |-> "idle"] /\ fd = [w \in Worker |-> FALSE]
  /\ ok = [w \in Worker |-> TRUE]   /\ ifok = [w \in Worker |-> TRUE]
  /\ trap = "setup" /\ rule_added = FALSE /\ broker_started = FALSE
  /\ a = "idle" /\ engine = "none" /\ confirmed = FALSE
  /\ faults = 0 /\ missed = {}

-----------------------------------------------------------------------------
(* Helpers *)

Goto(w, label) == pc' = [pc EXCEPT ![w] = label]

Fault(what) == what \in Failing /\ faults < MaxFaults /\ faults' = faults + 1

(* rmdir --ignore-fail-on-non-empty of the user and the session directory. *)
RemoveDirs(remaining, phase) ==
  LET left == IF remaining \cap UserFiles = {} THEN remaining \ {"user"} ELSE remaining
  IN  IF left = {"dir"} /\ phase = "none" THEN {} ELSE left

(* status() and publish_status() write nothing once the directory is gone. *)
PublishStatus(phase) == status' = IF "dir" \in files THEN phase ELSE status

(* _write_private_marker needs the user directory. *)
WriteMarker(name) == files' = IF "user" \in files THEN files \cup {name} ELSE files

(* Seeded fault: a lease that is out of date still counts. *)
LeaseFresh_AnyContent(w) == fd[w] \/ "heartbeat" \in files

(* open_heartbeat and lease_fresh.  A truncated heartbeat is no lease. *)
LeaseFresh(w) ==
  /\ fd[w] \/ "heartbeat" \in files
  /\ hb = "fresh"

(* A look may fall into a renewal; it finds the lease of a controller that  *)
(* renews no more as it was left.                                           *)
LookAtLease ==
  IF hb = "torn" /\ a \in {"lease", "run"} THEN Fault("torn") ELSE UNCHANGED faults

(* The files by which a cleanup finds what it has to give back. *)
Record(what) ==
  {file \in Files : \/ file = "token"
                    \/ file = "resume" /\ what = "nm"
                    \/ file = "firewalld" /\ what = "port"
                    \/ file = "networkd" /\ what = "networkd"
                    \/ file = "armed" /\ what = "p2p" /\ backend = "direct"}

Miss(what) == missed' = missed \cup what

(* Recovery has left its watch, so that it may be past the place where it   *)
(* would give this back, or has been killed after it removed the record.    *)
Behind(what) ==
  /\ pc["recovery"] # "watch"
  /\ pc["recovery"] = "dead" => ~(Record(what) \subseteq files)

(* The guard changes something of the host. *)
Borrow(what) ==
  /\ borrowed' = borrowed \cup {what}
  /\ IF Behind(what) THEN Miss({what}) ELSE UNCHANGED missed

-----------------------------------------------------------------------------
(* The guard: prepare *)

(* set -e, die and the signals run the EXIT trap. *)
Die == Goto("guard", "own")

(* install -m600 of a marker fails when the session directory has gone. *)
InstallMarker(name, label) ==
  \/ "dir" \in files /\ files' = files \cup {name} /\ Goto("guard", label)
  \/ "dir" \notin files /\ Die /\ UNCHANGED files

CreateIdentity ==
  /\ pc["guard"] = "identity"
  /\ files' = {"dir", "user", "token", "interfaces"}
  /\ Goto("guard", "arm")
  /\ UNCHANGED <<backend, status, hb, borrowed, fd, ok, ifok, flags,
                 adapter, faults, missed>>

(* systemd-run starts recovery; the guard goes on once it has announced     *)
(* itself, and stops it when it does not in time.                           *)
ArmRecovery ==
  /\ pc["guard"] = "arm"
  /\ \/ pc["recovery"] = "idle" /\ Goto("recovery", "start") /\ UNCHANGED faults
     \/ /\ pc["recovery"] = "watch" /\ "recovery-ready" \in files
        /\ Goto("guard", "runtime") /\ UNCHANGED faults
     \/ pc["recovery"] = "dead" /\ Die /\ UNCHANGED faults
     \/ /\ pc["recovery"] # "dead" /\ Fault("setup")
        /\ pc' = [guard |-> "own", recovery |-> "exited"]
  /\ UNCHANGED <<backend, root, fd, ok, ifok, flags, adapter, missed>>

(* The prior networkd units are recorded before the network file exists. *)
WriteRuntime ==
  /\ pc["guard"] = "runtime"
  /\ \/ /\ files' = IF backend = "direct" THEN files \cup {"networkd", "network"} ELSE files
        /\ Goto("guard", "start_broker") /\ UNCHANGED faults
     \/ /\ Fault("setup") /\ Die
        /\ files' \in {files, files \cup {"networkd"}}
  /\ UNCHANGED <<backend, status, hb, borrowed, fd, ok, ifok, flags, adapter, missed>>

(* A broker that systemd started although systemd-run failed is one that    *)
(* the guard knows nothing of, and what such a broker connects to as well.  *)
StartBroker ==
  /\ pc["guard"] = "start_broker"
  /\ \/ /\ borrowed' = borrowed \cup {"broker"} /\ broker_started' = TRUE
        /\ Goto("guard", "ready") /\ UNCHANGED <<faults, missed>>
     \/ /\ borrowed' \in {borrowed, borrowed \cup {"broker"}} /\ broker_started' = TRUE
        /\ Fault("setup") /\ Die /\ UNCHANGED missed
     \/ /\ Fault("setup") /\ Die /\ UNCHANGED <<borrowed, broker_started, missed>>
     \/ /\ borrowed' = borrowed \cup {"broker"} /\ Miss({"broker", "p2p"})
        /\ Fault("blind") /\ Die /\ UNCHANGED broker_started
  /\ UNCHANGED <<backend, files, status, hb, fd, ok, ifok, trap, rule_added, adapter>>

Ready ==
  /\ pc["guard"] = "ready"
  /\ PublishStatus("ready") /\ trap' = "session" /\ Goto("guard", "wait")
  /\ UNCHANGED <<backend, files, hb, borrowed, fd, ok, ifok, rule_added,
                 broker_started, adapter, faults, missed>>

(* A trigger, a stop marker or 300 seconds end the wait. *)
WaitTrigger ==
  /\ pc["guard"] = "wait"
  /\ \/ /\ "trigger" \in files
        /\ files' = files \ {"trigger"} /\ Goto("guard", "lease")
        /\ UNCHANGED status
     \/ /\ "trigger" \notin files
        /\ PublishStatus("error") /\ Die
        /\ UNCHANGED files
  /\ UNCHANGED <<backend, hb, borrowed, fd, ok, ifok, flags, adapter, faults, missed>>

CheckLease ==
  /\ pc["guard"] = "lease"
  /\ fd' = [fd EXCEPT !["guard"] = @ \/ "heartbeat" \in files]
  /\ \/ LeaseFresh("guard") /\ Goto("guard", "rule") /\ UNCHANGED status
     \/ ~LeaseFresh("guard") /\ PublishStatus("error") /\ Die
  /\ LookAtLease
  /\ UNCHANGED <<backend, files, hb, borrowed, ok, ifok, flags, adapter, missed>>

(* activate_network: the UFW rule, when UFW is active; ufw may fail after   *)
(* it added it, and the guard does not know of it then.                     *)
AddRule ==
  /\ pc["guard"] = "rule"
  /\ \/ Borrow("rule") /\ rule_added' = TRUE /\ UNCHANGED faults
     \/ UNCHANGED <<borrowed, rule_added, faults, missed>>
     \/ /\ borrowed' = borrowed \cup {"rule"} /\ Fault("blind") /\ Miss({"rule"})
        /\ UNCHANGED rule_added
  /\ \E label \in IF backend = "direct" THEN {"pause_mark"} ELSE {"port_mark", "baseline"} :
       Goto("guard", label)
  /\ UNCHANGED <<backend, files, status, hb, fd, ok, ifok, trap, broker_started, adapter>>

(* The firewalld port of the NetworkManager backend, marker first. *)
OpenPort ==
  /\ \/ /\ pc["guard"] = "port_mark"
        /\ InstallMarker("firewalld", "port") /\ UNCHANGED <<borrowed, faults, missed>>
     \/ /\ pc["guard"] = "port"
        /\ \/ Borrow("port") /\ Goto("guard", "baseline") /\ UNCHANGED <<files, faults>>
           \/ /\ Fault("rule") /\ files' = files \ {"firewalld"} /\ Die
              /\ UNCHANGED <<borrowed, missed>>
  /\ UNCHANGED <<backend, status, hb, fd, ok, ifok, flags, adapter>>

(* Seeded fault: NetworkManager is paused before the marker is written. *)
PauseNetworkManager_StopFirst ==
  /\ \/ /\ pc["guard"] = "pause_mark"
        /\ Borrow("nm") /\ Goto("guard", "pause") /\ UNCHANGED files
     \/ /\ pc["guard"] = "pause"
        /\ files' = files \cup {"resume"} /\ Goto("guard", "baseline")
        /\ UNCHANGED <<borrowed, missed>>
  /\ UNCHANGED <<backend, status, hb, fd, ok, ifok, flags, adapter, faults>>

(* pause_network_manager: the marker, then SIGSTOP. *)
PauseNetworkManager ==
  /\ \/ /\ pc["guard"] = "pause_mark"
        /\ InstallMarker("resume", "pause") /\ UNCHANGED <<borrowed, faults, missed>>
     \/ /\ pc["guard"] = "pause"
        /\ \/ Borrow("nm") /\ Goto("guard", "baseline") /\ UNCHANGED <<files, faults>>
           \/ /\ Fault("setup") /\ files' = files \ {"resume"} /\ Die
              /\ UNCHANGED <<borrowed, missed>>
  /\ UNCHANGED <<backend, status, hb, fd, ok, ifok, flags, adapter>>

(* No foreign P2P client: from here on every new one is the session's. *)
ArmInterfaces ==
  /\ pc["guard"] = "baseline"
  /\ \/ /\ InstallMarker("armed", IF backend = "direct" THEN "networkd_up" ELSE "active")
        /\ UNCHANGED faults
     \/ Fault("setup") /\ Die /\ UNCHANGED files
  /\ UNCHANGED <<backend, status, hb, borrowed, fd, ok, ifok, flags, adapter, missed>>

StartNetworkd ==
  /\ pc["guard"] = "networkd_up"
  /\ \/ Borrow("networkd") /\ Goto("guard", "active") /\ UNCHANGED faults
     \/ Fault("setup") /\ Die /\ UNCHANGED <<borrowed, missed>>
  /\ UNCHANGED <<backend, files, status, hb, fd, ok, ifok, flags, adapter>>

Active ==
  /\ pc["guard"] = "active"
  /\ PublishStatus("active") /\ Goto("guard", "loop")
  /\ UNCHANGED <<backend, files, hb, borrowed, fd, ok, ifok, flags, adapter, faults, missed>>

(* The session loop ends with the token, with a stop marker or the lease. *)
LoopEnd ==
  /\ pc["guard"] = "loop"
  /\ \/ ("token" \notin files \/ "stop" \in files) /\ UNCHANGED faults
     \/ ~LeaseFresh("guard") /\ LookAtLease
  /\ Goto("guard", "own")
  /\ UNCHANGED <<backend, root, fd, ok, ifok, flags, adapter, missed>>

(* cleanup returns at once when the session is not owned any more. *)
OwnsSession ==
  /\ pc["guard"] = "own"
  /\ \/ "token" \in files /\ Goto("guard", "stop_broker") /\ UNCHANGED files
     \/ /\ "token" \notin files /\ Goto("guard", "publish")
        /\ files' = RemoveDirs(files, status)
  /\ UNCHANGED <<backend, status, hb, borrowed, fd, ok, ifok, flags, adapter, faults, missed>>

-----------------------------------------------------------------------------
(* Recovery *)

PublishReady ==
  /\ pc["recovery"] = "start"
  /\ \/ /\ "token" \in files /\ "recovery-ready" \notin files
        /\ files' = files \cup {"recovery-ready"} /\ Goto("recovery", "watch")
     \/ /\ "token" \notin files \/ "recovery-ready" \in files
        /\ Goto("recovery", "exited") /\ UNCHANGED files
  /\ UNCHANGED <<backend, status, hb, borrowed, fd, ok, ifok, flags, adapter, faults, missed>>

(* Seeded fault: recovery only waits for the token to go away. *)
Watch_NeverExpires ==
  /\ pc["recovery"] = "watch"
  /\ "token" \notin files
  /\ Goto("recovery", "last")
  /\ UNCHANGED <<backend, root, fd, ok, ifok, flags, adapter, faults, missed>>

(* Seeded fault: the grace for the first heartbeat ends every session. *)
Watch_GraceEndsAll ==
  /\ pc["recovery"] = "watch"
  /\ "token" \notin files \/ pc["guard"] \notin SetupLabels
  /\ Goto("recovery", "last")
  /\ UNCHANGED <<backend, root, fd, ok, ifok, flags, adapter, faults, missed>>

(* One round of the watch.  Without a heartbeat file recovery waits 360     *)
(* seconds, longer than the guard prepares and waits for its trigger.       *)
Watch ==
  /\ pc["recovery"] = "watch"
  /\ \/ "token" \notin files /\ Goto("recovery", "last") /\ UNCHANGED <<fd, faults>>
     \/ /\ "token" \in files /\ (fd["recovery"] \/ "heartbeat" \in files)
        /\ fd' = [fd EXCEPT !["recovery"] = TRUE] /\ LookAtLease
        /\ IF LeaseFresh("recovery") THEN UNCHANGED pc ELSE Goto("recovery", "last")
     \/ /\ "token" \in files /\ ~fd["recovery"] /\ "heartbeat" \notin files
        /\ pc["guard"] \notin SetupLabels
        /\ Goto("recovery", "last") /\ UNCHANGED <<fd, faults>>
  /\ UNCHANGED <<backend, root, ok, ifok, flags, adapter, missed>>

LastCheck ==
  /\ pc["recovery"] = "last"
  /\ Goto("recovery", IF "token" \in files THEN "stop_broker" ELSE "exited")
  /\ UNCHANGED <<backend, root, fd, ok, ifok, flags, adapter, faults, missed>>

-----------------------------------------------------------------------------
(* The restoration that cleanup and recover_session have in common *)

Failed(w, what) == Fault(what) /\ ok' = [ok EXCEPT ![w] = FALSE] /\ UNCHANGED missed

Done == UNCHANGED <<ok, faults, missed>>

(* A step that failed, or was left out, with success as its answer. *)
Silent(fault, what) == Fault(fault) /\ Miss(what) /\ UNCHANGED ok

(* stop_broker; once it is down, the WFD metadata and NetworkManager's      *)
(* activation are taken back.  The broker disconnects its group as it       *)
(* stops, but nobody looks whether the interface has gone.  A guard that    *)
(* started no broker stops none; where `systemctl is-active` fails, the     *)
(* broker counts as stopped.                                                *)
StopBroker(w) ==
  /\ pc[w] = "stop_broker" /\ Goto(w, "interfaces")
  /\ \/ w = "guard" /\ ~broker_started /\ UNCHANGED borrowed /\ Done
     \/ /\ w = "recovery" \/ broker_started
        /\ \/ borrowed' = borrowed \ {"broker", "p2p"} /\ Done
           \/ backend = "direct" /\ borrowed' = borrowed \ {"broker"} /\ Done
           \/ /\ borrowed' \in {borrowed \ {"broker"}, borrowed \ {"broker", "p2p"}}
              /\ Failed(w, "wfd")
           \/ UNCHANGED borrowed /\ Failed(w, "broker")
           \/ /\ borrowed' \in {borrowed, borrowed \ {"p2p"}}
              /\ Silent("blind", {"broker", "p2p"})
  /\ UNCHANGED <<backend, files, status, hb, fd, ifok, flags, adapter>>

(* record_session_interfaces and remove_session_interfaces; both fail when  *)
(* the other process has already removed the list.  An interface that       *)
(* `iw dev info` fails on counts as gone.                                   *)
RemoveInterfaces(w) ==
  /\ pc[w] = "interfaces" /\ Goto(w, "resume")
  /\ \/ /\ backend = "networkmanager" \/ "armed" \notin files
        /\ Done /\ UNCHANGED <<borrowed, ifok>>
     \/ /\ backend = "direct" /\ "armed" \in files
        /\ \/ "interfaces" \in files /\ borrowed' = borrowed \ {"p2p"}
              /\ Done /\ UNCHANGED ifok
           \/ /\ "interfaces" \notin files /\ UNCHANGED <<borrowed, faults, missed>>
              /\ ok' = [ok EXCEPT ![w] = FALSE] /\ ifok' = [ifok EXCEPT ![w] = FALSE]
           \/ Failed(w, "interfaces") /\ UNCHANGED borrowed
              /\ ifok' = [ifok EXCEPT ![w] = FALSE]
           \/ /\ "interfaces" \in files /\ Silent("blind", {"p2p"})
              /\ UNCHANGED <<borrowed, ifok>>
  /\ UNCHANGED <<backend, files, status, hb, fd, flags, adapter>>

(* resume_network_manager: SIGCONT, then the marker goes. *)
ResumeNetworkManager(w) ==
  /\ \/ /\ pc[w] = "resume" /\ UNCHANGED files
        /\ \/ "resume" \notin files /\ Goto(w, "close") /\ Done /\ UNCHANGED borrowed
           \/ "resume" \in files /\ Goto(w, "unmark") /\ borrowed' = borrowed \ {"nm"} /\ Done
           \/ "resume" \in files /\ Goto(w, "close") /\ Failed(w, "resume") /\ UNCHANGED borrowed
     \/ /\ pc[w] = "unmark" /\ Goto(w, "close")
        /\ files' = files \ {"resume"} /\ Done /\ UNCHANGED borrowed
  /\ UNCHANGED <<backend, status, hb, fd, ifok, flags, adapter>>

(* The guard deletes the UFW rule it knows it added, recovery the one that  *)
(* `ufw status` shows with the session's comment; where that fails it goes  *)
(* on.  Then the firewalld port of the marker.                              *)
CloseFirewall(w) ==
  LET rule == IF w = "guard" THEN rule_added ELSE "rule" \in borrowed
      open == (IF rule THEN {"rule"} ELSE {})
                \cup (IF "firewalld" \in files THEN {"port"} ELSE {})
  IN
  /\ pc[w] = "close" /\ Goto(w, "markers")
  /\ \E closed \in SUBSET open :
       /\ borrowed' = borrowed \ closed
       /\ files' = IF "port" \in closed THEN files \ {"firewalld"} ELSE files
       /\ \/ closed = open /\ Done
          \/ closed # open /\ Failed(w, "rule")
          \/ w = "recovery" /\ open \ closed = {"rule"} /\ Silent("blind", {"rule"})
  /\ UNCHANGED <<backend, status, hb, fd, ifok, flags, adapter>>

RemoveMarkers(w) ==
  /\ pc[w] = "markers" /\ Goto(w, "restore")
  /\ files' = files \ {"network", "trigger", "heartbeat", "stop"} /\ Done
  /\ UNCHANGED <<backend, status, hb, borrowed, fd, ifok, flags, adapter>>

(* restore_networkd_state reports a failed reload; `|| true` hides a unit   *)
(* that did not stop.                                                       *)
RestoreNetworkd(w) ==
  /\ pc[w] = "restore" /\ Goto(w, "evidence")
  /\ \/ "networkd" \notin files /\ Done /\ UNCHANGED <<borrowed, files>>
     \/ /\ "networkd" \in files
        /\ \/ files' = files \ {"networkd"} /\ borrowed' = borrowed \ {"networkd"} /\ Done
           \/ Failed(w, "networkd") /\ UNCHANGED <<borrowed, files>>
           \/ /\ Silent("networkd-stop", {"networkd"})
              /\ files' = files \ {"networkd"} /\ UNCHANGED borrowed
  /\ UNCHANGED <<backend, status, hb, fd, ifok, flags, adapter>>

(* Recovery also refuses to forget an activation NetworkManager still has. *)
RemoveEvidence(w) ==
  /\ pc[w] = "evidence" /\ Goto(w, "token")
  /\ \/ /\ ifok[w] /\ (w = "guard" \/ backend = "direct" \/ "p2p" \notin borrowed)
        /\ files' = files \ {"armed", "interfaces"} /\ UNCHANGED ok
     \/ /\ ~ifok[w] \/ (w = "recovery" /\ backend = "networkmanager" /\ "p2p" \in borrowed)
        /\ ok' = [ok EXCEPT ![w] = FALSE] /\ UNCHANGED files
  /\ UNCHANGED <<backend, status, hb, borrowed, fd, ifok, flags, adapter, faults, missed>>

RemoveToken(w) ==
  /\ pc[w] = "token" /\ Goto(w, "publish")
  /\ files' = IF ok[w] THEN files \ {"recovery-ready", "token"} ELSE files
  /\ UNCHANGED <<backend, status, hb, borrowed, fd, ok, ifok, flags, adapter, faults, missed>>

(* Seeded fault: recovery reports a phase that the status schema lacks. *)
PublishResult_OwnPhase(w) ==
  /\ pc[w] = "publish" /\ Goto(w, "finalize")
  /\ PublishStatus(IF ~ok[w] THEN "error" ELSE IF w = "guard" THEN "cleaned" ELSE "recovered")
  /\ UNCHANGED <<backend, files, hb, borrowed, fd, ok, ifok, flags, adapter, faults, missed>>

(* Seeded fault: what the restoration reported is not looked at. *)
PublishResult_Blind(w) ==
  /\ pc[w] = "publish" /\ PublishStatus("cleaned") /\ Goto(w, "finalize")
  /\ UNCHANGED <<backend, files, hb, borrowed, fd, ok, ifok, flags, adapter, faults, missed>>

(* A failed setup is always an error; publish_status ends a recovery whose  *)
(* directory is gone.                                                       *)
PublishResult(w) ==
  /\ pc[w] = "publish"
  /\ PublishStatus(IF ok[w] /\ (w = "recovery" \/ trap = "session") THEN "cleaned" ELSE "error")
  /\ Goto(w, IF w = "recovery" /\ "dir" \notin files THEN "exited" ELSE "finalize")
  /\ UNCHANGED <<backend, files, hb, borrowed, fd, ok, ifok, flags, adapter, faults, missed>>

(* finalize_status: the acknowledgement or 15 seconds. *)
FinalizeStatus(w) ==
  /\ pc[w] = "finalize" /\ Goto(w, "exited")
  /\ status' = "none"
  /\ files' = RemoveDirs(files \ {"ack"}, "none")
  /\ UNCHANGED <<backend, hb, borrowed, fd, ok, ifok, flags, adapter, faults, missed>>

Restore(w) ==
  \/ StopBroker(w) \/ RemoveInterfaces(w) \/ ResumeNetworkManager(w) \/ CloseFirewall(w)
  \/ RemoveMarkers(w) \/ RestoreNetworkd(w) \/ RemoveEvidence(w) \/ RemoveToken(w)
  \/ PublishResult(w) \/ FinalizeStatus(w)

(* cleanup and the EXIT trap of the guard. *)
Cleanup == OwnsSession \/ Restore("guard")

(* recover_session and what follows it. *)
RecoverSession == LastCheck \/ Restore("recovery")

-----------------------------------------------------------------------------
(* The adapter and the engine *)

(* pkexec launches the guard's unit. *)
Authorize ==
  /\ a = "idle" /\ a' = "auth"
  /\ pc["guard"] = "idle" /\ Goto("guard", "identity")
  /\ UNCHANGED <<backend, root, fd, ok, ifok, flags, engine, confirmed, faults, missed>>

(* _read_ready: ready, an error, or a cancellation or timeout. *)
ReadReady ==
  /\ a = "auth"
  /\ \/ status = "ready" /\ a' = "lease"
     \/ a' = "cancel"
  /\ UNCHANGED <<backend, root, workers, engine, confirmed, faults, missed>>

(* Without ready there is no cleanup status to wait for: the stop marker is *)
(* left if the guard already has its directory.                             *)
CancelGuard ==
  /\ a = "cancel" /\ a' = "done"
  /\ WriteMarker("stop")
  /\ UNCHANGED <<backend, status, hb, borrowed, workers, engine, confirmed, faults, missed>>

(* SessionLease.start: the file is created, then renewed for the first time. *)
StartLease ==
  /\ a = "lease"
  /\ \/ /\ "user" \in files /\ hb = "none"
        /\ hb' = "torn" /\ files' = files \cup {"heartbeat"} /\ UNCHANGED <<a, engine>>
     \/ /\ "user" \in files /\ hb' = "fresh" /\ files' = files \cup {"heartbeat"}
        /\ a' = "run" /\ engine' = "running"
     \/ "user" \notin files /\ a' = "stop" /\ UNCHANGED <<files, hb, engine>>
  /\ UNCHANGED <<backend, status, borrowed, workers, confirmed, faults, missed>>

(* renew() truncates the file before it writes the time. *)
Renew ==
  /\ a = "run"
  /\ hb' = IF hb = "fresh" THEN "torn" ELSE "fresh"
  /\ UNCHANGED <<backend, files, status, borrowed, workers, adapter, faults, missed>>

(* The engine asks for the network before it connects to the receiver. *)
Trigger ==
  /\ engine = "running" /\ engine' = "triggered"
  /\ WriteMarker("trigger")
  /\ UNCHANGED <<backend, status, hb, borrowed, workers, a, confirmed, faults, missed>>

(* The broker forms one P2P group, never before the interfaces are armed.   *)
(* A cleanup that could not stop the broker may have been through the       *)
(* interfaces already, and will then remove the record of them.             *)
Connect ==
  /\ engine = "triggered" /\ "broker" \in borrowed /\ "armed" \in files
  /\ engine' = "connected" /\ borrowed' = borrowed \cup {"p2p"}
  /\ IF backend = "direct" /\ \E w \in Worker :
          pc[w] \in CleanupLabels \ {"stop_broker", "interfaces", "token"}
     THEN Miss({"p2p"}) ELSE UNCHANGED missed
  /\ UNCHANGED <<backend, files, status, hb, workers, a, confirmed, faults>>

(* The cast ends; the finally clause stops the engine and the lease. *)
EndCast ==
  /\ a = "run" /\ a' = "stop" /\ engine' = "none"
  /\ hb' = "fresh"
  /\ UNCHANGED <<backend, files, status, borrowed, workers, confirmed, faults, missed>>

StopGuard ==
  /\ a = "stop" /\ a' = "await"
  /\ WriteMarker("stop")
  /\ UNCHANGED <<backend, status, hb, borrowed, workers, engine, confirmed, faults, missed>>

(* _wait_cleanup_status acknowledges any phase but ready and active. *)
AwaitCleanup ==
  /\ a = "await" /\ a' = "done"
  /\ \/ /\ status \in {"cleaned", "error"}
        /\ WriteMarker("ack")
        /\ confirmed' = ("user" \in files /\ status = "cleaned")
     \/ UNCHANGED <<files, confirmed>>
  /\ UNCHANGED <<backend, status, hb, borrowed, workers, engine, faults, missed>>

(* 60 seconds after the last renewal the lease has lapsed. *)
Expire ==
  /\ hb \in {"fresh", "torn"} /\ a \notin {"lease", "run"}
  /\ hb' = "stale"
  /\ UNCHANGED <<backend, files, status, borrowed, workers, adapter, faults, missed>>

(* SIGKILL of the controller, which may leave the engine, or of a helper. *)
KillController ==
  /\ a \notin {"idle", "done", "dead"} /\ a' = "dead" /\ Fault("kill")
  /\ engine' \in {engine, "none"}
  /\ UNCHANGED <<backend, root, workers, confirmed, missed>>

KillHelper(w) ==
  /\ pc[w] \notin NotRunning /\ Fault("kill")
  /\ Goto(w, "dead")
  /\ UNCHANGED <<backend, root, fd, ok, ifok, flags, adapter, missed>>

-----------------------------------------------------------------------------
GuardStep ==
  \/ ArmRecovery \/ WriteRuntime \/ StartBroker \/ Ready \/ WaitTrigger \/ CheckLease
  \/ AddRule \/ OpenPort \/ PauseNetworkManager \/ ArmInterfaces \/ StartNetworkd
  \/ Active \/ LoopEnd \/ Cleanup

RecoveryStep == PublishReady \/ Watch \/ RecoverSession

AdapterStep == ReadReady \/ CancelGuard \/ StartLease \/ StopGuard \/ AwaitCleanup

Next ==
  \/ Authorize \/ CreateIdentity \/ GuardStep \/ RecoveryStep \/ AdapterStep
  \/ Renew \/ Trigger \/ Connect \/ EndCast \/ Expire \/ KillController
  \/ \E w \in Worker : KillHelper(w)

Spec == Init /\ [][Next]_vars

(* The helpers run as system units and every wait in them, and in the       *)
(* adapter's cleanup, has a deadline; a lease lapses with time.  Nothing    *)
(* makes a user approve, a cast end, an engine connect or a fault happen.   *)
FairSpec ==
  /\ Spec
  /\ WF_vars(GuardStep) /\ WF_vars(RecoveryStep) /\ WF_vars(AdapterStep) /\ WF_vars(Expire)

-----------------------------------------------------------------------------
(* Properties *)

(* The values of the variables. *)
TypeOK ==
  /\ backend \in Backends /\ files \subseteq Files
  /\ status \in {"none", "ready", "active", "cleaned", "error"}
  /\ hb \in {"none", "fresh", "torn", "stale"} /\ borrowed \subseteq Resources
  /\ pc["guard"] \in GuardLabels /\ pc["recovery"] \in RecoveryLabels
  /\ DOMAIN pc = Worker /\ fd \in [Worker -> BOOLEAN]
  /\ ok \in [Worker -> BOOLEAN] /\ ifok \in [Worker -> BOOLEAN]
  /\ trap \in {"setup", "session"} /\ rule_added \in BOOLEAN /\ broker_started \in BOOLEAN
  /\ a \in {"idle", "auth", "cancel", "lease", "run", "stop", "await", "done", "dead"}
  /\ engine \in {"none", "running", "triggered", "connected"} /\ confirmed \in BOOLEAN
  /\ faults \in 0..MaxFaults /\ missed \subseteq Resources

(* A cleaned status, and a cleanup the adapter has confirmed to its user,   *)
(* mean that the host has everything back, whichever of the two processes   *)
(* did the work and however their steps interleaved.  What may be left is   *)
(* only what was missed, by a look at the host that failed or because the   *)
(* guard changed it after recovery had gone to work; and without a fault    *)
(* and a lapsed lease nothing is missed.                                    *)
CleanedMeansRestored ==
  /\ status = "cleaned" \/ confirmed => borrowed \subseteq missed
  /\ missed # {} => faults > 0 \/ hb = "stale"

(* As long as anything is borrowed there is root-owned evidence of it: the  *)
(* token always, the resume marker while NetworkManager is paused, the      *)
(* recorded units while networkd is changed, the port marker while the      *)
(* firewalld port may be open, the armed marker while the direct backend    *)
(* may have an interface.  Only what was missed loses its evidence.         *)
EvidenceKept == \A what \in borrowed \ missed : Record(what) \subseteq files

(* Neither process takes the network away from a cast whose controller      *)
(* lives and renews its lease, before that controller asks for it.  Only a  *)
(* fault can, and a look at a lease that is being renewed is one.           *)
HealthyCastKept ==
  a = "run" /\ status = "active" /\ faults = 0 =>
    /\ pc["guard"] \in {"active", "loop"}
    /\ pc["recovery"] \in {"watch"}

(* When the controller is gone, by itself or by a kill, both helpers end    *)
(* whatever fails.  Unless two things go wrong the host then has everything *)
(* back but what was missed.                                                *)
GoneMeansRestored ==
  a \in {"done", "dead"} ~>
    /\ \A w \in Worker : pc[w] \in NotRunning
    /\ faults <= 1 => borrowed \subseteq missed

(* Documented as: "Incomplete cleanup retains root-owned recovery evidence  *)
(* and is reported".  Then a session told to be cleaned has all of it back. *)
IncompleteIsReported == status = "cleaned" => borrowed = {}

(* Documented as: only a terminal status is acknowledged.  Then whoever     *)
(* wrote the acknowledged status has finished its cleanup.                  *)
AckOnlyTerminal ==
  "ack" \in files => \E w \in Worker : pc[w] \in {"finalize"} \cup Ended
=============================================================================
