------------------------- MODULE GuardSessionProofs -------------------------
(***************************************************************************)
(* The safety of one guarded session, for either backend and any number of *)
(* faults: two cleanups that may run at the same time, each of which may   *)
(* be killed, forget nothing that the session borrowed from the host.      *)
(***************************************************************************)
EXTENDS GuardSession, TLAPS

(* Before the guard has published that it is ready, and from the recovery   *)
(* it armed to the end of its loop.                                         *)
Preparing == {"idle", "identity", "arm", "runtime", "start_broker", "ready"}
Serving   == {"runtime", "start_broker", "ready", "wait", "lease", "loop"} \cup ActivationLabels

(* What a cleanup has behind it at its later steps. *)
PastBroker     == CleanupLabels \ {"stop_broker"}
PastInterfaces == PastBroker \ {"interfaces"}
PastResume     == PastInterfaces \ {"resume", "unmark"}
PastClose      == PastResume \ {"close"}
PastRestore    == PastClose \ {"markers", "restore"}

-----------------------------------------------------------------------------
(* The parts of the inductive invariant *)

(* A session without an identity has nothing, and nobody watches it. *)
Untouched ==
  pc["guard"] \in {"idle", "identity"} =>
    files = {} /\ pc["recovery"] = "idle" /\ ~confirmed

(* The controller leases and triggers only what is ready. *)
LeaseInOrder ==
  /\ pc["guard"] \in Preparing =>
       status = "none" /\ hb = "none" /\ a \in {"idle", "auth", "cancel", "done", "dead"}
  /\ pc["guard"] \in Preparing \cup {"wait", "lease"} => ~fd["guard"]
  /\ hb = "none" => "heartbeat" \notin files /\ ~fd["recovery"]
  /\ a \in {"idle", "auth", "cancel"} => hb = "none"
  /\ a = "lease" => hb \in {"none", "torn"}
  /\ a = "run" => hb \in {"fresh", "torn"}
  /\ a \in {"idle", "auth", "lease", "run"} => "stop" \notin files
  /\ a \in {"idle", "auth", "cancel", "lease"} =>
       /\ engine = "none" /\ "trigger" \notin files /\ status # "active"
       /\ pc["guard"] \notin {"lease", "loop"} \cup ActivationLabels

(* As long as recovery only watches, nobody but the guard changes what the  *)
(* session has, and it does that at the end.                                *)
Watched ==
  /\ pc["guard"] = "arm" =>
       /\ "token" \in files /\ "user" \in files
       /\ pc["recovery"] \in {"idle", "start", "watch", "exited", "dead"}
  /\ pc["guard"] \in {"runtime", "start_broker", "ready"} =>
       pc["recovery"] \in {"watch", "dead"} /\ "token" \in files
  /\ pc["guard"] \in Serving => pc["recovery"] \notin {"idle", "start"}
  /\ pc["guard"] \in Serving /\ pc["recovery"] = "watch" =>
       "token" \in files /\ "user" \in files /\ (hb # "none" => "heartbeat" \in files)
  /\ pc["guard"] \in ActivationLabels \cup {"loop"} => hb # "none"

(* Only a fault, or a lease that has lapsed, ends the watch of a session    *)
(* that its guard serves.                                                   *)
Attended ==
  /\ pc["recovery"] = "dead" \/ a = "dead" => faults > 0
  /\ pc["guard"] \in Serving /\ faults = 0 =>
       /\ hb # "stale" => pc["recovery"] = "watch"
       /\ hb = "torn" => a \in {"lease", "run"}

(* A marker is there before the change that it records. *)
MarkerFirst ==
  /\ pc["guard"] \in {"pause_mark", "pause", "networkd_up"} => backend = "direct"
  /\ pc["recovery"] = "watch" =>
       /\ backend = "direct" /\ pc["guard"] \in {"start_broker", "ready", "wait", "lease"}
                                                  \cup ActivationLabels =>
            "networkd" \in files
       /\ pc["guard"] = "port" => "firewalld" \in files
       /\ pc["guard"] = "pause" => "resume" \in files
  /\ pc["guard"] \in Preparing \ {"ready"} => borrowed = {}
  /\ pc["guard"] \in {"ready", "wait", "lease", "rule", "port_mark", "port",
                       "pause_mark", "pause"} =>
       "port" \notin borrowed /\ "nm" \notin borrowed

(* What a cleanup can be held to. *)
Owed == borrowed \ missed

(* The files know what is owed, and the guard knows its rule and its broker. *)
Evidence ==
  /\ EvidenceKept
  /\ "rule" \in Owed => rule_added
  /\ ~broker_started => Owed = {}
  /\ pc["guard"] \in {"ready", "wait", "lease"} \cup ActivationLabels => broker_started
  /\ "broker" \in missed => "p2p" \in missed

(* What a cleanup has behind it is given back, or it knows that it failed. *)
GivenBack(w) ==
  /\ ok[w] => ifok[w]
  /\ pc[w] \in PastBroker /\ ok[w] =>
       "broker" \notin Owed /\ (backend = "networkmanager" => "p2p" \notin Owed)
  /\ pc[w] \in PastInterfaces /\ backend = "direct" /\ ifok[w] /\ (ok[w] \/ pc[w] # "token") =>
       "p2p" \notin Owed
  /\ pc[w] = "unmark" => "nm" \notin Owed
  /\ pc[w] \in PastResume /\ ok[w] => "nm" \notin Owed
  /\ pc[w] \in PastClose /\ ok[w] => "rule" \notin Owed /\ "port" \notin Owed
  /\ pc[w] \in PastRestore /\ ok[w] => "networkd" \notin Owed
  /\ pc[w] = "publish" /\ ok[w] => "token" \notin files

AllGivenBack == \A w \in Worker : GivenBack(w)

(* Without a fault brokers stop, and only a lapsed lease lets the guard     *)
(* change what recovery has been through.                                   *)
Faultless ==
  faults = 0 =>
    /\ missed # {} => hb = "stale"
    /\ "broker" \notin missed
    /\ \A w \in Worker : pc[w] \in PastBroker => "broker" \notin borrowed

(* Whoever says that the session is cleaned says it of one without a token. *)
CleanedHasNoToken ==
  status = "cleaned" \/ confirmed =>
    "token" \notin files /\ pc["guard"] \notin {"idle", "identity"}

(* The order of the steps, and what it keeps. *)
OrderInv ==
  Untouched /\ LeaseInOrder /\ Watched /\ Attended /\ MarkerFirst /\ HealthyCastKept

KeptInv == Evidence /\ AllGivenBack /\ Faultless /\ CleanedHasNoToken

IInv == TypeOK /\ OrderInv /\ KeptInv

-----------------------------------------------------------------------------
(* The step of a process *)

(* Goto moves one process and leaves the other where it is. *)
LEMMA GotoMoves ==
  ASSUME DOMAIN pc = Worker
  PROVE  \A w \in Worker : \A l : Goto(w, l) =>
           /\ pc'[w] = l /\ DOMAIN pc' = Worker
           /\ \A v \in Worker : v # w => pc'[v] = pc[v]
BY DEF Goto

(* The same for each of the two processes. *)
LEMMA GotoOfEach ==
  ASSUME DOMAIN pc = Worker
  PROVE  /\ \A l : Goto("guard", l) =>
              /\ pc'["guard"] = l /\ pc'["recovery"] = pc["recovery"] /\ DOMAIN pc' = Worker
         /\ \A l : Goto("recovery", l) =>
              /\ pc'["recovery"] = l /\ pc'["guard"] = pc["guard"] /\ DOMAIN pc' = Worker
BY GotoMoves DEF Worker

-----------------------------------------------------------------------------
(* Types *)

HostTyped ==
  /\ backend \in Backends /\ files \subseteq Files
  /\ status \in {"none", "ready", "active", "cleaned", "error"}
  /\ hb \in {"none", "fresh", "torn", "stale"} /\ borrowed \subseteq Resources
  /\ missed \subseteq Resources

LabelsTyped ==
  /\ pc["guard"] \in GuardLabels /\ pc["recovery"] \in RecoveryLabels
  /\ DOMAIN pc = Worker

ProcessTyped ==
  /\ fd \in [Worker -> BOOLEAN]
  /\ ok \in [Worker -> BOOLEAN] /\ ifok \in [Worker -> BOOLEAN]
  /\ trap \in {"setup", "session"} /\ rule_added \in BOOLEAN /\ broker_started \in BOOLEAN
  /\ a \in {"idle", "auth", "cancel", "lease", "run", "stop", "await", "done", "dead"}
  /\ engine \in {"none", "running", "triggered", "connected"} /\ confirmed \in BOOLEAN

(* The steps of Next by what they are a part of. *)
Prepare  == \/ Authorize \/ CreateIdentity \/ ArmRecovery \/ WriteRuntime \/ StartBroker
            \/ Ready \/ WaitTrigger \/ CheckLease
Activate == \/ AddRule \/ OpenPort \/ PauseNetworkManager \/ ArmInterfaces \/ StartNetworkd
            \/ Active
Decide   == LoopEnd \/ OwnsSession \/ PublishReady \/ Watch \/ LastCheck
Cast     == Renew \/ Trigger \/ Connect \/ EndCast \/ Expire \/ KillController

(* Every step is one of them. *)
LEMMA StepKinds ==
  Next => \/ Prepare \/ Activate \/ Decide \/ AdapterStep \/ Cast
          \/ \E w \in Worker : Restore(w) \/ KillHelper(w)
BY DEF Next, GuardStep, RecoveryStep, Cleanup, RecoverSession, Worker, Prepare, Activate,
       Decide, Cast

(* The host's state and the session's files keep their type. *)
LEMMA HostStep == TypeOK /\ Next => HostTyped'
<1> SUFFICES ASSUME TypeOK, Next PROVE HostTyped'
  OBVIOUS
<1> USE DEF TypeOK, HostTyped, Files, UserFiles, Resources, InstallMarker, PublishStatus,
            WriteMarker, RemoveDirs, Borrow, Miss, Failed, Silent, Done, root
<1>1. CASE Prepare
  BY <1>1 DEF Prepare, Authorize, CreateIdentity, ArmRecovery, WriteRuntime, StartBroker,
              Ready, WaitTrigger, CheckLease
<1>2. CASE Activate
  BY <1>2 DEF Activate, AddRule, OpenPort, PauseNetworkManager, ArmInterfaces,
              StartNetworkd, Active
<1>3. CASE Decide
  BY <1>3 DEF Decide, LoopEnd, OwnsSession, PublishReady, Watch, LastCheck
<1>4. CASE AdapterStep
  BY <1>4 DEF AdapterStep, ReadReady, CancelGuard, StartLease, StopGuard, AwaitCleanup
<1>5. CASE Cast
  BY <1>5 DEF Cast, Renew, Trigger, Connect, EndCast, Expire, KillController
<1>6. ASSUME NEW w \in Worker, Restore(w) PROVE HostTyped'
  <2>1. CASE StopBroker(w)
    BY <2>1 DEF StopBroker
  <2>2. CASE RemoveInterfaces(w)
    BY <2>2 DEF RemoveInterfaces
  <2>3. CASE ResumeNetworkManager(w)
    BY <2>3 DEF ResumeNetworkManager
  <2>4. CASE CloseFirewall(w)
    BY <2>4 DEF CloseFirewall
  <2>5. CASE RemoveMarkers(w)
    BY <2>5 DEF RemoveMarkers
  <2>6. CASE RestoreNetworkd(w)
    BY <2>6 DEF RestoreNetworkd
  <2>7. CASE RemoveEvidence(w)
    BY <2>7 DEF RemoveEvidence
  <2>8. CASE RemoveToken(w)
    BY <2>8 DEF RemoveToken
  <2>9. CASE PublishResult(w)
    BY <2>9 DEF PublishResult
  <2>10. CASE FinalizeStatus(w)
    BY <2>10 DEF FinalizeStatus
  <2> QED
    BY <1>6, <2>1, <2>2, <2>3, <2>4, <2>5, <2>6, <2>7, <2>8, <2>9, <2>10 DEF Restore
<1>7. ASSUME NEW w \in Worker, KillHelper(w) PROVE HostTyped'
  BY <1>7 DEF KillHelper
<1> QED
  BY <1>1, <1>2, <1>3, <1>4, <1>5, <1>6, <1>7, StepKinds

(* Each helper stays within its script. *)
LEMMA LabelsStep == TypeOK /\ Next => LabelsTyped'
<1> SUFFICES ASSUME TypeOK, Next PROVE LabelsTyped'
  OBVIOUS
<1> USE GotoOfEach, GotoMoves
    DEF TypeOK, LabelsTyped, Worker, InstallMarker, Die, GuardLabels, RecoveryLabels,
        SetupLabels, ActivationLabels, CleanupLabels, Ended, workers
<1>1. CASE Prepare
  BY <1>1 DEF Prepare, Authorize, CreateIdentity, ArmRecovery, WriteRuntime, StartBroker,
              Ready, WaitTrigger, CheckLease
<1>2. CASE Activate
  BY <1>2 DEF Activate, AddRule, OpenPort, PauseNetworkManager, ArmInterfaces,
              StartNetworkd, Active
<1>3. CASE Decide
  BY <1>3 DEF Decide, LoopEnd, OwnsSession, PublishReady, Watch, LastCheck
<1>4. CASE AdapterStep
  BY <1>4 DEF AdapterStep, ReadReady, CancelGuard, StartLease, StopGuard, AwaitCleanup
<1>5. CASE Cast
  BY <1>5 DEF Cast, Renew, Trigger, Connect, EndCast, Expire, KillController
<1>6. ASSUME NEW w \in Worker, Restore(w) PROVE LabelsTyped'
  BY <1>6 DEF Restore, StopBroker, RemoveInterfaces, ResumeNetworkManager, CloseFirewall,
              RemoveMarkers, RestoreNetworkd, RemoveEvidence, RemoveToken, PublishResult,
              FinalizeStatus
<1>7. ASSUME NEW w \in Worker, KillHelper(w) PROVE LabelsTyped'
  BY <1>7 DEF KillHelper
<1> QED
  BY <1>1, <1>2, <1>3, <1>4, <1>5, <1>6, <1>7, StepKinds

(* The locals of the processes keep their type. *)
LEMMA ProcessStep == TypeOK /\ Next => ProcessTyped'
<1> SUFFICES ASSUME TypeOK, Next PROVE ProcessTyped'
  OBVIOUS
<1> USE DEF TypeOK, ProcessTyped, Done, Failed, Silent, workers, flags, adapter
<1>1. CASE Prepare
  BY <1>1, ZenonT(60) DEF Prepare, Authorize, CreateIdentity, ArmRecovery, WriteRuntime,
              StartBroker, Ready, WaitTrigger, CheckLease
<1>2. CASE Activate
  BY <1>2, ZenonT(60) DEF Activate, AddRule, OpenPort, PauseNetworkManager, ArmInterfaces,
              StartNetworkd, Active
<1>3. CASE Decide
  BY <1>3, ZenonT(60) DEF Decide, LoopEnd, OwnsSession, PublishReady, Watch, LastCheck
<1>4. CASE AdapterStep
  BY <1>4 DEF AdapterStep, ReadReady, CancelGuard, StartLease, StopGuard, AwaitCleanup
<1>5. CASE Cast
  BY <1>5 DEF Cast, Renew, Trigger, Connect, EndCast, Expire, KillController
<1>6. ASSUME NEW w \in Worker, Restore(w) PROVE ProcessTyped'
  <2>1. CASE StopBroker(w)
    BY <2>1 DEF StopBroker
  <2>2. CASE RemoveInterfaces(w)
    BY <2>2 DEF RemoveInterfaces
  <2>3. CASE ResumeNetworkManager(w)
    BY <2>3 DEF ResumeNetworkManager
  <2>4. CASE CloseFirewall(w)
    BY <2>4 DEF CloseFirewall
  <2>5. CASE RemoveMarkers(w)
    BY <2>5 DEF RemoveMarkers
  <2>6. CASE RestoreNetworkd(w)
    BY <2>6 DEF RestoreNetworkd
  <2>7. CASE RemoveEvidence(w)
    BY <2>7 DEF RemoveEvidence
  <2>8. CASE RemoveToken(w)
    BY <2>8 DEF RemoveToken
  <2>9. CASE PublishResult(w)
    BY <2>9 DEF PublishResult
  <2>10. CASE FinalizeStatus(w)
    BY <2>10 DEF FinalizeStatus
  <2> QED
    BY <1>6, <2>1, <2>2, <2>3, <2>4, <2>5, <2>6, <2>7, <2>8, <2>9, <2>10 DEF Restore
<1>7. ASSUME NEW w \in Worker, KillHelper(w) PROVE ProcessTyped'
  BY <1>7 DEF KillHelper
<1> QED
  BY <1>1, <1>2, <1>3, <1>4, <1>5, <1>6, <1>7, StepKinds

(* Faults are counted up to their bound. *)
LEMMA FaultsStep == TypeOK /\ Next => faults' \in 0..MaxFaults
<1> SUFFICES ASSUME TypeOK, Next
             PROVE  faults' \in 0..MaxFaults
  OBVIOUS
<1> USE FaultsAssumption DEF TypeOK, Fault, Done, Failed, Silent, LookAtLease
<1>1. CASE Prepare
  BY <1>1 DEF Prepare, Authorize, CreateIdentity, ArmRecovery, WriteRuntime, StartBroker,
              Ready, WaitTrigger, CheckLease
<1>2. CASE Activate
  BY <1>2 DEF Activate, AddRule, OpenPort, PauseNetworkManager, ArmInterfaces,
              StartNetworkd, Active
<1>3. CASE Decide
  BY <1>3 DEF Decide, LoopEnd, OwnsSession, PublishReady, Watch, LastCheck
<1>4. CASE AdapterStep
  BY <1>4 DEF AdapterStep, ReadReady, CancelGuard, StartLease, StopGuard, AwaitCleanup
<1>5. CASE Cast
  BY <1>5 DEF Cast, Renew, Trigger, Connect, EndCast, Expire, KillController
<1>6. ASSUME NEW w \in Worker, Restore(w)
      PROVE  faults' \in 0..MaxFaults
  BY <1>6 DEF Restore, StopBroker, RemoveInterfaces, ResumeNetworkManager, CloseFirewall,
              RemoveMarkers, RestoreNetworkd, RemoveEvidence, RemoveToken, PublishResult,
              FinalizeStatus
<1>7. ASSUME NEW w \in Worker, KillHelper(w)
      PROVE  faults' \in 0..MaxFaults
  BY <1>7 DEF KillHelper
<1> QED
  BY <1>1, <1>2, <1>3, <1>4, <1>5, <1>6, <1>7, StepKinds

(* Every step of every process keeps the types. *)
LEMMA TypeStep == TypeOK /\ [Next]_vars => TypeOK'
<1>1. CASE TypeOK /\ Next
  BY <1>1, HostStep, LabelsStep, ProcessStep, FaultsStep
     DEF TypeOK, HostTyped, LabelsTyped, ProcessTyped
<1>2. CASE TypeOK /\ UNCHANGED vars
  BY <1>2 DEF TypeOK, vars, root, workers, flags, adapter
<1> QED
  BY <1>1, <1>2

(* The initial state is typed. *)
LEMMA GuardInit == Init => TypeOK
<1> SUFFICES ASSUME Init PROVE TypeOK
  OBVIOUS
<1>1. LabelsTyped
  BY DEF Init, LabelsTyped, Worker, GuardLabels, RecoveryLabels
<1>2. HostTyped /\ ProcessTyped
  BY DEF Init, HostTyped, ProcessTyped
<1> QED
  BY <1>1, <1>2, FaultsAssumption
     DEF Init, TypeOK, LabelsTyped, HostTyped, ProcessTyped

(* TypeOK, whatever fails: each variable keeps its type, each     *)
(* helper stays within its script.                                          *)
THEOREM GuardTypes == Spec => []TypeOK
BY GuardInit, TypeStep, PTL DEF Spec

-----------------------------------------------------------------------------
(* Safety *)

(* The initial state is in order. *)
LEMMA OrderInit == Init => OrderInv
BY DEF Init, OrderInv, Untouched, LeaseInOrder, Watched, Attended, MarkerFirst,
       HealthyCastKept, Worker, Preparing, Serving, ActivationLabels

(* The initial state has borrowed nothing. *)
LEMMA KeptInit == Init => KeptInv
BY DEF Init, KeptInv, Evidence, EvidenceKept, Owed, AllGivenBack, GivenBack, Faultless,
       CleanedHasNoToken, Worker, PastBroker, PastInterfaces, PastResume, PastClose,
       PastRestore, CleanupLabels, ActivationLabels

(* The order of the steps survives every step. *)
LEMMA OrderStep ==
  ASSUME TypeOK, OrderInv, Next
  PROVE  OrderInv'
<1> USE GotoOfEach, GotoMoves, FaultsAssumption
    DEF TypeOK, OrderInv, Untouched, LeaseInOrder, Watched, Attended, MarkerFirst,
        HealthyCastKept, Worker, Preparing, Serving, SetupLabels, ActivationLabels, Fault,
        Die, LeaseFresh, LookAtLease, PublishStatus, WriteMarker, InstallMarker, RemoveDirs,
        UserFiles, Borrow, Miss, Behind, Done, Failed, Silent, root, workers, flags, adapter
<1>1. CASE Prepare
  <2>1. CASE Authorize
    BY <2>1 DEF Authorize
  <2>2. CASE CreateIdentity
    BY <2>2 DEF CreateIdentity
  <2>3. CASE ArmRecovery
    BY <2>3 DEF ArmRecovery
  <2>4. CASE WriteRuntime
    BY <2>4 DEF WriteRuntime
  <2>5. CASE StartBroker
    BY <2>5 DEF StartBroker
  <2>6. CASE Ready
    BY <2>6 DEF Ready
  <2>7. CASE WaitTrigger
    BY <2>7 DEF WaitTrigger
  <2>8. CASE CheckLease
    BY <2>8 DEF CheckLease
  <2> QED
    BY <1>1, <2>1, <2>2, <2>3, <2>4, <2>5, <2>6, <2>7, <2>8 DEF Prepare
<1>2. CASE Activate
  BY <1>2 DEF Activate, AddRule, OpenPort, PauseNetworkManager, ArmInterfaces,
              StartNetworkd, Active
<1>3. CASE Decide
  <2>1. CASE LoopEnd
    BY <2>1 DEF LoopEnd
  <2>2. CASE OwnsSession
    BY <2>2 DEF OwnsSession
  <2>3. CASE PublishReady
    BY <2>3 DEF PublishReady
  <2>4. CASE Watch
    BY <2>4 DEF Watch
  <2>5. CASE LastCheck
    BY <2>5 DEF LastCheck
  <2> QED
    BY <1>3, <2>1, <2>2, <2>3, <2>4, <2>5 DEF Decide
<1>4. CASE AdapterStep
  BY <1>4 DEF AdapterStep, ReadReady, CancelGuard, StartLease, StopGuard, AwaitCleanup
<1>5. CASE Cast
  <2>1. CASE Renew
    BY <2>1 DEF Renew
  <2>2. CASE Trigger
    BY <2>2 DEF Trigger
  <2>3. CASE Connect
    BY <2>3 DEF Connect
  <2>4. CASE EndCast
    BY <2>4 DEF EndCast
  <2>5. CASE Expire
    BY <2>5 DEF Expire
  <2>6. CASE KillController
    BY <2>6 DEF KillController
  <2> QED
    BY <1>5, <2>1, <2>2, <2>3, <2>4, <2>5, <2>6 DEF Cast
<1>6. ASSUME NEW w \in Worker, Restore(w) PROVE OrderInv'
  BY <1>6 DEF Restore, StopBroker, RemoveInterfaces, ResumeNetworkManager, CloseFirewall,
              RemoveMarkers, RestoreNetworkd, RemoveEvidence, RemoveToken, PublishResult,
              FinalizeStatus
<1>7. ASSUME NEW w \in Worker, KillHelper(w) PROVE OrderInv'
  BY <1>7 DEF KillHelper, NotRunning, Ended
<1> QED
  BY <1>1, <1>2, <1>3, <1>4, <1>5, <1>6, <1>7, StepKinds

(* What is given back and told survives every step. *)
LEMMA KeptStep ==
  ASSUME IInv, Next
  PROVE  KeptInv'
<1> USE GotoOfEach, GotoMoves, BackendsAssumption, FaultsAssumption
    DEF IInv, TypeOK, OrderInv, Untouched, LeaseInOrder, Watched, Attended, MarkerFirst, KeptInv,
        Evidence, EvidenceKept, Record, Files, Owed, Faultless, AllGivenBack, GivenBack,
        CleanedHasNoToken, Worker,
        Preparing, Serving, PastBroker, PastInterfaces, PastResume, PastClose, PastRestore,
        SetupLabels, ActivationLabels, CleanupLabels, Fault, Die, PublishStatus,
        WriteMarker, InstallMarker, RemoveDirs, UserFiles, Borrow, Miss, Behind, Done,
        Failed, Silent, root, workers, flags, adapter
<1>1. CASE Prepare
  <2>1. CASE Authorize
    BY <2>1 DEF Authorize
  <2>2. CASE CreateIdentity
    BY <2>2 DEF CreateIdentity
  <2>3. CASE ArmRecovery
    BY <2>3 DEF ArmRecovery
  <2>4. CASE WriteRuntime
    BY <2>4 DEF WriteRuntime
  <2>5. CASE StartBroker
    BY <2>5 DEF StartBroker
  <2>6. CASE Ready
    BY <2>6 DEF Ready
  <2>7. CASE WaitTrigger
    BY <2>7 DEF WaitTrigger
  <2>8. CASE CheckLease
    BY <2>8 DEF CheckLease, LookAtLease
  <2> QED
    BY <1>1, <2>1, <2>2, <2>3, <2>4, <2>5, <2>6, <2>7, <2>8 DEF Prepare
<1>2. CASE Activate
  <2>1. CASE AddRule
    BY <2>1 DEF AddRule
  <2>2. CASE OpenPort
    BY <2>2 DEF OpenPort
  <2>3. CASE PauseNetworkManager
    BY <2>3 DEF PauseNetworkManager
  <2>4. CASE ArmInterfaces
    BY <2>4 DEF ArmInterfaces
  <2>5. CASE StartNetworkd
    BY <2>5 DEF StartNetworkd
  <2>6. CASE Active
    BY <2>6 DEF Active
  <2> QED
    BY <1>2, <2>1, <2>2, <2>3, <2>4, <2>5, <2>6 DEF Activate
<1>3. CASE Decide
  BY <1>3 DEF Decide, LoopEnd, OwnsSession, PublishReady, Watch, LastCheck, LookAtLease
<1>4. CASE AdapterStep
  BY <1>4 DEF AdapterStep, ReadReady, CancelGuard, StartLease, StopGuard, AwaitCleanup
<1>5. CASE Cast
  BY <1>5 DEF Cast, Renew, Trigger, Connect, EndCast, Expire, KillController
<1>6. ASSUME NEW w \in Worker, Restore(w) PROVE KeptInv'
  <2>1. CASE StopBroker(w)
    BY <2>1 DEF StopBroker
  <2>2. CASE RemoveInterfaces(w)
    BY <2>2 DEF RemoveInterfaces
  <2>3. CASE ResumeNetworkManager(w)
    BY <2>3 DEF ResumeNetworkManager
  <2>4. CASE CloseFirewall(w)
    BY <2>4 DEF CloseFirewall
  <2>5. CASE RemoveMarkers(w)
    BY <2>5 DEF RemoveMarkers
  <2>6. CASE RestoreNetworkd(w)
    BY <2>6 DEF RestoreNetworkd
  <2>7. CASE RemoveEvidence(w)
    BY <2>7 DEF RemoveEvidence
  <2>8. CASE RemoveToken(w)
    <3>1. ok[w] => Owed = {}
      BY <2>8 DEF RemoveToken, Resources
    <3>2. CASE ok[w]
      BY <2>8, <3>1, <3>2 DEF RemoveToken
    <3>3. CASE ~ok[w]
      BY <2>8, <3>3 DEF RemoveToken
    <3> QED
      BY <3>2, <3>3
  <2>9. CASE PublishResult(w)
    BY <2>9 DEF PublishResult
  <2>10. CASE FinalizeStatus(w)
    BY <2>10 DEF FinalizeStatus
  <2> QED
    BY <1>6, <2>1, <2>2, <2>3, <2>4, <2>5, <2>6, <2>7, <2>8, <2>9, <2>10 DEF Restore
<1>7. ASSUME NEW w \in Worker, KillHelper(w) PROVE KeptInv'
  BY <1>7 DEF KillHelper, NotRunning, Ended
<1> QED
  BY <1>1, <1>2, <1>3, <1>4, <1>5, <1>6, <1>7, StepKinds

(* The whole invariant. *)
LEMMA SessionInv == Spec => []IInv
<1>1. Init => IInv
  BY GuardInit, OrderInit, KeptInit DEF IInv
<1>2. IInv /\ [Next]_vars => IInv'
  <2>1. CASE UNCHANGED vars
    BY <2>1, TypeStep
       DEF IInv, OrderInv, Untouched, LeaseInOrder, Watched, Attended, MarkerFirst,
           HealthyCastKept, KeptInv, Evidence, EvidenceKept, Record, Owed, Faultless, AllGivenBack,
           GivenBack, CleanedHasNoToken, vars, root, workers, flags, adapter
  <2> QED
    BY <2>1, TypeStep, OrderStep, KeptStep DEF IInv
<1> QED
  BY <1>1, <1>2, PTL DEF Spec

(* EvidenceKept: whatever is borrowed, a root-owned file tells of it, so    *)
(* that a helper that comes later, or recover, can give it back, unless it  *)
(* was missed.                                                              *)
THEOREM EvidenceIsKept == Spec => []EvidenceKept
<1>1. IInv => EvidenceKept
  BY DEF IInv, KeptInv, Evidence
<1> QED
  BY <1>1, SessionInv, PTL

(* CleanedMeansRestored: when a helper publishes cleaned, or the adapter    *)
(* tells its user so, everything has been given back but what was missed,   *)
(* and nothing was without a fault and a lapsed lease.                      *)
THEOREM CleanedIsRestored == Spec => []CleanedMeansRestored
<1>1. IInv => CleanedMeansRestored
  BY DEF IInv, TypeOK, KeptInv, Evidence, EvidenceKept, Record, Files, Faultless,
         CleanedHasNoToken, CleanedMeansRestored
<1> QED
  BY <1>1, SessionInv, PTL

(* HealthyCastKept: neither helper ends a cast whose controller lives and   *)
(* renews its lease, before it is asked to, unless something fails or a     *)
(* look falls into a renewal.                                               *)
THEOREM HealthyCastIsKept == Spec => []HealthyCastKept
<1>1. IInv => HealthyCastKept
  BY DEF IInv, OrderInv
<1> QED
  BY <1>1, SessionInv, PTL
=============================================================================
