------------------------ MODULE SupplicantBrokerProofs ------------------------
(***************************************************************************)
(* The safety of what the broker does to wpa_supplicant and NetworkManager,*)
(* for any number of kills and failing calls: whatever is left can be      *)
(* found, and a cleanup that succeeds has taken it back.                   *)
(***************************************************************************)
EXTENDS SupplicantBroker, TLAPS

Gone == {"exited", "dead"}

(* The operations on each of the two programs, the cleanup of the metadata  *)
(* excepted.                                                                *)
SupplicantLabels == {"mark", "set", "watch", "dial", "close", "interfaces"}
ManagerLabels    == {"intent", "activate", "write"}

-----------------------------------------------------------------------------
(* The parts of the inductive invariant *)

(* The helpers begin when the broker has ended, and it does not come back. *)
HelpersAreLate ==
  \A w \in Helper : pc[w] \notin {"idle", "stop", "dead"} => pc["broker"] \in Gone

(* Each backend reaches only its own program. *)
BackendsApart ==
  /\ \A w \in Process :
       /\ pc[w] \in ManagerLabels \cup NmLabels => backend = "networkmanager"
       /\ pc[w] \in SupplicantLabels => backend = "direct"
  /\ backend = "direct" => active = "none"
  /\ backend = "networkmanager" => group = "none"

(* The marker and the record come before the change, and go after it. *)
TraceFirst ==
  /\ TraceKept
  /\ pc["broker"] = "set" => marker
  /\ pc["broker"] = "activate" => record # "none"
  /\ \A w \in Process : pc[w] = "wfd_unmark" => wfd # "ours"
  /\ \A w \in Process : pc[w] = "nm_drop" => active = "none"

(* A helper that has had no failure has nothing left behind it. *)
Released(w) ==
  /\ pc[w] \in {"interfaces", "end", "done"} \cup NmLabels /\ ok[w] => wfd # "ours"
  /\ pc[w] \in {"end", "done"} /\ ok[w] => active = "none"

AllReleased == \A w \in Helper : Released(w)

(* Cancel and Disconnect together end the group in whatever state it is,    *)
(* and the broker knows when there may be one.                              *)
GroupFollowed ==
  /\ group # "none" => "p2p_mutation_attempted" \in flags
  /\ faults = 0 =>
       /\ pc["broker"] = "disconnect" => group # "pending"
       /\ pc["broker"] \in {"wfd_get", "wfd_set", "wfd_unmark", "end", "exited"} =>
            group = "none"

IInv ==
  /\ TypeOK /\ HelpersAreLate /\ BackendsApart
  /\ TraceFirst /\ AllReleased /\ GroupFollowed

-----------------------------------------------------------------------------
(* The step of a process *)

(* Goto moves one process and leaves the others where they are. *)
LEMMA GotoMoves ==
  ASSUME TypeOK
  PROVE  \A w \in Process : \A l : Goto(w, l) =>
           pc'[w] = l /\ \A v \in Process : v # w => pc'[v] = pc[v]
BY DEF Goto, TypeOK

(* And to labels of the program. *)
LEMMA GotoTyped ==
  ASSUME TypeOK
  PROVE  \A w \in Process : \A l \in Labels : Goto(w, l) => pc' \in [Process -> Labels]
BY DEF Goto, TypeOK

-----------------------------------------------------------------------------
(* Types *)

BusTyped ==
  /\ backend \in Backends /\ armed \in BOOLEAN /\ marker \in BOOLEAN
  /\ record \in {"none", "intent", "full"}
  /\ wfd \in {"empty", "ours", "foreign"} /\ group \in {"none", "pending", "formed"}
  /\ active \in {"none", "up", "going"}

OwnTyped ==
  /\ stop \in BOOLEAN /\ flags \subseteq Flags /\ reply \in {"none", "ok", "error"}
  /\ final \in BOOLEAN /\ monitor \in {"off", "on", "refused"}

PcTyped == pc \in [Process -> Labels]

OkTyped == ok \in [Process -> BOOLEAN]

FaultsTyped == faults \in 0..MaxFaults

(* The two programs and the session's files keep their types. *)
LEMMA BusStep ==
  ASSUME TypeOK, Next
  PROVE  BusTyped'
<1> USE DEF TypeOK, BusTyped, files, bus, own
<1>1. CASE \E op \in {"connect", "pin", "cleanup", "other"} : Request(op)
  BY <1>1 DEF Request
<1>2. CASE Connect
  BY <1>2 DEF Connect, WaitArm, ResolveSupplicant, MarkWfd, SetWfd, StartMonitor, Dial,
              PollGroup, CloseMonitor, ResolveNetworkManager, WriteIntent, Activate,
              WriteRecord, PollActive
<1>3. CASE LeaveServe \/ CancelDisconnect
  BY <1>3 DEF LeaveServe, CancelDisconnect, EndGroup
<1>4. ASSUME NEW w \in Process, CleanWfd(w) PROVE BusTyped'
  BY <1>4 DEF CleanWfd, WfdGet, WfdSet, WfdUnmark
<1>5. ASSUME NEW w \in Process, CleanNetworkManager(w) PROVE BusTyped'
  BY <1>5 DEF CleanNetworkManager, NmRead, NmFind, NmOwned, NmAdopt, NmDeactivate,
              NmRefused, NmWait, NmDrop, NmRaise, Owned
<1>6. ASSUME NEW w \in Process, End(w) PROVE BusTyped'
  BY <1>6 DEF End
<1>7. ASSUME NEW w \in Helper, StopUnit(w) \/ BrokerDown(w) \/ RemoveInterfaces(w)
      PROVE  BusTyped'
  BY <1>7 DEF StopUnit, BrokerDown, RemoveInterfaces
<1>8. CASE Arm \/ Negotiate \/ Refuse \/ Lose \/ Release \/ Foreign
  BY <1>8 DEF Arm, Negotiate, Refuse, Lose, Release, Foreign
<1>9. ASSUME NEW w \in Process, Kill(w) PROVE BusTyped'
  BY <1>9 DEF Kill
<1> QED
  BY <1>1, <1>2, <1>3, <1>4, <1>5, <1>6, <1>7, <1>8, <1>9
     DEF Next, BrokerStep, HelperStep, Process

(* The variables of the broker keep their types. *)
LEMMA OwnStep ==
  ASSUME TypeOK, Next
  PROVE  OwnTyped'
<1> USE DEF TypeOK, OwnTyped, Flags, Answer, files, bus, own
<1>1. CASE \E op \in {"connect", "pin", "cleanup", "other"} : Request(op)
  BY <1>1 DEF Request
<1>2. CASE Connect
  BY <1>2 DEF Connect, WaitArm, ResolveSupplicant, MarkWfd, SetWfd, StartMonitor, Dial,
              PollGroup, CloseMonitor, ResolveNetworkManager, WriteIntent, Activate,
              WriteRecord, PollActive
<1>3. CASE LeaveServe \/ CancelDisconnect
  BY <1>3 DEF LeaveServe, CancelDisconnect, EndGroup
<1>4. ASSUME NEW w \in Process, CleanWfd(w) PROVE OwnTyped'
  BY <1>4 DEF CleanWfd, WfdGet, WfdSet, WfdUnmark
<1>5. ASSUME NEW w \in Process, CleanNetworkManager(w) PROVE OwnTyped'
  BY <1>5 DEF CleanNetworkManager, NmRead, NmFind, NmOwned, NmAdopt, NmDeactivate,
              NmRefused, NmWait, NmDrop, NmRaise, Owned
<1>6. ASSUME NEW w \in Process, End(w) PROVE OwnTyped'
  BY <1>6 DEF End
<1>7. ASSUME NEW w \in Helper, StopUnit(w) \/ BrokerDown(w) \/ RemoveInterfaces(w)
      PROVE  OwnTyped'
  BY <1>7 DEF StopUnit, BrokerDown, RemoveInterfaces
<1>8. CASE Arm \/ Negotiate \/ Refuse \/ Lose \/ Release \/ Foreign
  BY <1>8 DEF Arm, Negotiate, Refuse, Lose, Release, Foreign
<1>9. ASSUME NEW w \in Process, Kill(w) PROVE OwnTyped'
  BY <1>9 DEF Kill
<1> QED
  BY <1>1, <1>2, <1>3, <1>4, <1>5, <1>6, <1>7, <1>8, <1>9
     DEF Next, BrokerStep, HelperStep, Process

(* Each process stays within its program. *)
LEMMA PcStep ==
  ASSUME TypeOK, Next
  PROVE  PcTyped'
<1> USE GotoTyped DEF TypeOK, PcTyped, Process, Helper, Labels, ConnectLabels, WfdLabels,
        NmLabels, Answer, FirstCleanup, AfterWfd, own
<1>1. CASE \E op \in {"connect", "pin", "cleanup", "other"} : Request(op)
  BY <1>1 DEF Request
<1>2. CASE Connect
  BY <1>2 DEF Connect, WaitArm, ResolveSupplicant, MarkWfd, SetWfd, StartMonitor, Dial,
              PollGroup, CloseMonitor, ResolveNetworkManager, WriteIntent, Activate,
              WriteRecord, PollActive
<1>3. CASE LeaveServe \/ CancelDisconnect
  BY <1>3 DEF LeaveServe, CancelDisconnect, EndGroup
<1>4. ASSUME NEW w \in Process, CleanWfd(w) PROVE PcTyped'
  BY <1>4 DEF CleanWfd, WfdGet, WfdSet, WfdUnmark
<1>5. ASSUME NEW w \in Process, CleanNetworkManager(w) PROVE PcTyped'
  BY <1>5 DEF CleanNetworkManager, NmRead, NmFind, NmOwned, NmAdopt, NmDeactivate,
              NmRefused, NmWait, NmDrop, NmRaise, Owned
<1>6. ASSUME NEW w \in Process, End(w) PROVE PcTyped'
  BY <1>6 DEF End
<1>7. ASSUME NEW w \in Helper, StopUnit(w) \/ BrokerDown(w) \/ RemoveInterfaces(w)
      PROVE  PcTyped'
  BY <1>7 DEF StopUnit, BrokerDown, RemoveInterfaces
<1>8. CASE Arm \/ Negotiate \/ Refuse \/ Lose \/ Release \/ Foreign
  BY <1>8 DEF Arm, Negotiate, Refuse, Lose, Release, Foreign
<1>9. ASSUME NEW w \in Process, Kill(w) PROVE PcTyped'
  BY <1>9 DEF Kill
<1> QED
  BY <1>1, <1>2, <1>3, <1>4, <1>5, <1>6, <1>7, <1>8, <1>9
     DEF Next, BrokerStep, HelperStep, Process

(* The results of the cleanups keep their type. *)
LEMMA OkStep ==
  ASSUME TypeOK, Next
  PROVE  OkTyped'
<1> USE DEF TypeOK, OkTyped, Process, Helper, Failed, own
<1>1. CASE \E op \in {"connect", "pin", "cleanup", "other"} : Request(op)
  BY <1>1 DEF Request
<1>2. CASE Connect
  BY <1>2 DEF Connect, WaitArm, ResolveSupplicant, MarkWfd, SetWfd, StartMonitor, Dial,
              PollGroup, CloseMonitor, ResolveNetworkManager, WriteIntent, Activate,
              WriteRecord, PollActive
<1>3. CASE LeaveServe \/ CancelDisconnect
  BY <1>3 DEF LeaveServe, CancelDisconnect, EndGroup
<1>4. ASSUME NEW w \in Process, CleanWfd(w) PROVE OkTyped'
  BY <1>4 DEF CleanWfd, WfdGet, WfdSet, WfdUnmark
<1>5. ASSUME NEW w \in Process, CleanNetworkManager(w) PROVE OkTyped'
  BY <1>5 DEF CleanNetworkManager, NmRead, NmFind, NmOwned, NmAdopt, NmDeactivate,
              NmRefused, NmWait, NmDrop, NmRaise, Owned
<1>6. ASSUME NEW w \in Process, End(w) PROVE OkTyped'
  BY <1>6 DEF End
<1>7. ASSUME NEW w \in Helper, StopUnit(w) \/ BrokerDown(w) \/ RemoveInterfaces(w)
      PROVE  OkTyped'
  BY <1>7 DEF StopUnit, BrokerDown, RemoveInterfaces
<1>8. CASE Arm \/ Negotiate \/ Refuse \/ Lose \/ Release \/ Foreign
  BY <1>8 DEF Arm, Negotiate, Refuse, Lose, Release, Foreign
<1>9. ASSUME NEW w \in Process, Kill(w) PROVE OkTyped'
  BY <1>9 DEF Kill
<1> QED
  BY <1>1, <1>2, <1>3, <1>4, <1>5, <1>6, <1>7, <1>8, <1>9
     DEF Next, BrokerStep, HelperStep, Process

(* Faults are counted up to their bound. *)
LEMMA FaultsStep ==
  ASSUME TypeOK, Next
  PROVE  FaultsTyped'
<1> USE FaultsAssumption DEF TypeOK, FaultsTyped, Fault, own
<1>1. CASE \E op \in {"connect", "pin", "cleanup", "other"} : Request(op)
  BY <1>1 DEF Request
<1>2. CASE Connect
  BY <1>2 DEF Connect, WaitArm, ResolveSupplicant, MarkWfd, SetWfd, StartMonitor, Dial,
              PollGroup, CloseMonitor, ResolveNetworkManager, WriteIntent, Activate,
              WriteRecord, PollActive
<1>3. CASE LeaveServe \/ CancelDisconnect
  BY <1>3 DEF LeaveServe, CancelDisconnect, EndGroup
<1>4. ASSUME NEW w \in Process, CleanWfd(w) PROVE FaultsTyped'
  BY <1>4 DEF CleanWfd, WfdGet, WfdSet, WfdUnmark
<1>5. ASSUME NEW w \in Process, CleanNetworkManager(w) PROVE FaultsTyped'
  BY <1>5 DEF CleanNetworkManager, NmRead, NmFind, NmOwned, NmAdopt, NmDeactivate,
              NmRefused, NmWait, NmDrop, NmRaise, Owned
<1>6. ASSUME NEW w \in Process, End(w) PROVE FaultsTyped'
  BY <1>6 DEF End
<1>7. ASSUME NEW w \in Helper, StopUnit(w) \/ BrokerDown(w) \/ RemoveInterfaces(w)
      PROVE  FaultsTyped'
  BY <1>7 DEF StopUnit, BrokerDown, RemoveInterfaces
<1>8. CASE Arm \/ Negotiate \/ Refuse \/ Lose \/ Release \/ Foreign
  BY <1>8 DEF Arm, Negotiate, Refuse, Lose, Release, Foreign
<1>9. ASSUME NEW w \in Process, Kill(w) PROVE FaultsTyped'
  BY <1>9 DEF Kill
<1> QED
  BY <1>1, <1>2, <1>3, <1>4, <1>5, <1>6, <1>7, <1>8, <1>9
     DEF Next, BrokerStep, HelperStep, Process

(* Every step of every process keeps the types. *)
LEMMA TypeStep == TypeOK /\ [Next]_vars => TypeOK'
<1>1. CASE TypeOK /\ Next
  BY <1>1, BusStep, OwnStep, PcStep, OkStep, FaultsStep
     DEF TypeOK, BusTyped, OwnTyped, PcTyped, OkTyped, FaultsTyped
<1>2. CASE TypeOK /\ UNCHANGED vars
  BY <1>2 DEF TypeOK, vars, files, bus, own
<1> QED
  BY <1>1, <1>2

(* The initial state is typed. *)
LEMMA TypeInit == Init => TypeOK
<1> SUFFICES ASSUME Init PROVE TypeOK
  OBVIOUS
<1>1. PcTyped /\ OkTyped
  BY DEF Init, PcTyped, OkTyped, Process, Helper, Labels
<1>2. BusTyped /\ OwnTyped
  BY DEF Init, BusTyped, OwnTyped
<1> QED
  BY <1>1, <1>2, FaultsAssumption DEF Init, TypeOK, PcTyped, OkTyped, BusTyped, OwnTyped

(* TypeOK, whatever is killed and whatever call fails: each variable keeps  *)
(* its type, each process stays within its program.                         *)
THEOREM BrokerTypes == Spec => []TypeOK
BY TypeInit, TypeStep, PTL DEF Spec

-----------------------------------------------------------------------------
(* Safety *)

(* No step brings the broker back or touches the program of the other backend. *)
LEMMA OrderStep ==
  ASSUME IInv, Next
  PROVE  (HelpersAreLate /\ BackendsApart)'
<1> USE GotoMoves, BackendsAssumption DEF IInv, TypeOK, HelpersAreLate, BackendsApart,
        Gone, SupplicantLabels, ManagerLabels, NmLabels, Process, Helper, Answer,
        FirstCleanup, AfterWfd, Fault, files, bus, own
<1>1. CASE \E op \in {"connect", "pin", "cleanup", "other"} : Request(op)
  BY <1>1 DEF Request
<1>2. CASE Connect
  BY <1>2 DEF Connect, WaitArm, ResolveSupplicant, MarkWfd, SetWfd, StartMonitor, Dial,
              PollGroup, CloseMonitor, ResolveNetworkManager, WriteIntent, Activate,
              WriteRecord, PollActive
<1>3. CASE LeaveServe \/ CancelDisconnect
  BY <1>3 DEF LeaveServe, CancelDisconnect, EndGroup
<1>4. ASSUME NEW w \in Process, CleanWfd(w) PROVE (HelpersAreLate /\ BackendsApart)'
  BY <1>4 DEF CleanWfd, WfdGet, WfdSet, WfdUnmark
<1>5. ASSUME NEW w \in Process, CleanNetworkManager(w)
      PROVE  (HelpersAreLate /\ BackendsApart)'
  BY <1>5 DEF CleanNetworkManager, NmRead, NmFind, NmOwned, NmAdopt, NmDeactivate,
              NmRefused, NmWait, NmDrop, NmRaise, Owned
<1>6. ASSUME NEW w \in Process, End(w) PROVE (HelpersAreLate /\ BackendsApart)'
  BY <1>6 DEF End
<1>7. ASSUME NEW w \in Helper, StopUnit(w) \/ BrokerDown(w) \/ RemoveInterfaces(w)
      PROVE  (HelpersAreLate /\ BackendsApart)'
  BY <1>7 DEF StopUnit, BrokerDown, RemoveInterfaces
<1>8. CASE Arm \/ Negotiate \/ Refuse \/ Lose \/ Release \/ Foreign
  BY <1>8 DEF Arm, Negotiate, Refuse, Lose, Release, Foreign
<1>9. ASSUME NEW w \in Process, Kill(w) PROVE (HelpersAreLate /\ BackendsApart)'
  BY <1>9 DEF Kill
<1> QED
  BY <1>1, <1>2, <1>3, <1>4, <1>5, <1>6, <1>7, <1>8, <1>9
     DEF Next, BrokerStep, HelperStep, Process

(* No step removes the trace of what is still there. *)
LEMMA TraceStep ==
  ASSUME IInv, Next
  PROVE  TraceFirst'
<1> USE GotoMoves, BackendsAssumption DEF IInv, TypeOK, HelpersAreLate, BackendsApart,
        TraceFirst, TraceKept, Gone, ManagerLabels, Process, Helper, Answer, FirstCleanup,
        AfterWfd, Fault, files, bus, own
<1>1. CASE \E op \in {"connect", "pin", "cleanup", "other"} : Request(op)
  BY <1>1 DEF Request
<1>2. CASE Connect
  BY <1>2 DEF Connect, WaitArm, ResolveSupplicant, MarkWfd, SetWfd, StartMonitor, Dial,
              PollGroup, CloseMonitor, ResolveNetworkManager, WriteIntent, Activate,
              WriteRecord, PollActive
<1>3. CASE LeaveServe \/ CancelDisconnect
  BY <1>3 DEF LeaveServe, CancelDisconnect, EndGroup
<1>4. ASSUME NEW w \in Process, CleanWfd(w) PROVE TraceFirst'
  BY <1>4 DEF CleanWfd, WfdGet, WfdSet, WfdUnmark
<1>5. ASSUME NEW w \in Process, CleanNetworkManager(w) PROVE TraceFirst'
  BY <1>5 DEF CleanNetworkManager, NmRead, NmFind, NmOwned, NmAdopt, NmDeactivate,
              NmRefused, NmWait, NmDrop, NmRaise, Owned
<1>6. ASSUME NEW w \in Process, End(w) PROVE TraceFirst'
  BY <1>6 DEF End
<1>7. ASSUME NEW w \in Helper, StopUnit(w) \/ BrokerDown(w) \/ RemoveInterfaces(w)
      PROVE  TraceFirst'
  BY <1>7 DEF StopUnit, BrokerDown, RemoveInterfaces
<1>8. CASE Arm \/ Negotiate \/ Refuse \/ Lose \/ Release \/ Foreign
  BY <1>8 DEF Arm, Negotiate, Refuse, Lose, Release, Foreign
<1>9. ASSUME NEW w \in Process, Kill(w) PROVE TraceFirst'
  BY <1>9 DEF Kill
<1> QED
  BY <1>1, <1>2, <1>3, <1>4, <1>5, <1>6, <1>7, <1>8, <1>9
     DEF Next, BrokerStep, HelperStep, Process

(* No step succeeds over what is left, and none brings it back. *)
LEMMA ReleasedStep ==
  ASSUME IInv, Next
  PROVE  AllReleased'
<1> USE GotoMoves, BackendsAssumption DEF IInv, TypeOK, HelpersAreLate, BackendsApart,
        TraceFirst, TraceKept, AllReleased, Released, Gone, SupplicantLabels,
        ManagerLabels, NmLabels, Failed, Process, Helper, Answer, FirstCleanup, AfterWfd,
        Fault, files, bus, own
<1>1. CASE \E op \in {"connect", "pin", "cleanup", "other"} : Request(op)
  BY <1>1 DEF Request
<1>2. CASE Connect
  BY <1>2 DEF Connect, WaitArm, ResolveSupplicant, MarkWfd, SetWfd, StartMonitor, Dial,
              PollGroup, CloseMonitor, ResolveNetworkManager, WriteIntent, Activate,
              WriteRecord, PollActive
<1>3. CASE LeaveServe \/ CancelDisconnect
  BY <1>3 DEF LeaveServe, CancelDisconnect, EndGroup
<1>4. ASSUME NEW w \in Process, CleanWfd(w) PROVE AllReleased'
  BY <1>4 DEF CleanWfd, WfdGet, WfdSet, WfdUnmark
<1>5. ASSUME NEW w \in Process, CleanNetworkManager(w) PROVE AllReleased'
  BY <1>5 DEF CleanNetworkManager, NmRead, NmFind, NmOwned, NmAdopt, NmDeactivate,
              NmRefused, NmWait, NmDrop, NmRaise, Owned
<1>6. ASSUME NEW w \in Process, End(w) PROVE AllReleased'
  BY <1>6 DEF End
<1>7. ASSUME NEW w \in Helper, StopUnit(w) \/ BrokerDown(w) \/ RemoveInterfaces(w)
      PROVE  AllReleased'
  BY <1>7 DEF StopUnit, BrokerDown, RemoveInterfaces
<1>8. CASE Arm \/ Negotiate \/ Refuse \/ Lose \/ Release \/ Foreign
  BY <1>8 DEF Arm, Negotiate, Refuse, Lose, Release, Foreign
<1>9. ASSUME NEW w \in Process, Kill(w) PROVE AllReleased'
  BY <1>9 DEF Kill
<1> QED
  BY <1>1, <1>2, <1>3, <1>4, <1>5, <1>6, <1>7, <1>8, <1>9
     DEF Next, BrokerStep, HelperStep, Process

(* No group is left behind the Disconnect of a broker that had no fault. *)
LEMMA GroupStep ==
  ASSUME IInv, Next
  PROVE  GroupFollowed'
<1> USE GotoMoves, BackendsAssumption DEF IInv, TypeOK, BackendsApart, GroupFollowed,
        Gone, SupplicantLabels, ManagerLabels, NmLabels, Process, Helper, Answer,
        FirstCleanup, AfterWfd, Fault, files, bus, own
<1>1. CASE \E op \in {"connect", "pin", "cleanup", "other"} : Request(op)
  BY <1>1 DEF Request
<1>2. CASE Connect
  BY <1>2 DEF Connect, WaitArm, ResolveSupplicant, MarkWfd, SetWfd, StartMonitor, Dial,
              PollGroup, CloseMonitor, ResolveNetworkManager, WriteIntent, Activate,
              WriteRecord, PollActive
<1>3. CASE LeaveServe \/ CancelDisconnect
  BY <1>3 DEF LeaveServe, CancelDisconnect, EndGroup
<1>4. ASSUME NEW w \in Process, CleanWfd(w) PROVE GroupFollowed'
  BY <1>4 DEF CleanWfd, WfdGet, WfdSet, WfdUnmark
<1>5. ASSUME NEW w \in Process, CleanNetworkManager(w) PROVE GroupFollowed'
  BY <1>5 DEF CleanNetworkManager, NmRead, NmFind, NmOwned, NmAdopt, NmDeactivate,
              NmRefused, NmWait, NmDrop, NmRaise, Owned
<1>6. ASSUME NEW w \in Process, End(w) PROVE GroupFollowed'
  BY <1>6 DEF End
<1>7. ASSUME NEW w \in Helper, StopUnit(w) \/ BrokerDown(w) \/ RemoveInterfaces(w)
      PROVE  GroupFollowed'
  BY <1>7 DEF StopUnit, BrokerDown, RemoveInterfaces
<1>8. CASE Arm \/ Negotiate \/ Refuse \/ Lose \/ Release \/ Foreign
  BY <1>8 DEF Arm, Negotiate, Refuse, Lose, Release, Foreign
<1>9. ASSUME NEW w \in Process, Kill(w) PROVE GroupFollowed'
  BY <1>9 DEF Kill
<1> QED
  BY <1>1, <1>2, <1>3, <1>4, <1>5, <1>6, <1>7, <1>8, <1>9
     DEF Next, BrokerStep, HelperStep, Process

(* No step breaks the invariant, and none that changes nothing does. *)
LEMMA IInvStep == IInv /\ [Next]_vars => IInv'
<1>1. CASE IInv /\ Next
  <2>1. TypeOK'
    BY <1>1, TypeStep DEF IInv
  <2>2. (HelpersAreLate /\ BackendsApart)' /\ TraceFirst' /\ AllReleased' /\ GroupFollowed'
    BY <1>1, OrderStep, TraceStep, ReleasedStep, GroupStep
  <2> QED
    BY <2>1, <2>2 DEF IInv
<1>2. CASE IInv /\ UNCHANGED vars
  BY <1>2 DEF IInv, TypeOK, HelpersAreLate, BackendsApart, TraceFirst, TraceKept,
              AllReleased, Released, GroupFollowed, vars, files, bus, own
<1> QED
  BY <1>1, <1>2

(* The initial state has nothing to be found. *)
LEMMA IInvInit == Init => IInv
<1> SUFFICES ASSUME Init PROVE IInv
  OBVIOUS
<1>1. TypeOK
  BY TypeInit
<1>2. \A w \in Process : pc[w] = IF w = "broker" THEN "serve" ELSE "idle"
  BY DEF Init
<1>3. HelpersAreLate /\ BackendsApart /\ TraceFirst /\ AllReleased /\ GroupFollowed
  BY <1>2 DEF Init, Process, Helper, HelpersAreLate, BackendsApart, TraceFirst, TraceKept,
              AllReleased, Released, GroupFollowed, SupplicantLabels, ManagerLabels, NmLabels
<1> QED
  BY <1>1, <1>3 DEF IInv

(* So it always holds. *)
LEMMA IInvAlways == Spec => []IInv
BY IInvInit, IInvStep, PTL DEF Spec

(* TraceKept, for any number of faults: the metadata of the session has its *)
(* marker and its activation has its record, whatever is killed between two *)
(* calls (omarchy-cast-supplicant-broker:814-838, 924-929).                 *)
THEOREM TracesAreKept == Spec => []TraceKept
<1>1. IInv => TraceKept
  BY DEF IInv, TraceFirst
<1> QED
  BY <1>1, IInvAlways, PTL

(* SuccessMeansReleased, for any number of faults: a helper that ends with  *)
(* success has taken metadata and activation back, although three processes *)
(* may have worked on them.                                                 *)
THEOREM SuccessIsRelease == Spec => []SuccessMeansReleased
<1>1. IInv => SuccessMeansReleased
  BY DEF IInv, AllReleased, Released, SuccessMeansReleased
<1> QED
  BY <1>1, IInvAlways, PTL

(* GroupEnded: a broker that ended by itself and without a fault leaves no  *)
(* group and no negotiation.                                                *)
THEOREM GroupsEnd == Spec => []GroupEnded
<1>1. IInv => GroupEnded
  BY DEF IInv, GroupFollowed, GroupEnded
<1> QED
  BY <1>1, IInvAlways, PTL
===============================================================================
