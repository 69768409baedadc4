----------------------- MODULE SessionLifecycleProofs -----------------------
(***************************************************************************)
(* Proofs about SessionLifecycle, for every set of processes, every choice *)
(* of commands and every bound.  The inductive invariant IInv is built in  *)
(* five layers, each proved from the ones before it:                       *)
(*   Shape        the variables keep their sets of values,                 *)
(*   Ownership    the flock is held wherever the code relies on it,        *)
(*   Identity     session ids are issued once and unknown until published, *)
(*   Copies       the state a process remembers agrees with the file       *)
(*                whenever it is used as the base of the next write,       *)
(*   Conclusions  what processes have concluded is true.                   *)
(* Without a fault the copies agree after a failure too (Attended), and    *)
(* that is what OrphanOnlyByFault needs.                                   *)
(* What CastContract sees of the processes (View) follows from Ownership   *)
(* and Identity; with Copies every step is one of the contract.            *)
(***************************************************************************)
EXTENDS SessionLifecycle, TLAPS

USE ProcAssumption, IssuesAssumption, BoundsAssumption

-----------------------------------------------------------------------------
(* The shape of the variables, TypeOK without what it says of documents. *)
Shape ==
  /\ disk \in States /\ lock \in Proc \cup {NoProc} /\ stop \in Sids
  /\ unit \in Proc \cup {NoProc} /\ issued \in Sids /\ faults \in 0..MaxFaults
  /\ asked \subseteq Sids /\ acked \subseteq Sids /\ turned \subseteq Sids
  /\ pc \in [Proc -> Labels] /\ kind \in [Proc -> Commands]
  /\ loc \in [Proc -> States] /\ res \in [Proc -> Results]
  /\ own \in [Proc -> Sids]

(* Which command a label belongs to. *)
KindOf(p) ==
  /\ pc[p] \in EarlyLabels \cup RunLabels => kind[p] \in SupKinds
  /\ pc[p] \in {"discover", "prepare", "auth", "link", "stream", "result", "error"}
       => kind[p] = "transport"
  /\ pc[p] = "lock" => kind[p] \in SupKinds \cup {"recover"}
  /\ pc[p] = "read" => kind[p] \in {"recover", "start"}
  /\ pc[p] \in {"leave", "settle", "sweep"} => kind[p] = "recover"
  /\ pc[p] \in {"choose", "request", "mark", "sysstop"} => kind[p] = "stop"
  /\ pc[p] = "launch" => kind[p] = "start"
  /\ pc[p] \in {"peek", "probe", "unprobe", "reported"} => kind[p] = "status"

(* The operations that are only performed under the lock. *)
UnderLock(p) ==
  \/ pc[p] \in EarlyLabels \cup RunLabels \cup {"leave", "settle", "sweep", "unprobe"}
  \/ pc[p] = "read" /\ kind[p] = "recover"

Ownership ==
  \A p \in Proc : /\ KindOf(p)
                  /\ UnderLock(p) => lock = p
                  /\ lock = p => UnderLock(p) \/ pc[p] = "release"

(* Session ids: issued to one supervisor each, and known to nobody else     *)
(* before the supervisor publishes its first document.                      *)
Identity ==
  /\ disk.sid <= issued /\ stop <= issued
  /\ \A s \in asked : s <= issued
  /\ stop # 0 => stop \in asked
  /\ \A p \in Proc :
       /\ own[p] <= issued /\ loc[p].sid <= issued
       /\ own[p] # 0 <=> (kind[p] \in SupKinds /\ pc[p] # "exited")
       /\ \A q \in Proc : p # q /\ own[p] = own[q] => own[p] = 0
       /\ Unpublished(p) => /\ own[p] # disk.sid /\ own[p] # stop
                            /\ own[p] \notin asked
                            /\ \A q \in Proc : own[p] # loc[q].sid

(* The phases from which a failing supervisor publishes error. *)
Act == {"checking", "discovering", "preparing", "connecting", "streaming", "stopping"}

(* The phases a supervisor is in when it performs an operation. *)
PhaseAt(label) ==
  CASE label = "step"     -> {"checking", "discovering", "preparing", "connecting", "streaming"}
    [] label = "discover" -> {"checking"}
    [] label = "prepare"  -> {"discovering"}
    [] label = "auth"     -> {"preparing"}
    [] label = "link"     -> {"connecting"}
    [] label = "stream"   -> {"streaming"}
    [] label = "result"   -> {"preparing", "connecting", "streaming"}
    [] label = "error"    -> {"preparing", "connecting", "streaming"}
    [] label = "stopping" -> {"checking", "discovering", "preparing", "connecting", "streaming"}
    [] label = "idle"     -> {"stopping"}
    [] OTHER              -> PHASES

(* The write of idle has raised after it installed the document; the copy   *)
(* of a simulated or dry-run supervisor is a phase behind.                  *)
Overtaken(p) == disk = idle_state /\ loc[p].phase = "stopping" /\ kind[p] # "transport"

(* A copy of the state agrees with the file while its holder goes on;       *)
(* after a failure the two may differ, but both can still become error, or  *)
(* the file has overtaken the copy.                                         *)
Copy(p) ==
  /\ pc[p] \in {"clear", "begin"} => disk = idle_state
  /\ pc[p] \in RunLabels \ {"except", "finally"} =>
       /\ disk = loc[p] /\ loc[p].sid = own[p] /\ loc[p].phase \in PhaseAt(pc[p])
  /\ pc[p] = "except" /\ loc[p].phase \notin {"idle", "error"} =>
       /\ loc[p].sid = own[p] /\ loc[p].phase \in Act
       /\ (disk.sid = own[p] /\ disk.phase \in Act) \/ Overtaken(p)
  /\ pc[p] = "leave" =>
       /\ disk = loc[p]
       /\ disk.phase \in {"error", "discovering", "preparing", "connecting", "streaming"}
  /\ pc[p] = "settle" => disk = loc[p] /\ disk.phase \in {"checking", "stopping", "recovering"}
  /\ pc[p] \in {"mark", "probe", "unprobe", "reported"} => loc[p].sid # 0

Copies == validate_state(disk) /\ \A p \in Proc : Copy(p)

Conclusions ==
  \A p \in Proc :
    /\ kind[p] \notin SupKinds => res[p] # "failed"
    /\ res[p] = "user" => own[p] \in asked
    /\ pc[p] = "reported" /\ res[p] = "lost" =>
         \A q \in Proc : own[q] = loc[p].sid => pc[q] \in {"release", "refused"}

IInv == Shape /\ Ownership /\ Identity /\ Copies /\ Conclusions

-----------------------------------------------------------------------------
(* transition() of a state is a state. *)
LEMMA TransitionType ==
  ASSUME NEW st \in States, NEW ph \in PHASES
  PROVE  transition(st, ph) \in States
  BY DEF transition, States, Sids, PHASES, idle_state

(* The idle document is a state. *)
LEMMA IdleType == idle_state \in States
  BY DEF States, Sids, PHASES, idle_state

(* Recovery leaves a phase for a phase. *)
LEMMA LeavePhaseType ==
  ASSUME NEW st \in States
  PROVE  LeavePhase(st.phase) \in PHASES
  BY DEF LeavePhase, PHASES, States

(* Every command starts at a label. *)
LEMMA EntryPointType ==
  ASSUME NEW k \in Commands
  PROVE  EntryPoint(k) \in Labels
  BY DEF EntryPoint, Commands, SupKinds, Labels

(* Every variable keeps its shape. *)
THEOREM ShapeInv == Spec => []Shape
<1>1. Init => Shape
  BY IdleType DEF Init, Shape, Sids, Labels, Commands, Results
<1>2. Shape /\ [Next]_vars => Shape'
  <2> SUFFICES ASSUME Shape, [Next]_vars PROVE Shape'
    OBVIOUS
  <2> USE DEF Shape, Sids, Labels, Commands, SupKinds, Results
  <2>1. ASSUME NEW p \in Proc, NEW k \in Commands, Launch(p, k) PROVE Shape'
    BY <2>1, IdleType, EntryPointType DEF Launch, Enter, Goto, files, hist
  <2>2. ASSUME NEW p \in Proc, Acquire(p) PROVE Shape'
    <3>1. turned' \subseteq Sids
      BY <2>2 DEF Acquire, States
    <3>2. pc' \in [Proc -> Labels] /\ lock' \in Proc \cup {NoProc}
      BY <2>2 DEF Acquire, Goto
    <3>3. QED
      BY <2>2, <3>1, <3>2 DEF Acquire
  <2>3. ASSUME NEW p \in Proc, Leave(p) PROVE Shape'
    BY <2>3, IdleType DEF Leave, Goto, Exit, files, hist
  <2>4. ASSUME NEW p \in Proc, Check(p) PROVE Shape'
    BY <2>4 DEF Check, Goto, files, hist
  <2>5. ASSUME NEW p \in Proc, ClearAtStart(p) PROVE Shape'
    BY <2>5 DEF ClearAtStart, Goto, Fault, files, hist
  <2>6. ASSUME NEW p \in Proc, Begin(p) PROVE Shape'
    BY <2>6 DEF Begin, Goto, Fault, States, PHASES, files, hist
  <2>7. ASSUME NEW p \in Proc, Walk(p) PROVE Shape'
    BY <2>7, TransitionType
       DEF Walk, Move, Uncaught, Goto, Fault, StopRequested, NextPhase, PHASES,
           files, hist
  <2>8. ASSUME NEW p \in Proc, Prelude(p) PROVE Shape'
    BY <2>8, TransitionType DEF Prelude, Move, Uncaught, Goto, Fault, PHASES, files, hist
  <2>9. ASSUME NEW p \in Proc, AdapterStage(p) PROVE Shape'
    BY <2>9, TransitionType
       DEF AdapterStage, Move, Uncaught, Goto, Fault, PHASES, files, hist
  <2>10. ASSUME NEW p \in Proc, NEW o \in {"user", "done", "failed"},
                AdapterReturn(p, o)
         PROVE Shape'
    BY <2>10 DEF AdapterReturn, Goto, StopRequested, files, hist
  <2>11. ASSUME NEW p \in Proc, AdapterRaise(p) PROVE Shape'
    BY <2>11 DEF AdapterRaise, Goto, Fault, files, hist
  <2>12. ASSUME NEW p \in Proc, Result(p) PROVE Shape'
    BY <2>12 DEF Result, Goto, Fault, files, hist
  <2>13. ASSUME NEW p \in Proc, Finish(p) PROVE Shape'
    BY <2>13, TransitionType DEF Finish, Move, Uncaught, Goto, Fault, PHASES, files, hist
  <2>14. ASSUME NEW p \in Proc, Except(p) PROVE Shape'
    BY <2>14, TransitionType DEF Except, Goto, Fault, PHASES, files, hist
  <2>15. ASSUME NEW p \in Proc, Finally(p) PROVE Shape'
    BY <2>15 DEF Finally, Goto, Fault, files, hist
  <2>16. ASSUME NEW p \in Proc, RecoverRead(p) PROVE Shape'
    BY <2>16 DEF RecoverRead, Goto, Fault, files, hist
  <2>17. ASSUME NEW p \in Proc, RecoverLeave(p) PROVE Shape'
    <3>1. LeavePhase(loc[p].phase) \in PHASES
      BY LeavePhaseType
    <3>2. QED
      BY <2>17, <3>1, TransitionType
         DEF RecoverLeave, RecoverWrite, Goto, Fault, files, hist
  <2>18. ASSUME NEW p \in Proc, RecoverSettle(p) PROVE Shape'
    BY <2>18, TransitionType
       DEF RecoverSettle, RecoverWrite, Goto, Fault, PHASES, files, hist
  <2>19. ASSUME NEW p \in Proc, RecoverSweep(p) PROVE Shape'
    BY <2>19 DEF RecoverSweep, Goto, Fault, files, hist
  <2>20. ASSUME NEW p \in Proc, StopChoose(p) PROVE Shape'
    BY <2>20 DEF StopChoose, Goto, files, hist
  <2>21. ASSUME NEW p \in Proc, StopRequest(p) PROVE Shape'
    BY <2>21 DEF StopRequest, Goto, files, hist
  <2>22. ASSUME NEW p \in Proc, StopMark(p) PROVE Shape'
    <3>1. loc[p].sid \in Sids
      BY DEF States
    <3>2. stop' \in Sids /\ asked' \subseteq Sids /\ acked' \subseteq Sids
      BY <2>22, <3>1 DEF StopMark
    <3>3. faults' \in 0..MaxFaults
      BY <2>22 DEF StopMark, Fault
    <3>4. QED
      BY <2>22, <3>2, <3>3 DEF StopMark, Goto
  <2>23. ASSUME NEW p \in Proc, SystemctlStop(p) PROVE Shape'
    BY <2>23, IdleType DEF SystemctlStop, Goto, Exit, files, hist
  <2>24. ASSUME NEW p \in Proc, StartRead(p) PROVE Shape'
    BY <2>24 DEF StartRead, Goto, files, hist
  <2>25. ASSUME NEW p \in Proc, StartLaunch(p) PROVE Shape'
    BY <2>25, IdleType DEF StartLaunch, Goto, Enter, files, hist
  <2>26. ASSUME NEW p \in Proc, StatusRead(p) PROVE Shape'
    BY <2>26 DEF StatusRead, Goto, files, hist
  <2>27. ASSUME NEW p \in Proc, StatusProbe(p) PROVE Shape'
    BY <2>27 DEF StatusProbe, Goto, Fault, files, hist
  <2>28. ASSUME NEW p \in Proc, StatusUnprobe(p) PROVE Shape'
    BY <2>28 DEF StatusUnprobe, Goto, files, hist
  <2>29. ASSUME NEW p \in Proc, Kill(p) PROVE Shape'
    BY <2>29, IdleType DEF Kill, Goto, Exit, Fault, files, hist
  <2>30. CASE UNCHANGED vars
    BY <2>30 DEF vars, files, procs, hist
  <2>31. ASSUME NEW p \in Proc, Supervise(p) PROVE Shape'
    BY <2>31, <2>2, <2>3, <2>4, <2>5, <2>6, <2>7, <2>8, <2>9, <2>10,
       <2>12, <2>13, <2>14, <2>15 DEF Supervise
  <2>32. ASSUME NEW p \in Proc, Environment(p) PROVE Shape'
    BY <2>32, <2>10, <2>11 DEF Environment
  <2>33. ASSUME NEW p \in Proc, Recover(p) PROVE Shape'
    BY <2>33, <2>16, <2>17, <2>18, <2>19 DEF Recover
  <2>34. ASSUME NEW p \in Proc, Control(p) PROVE Shape'
    BY <2>34, <2>20, <2>21, <2>22, <2>23, <2>24, <2>25, <2>26, <2>27, <2>28 DEF Control
  <2> QED BY <2>1, <2>29, <2>30, <2>31, <2>32, <2>33, <2>34 DEF Next
<1>3. QED BY <1>1, <1>2, PTL DEF Spec

-----------------------------------------------------------------------------
(* The lock is held throughout every operation that needs it, and a label   *)
(* belongs to the command that was launched.                                *)
THEOREM OwnershipInv == Spec => []Ownership
<1>1. Init => Ownership
  BY DEF Init, Ownership, KindOf, UnderLock, EarlyLabels, RunLabels
<1>2. Shape /\ Ownership /\ [Next]_vars => Ownership'
  <2> SUFFICES ASSUME Shape, Ownership, [Next]_vars PROVE Ownership'
    OBVIOUS
    <2> USE DEF Shape, Ownership, KindOf, UnderLock, EarlyLabels, RunLabels,
              SupKinds, Commands
  <2>1. ASSUME NEW p \in Proc, NEW k \in Commands, Launch(p, k) PROVE Ownership'
    BY <2>1 DEF Launch, Enter, Goto, EntryPoint, files, hist
  <2>2. ASSUME NEW p \in Proc, Acquire(p) PROVE Ownership'
    BY <2>2 DEF Acquire, Goto, files, hist
  <2>3. ASSUME NEW p \in Proc, Leave(p) PROVE Ownership'
    BY <2>3 DEF Leave, Goto, Exit, files, hist
  <2>4. ASSUME NEW p \in Proc, Check(p) PROVE Ownership'
    BY <2>4 DEF Check, Goto, files, hist
  <2>5. ASSUME NEW p \in Proc, ClearAtStart(p) PROVE Ownership'
    BY <2>5 DEF ClearAtStart, Goto, Fault, files, hist
  <2>6. ASSUME NEW p \in Proc, Begin(p) PROVE Ownership'
    BY <2>6 DEF Begin, Goto, Fault, files, hist
  <2>7. ASSUME NEW p \in Proc, Walk(p) PROVE Ownership'
    BY <2>7 DEF Walk, Move, Uncaught, Goto, Fault, StopRequested, NextPhase, files, hist
  <2>8. ASSUME NEW p \in Proc, Prelude(p) PROVE Ownership'
    BY <2>8 DEF Prelude, Move, Uncaught, Goto, Fault, files, hist
  <2>9. ASSUME NEW p \in Proc, AdapterStage(p) PROVE Ownership'
    BY <2>9 DEF AdapterStage, Move, Uncaught, Goto, Fault, files, hist
  <2>10. ASSUME NEW p \in Proc, NEW o \in {"user", "done", "failed"},
                AdapterReturn(p, o)
         PROVE Ownership'
    BY <2>10 DEF AdapterReturn, Goto, StopRequested, files, hist
  <2>11. ASSUME NEW p \in Proc, AdapterRaise(p) PROVE Ownership'
    BY <2>11 DEF AdapterRaise, Goto, Fault, files, hist
  <2>12. ASSUME NEW p \in Proc, Result(p) PROVE Ownership'
    BY <2>12 DEF Result, Goto, Fault, files, hist
  <2>13. ASSUME NEW p \in Proc, Finish(p) PROVE Ownership'
    BY <2>13 DEF Finish, Move, Uncaught, Goto, Fault, files, hist
  <2>14. ASSUME NEW p \in Proc, Except(p) PROVE Ownership'
    BY <2>14 DEF Except, Goto, Fault, files, hist
  <2>15. ASSUME NEW p \in Proc, Finally(p) PROVE Ownership'
    BY <2>15 DEF Finally, Goto, Fault, files, hist
  <2>16. ASSUME NEW p \in Proc, RecoverRead(p) PROVE Ownership'
    BY <2>16 DEF RecoverRead, Goto, Fault, files, hist
  <2>17. ASSUME NEW p \in Proc, RecoverLeave(p) PROVE Ownership'
    BY <2>17 DEF RecoverLeave, RecoverWrite, Goto, Fault, files, hist
  <2>18. ASSUME NEW p \in Proc, RecoverSettle(p) PROVE Ownership'
    BY <2>18 DEF RecoverSettle, RecoverWrite, Goto, Fault, files, hist
  <2>19. ASSUME NEW p \in Proc, RecoverSweep(p) PROVE Ownership'
    BY <2>19 DEF RecoverSweep, Goto, Fault, files, hist
  <2>20. ASSUME NEW p \in Proc, StopChoose(p) PROVE Ownership'
    BY <2>20 DEF StopChoose, Goto, files, hist
  <2>21. ASSUME NEW p \in Proc, StopRequest(p) PROVE Ownership'
    BY <2>21 DEF StopRequest, Goto, files, hist
  <2>22. ASSUME NEW p \in Proc, StopMark(p) PROVE Ownership'
    BY <2>22 DEF StopMark, Goto, Fault, files, hist
  <2>23. ASSUME NEW p \in Proc, SystemctlStop(p) PROVE Ownership'
    BY <2>23 DEF SystemctlStop, Goto, Exit, files, hist
  <2>24. ASSUME NEW p \in Proc, StartRead(p) PROVE Ownership'
    BY <2>24 DEF StartRead, Goto, files, hist
  <2>25. ASSUME NEW p \in Proc, StartLaunch(p) PROVE Ownership'
    BY <2>25 DEF StartLaunch, Goto, Enter, files, hist
  <2>26. ASSUME NEW p \in Proc, StatusRead(p) PROVE Ownership'
    BY <2>26 DEF StatusRead, Goto, files, hist
  <2>27. ASSUME NEW p \in Proc, StatusProbe(p) PROVE Ownership'
    BY <2>27 DEF StatusProbe, Goto, files, hist
  <2>28. ASSUME NEW p \in Proc, StatusUnprobe(p) PROVE Ownership'
    BY <2>28 DEF StatusUnprobe, Goto, files, hist
  <2>29. ASSUME NEW p \in Proc, Kill(p) PROVE Ownership'
    BY <2>29 DEF Kill, Goto, Exit, Fault, files, hist
  <2>30. CASE UNCHANGED vars
    BY <2>30 DEF vars, files, procs, hist
  <2>31. ASSUME NEW p \in Proc, Supervise(p) PROVE Ownership'
    BY <2>31, <2>2, <2>3, <2>4, <2>5, <2>6, <2>7, <2>8, <2>9, <2>10,
       <2>12, <2>13, <2>14, <2>15 DEF Supervise
  <2>32. ASSUME NEW p \in Proc, Environment(p) PROVE Ownership'
    BY <2>32, <2>10, <2>11 DEF Environment
  <2>33. ASSUME NEW p \in Proc, Recover(p) PROVE Ownership'
    BY <2>33, <2>16, <2>17, <2>18, <2>19 DEF Recover
  <2>34. ASSUME NEW p \in Proc, Control(p) PROVE Ownership'
    BY <2>34, <2>20, <2>21, <2>22, <2>23, <2>24, <2>25, <2>26, <2>27, <2>28 DEF Control
  <2> QED BY <2>1, <2>29, <2>30, <2>31, <2>32, <2>33, <2>34 DEF Next
<1>3. QED BY <1>1, <1>2, ShapeInv, PTL DEF Spec

-----------------------------------------------------------------------------
(* transition() keeps the session id, and drops it when it goes idle. *)
LEMMA TransitionSid ==
  ASSUME NEW st \in States, NEW ph \in PHASES
  PROVE  transition(st, ph).sid = IF ph = "idle" THEN 0 ELSE st.sid
  BY DEF transition, States, Sids, PHASES, idle_state

(* A step of p that issues nothing and only copies or drops session ids. *)
Quiet(p) ==
  /\ UNCHANGED <<lock, stop, kind, own, issued, asked>>
  /\ disk'.sid \in {disk.sid, loc[p].sid, 0}
  /\ \A q \in Proc : loc'[q].sid \in {loc[q].sid, 0}
  /\ \A q \in Proc : q # p => pc'[q] = pc[q] /\ loc'[q] = loc[q]
  /\ pc'[p] \in RunLabels \cup {"settle", "sweep", "release"}

(* A phase change of a supervisor, failed or not, is quiet. *)
LEMMA MoveEffect ==
  ASSUME Shape, NEW p \in Proc, NEW ph \in PHASES, NEW l \in RunLabels, Move(p, ph, l)
  PROVE  Quiet(p)
<1>1. transition(loc[p], ph) \in States /\ transition(loc[p], ph).sid \in {loc[p].sid, 0}
  BY TransitionType, TransitionSid DEF Shape
<1>2. \A q \in Proc : loc[q].sid \in {loc[q].sid, 0}
  OBVIOUS
<1>3. QED
  BY <1>1, <1>2 DEF Quiet, Move, Uncaught, Goto, Shape, hist, RunLabels

(* So is a write of recover. *)
LEMMA RecoverEffect ==
  ASSUME Shape, NEW p \in Proc, NEW ph \in PHASES, NEW l \in {"settle", "sweep"}, RecoverWrite(p, ph, l)
  PROVE  Quiet(p)
<1>1. transition(loc[p], ph) \in States /\ transition(loc[p], ph).sid \in {loc[p].sid, 0}
  BY TransitionType, TransitionSid DEF Shape
<1>2. QED
  BY <1>1 DEF Quiet, RecoverWrite, Goto, Shape, hist

(* A quiet step of a live process reveals and issues no session id. *)
LEMMA QuietStep ==
  ASSUME Shape, Identity, NEW p \in Proc, pc[p] # "exited",
         Quiet(p)
  PROVE  Identity'
  BY DEF Identity, Quiet, Unpublished, EarlyLabels, RunLabels, Shape, Sids, States

(* A session id is issued once, and nobody else can know it before its      *)
(* supervisor has published it.                                             *)
THEOREM IdentityInv == Spec => []Identity
<1>1. Init => Identity
  BY DEF Init, Identity, Unpublished, EarlyLabels, idle_state
<1>2. Shape /\ Ownership /\ Identity /\ [Next]_vars => Identity'
  <2> SUFFICES ASSUME Shape, Ownership, Identity, [Next]_vars PROVE Identity'
    OBVIOUS
    <2> USE DEF Shape, Ownership, KindOf, UnderLock, EarlyLabels, RunLabels,
              SupKinds, Commands, Identity, Unpublished, Sids
  <2>1. ASSUME NEW p \in Proc, NEW k \in Commands, Launch(p, k) PROVE Identity'
    BY <2>1, IdleType DEF Launch, Enter, Goto, EntryPoint, idle_state, States, files, hist
  <2>2. ASSUME NEW p \in Proc, Acquire(p) PROVE Identity'
    BY <2>2 DEF Acquire, Goto, files, hist
  <2>3. ASSUME NEW p \in Proc, Leave(p) PROVE Identity'
    <3>1. /\ pc' = [pc EXCEPT ![p] = "exited"] /\ kind' = [kind EXCEPT ![p] = "status"]
          /\ UNCHANGED <<disk, stop, issued, asked>>
          /\ \A q \in Proc : /\ own'[q] = IF q = p THEN 0 ELSE own[q]
                            /\ loc'[q].sid = IF q = p THEN 0 ELSE loc[q].sid
      BY <2>3 DEF Leave, Goto, Exit, idle_state, hist
    <3> HIDE DEF Ownership, KindOf, UnderLock
    <3>2. QED
      BY <3>1 DEF States
  <2>4. ASSUME NEW p \in Proc, Check(p) PROVE Identity'
    BY <2>4 DEF Check, Goto, files, hist
  <2>5. ASSUME NEW p \in Proc, ClearAtStart(p) PROVE Identity'
    BY <2>5 DEF ClearAtStart, Goto, Fault, files, hist
  <2>6. ASSUME NEW p \in Proc, Begin(p) PROVE Identity'
    BY <2>6, IdleType DEF Begin, Goto, Fault, States, files, hist
  <2>7. ASSUME NEW p \in Proc, Walk(p) PROVE Identity'
    <3> HIDE DEF Shape, Ownership, Identity
    <3>1. CASE NextPhase(kind[p], loc[p].phase) # "done" /\ ~StopRequested(loc[p].sid)
      <4>1. NextPhase(kind[p], loc[p].phase) \in PHASES
        BY <3>1 DEF NextPhase, PHASES
      <4>2. Move(p, NextPhase(kind[p], loc[p].phase), "step")
        BY <3>1, <2>7 DEF Walk
      <4>3. Quiet(p)
        BY <4>1, <4>2, MoveEffect DEF RunLabels
      <4>4. QED
        BY <4>3, <2>7, QuietStep DEF Walk
    <3>2. CASE ~(NextPhase(kind[p], loc[p].phase) # "done" /\ ~StopRequested(loc[p].sid))
      <4>1. Goto(p, "stopping") /\ UNCHANGED <<files, kind, loc, own, hist, faults>>
        BY <3>2, <2>7 DEF Walk
      <4>2. Quiet(p)
        BY <4>1 DEF Quiet, Goto, RunLabels, files, hist, Shape
      <4>3. QED
        BY <4>2, <2>7, QuietStep DEF Walk
    <3>3. QED
      BY <3>1, <3>2
  <2>8. ASSUME NEW p \in Proc, Prelude(p) PROVE Identity'
    <3> HIDE DEF Shape, Ownership, Identity
    <3>1. PICK ph \in PHASES, l \in RunLabels : Move(p, ph, l)
      BY <2>8 DEF Prelude, PHASES, RunLabels
    <3>2. Quiet(p)
      BY <3>1, MoveEffect
    <3>3. QED
      BY <3>2, <2>8, QuietStep DEF Prelude
  <2>9. ASSUME NEW p \in Proc, AdapterStage(p) PROVE Identity'
    <3> HIDE DEF Shape, Ownership, Identity
    <3>1. PICK ph \in PHASES, l \in RunLabels : Move(p, ph, l)
      BY <2>9 DEF AdapterStage, PHASES, RunLabels
    <3>2. Quiet(p)
      BY <3>1, MoveEffect
    <3>3. QED
      BY <3>2, <2>9, QuietStep DEF AdapterStage
  <2>10. ASSUME NEW p \in Proc, NEW o \in {"user", "done", "failed"},
                AdapterReturn(p, o)
         PROVE Identity'
    BY <2>10 DEF AdapterReturn, Goto, StopRequested, files, hist
  <2>11. ASSUME NEW p \in Proc, AdapterRaise(p) PROVE Identity'
    BY <2>11 DEF AdapterRaise, Goto, Fault, files, hist
  <2>12. ASSUME NEW p \in Proc, Result(p) PROVE Identity'
    BY <2>12 DEF Result, Goto, Fault, files, hist
  <2>13. ASSUME NEW p \in Proc, Finish(p) PROVE Identity'
    <3> HIDE DEF Shape, Ownership, Identity
    <3>1. PICK ph \in PHASES, l \in RunLabels : Move(p, ph, l)
      BY <2>13 DEF Finish, PHASES, RunLabels
    <3>2. Quiet(p)
      BY <3>1, MoveEffect
    <3>3. QED
      BY <3>2, <2>13, QuietStep DEF Finish
  <2>14. ASSUME NEW p \in Proc, Except(p) PROVE Identity'
    <3>1. transition(loc[p], "error") \in States /\ transition(loc[p], "error").sid = loc[p].sid
      BY TransitionType, TransitionSid DEF PHASES
    <3>2. QED
      BY <3>1, <2>14, QuietStep DEF Except, Goto, files, hist
  <2>15. ASSUME NEW p \in Proc, Finally(p) PROVE Identity'
    BY <2>15 DEF Finally, Goto, Fault, files, hist
  <2>16. ASSUME NEW p \in Proc, RecoverRead(p) PROVE Identity'
    BY <2>16 DEF RecoverRead, Goto, Fault, States, files, hist
  <2>17. ASSUME NEW p \in Proc, RecoverLeave(p) PROVE Identity'
    <3> HIDE DEF Shape, Ownership, Identity
    <3>1. LeavePhase(loc[p].phase) \in PHASES
      BY LeavePhaseType DEF Shape
    <3>2. Quiet(p)
      BY <3>1, <2>17, RecoverEffect DEF RecoverLeave
    <3>3. QED
      BY <3>2, <2>17, QuietStep DEF RecoverLeave
  <2>18. ASSUME NEW p \in Proc, RecoverSettle(p) PROVE Identity'
    <3> HIDE DEF Shape, Ownership, Identity
    <3>1. Quiet(p)
      BY <2>18, RecoverEffect DEF RecoverSettle, PHASES
    <3>2. QED
      BY <3>1, <2>18, QuietStep DEF RecoverSettle
  <2>19. ASSUME NEW p \in Proc, RecoverSweep(p) PROVE Identity'
    BY <2>19 DEF RecoverSweep, Goto, Fault, files, hist
  <2>20. ASSUME NEW p \in Proc, StopChoose(p) PROVE Identity'
    BY <2>20 DEF StopChoose, Goto, files, hist
  <2>21. ASSUME NEW p \in Proc, StopRequest(p) PROVE Identity'
    BY <2>21 DEF StopRequest, Goto, States, files, hist
  <2>22. ASSUME NEW p \in Proc, StopMark(p) PROVE Identity'
    <3>1. \/ stop' = loc[p].sid /\ asked' = asked \cup {loc[p].sid}
          \/ UNCHANGED <<stop, asked>>
      BY <2>22 DEF StopMark
    <3>2. /\ pc[p] = "mark" /\ pc' = [pc EXCEPT ![p] = "release"]
          /\ UNCHANGED <<disk, kind, loc, own, issued>>
      BY <2>22 DEF StopMark, Goto
    <3>3. CASE stop' = loc[p].sid /\ asked' = asked \cup {loc[p].sid}
      BY <3>2, <3>3 DEF States
    <3>4. CASE UNCHANGED <<stop, asked>>
      BY <3>2, <3>4
    <3>5. QED
      BY <3>1, <3>3, <3>4
  <2>23. ASSUME NEW p \in Proc, SystemctlStop(p) PROVE Identity'
    <3>1. pc[p] = "sysstop" /\ kind[p] = "stop" /\ UNCHANGED <<disk, stop, issued, asked>>
      BY <2>23 DEF SystemctlStop, hist
    <3> HIDE DEF Ownership, KindOf, UnderLock
    <3>2. CASE Goto(p, "release") /\ UNCHANGED <<kind, lock, unit, loc, res, own>>
      BY <3>1, <3>2 DEF Goto
    <3>3. CASE /\ pc' = [q \in Proc |-> IF q = p THEN "lock"
                                      ELSE IF q = unit THEN "exited" ELSE pc[q]]
               /\ kind' = [q \in Proc |-> IF q = p THEN "recover"
                                        ELSE IF q = unit THEN "status" ELSE kind[q]]
               /\ Exit({unit})
      <4>1. \A q \in Proc : /\ own'[q] = IF q = unit THEN 0 ELSE own[q]
                            /\ loc'[q].sid = IF q = unit THEN 0 ELSE loc[q].sid
        BY <3>3 DEF Exit, idle_state
      <4>2. QED
        BY <3>1, <3>3, <4>1 DEF States
    <3>4. QED
      BY <2>23, <3>2, <3>3 DEF SystemctlStop
  <2>24. ASSUME NEW p \in Proc, StartRead(p) PROVE Identity'
    BY <2>24 DEF StartRead, Goto, files, hist
  <2>25. ASSUME NEW p \in Proc, StartLaunch(p) PROVE Identity'
    <3>1. CASE UNCHANGED <<unit, kind, loc, res, own, issued>>
      BY <2>25, <3>1 DEF StartLaunch, Goto
    <3>2. ASSUME NEW q \in Proc, NEW k \in {"simulated", "transport"}, pc[q] = "exited",
                 pc' = [pc EXCEPT ![p] = "release", ![q] = "lock"], Enter(q, k),
                 UNCHANGED <<disk, lock, stop, asked, acked, faults>>
          PROVE  Identity'
      BY <2>25, <3>2, IdleType DEF StartLaunch, Enter, idle_state, States
    <3>3. QED
      BY <2>25, <3>1, <3>2 DEF StartLaunch
  <2>26. ASSUME NEW p \in Proc, StatusRead(p) PROVE Identity'
    BY <2>26 DEF StatusRead, Goto, States, files, hist
  <2>27. ASSUME NEW p \in Proc, StatusProbe(p) PROVE Identity'
    BY <2>27 DEF StatusProbe, Goto, files, hist
  <2>28. ASSUME NEW p \in Proc, StatusUnprobe(p) PROVE Identity'
    BY <2>28 DEF StatusUnprobe, Goto, files, hist
  <2>29. ASSUME NEW p \in Proc, Kill(p) PROVE Identity'
    BY <2>29, IdleType DEF Kill, Goto, Exit, Fault, idle_state, States, files, hist
  <2>30. CASE UNCHANGED vars
    BY <2>30 DEF vars, files, procs, hist
  <2>31. ASSUME NEW p \in Proc, Supervise(p) PROVE Identity'
    BY <2>31, <2>2, <2>3, <2>4, <2>5, <2>6, <2>7, <2>8, <2>9, <2>10,
       <2>12, <2>13, <2>14, <2>15 DEF Supervise
  <2>32. ASSUME NEW p \in Proc, Environment(p) PROVE Identity'
    BY <2>32, <2>10, <2>11 DEF Environment
  <2>33. ASSUME NEW p \in Proc, Recover(p) PROVE Identity'
    BY <2>33, <2>16, <2>17, <2>18, <2>19 DEF Recover
  <2>34. ASSUME NEW p \in Proc, Control(p) PROVE Identity'
    BY <2>34, <2>20, <2>21, <2>22, <2>23, <2>24, <2>25, <2>26, <2>27, <2>28 DEF Control
  <2> QED BY <2>1, <2>29, <2>30, <2>31, <2>32, <2>33, <2>34 DEF Next
<1>3. QED BY <1>1, <1>2, ShapeInv, OwnershipInv, PTL DEF Spec

-----------------------------------------------------------------------------
(* A step of p leaves the copies of the others alone: whoever holds one     *)
(* that must agree with the file holds the lock.                            *)
LEMMA CopyFrame ==
  ASSUME Shape, Ownership, Copies, NEW p \in Proc,
         \A q \in Proc : q # p => /\ pc'[q] = pc[q] /\ loc'[q] = loc[q]
                                 /\ own'[q] = own[q] /\ kind'[q] = kind[q],
         disk' = disk \/ lock = p,
         validate_state(disk)', Copy(p)'
  PROVE  Copies'
<1> SUFFICES ASSUME NEW q \in Proc, q # p PROVE Copy(q)'
  BY DEF Copies
<1>1. Copy(q) /\ KindOf(q) /\ (UnderLock(q) => lock = q)
  BY DEF Copies, Ownership
<1>2. CASE disk' = disk
  BY <1>1, <1>2 DEF Copy, Overtaken
<1>3. CASE lock = p
  BY <1>1, <1>3 DEF Copy, KindOf, UnderLock, EarlyLabels, RunLabels
<1>4. QED
  BY <1>2, <1>3

(* transition() reaches the phase it was asked for. *)
LEMMA TransitionPhase ==
  ASSUME NEW st \in States, NEW ph \in PHASES
  PROVE  transition(st, ph).phase = ph
  BY DEF transition, States, PHASES, idle_state

(* A transition of a supervisor's state, whether it succeeds or fails. *)
LEMMA MoveCopy ==
  ASSUME Shape, Ownership, Identity, Copies, NEW p \in Proc,
         NEW ph \in Act \cup {"idle", "error"}, NEW l \in RunLabels \ {"except"},
         Move(p, ph, l), pc[p] \in RunLabels,
         disk = loc[p], loc[p].sid = own[p], loc[p].phase \in Act,
         l = "finally" \/ (ph \in Act /\ ph \in PhaseAt(l)),
         ph = "error" => kind[p] = "transport", ph = "idle" => loc[p].phase = "stopping"
  PROVE  Copies'
<1> DEFINE new == transition(loc[p], ph)
<1>1. lock = p /\ own[p] # 0 /\ loc[p] \in States
  BY DEF Ownership, KindOf, UnderLock, Identity, RunLabels, Shape, SupKinds
<1>2. new \in States /\ new.phase = ph /\ new.sid = IF ph = "idle" THEN 0 ELSE own[p]
  <2>1. ph \in PHASES
    BY DEF Act, PHASES
  <2>2. QED
    BY <1>1, <2>1, TransitionType, TransitionSid, TransitionPhase
<1>3. validate_state(disk) /\ validate_state(new)
  BY <1>1, <1>2 DEF validate_state, Copies
<1>4. disk' \in {disk, new}
  BY DEF Move
<1>5. Copy(p)'
  <2> HIDE DEF new
  <2>1. CASE disk' = new /\ loc' = [loc EXCEPT ![p] = new] /\ Goto(p, l)
    BY <1>1, <1>2, <2>1 DEF Copy, Goto, Shape, Move, RunLabels, PhaseAt
  <2>2. CASE /\ disk' \in {disk, new} /\ Goto(p, "except")
             /\ loc' = IF kind[p] = "transport" THEN [loc EXCEPT ![p] = new] ELSE loc
    <3>1. ph = "idle" => new = idle_state
      BY DEF transition, new
    <3>2. UNCHANGED <<kind, own>> /\ pc' = [pc EXCEPT ![p] = "except"]
      BY <2>2 DEF Move, Goto
    <3>3. QED
      BY <1>1, <1>2, <2>2, <3>1, <3>2 DEF Copy, Overtaken, Shape, RunLabels
  <2>3. CASE /\ disk' = new /\ (kind[p] = "transport" \/ ph # "idle")
             /\ loc' = IF kind[p] = "transport" THEN [loc EXCEPT ![p] = new] ELSE loc
             /\ \E label \in Uncaught(kind[p], ph) : Goto(p, label)
    <3>1. PICK label \in Uncaught(kind[p], ph) : Goto(p, label)
      BY <2>3
    <3>2. label \in {"except", "finally"}
      BY DEF Uncaught
    <3>3. QED
      BY <1>1, <1>2, <2>3, <3>1, <3>2 DEF Copy, Goto, Shape, Move, RunLabels
  <2>4. QED
    BY <2>1, <2>2, <2>3 DEF Move, new
<1>6. \A q \in Proc : q # p => /\ pc'[q] = pc[q] /\ loc'[q] = loc[q]
                               /\ own'[q] = own[q] /\ kind'[q] = kind[q]
  BY DEF Move, Goto, Shape
<1>7. QED
  BY <1>1, <1>3, <1>4, <1>5, <1>6, CopyFrame

(* A write of recover, whether it succeeds, fails or is refused. *)
LEMMA RecoverCopy ==
  ASSUME Shape, Ownership, Identity, Copies, NEW p \in Proc,
         NEW ph \in PHASES, NEW l \in {"settle", "sweep"},
         RecoverWrite(p, ph, l), pc[p] \in {"leave", "settle"},
         disk = loc[p], disk.sid # 0,
         l = "settle" => ph \in {"checking", "stopping", "recovering"}
  PROVE  Copies'
<1> DEFINE new == transition(loc[p], ph)
<1>1. lock = p /\ loc[p] \in States /\ loc[p].sid # 0
  BY DEF Ownership, UnderLock, Shape
<1>2. new \in States /\ new.phase = ph /\ new.sid = IF ph = "idle" THEN 0 ELSE loc[p].sid
  BY <1>1, TransitionType, TransitionSid, TransitionPhase
<1>3. validate_state(disk) /\ validate_state(new)
  BY <1>1, <1>2 DEF validate_state, Copies
<1>4. disk' \in {disk, new}
  BY DEF RecoverWrite
<1>5. Copy(p)'
  <2> HIDE DEF new
  <2>1. CASE disk' = new /\ loc' = [loc EXCEPT ![p] = new] /\ Goto(p, l)
    BY <1>1, <1>2, <2>1 DEF Copy, Goto, Shape, RunLabels
  <2>2. CASE Goto(p, "release")
    BY <2>2 DEF Copy, Goto, Shape, RunLabels
  <2>3. QED
    BY <2>1, <2>2 DEF RecoverWrite, new
<1>6. \A q \in Proc : q # p => /\ pc'[q] = pc[q] /\ loc'[q] = loc[q]
                               /\ own'[q] = own[q] /\ kind'[q] = kind[q]
  BY DEF RecoverWrite, Goto, Shape
<1>7. QED
  BY <1>1, <1>3, <1>4, <1>5, <1>6, CopyFrame

(* A copy of the state can be trusted wherever the code uses it. *)
THEOREM CopiesInv == Spec => []Copies
<1>1. Init => Copies
  BY DEF Init, Copies, Copy, RunLabels, idle_state, validate_state
<1>2. Shape /\ Ownership /\ Identity /\ Copies /\ [Next]_vars => Copies'
  <2> SUFFICES ASSUME Shape, Ownership, Identity, Copies, [Next]_vars PROVE Copies'
    OBVIOUS
    <2> USE DEF Shape, Ownership, KindOf, UnderLock, EarlyLabels, RunLabels,
              SupKinds, Commands, Copies, Copy, Overtaken
  <2>1. ASSUME NEW p \in Proc, NEW k \in Commands, Launch(p, k) PROVE Copies'
    BY <2>1, IdleType DEF Launch, Enter, Goto, EntryPoint, idle_state, States, files, hist
  <2>2. ASSUME NEW p \in Proc, Acquire(p) PROVE Copies'
    BY <2>2 DEF Acquire, Goto, files, hist
  <2>3. ASSUME NEW p \in Proc, Leave(p) PROVE Copies'
    BY <2>3, IdleType DEF Leave, Goto, Exit, idle_state, States, files, hist
  <2>4. ASSUME NEW p \in Proc, Check(p) PROVE Copies'
    BY <2>4 DEF Check, Goto, validate_state, idle_state, States, files, hist
  <2>5. ASSUME NEW p \in Proc, ClearAtStart(p) PROVE Copies'
    BY <2>5 DEF ClearAtStart, Goto, Fault, files, hist
  <2>6. ASSUME NEW p \in Proc, Begin(p) PROVE Copies'
    BY <2>6, IdleType DEF Begin, Goto, Fault, validate_state, Identity, PhaseAt, files, hist
  <2>7. ASSUME NEW p \in Proc, Walk(p) PROVE Copies'
    <3> HIDE DEF Shape, Ownership, Identity, Copies, Copy, Overtaken, PhaseAt, Act, RunLabels, KindOf
    <3>1. pc[p] = "step" /\ kind[p] \in SupKinds /\ loc[p] \in States
      BY <2>7 DEF Walk, Ownership, KindOf, RunLabels, Shape
    <3>2. disk = loc[p] /\ loc[p].sid = own[p] /\ loc[p].phase \in Act /\ loc[p].phase # "stopping"
      BY <3>1 DEF Copies, Copy, PhaseAt, RunLabels, Act
    <3>3. CASE NextPhase(kind[p], loc[p].phase) # "done" /\ ~StopRequested(loc[p].sid)
      <4>1. Move(p, NextPhase(kind[p], loc[p].phase), "step")
        BY <3>3, <2>7 DEF Walk
      <4>2. NextPhase(kind[p], loc[p].phase) \in PhaseAt("step") \cap Act
        BY <3>3 DEF NextPhase, PhaseAt, Act
      <4>3. QED
        BY <3>1, <3>2, <4>1, <4>2, MoveCopy DEF RunLabels, Act
    <3>4. CASE ~(NextPhase(kind[p], loc[p].phase) # "done" /\ ~StopRequested(loc[p].sid))
      <4>1. Goto(p, "stopping") /\ UNCHANGED <<files, kind, loc, own, hist, faults>>
        BY <3>4, <2>7 DEF Walk
      <4>2. loc[p].phase \in PhaseAt("stopping")
        BY <3>2 DEF PhaseAt, Act
      <4>3. Copy(p)' /\ validate_state(disk)'
        BY <3>1, <3>2, <4>1, <4>2 DEF Goto, files, hist, Shape, Copies, Copy, RunLabels
      <4>4. QED
        BY <4>1, <4>3, CopyFrame DEF Goto, files, hist, Shape
    <3>5. QED
      BY <3>3, <3>4
  <2>8. ASSUME NEW p \in Proc, Prelude(p) PROVE Copies'
    <3> HIDE DEF Shape, Ownership, Identity, Copies, Copy, Overtaken, PhaseAt, Act, RunLabels, KindOf
    <3>1. CASE pc[p] = "discover"
      <4>1. Move(p, "discovering", "prepare")
        BY <2>8, <3>1 DEF Prelude
      <4>2. disk = loc[p] /\ loc[p].sid = own[p] /\ loc[p].phase \in Act
        BY <3>1 DEF Copies, Copy, PhaseAt, RunLabels, Act
      <4>3. QED
        BY <3>1, <4>1, <4>2, MoveCopy DEF RunLabels, Act, PhaseAt, Ownership, KindOf
    <3>2. CASE pc[p] = "prepare"
      <4>1. Move(p, "preparing", "auth")
        BY <2>8, <3>2 DEF Prelude
      <4>2. disk = loc[p] /\ loc[p].sid = own[p] /\ loc[p].phase \in Act
        BY <3>2 DEF Copies, Copy, PhaseAt, RunLabels, Act
      <4>3. QED
        BY <3>2, <4>1, <4>2, MoveCopy DEF RunLabels, Act, PhaseAt, Ownership, KindOf
    <3>3. QED
      BY <2>8, <3>1, <3>2 DEF Prelude
  <2>9. ASSUME NEW p \in Proc, AdapterStage(p) PROVE Copies'
    <3> HIDE DEF Shape, Ownership, Identity, Copies, Copy, Overtaken, PhaseAt, Act, RunLabels, KindOf
    <3>1. CASE pc[p] = "auth"
      <4>1. Move(p, "connecting", "link")
        BY <2>9, <3>1 DEF AdapterStage
      <4>2. disk = loc[p] /\ loc[p].sid = own[p] /\ loc[p].phase \in Act
        BY <3>1 DEF Copies, Copy, PhaseAt, RunLabels, Act
      <4>3. QED
        BY <3>1, <4>1, <4>2, MoveCopy DEF RunLabels, Act, PhaseAt, Ownership, KindOf
    <3>2. CASE pc[p] = "link"
      <4>1. Move(p, "streaming", "stream")
        BY <2>9, <3>2 DEF AdapterStage
      <4>2. disk = loc[p] /\ loc[p].sid = own[p] /\ loc[p].phase \in Act
        BY <3>2 DEF Copies, Copy, PhaseAt, RunLabels, Act
      <4>3. QED
        BY <3>2, <4>1, <4>2, MoveCopy DEF RunLabels, Act, PhaseAt, Ownership, KindOf
    <3>3. QED
      BY <2>9, <3>1, <3>2 DEF AdapterStage
  <2>10. ASSUME NEW p \in Proc, NEW o \in {"user", "done", "failed"},
                AdapterReturn(p, o)
         PROVE Copies'
    BY <2>10 DEF AdapterReturn, Goto, StopRequested, PhaseAt, files, hist
  <2>11. ASSUME NEW p \in Proc, AdapterRaise(p) PROVE Copies'
    BY <2>11 DEF AdapterRaise, Goto, Fault, PhaseAt, Act, Identity, files, hist
  <2>12. ASSUME NEW p \in Proc, Result(p) PROVE Copies'
    BY <2>12 DEF Result, Goto, Fault, PhaseAt, files, hist
  <2>13. ASSUME NEW p \in Proc, Finish(p) PROVE Copies'
    <3> HIDE DEF Shape, Ownership, Identity, Copies, Copy, Overtaken, PhaseAt, Act, RunLabels, KindOf
    <3>1. CASE pc[p] = "stopping"
      <4>1. Move(p, "stopping", "idle")
        BY <2>13, <3>1 DEF Finish
      <4>2. disk = loc[p] /\ loc[p].sid = own[p] /\ loc[p].phase \in Act
        BY <3>1 DEF Copies, Copy, PhaseAt, RunLabels, Act
      <4>3. QED
        BY <3>1, <4>1, <4>2, MoveCopy DEF RunLabels, Act, PhaseAt, Ownership, KindOf
    <3>2. CASE pc[p] = "idle"
      <4>1. Move(p, "idle", "finally")
        BY <2>13, <3>2 DEF Finish
      <4>2. disk = loc[p] /\ loc[p].sid = own[p] /\ loc[p].phase = "stopping"
        BY <3>2 DEF Copies, Copy, PhaseAt, RunLabels
      <4>3. QED
        BY <3>2, <4>1, <4>2, MoveCopy DEF RunLabels, Act, PhaseAt, Ownership, KindOf
    <3>3. CASE pc[p] = "error"
      <4>1. Move(p, "error", "finally")
        BY <2>13, <3>3 DEF Finish
      <4>2. disk = loc[p] /\ loc[p].sid = own[p] /\ loc[p].phase \in Act
        BY <3>3 DEF Copies, Copy, PhaseAt, RunLabels, Act
      <4>3. QED
        BY <3>3, <4>1, <4>2, MoveCopy DEF RunLabels, Act, PhaseAt, Ownership, KindOf
    <3>4. QED
      BY <2>13, <3>1, <3>2, <3>3 DEF Finish
  <2>14. ASSUME NEW p \in Proc, Except(p) PROVE Copies'
    <3> HIDE DEF Shape, Ownership, Identity, Copies, Copy, Overtaken, PhaseAt, Act, RunLabels, KindOf
    <3>1. pc[p] = "except" /\ lock = p /\ loc[p] \in States
      BY <2>14 DEF Except, Ownership, UnderLock, RunLabels, Shape
    <3>2. validate_state(disk)'
      <4>1. CASE disk' = disk
        BY <4>1 DEF Copies
      <4>2. CASE disk' = transition(loc[p], "error") /\ loc[p].phase \notin {"idle", "error"}
        <5>1. loc[p].sid = own[p] /\ own[p] # 0
          BY <4>2, <3>1 DEF Copies, Copy, Identity, Ownership, KindOf, RunLabels, SupKinds
        <5>2. QED
          BY <4>2, <5>1, <3>1, TransitionSid DEF validate_state, PHASES, transition, States
      <4>3. QED
        BY <2>14, <4>1, <4>2 DEF Except
    <3>3. Copy(p)'
      BY <2>14, <3>1 DEF Except, Goto, Copy, Shape, RunLabels
    <3>4. QED
      BY <2>14, <3>1, <3>2, <3>3, CopyFrame DEF Except, Goto, Shape
  <2>15. ASSUME NEW p \in Proc, Finally(p) PROVE Copies'
    BY <2>15 DEF Finally, Goto, Fault, files, hist
  <2>16. ASSUME NEW p \in Proc, RecoverRead(p) PROVE Copies'
    BY <2>16 DEF RecoverRead, Goto, Fault, States, validate_state, files, hist
  <2>17. ASSUME NEW p \in Proc, RecoverLeave(p) PROVE Copies'
    <3> HIDE DEF Shape, Ownership, Identity, Copies, Copy, Overtaken, PhaseAt, Act, RunLabels, KindOf
    <3>1. pc[p] = "leave" /\ disk = loc[p] /\ disk.phase # "idle" /\ disk.sid # 0 /\ loc[p] \in States
      BY <2>17 DEF RecoverLeave, Copies, Copy, validate_state, Shape
    <3>2. LeavePhase(loc[p].phase) \in {"checking", "stopping", "recovering"}
      BY <3>1 DEF LeavePhase, States, PHASES
    <3>3. QED
      BY <2>17, <3>1, <3>2, RecoverCopy DEF RecoverLeave, PHASES
  <2>18. ASSUME NEW p \in Proc, RecoverSettle(p) PROVE Copies'
    <3> HIDE DEF Shape, Ownership, Identity, Copies, Copy, Overtaken, PhaseAt, Act, RunLabels, KindOf
    <3>1. pc[p] = "settle" /\ disk = loc[p] /\ disk.phase # "idle" /\ disk.sid # 0 /\ loc[p] \in States
      BY <2>18 DEF RecoverSettle, Copies, Copy, validate_state, Shape
    <3>2. QED
      BY <2>18, <3>1, RecoverCopy DEF RecoverSettle, PHASES
  <2>19. ASSUME NEW p \in Proc, RecoverSweep(p) PROVE Copies'
    BY <2>19 DEF RecoverSweep, Goto, Fault, files, hist
  <2>20. ASSUME NEW p \in Proc, StopChoose(p) PROVE Copies'
    BY <2>20 DEF StopChoose, Goto, files, hist
  <2>21. ASSUME NEW p \in Proc, StopRequest(p) PROVE Copies'
    BY <2>21 DEF StopRequest, Goto, States, validate_state, files, hist
  <2>22. ASSUME NEW p \in Proc, StopMark(p) PROVE Copies'
    BY <2>22 DEF StopMark, Goto, Fault, States, validate_state, files, hist
  <2>23. ASSUME NEW p \in Proc, SystemctlStop(p) PROVE Copies'
    BY <2>23, IdleType DEF SystemctlStop, Goto, Exit, idle_state, States, files, hist
  <2>24. ASSUME NEW p \in Proc, StartRead(p) PROVE Copies'
    BY <2>24 DEF StartRead, Goto, files, hist
  <2>25. ASSUME NEW p \in Proc, StartLaunch(p) PROVE Copies'
    BY <2>25 DEF StartLaunch, Goto, Enter, files, hist
  <2>26. ASSUME NEW p \in Proc, StatusRead(p) PROVE Copies'
    BY <2>26 DEF StatusRead, Goto, States, validate_state, files, hist
  <2>27. ASSUME NEW p \in Proc, StatusProbe(p) PROVE Copies'
    BY <2>27 DEF StatusProbe, Goto, files, hist
  <2>28. ASSUME NEW p \in Proc, StatusUnprobe(p) PROVE Copies'
    BY <2>28 DEF StatusUnprobe, Goto, files, hist
  <2>29. ASSUME NEW p \in Proc, Kill(p) PROVE Copies'
    BY <2>29, IdleType DEF Kill, Goto, Exit, Fault, idle_state, States, files, hist
  <2>30. CASE UNCHANGED vars
    BY <2>30 DEF vars, files, procs, hist
  <2>31. ASSUME NEW p \in Proc, Supervise(p) PROVE Copies'
    BY <2>31, <2>2, <2>3, <2>4, <2>5, <2>6, <2>7, <2>8, <2>9, <2>10,
       <2>12, <2>13, <2>14, <2>15 DEF Supervise
  <2>32. ASSUME NEW p \in Proc, Environment(p) PROVE Copies'
    BY <2>32, <2>10, <2>11 DEF Environment
  <2>33. ASSUME NEW p \in Proc, Recover(p) PROVE Copies'
    BY <2>33, <2>16, <2>17, <2>18, <2>19 DEF Recover
  <2>34. ASSUME NEW p \in Proc, Control(p) PROVE Copies'
    BY <2>34, <2>20, <2>21, <2>22, <2>23, <2>24, <2>25, <2>26, <2>27, <2>28 DEF Control
  <2> QED BY <2>1, <2>29, <2>30, <2>31, <2>32, <2>33, <2>34 DEF Next
<1>3. QED BY <1>1, <1>2, ShapeInv, OwnershipInv, IdentityInv, PTL DEF Spec

-----------------------------------------------------------------------------
(* What the processes have concluded. *)
THEOREM ConclusionsInv == Spec => []Conclusions
<1>1. Init => Conclusions
  BY DEF Init, Conclusions
<1>2. Shape /\ Ownership /\ Identity /\ Copies /\ Conclusions /\ [Next]_vars => Conclusions'
  <2> SUFFICES ASSUME Shape, Ownership, Identity, Copies, Conclusions, [Next]_vars
      PROVE Conclusions'
    OBVIOUS
    <2> USE DEF Shape, Ownership, KindOf, UnderLock, EarlyLabels, RunLabels,
              SupKinds, Commands, Conclusions
  <2>1. ASSUME NEW p \in Proc, NEW k \in Commands, Launch(p, k) PROVE Conclusions'
    BY <2>1, IdleType
       DEF Launch, Enter, Goto, idle_state, States, Identity, Unpublished, Copies,
           Copy, Sids, files, hist
  <2>2. ASSUME NEW p \in Proc, Acquire(p) PROVE Conclusions'
    BY <2>2 DEF Acquire, Goto, files, hist
  <2>3. ASSUME NEW p \in Proc, Leave(p) PROVE Conclusions'
    BY <2>3, IdleType
       DEF Leave, Goto, Exit, idle_state, States, Identity, Unpublished, Copies,
           Copy, Sids, files, hist
  <2>4. ASSUME NEW p \in Proc, Check(p) PROVE Conclusions'
    BY <2>4 DEF Check, Goto, files, hist
  <2>5. ASSUME NEW p \in Proc, ClearAtStart(p) PROVE Conclusions'
    BY <2>5 DEF ClearAtStart, Goto, Fault, files, hist
  <2>6. ASSUME NEW p \in Proc, Begin(p) PROVE Conclusions'
    BY <2>6, IdleType DEF Begin, Goto, Fault, files, hist
  <2>7. ASSUME NEW p \in Proc, Walk(p) PROVE Conclusions'
    <3>1. StopRequested(loc[p].sid) => own[p] \in asked
      BY <2>7 DEF Walk, StopRequested, Identity, Copies, Copy
    <3>2. UNCHANGED <<own, kind, asked>>
      BY <2>7 DEF Walk, Move, hist
    <3>3. pc[p] = "step" /\ (UNCHANGED res \/ res' = [res EXCEPT ![p] = "done"]
             \/ (StopRequested(loc[p].sid) /\ res' = [res EXCEPT ![p] = "user"]))
      BY <2>7 DEF Walk
    <3>4. PICK l \in RunLabels : pc' = [pc EXCEPT ![p] = l]
      BY <2>7 DEF Walk, Move, Uncaught, Goto
    <3>5. \A q \in Proc : q # p => loc'[q] = loc[q]
      BY <2>7 DEF Walk, Move
    <3>6. QED
      BY <3>1, <3>2, <3>3, <3>4, <3>5
  <2>8. ASSUME NEW p \in Proc, Prelude(p) PROVE Conclusions'
    BY <2>8 DEF Prelude, Move, Uncaught, Goto, Fault, files, hist
  <2>9. ASSUME NEW p \in Proc, AdapterStage(p) PROVE Conclusions'
    BY <2>9 DEF AdapterStage, Move, Uncaught, Goto, Fault, files, hist
  <2>10. ASSUME NEW p \in Proc, NEW o \in {"user", "done", "failed"},
                AdapterReturn(p, o)
         PROVE Conclusions'
    <3>1. o = "user" => own[p] \in asked
      BY <2>10 DEF AdapterReturn, StopRequested, Identity, Copies, Copy
    <3>2. QED
      BY <2>10, <3>1 DEF AdapterReturn, Goto, files, hist
  <2>11. ASSUME NEW p \in Proc, AdapterRaise(p) PROVE Conclusions'
    BY <2>11 DEF AdapterRaise, Goto, Fault, files, hist
  <2>12. ASSUME NEW p \in Proc, Result(p) PROVE Conclusions'
    BY <2>12 DEF Result, Goto, Fault, files, hist
  <2>13. ASSUME NEW p \in Proc, Finish(p) PROVE Conclusions'
    BY <2>13 DEF Finish, Move, Uncaught, Goto, Fault, files, hist
  <2>14. ASSUME NEW p \in Proc, Except(p) PROVE Conclusions'
    BY <2>14 DEF Except, Goto, Fault, files, hist
  <2>15. ASSUME NEW p \in Proc, Finally(p) PROVE Conclusions'
    BY <2>15 DEF Finally, Goto, Fault, files, hist
  <2>16. ASSUME NEW p \in Proc, RecoverRead(p) PROVE Conclusions'
    BY <2>16 DEF RecoverRead, Goto, Fault, files, hist
  <2>17. ASSUME NEW p \in Proc, RecoverLeave(p) PROVE Conclusions'
    <3>1. Legal(loc[p].phase, LeavePhase(loc[p].phase))
      BY <2>17 DEF RecoverLeave, Copies, Copy, Legal, TRANSITIONS, LeavePhase
    <3>2. QED
      BY <2>17, <3>1 DEF RecoverLeave, RecoverWrite, Goto, hist
  <2>18. ASSUME NEW p \in Proc, RecoverSettle(p) PROVE Conclusions'
    <3>1. loc[p].phase \in {"checking", "stopping", "recovering"}
      BY <2>18 DEF RecoverSettle, Copies, Copy
    <3>2. Legal(loc[p].phase, "idle")
      BY <3>1 DEF Legal, TRANSITIONS
    <3>3. QED
      BY <2>18, <3>2 DEF RecoverSettle, RecoverWrite, Goto, hist
  <2>19. ASSUME NEW p \in Proc, RecoverSweep(p) PROVE Conclusions'
    BY <2>19 DEF RecoverSweep, Goto, Fault, files, hist
  <2>20. ASSUME NEW p \in Proc, StopChoose(p) PROVE Conclusions'
    BY <2>20 DEF StopChoose, Goto, files, hist
  <2>21. ASSUME NEW p \in Proc, StopRequest(p) PROVE Conclusions'
    BY <2>21 DEF StopRequest, Goto, files, hist
  <2>22. ASSUME NEW p \in Proc, StopMark(p) PROVE Conclusions'
    <3>1. asked \subseteq asked'
      BY <2>22 DEF StopMark
    <3>2. pc' = [pc EXCEPT ![p] = "release"] /\ UNCHANGED <<kind, loc, res, own>>
      BY <2>22 DEF StopMark, Goto
    <3>3. \A q \in Proc : res'[q] = "user" => own'[q] \in asked'
      BY <3>1, <3>2
    <3>4. \A q, r \in Proc : pc'[q] = "reported" /\ res'[q] = "lost" /\ own'[r] = loc'[q].sid
                            => pc'[r] \in {"release", "refused"}
      BY <3>2
    <3>5. QED
      BY <3>2, <3>3, <3>4
  <2>23. ASSUME NEW p \in Proc, SystemctlStop(p) PROVE Conclusions'
    <3>1. CASE Goto(p, "release") /\ UNCHANGED <<kind, lock, unit, loc, res, own>>
      BY <2>23, <3>1 DEF SystemctlStop, Goto, hist
    <3>2. CASE /\ pc' = [q \in Proc |-> IF q = p THEN "lock"
                                      ELSE IF q = unit THEN "exited" ELSE pc[q]]
               /\ kind' = [q \in Proc |-> IF q = p THEN "recover"
                                        ELSE IF q = unit THEN "status" ELSE kind[q]]
               /\ Exit({unit})
      <4>1. pc[p] = "sysstop" /\ kind[p] = "stop" /\ asked' = asked
        BY <2>23 DEF SystemctlStop, hist
      <4>2. \A q \in Proc : /\ res'[q] = IF q = unit THEN "none" ELSE res[q]
                            /\ own'[q] = IF q = unit THEN 0 ELSE own[q]
                            /\ loc'[q] = IF q = unit THEN idle_state ELSE loc[q]
        BY <3>2 DEF Exit
      <4>3. \A q \in Proc : pc[q] = "reported" => loc[q].sid # 0
        BY DEF Copies, Copy
      <4>4. QED
        BY <3>2, <4>1, <4>2, <4>3
    <3>3. QED
      BY <2>23, <3>1, <3>2 DEF SystemctlStop
  <2>24. ASSUME NEW p \in Proc, StartRead(p) PROVE Conclusions'
    BY <2>24 DEF StartRead, Goto, files, hist
  <2>25. ASSUME NEW p \in Proc, StartLaunch(p) PROVE Conclusions'
    <3>1. CASE UNCHANGED <<unit, kind, loc, res, own, issued>>
      BY <2>25, <3>1 DEF StartLaunch, Goto
    <3>2. ASSUME NEW q \in Proc, NEW k \in {"simulated", "transport"}, pc[q] = "exited",
                 pc' = [pc EXCEPT ![p] = "release", ![q] = "lock"], Enter(q, k),
                 UNCHANGED <<disk, lock, stop, asked, acked, faults>>
          PROVE  Conclusions'
      <4>1. p # q /\ own' = [own EXCEPT ![q] = issued + 1] /\ issued \in Nat
            /\ kind' = [kind EXCEPT ![q] = k] /\ res' = [res EXCEPT ![q] = "none"]
        <5>1. pc[p] = "launch"
          BY <2>25 DEF StartLaunch
        <5>2. issued \in Nat
          BY DEF Sids
        <5>3. k \in SupKinds
          OBVIOUS
        <5>4. QED
          BY <3>2, <5>1, <5>2, <5>3 DEF Enter
      <4>2. \A r \in Proc : loc[r].sid \in Nat /\ loc[r].sid < issued + 1
        BY <4>1 DEF Identity, Sids, States
      <4>3. \A r \in Proc : r # q => loc'[r] = loc[r]
        BY <3>2 DEF Enter
      <4>4. QED
        BY <3>2, <4>1, <4>2, <4>3
    <3>3. QED
      BY <2>25, <3>1, <3>2 DEF StartLaunch
  <2>26. ASSUME NEW p \in Proc, StatusRead(p) PROVE Conclusions'
    BY <2>26 DEF StatusRead, Goto, files, hist
  <2>27. ASSUME NEW p \in Proc, StatusProbe(p) PROVE Conclusions'
    BY <2>27 DEF StatusProbe, Goto, files, hist
  <2>28. ASSUME NEW p \in Proc, StatusUnprobe(p) PROVE Conclusions'
    BY <2>28
       DEF StatusUnprobe, Goto, Identity, Unpublished, Copies, Copy, Labels, files,
           hist
  <2>29. ASSUME NEW p \in Proc, Kill(p) PROVE Conclusions'
    BY <2>29, IdleType
       DEF Kill, Goto, Exit, Fault, idle_state, States, Identity, Unpublished,
           Copies, Copy, Sids, files, hist
  <2>30. CASE UNCHANGED vars
    BY <2>30 DEF vars, files, procs, hist
  <2>31. ASSUME NEW p \in Proc, Supervise(p) PROVE Conclusions'
    BY <2>31, <2>2, <2>3, <2>4, <2>5, <2>6, <2>7, <2>8, <2>9, <2>10,
       <2>12, <2>13, <2>14, <2>15 DEF Supervise
  <2>32. ASSUME NEW p \in Proc, Environment(p) PROVE Conclusions'
    BY <2>32, <2>10, <2>11 DEF Environment
  <2>33. ASSUME NEW p \in Proc, Recover(p) PROVE Conclusions'
    BY <2>33, <2>16, <2>17, <2>18, <2>19 DEF Recover
  <2>34. ASSUME NEW p \in Proc, Control(p) PROVE Conclusions'
    BY <2>34, <2>20, <2>21, <2>22, <2>23, <2>24, <2>25, <2>26, <2>27, <2>28 DEF Control
  <2> QED BY <2>1, <2>29, <2>30, <2>31, <2>32, <2>33, <2>34 DEF Next
<1>3. QED BY <1>1, <1>2, ShapeInv, OwnershipInv, IdentityInv, CopiesInv, PTL DEF Spec

-----------------------------------------------------------------------------
(* The inductive invariant holds in every reachable state. *)
THEOREM Inductive == Spec => []IInv
<1>1. Shape /\ Ownership /\ Identity /\ Copies /\ Conclusions => IInv
  BY DEF IInv
<1>2. QED
  BY <1>1, ShapeInv, OwnershipInv, IdentityInv, CopiesInv, ConclusionsInv, PTL

(* What move(), _write_transition and recover write on top of their own     *)
(* copy is a transition of the file too.                                    *)
LEMMA MovePersists ==
  ASSUME Shape, Ownership, Identity, Copies, NEW p \in Proc,
         NEW ph \in PHASES, NEW l, Move(p, ph, l), pc[p] \in RunLabels \ {"except", "finally"}
  PROVE  disk' = disk \/ PersistedStep
<1>1. lock = p /\ disk = loc[p] /\ loc[p] \in States /\ loc[p].sid # 0 /\ p # NoProc
  BY DEF Ownership, KindOf, UnderLock, Shape, Copies, Copy, Identity, RunLabels, SupKinds
<1>2. disk' \in {disk, transition(loc[p], ph)} /\ lock' = lock /\ Legal(loc[p].phase, ph)
  BY DEF Move
<1>3. QED
  BY <1>1, <1>2, TransitionSid, TransitionPhase DEF PersistedStep, validate_state

(* The same of the writes of recover. *)
LEMMA RecoverPersists ==
  ASSUME Shape, Ownership, Copies, NEW p \in Proc,
         NEW ph \in PHASES, NEW l, RecoverWrite(p, ph, l), pc[p] \in {"leave", "settle"}
  PROVE  disk' = disk \/ PersistedStep
<1>1. lock = p /\ disk = loc[p] /\ loc[p] \in States /\ loc[p].sid # 0 /\ p # NoProc
  BY DEF Ownership, UnderLock, Shape, Copies, Copy, validate_state
<1>2. /\ disk' = disk \/ (disk' = transition(loc[p], ph) /\ Legal(loc[p].phase, ph))
      /\ lock' = lock
  BY DEF RecoverWrite
<1>3. QED
  BY <1>1, <1>2, TransitionSid, TransitionPhase DEF PersistedStep, validate_state

(* Every variable keeps its shape and state.json always holds a document    *)
(* that read_state accepts, whatever is killed and whichever write fails.   *)
THEOREM TypeCorrect == Spec => []TypeOK
<1>1. Shape /\ Copies => TypeOK
  BY DEF Shape, Copies, TypeOK
<1>2. QED
  BY <1>1, ShapeInv, CopiesInv, PTL

(* No supervisor concludes "stopped by the user" from anything but a marker *)
(* of its own session, however late and whoever installed it.               *)
THEOREM OnlyOwnStops == Spec => []NoForeignStop
<1>1. Conclusions => NoForeignStop
  BY DEF Conclusions, NoForeignStop
<1>2. QED
  BY <1>1, ConclusionsInv, PTL

(* A status that reports session-owner-lost never speaks of a session that  *)
(* someone runs or is still going to run.                                   *)
THEOREM OwnerLostMeansOver == Spec => []OwnerLostIsOver
<1>1. Conclusions => OwnerLostIsOver
  BY DEF Conclusions, OwnerLostIsOver, Running, RunLabels
<1>2. QED
  BY <1>1, ConclusionsInv, PTL

(* recover never asks transition() for a step the table forbids, whatever   *)
(* phase it finds in state.json.                                            *)
THEOREM RecoveryAlwaysLegal == Spec => []RecoveryNeverStuck
<1>1. Shape /\ Conclusions => RecoveryNeverStuck
  BY DEF Shape, Conclusions, RecoveryNeverStuck, SupKinds
<1>2. QED
  BY <1>1, ShapeInv, ConclusionsInv, PTL
-----------------------------------------------------------------------------
(* Without a fault a supervisor that handles an exception still has the     *)
(* document in its hands, and one that is done has published an end of it.  *)
Settled(p) ==
  /\ pc[p] = "except" => disk = loc[p] /\ loc[p].phase \in Act
  /\ pc[p] = "finally" => ~Unfinished

Attended ==
  faults = 0 =>
    /\ \A p \in Proc : Settled(p)
    /\ Unfinished /\ disk.sid \notin turned => \E p \in Proc : Attends(p)

(* A step of p that leaves the file leaves its attendant, or p is it still. *)
LEMMA AttendFrame ==
  ASSUME Attended, NEW p \in Proc, faults' = faults, disk' = disk, turned \subseteq turned',
         \A q \in Proc : q # p => /\ pc'[q] = pc[q] /\ kind'[q] = kind[q] /\ loc'[q] = loc[q]
                                 /\ own'[q] = own[q] /\ (lock = q => lock' = q),
         faults = 0 => Settled(p)', faults = 0 /\ Unfinished /\ Attends(p) => Attends(p)'
  PROVE  Attended'
<1> SUFFICES ASSUME faults = 0 PROVE Attended'
  BY DEF Attended
<1>1. \A q \in Proc : Settled(q)'
  BY DEF Attended, Settled, Unfinished
<1>2. \A q \in Proc : Unfinished /\ Attends(q) => Attends(q)'
  BY DEF Attends, Running, Recovering
<1> QED BY <1>1, <1>2 DEF Attended, Unfinished

(* A step of p that writes the file is that of the one who holds the lock. *)
LEMMA AttendWrite ==
  ASSUME Shape, Ownership, NEW p \in Proc, lock = p,
         \A q \in Proc : q # p => pc'[q] = pc[q] /\ loc'[q] = loc[q],
         Settled(p)', Unfinished' => Attends(p)'
  PROVE  Attended'
<1>1. \A q \in Proc : q # p => pc[q] \notin {"except", "finally"}
  BY DEF Ownership, UnderLock, RunLabels
<1> QED BY <1>1 DEF Attended, Settled

(* A fault ends the claim. *)
LEMMA FaultAttends == Shape /\ Fault => Attended'
<1> QED BY DEF Shape, Fault, Attended

(* A transition that a supervisor publishes without a fault. *)
LEMMA MoveAttends ==
  ASSUME Shape, Ownership, Identity, Copies, NEW p \in Proc, NEW ph \in PHASES,
         NEW l \in RunLabels \ {"except"}, Move(p, ph, l), pc[p] \in RunLabels \ {"except", "finally"},
         l = "finally" => ph \in {"idle", "error"}
  PROVE  Attended'
<1>1. CASE Fault
  BY <1>1, FaultAttends
<1>2. CASE ~Fault
  <2> DEFINE new == transition(loc[p], ph)
  <2>1. new.phase = ph /\ new.sid = IF ph = "idle" THEN 0 ELSE loc[p].sid
    BY TransitionSid, TransitionPhase DEF Shape
  <2>2. lock = p /\ kind[p] \in SupKinds /\ loc[p].sid = own[p]
    BY DEF Ownership, KindOf, UnderLock, Copies, Copy, RunLabels
  <2> HIDE DEF new
  <2>3. /\ disk' = new /\ pc' = [pc EXCEPT ![p] = l] /\ loc' = [loc EXCEPT ![p] = new]
        /\ UNCHANGED <<lock, kind, own>>
    BY <1>2 DEF Move, Goto, new
  <2>4. Settled(p)'
    BY <2>1, <2>3 DEF Settled, Unfinished, Shape
  <2>5. Unfinished' => Attends(p)'
    BY <2>1, <2>2, <2>3 DEF Unfinished, Attends, Running, Shape
  <2> QED BY <2>2, <2>3, <2>4, <2>5, AttendWrite DEF Shape
<1> QED BY <1>1, <1>2

(* A write of recover: it is legal, and it attends to what is left. *)
LEMMA RecoverAttends ==
  ASSUME Shape, Ownership, Copies, NEW p \in Proc, NEW ph \in PHASES,
         NEW l \in {"settle", "sweep"}, RecoverWrite(p, ph, l), pc[p] \in {"leave", "settle"},
         Legal(loc[p].phase, ph), l = "sweep" => ph = "idle"
  PROVE  Attended'
<1>1. CASE Fault
  BY <1>1, FaultAttends
<1>2. CASE ~Fault
  <2> DEFINE new == transition(loc[p], ph)
  <2>1. new.phase = ph
    BY TransitionPhase DEF Shape
  <2>2. lock = p /\ kind[p] = "recover"
    BY DEF Ownership, KindOf, UnderLock
  <2> HIDE DEF new
  <2>3. /\ disk' = new /\ pc' = [pc EXCEPT ![p] = l] /\ loc' = [loc EXCEPT ![p] = new]
        /\ UNCHANGED <<lock, kind, own>>
    BY <1>2 DEF RecoverWrite, Goto, new
  <2>4. Settled(p)'
    BY <2>3 DEF Settled, Shape
  <2>5. Unfinished' => Attends(p)'
    BY <2>1, <2>2, <2>3 DEF Unfinished, Attends, Recovering, Shape
  <2> QED BY <2>2, <2>3, <2>4, <2>5, AttendWrite DEF Shape
<1> QED BY <1>1, <1>2

(* Unless something failed, whoever leaves an unfinished phase leaves it to *)
(* another one.                                                             *)
THEOREM AttendedInv == Spec => []Attended
<1>1. Init => Attended
  BY DEF Init, Attended, Settled, Unfinished, idle_state
<1>2. Shape /\ Ownership /\ Identity /\ Copies /\ Attended /\ [Next]_vars => Attended'
  <2> SUFFICES ASSUME Shape, Ownership, Identity, Copies, Attended, [Next]_vars PROVE Attended'
    OBVIOUS
  <2> USE DEF Shape, Ownership, KindOf, UnderLock, EarlyLabels, RunLabels, SupKinds, Commands,
              Settled, Attends, Running, Recovering, Unfinished
  <2>1. ASSUME NEW p \in Proc, NEW k \in Commands, Launch(p, k) PROVE Attended'
    BY <2>1, AttendFrame DEF Launch, Enter, Goto, EntryPoint, files
  <2>2. ASSUME NEW p \in Proc, Acquire(p) PROVE Attended'
    <3>1. PICK label \in {"read", "check", "refused"} : pc' = [pc EXCEPT ![p] = label]
      BY <2>2 DEF Acquire, Goto
    <3>2. CASE lock = NoProc
      BY <2>2, <3>1, <3>2, AttendFrame DEF Acquire, Goto
    <3>3. CASE lock # NoProc
      <4> SUFFICES ASSUME faults = 0, Unfinished, disk.sid \notin turned' PROVE \E q \in Proc : Attends(q)'
        BY <2>2, <3>1, <3>3 DEF Acquire, Attended
      <4>1. lock \in Proc /\ lock # p
        BY <2>2, <3>3 DEF Acquire
      <4>2. PICK q \in Proc : Attends(q)
        BY <2>2, <3>3 DEF Acquire, Attended
      <4>3. CASE q # p
        BY <2>2, <3>3, <4>2, <4>3 DEF Acquire, Goto
      <4>4. CASE q = p
        <5>1. Running(lock) \/ Recovering(lock)
          BY <2>2, <3>3, <4>2, <4>4 DEF Acquire
        <5>2. Running(lock) => own[lock] = disk.sid
          BY <4>1 DEF Copies, Copy, Attended
        <5> QED BY <2>2, <3>3, <4>1, <5>1, <5>2 DEF Acquire, Goto
      <4> QED BY <4>3, <4>4
    <3> QED BY <3>2, <3>3
  <2>3. ASSUME NEW p \in Proc, Leave(p) PROVE Attended'
    BY <2>3, AttendFrame DEF Leave, Goto, Exit, hist
  <2>4. ASSUME NEW p \in Proc, Check(p) PROVE Attended'
    BY <2>4, AttendFrame DEF Check, Goto, files, hist
  <2>5. ASSUME NEW p \in Proc, ClearAtStart(p) PROVE Attended'
    <3>1. CASE Fault
      BY <3>1, FaultAttends
    <3>2. CASE ~Fault
      BY <2>5, <3>2, AttendFrame DEF ClearAtStart, Goto, files, hist
    <3> QED BY <3>1, <3>2
  <2>6. ASSUME NEW p \in Proc, Begin(p) PROVE Attended'
    <3>1. CASE Fault
      BY <3>1, FaultAttends
    <3>2. CASE ~Fault
      <4>1. PICK l \in {"discover", "step"} : pc' = [pc EXCEPT ![p] = l]
        BY <2>6, <3>2 DEF Begin, Goto
      <4> QED BY <2>6, <3>2, <4>1, AttendWrite DEF Begin
    <3> QED BY <3>1, <3>2
  <2>7. ASSUME NEW p \in Proc, Walk(p) PROVE Attended'
    <3>1. CASE NextPhase(kind[p], loc[p].phase) # "done" /\ ~StopRequested(loc[p].sid)
      <4>1. NextPhase(kind[p], loc[p].phase) \in PHASES
        BY <3>1 DEF NextPhase, PHASES
      <4> QED BY <2>7, <3>1, <4>1, MoveAttends DEF Walk
    <3>2. CASE ~(NextPhase(kind[p], loc[p].phase) # "done" /\ ~StopRequested(loc[p].sid))
      BY <2>7, <3>2, AttendFrame DEF Walk, Goto, files, hist
    <3> QED BY <3>1, <3>2
  <2>8. ASSUME NEW p \in Proc, Prelude(p) PROVE Attended'
    BY <2>8, MoveAttends DEF Prelude, PHASES
  <2>9. ASSUME NEW p \in Proc, AdapterStage(p) PROVE Attended'
    BY <2>9, MoveAttends DEF AdapterStage, PHASES
  <2>10. ASSUME NEW p \in Proc, NEW o \in {"user", "done", "failed"}, AdapterReturn(p, o) PROVE Attended'
    BY <2>10, AttendFrame DEF AdapterReturn, Goto, files, hist
  <2>11. ASSUME NEW p \in Proc, AdapterRaise(p) PROVE Attended'
    <3>1. disk = loc[p] /\ loc[p].phase \in Act
      BY <2>11 DEF AdapterRaise, Copies, Copy, PhaseAt, Act
    <3>2. CASE Goto(p, "except") /\ UNCHANGED faults
      BY <2>11, <3>1, <3>2, AttendFrame DEF AdapterRaise, Goto, files, hist
    <3> QED BY <2>11, <3>2, FaultAttends DEF AdapterRaise
  <2>12. ASSUME NEW p \in Proc, Result(p) PROVE Attended'
    <3>1. CASE Fault
      BY <3>1, FaultAttends
    <3>2. CASE ~Fault
      BY <2>12, <3>2, AttendFrame DEF Result, Goto, files, hist
    <3> QED BY <3>1, <3>2
  <2>13. ASSUME NEW p \in Proc, Finish(p) PROVE Attended'
    BY <2>13, MoveAttends DEF Finish, PHASES
  <2>14. ASSUME NEW p \in Proc, Except(p) PROVE Attended'
    <3> SUFFICES ASSUME faults' = 0 PROVE Attended'
      BY DEF Attended
    <3>1. faults = 0
      BY <2>14 DEF Except, Fault
    <3>2. loc[p].phase \notin {"idle", "error"} /\ loc[p] \in States
      BY <2>14, <3>1 DEF Except, Attended, Act
    <3>3. disk' = transition(loc[p], "error")
      BY <2>14, <3>1, <3>2 DEF Except, Fault
    <3>4. disk'.phase = "error"
      BY <3>2, <3>3, TransitionPhase DEF PHASES
    <3> QED BY <2>14, <3>4, AttendWrite DEF Except, Goto
  <2>15. ASSUME NEW p \in Proc, Finally(p) PROVE Attended'
    <3>1. CASE Fault
      BY <3>1, FaultAttends
    <3>2. CASE ~Fault
      BY <2>15, <3>2, AttendFrame DEF Finally, Goto, hist, Attended
    <3> QED BY <3>1, <3>2
  <2>16. ASSUME NEW p \in Proc, RecoverRead(p) PROVE Attended'
    <3>1. CASE Fault
      BY <3>1, FaultAttends
    <3>2. CASE ~Fault
      BY <2>16, <3>2, AttendFrame DEF RecoverRead, Goto, files, hist
    <3> QED BY <3>1, <3>2
  <2>17. ASSUME NEW p \in Proc, RecoverLeave(p) PROVE Attended'
    <3>1. /\ LeavePhase(loc[p].phase) \in PHASES
          /\ Legal(loc[p].phase, LeavePhase(loc[p].phase))
      BY <2>17, LeavePhaseType DEF RecoverLeave, Copies, Copy, LeavePhase, Legal, TRANSITIONS
    <3> QED BY <2>17, <3>1, RecoverAttends DEF RecoverLeave
  <2>18. ASSUME NEW p \in Proc, RecoverSettle(p) PROVE Attended'
    <3>1. "idle" \in PHASES /\ Legal(loc[p].phase, "idle")
      BY <2>18 DEF RecoverSettle, Copies, Copy, Legal, TRANSITIONS, PHASES
    <3> QED BY <2>18, <3>1, RecoverAttends DEF RecoverSettle
  <2>19. ASSUME NEW p \in Proc, RecoverSweep(p) PROVE Attended'
    <3>1. CASE Fault
      BY <3>1, FaultAttends
    <3>2. CASE ~Fault
      BY <2>19, <3>2, AttendFrame DEF RecoverSweep, Goto, hist
    <3> QED BY <3>1, <3>2
  <2>20. ASSUME NEW p \in Proc, StopChoose(p) PROVE Attended'
    BY <2>20, AttendFrame DEF StopChoose, Goto, files, hist
  <2>21. ASSUME NEW p \in Proc, StopRequest(p) PROVE Attended'
    BY <2>21, AttendFrame DEF StopRequest, Goto, files, hist
  <2>22. ASSUME NEW p \in Proc, StopMark(p) PROVE Attended'
    <3>1. CASE Fault
      BY <3>1, FaultAttends
    <3>2. CASE ~Fault
      BY <2>22, <3>2, AttendFrame DEF StopMark, Goto
    <3> QED BY <3>1, <3>2
  <2>23. ASSUME NEW p \in Proc, SystemctlStop(p) PROVE Attended'
    <3>1. CASE Goto(p, "release") /\ UNCHANGED <<kind, lock, unit, loc, res, own>>
      BY <2>23, <3>1, AttendFrame DEF SystemctlStop, Goto, hist
    <3>2. CASE /\ pc' = [q \in Proc |-> IF q = p THEN "lock"
                                      ELSE IF q = unit THEN "exited" ELSE pc[q]]
               /\ kind' = [q \in Proc |-> IF q = p THEN "recover"
                                        ELSE IF q = unit THEN "status" ELSE kind[q]]
               /\ Exit({unit})
      <4>1. Attends(p)' /\ UNCHANGED <<disk, faults>>
        BY <2>23, <3>2 DEF SystemctlStop
      <4>2. ASSUME faults = 0, NEW q \in Proc PROVE Settled(q)'
        BY <4>1, <4>2, <3>2 DEF Attended, Exit
      <4> QED BY <4>1, <4>2 DEF Attended
    <3> QED BY <2>23, <3>1, <3>2 DEF SystemctlStop
  <2>24. ASSUME NEW p \in Proc, StartRead(p) PROVE Attended'
    BY <2>24, AttendFrame DEF StartRead, Goto, files, hist
  <2>25. ASSUME NEW p \in Proc, StartLaunch(p) PROVE Attended'
    <3>1. CASE UNCHANGED <<unit, kind, loc, res, own, issued>>
      BY <2>25, <3>1, AttendFrame DEF StartLaunch, Goto
    <3>2. ASSUME NEW q \in Proc, NEW k \in {"simulated", "transport"}, pc[q] = "exited",
                 pc' = [pc EXCEPT ![p] = "release", ![q] = "lock"], Enter(q, k),
                 UNCHANGED <<disk, lock, stop, asked, acked, turned, faults>>
          PROVE  Attended'
      <4>1. \A w \in Proc : Attended /\ faults = 0 => Settled(w)'
        BY <3>2 DEF Attended, Enter
      <4>2. pc[p] = "launch"
        BY <2>25 DEF StartLaunch
      <4>3. \A w \in Proc : Attends(w) => Attends(w)'
        BY <3>2, <4>2 DEF Enter
      <4> QED BY <3>2, <4>1, <4>3 DEF Attended
    <3> QED BY <2>25, <3>1, <3>2 DEF StartLaunch
  <2>26. ASSUME NEW p \in Proc, StatusRead(p) PROVE Attended'
    BY <2>26, AttendFrame DEF StatusRead, Goto, files, hist
  <2>27. ASSUME NEW p \in Proc, StatusProbe(p) PROVE Attended'
    <3>1. CASE Fault
      BY <3>1, FaultAttends
    <3>2. CASE ~Fault
      BY <2>27, <3>2, AttendFrame DEF StatusProbe, Goto, hist
    <3> QED BY <3>1, <3>2
  <2>28. ASSUME NEW p \in Proc, StatusUnprobe(p) PROVE Attended'
    BY <2>28, AttendFrame DEF StatusUnprobe, Goto, hist
  <2>29. ASSUME NEW p \in Proc, Kill(p) PROVE Attended'
    BY <2>29, FaultAttends DEF Kill
  <2>30. CASE UNCHANGED vars
    BY <2>30 DEF vars, files, procs, hist, Attended
  <2>31. ASSUME NEW p \in Proc, Supervise(p) PROVE Attended'
    BY <2>31, <2>2, <2>3, <2>4, <2>5, <2>6, <2>7, <2>8, <2>9, <2>10,
       <2>12, <2>13, <2>14, <2>15 DEF Supervise
  <2>32. ASSUME NEW p \in Proc, Environment(p) PROVE Attended'
    BY <2>32, <2>10, <2>11 DEF Environment
  <2>33. ASSUME NEW p \in Proc, Recover(p) PROVE Attended'
    BY <2>33, <2>16, <2>17, <2>18, <2>19 DEF Recover
  <2>34. ASSUME NEW p \in Proc, Control(p) PROVE Attended'
    BY <2>34, <2>20, <2>21, <2>22, <2>23, <2>24, <2>25, <2>26, <2>27, <2>28 DEF Control
  <2> QED BY <2>1, <2>29, <2>30, <2>31, <2>32, <2>33, <2>34 DEF Next
<1>3. QED BY <1>1, <1>2, ShapeInv, OwnershipInv, IdentityInv, CopiesInv, PTL DEF Spec

(* An unfinished phase in state.json has an owner or a recovery, unless     *)
(* something was killed or failed, or a recovery was turned away by a look. *)
THEOREM OrphansOnlyByFault == Spec => []OrphanOnlyByFault
<1>1. Attended => OrphanOnlyByFault
  BY DEF Attended, OrphanOnlyByFault
<1>2. QED
  BY <1>1, AttendedInv, PTL

(* Every write of state.json is made under the lock and never replaces the  *)
(* document of one session by another.  It is a step of the TRANSITIONS     *)
(* table, or a cast that was not told of its end takes it back.             *)
THEOREM PersistedStepsLegal == Spec => PersistedLegal
<1> DEFINE Facts == Shape /\ Ownership /\ Identity /\ Copies /\ Attended
<1>1. Facts /\ [Next]_vars => [PersistedStep]_disk
  <2> SUFFICES ASSUME Facts, Next, disk' # disk PROVE PersistedStep
    BY DEF vars, files
  <2>1. ASSUME NEW p \in Proc, Begin(p) PROVE PersistedStep
    <3>1. lock = p /\ lock' = lock /\ p # NoProc /\ disk = idle_state /\ own[p] # 0
      BY <2>1
         DEF Begin, Ownership, KindOf, UnderLock, EarlyLabels, Copies, Copy,
             Identity, SupKinds
    <3>2. disk' = [phase |-> "checking", sid |-> own[p]]
      BY <2>1 DEF Begin
    <3>3. QED
      BY <3>1, <3>2 DEF PersistedStep, Legal, TRANSITIONS, idle_state, validate_state
  <2>2. ASSUME NEW p \in Proc, Walk(p) PROVE PersistedStep
    <3>1. pc[p] = "step" /\ Move(p, NextPhase(kind[p], loc[p].phase), "step")
          /\ NextPhase(kind[p], loc[p].phase) # "done"
      BY <2>2 DEF Walk, files
    <3>2. NextPhase(kind[p], loc[p].phase) \in PHASES
      BY <3>1 DEF NextPhase, PHASES
    <3>3. QED
      BY <3>1, <3>2, MovePersists DEF RunLabels
  <2>3. ASSUME NEW p \in Proc, Prelude(p) \/ AdapterStage(p) \/ Finish(p) PROVE PersistedStep
    <3>1. PICK ph \in PHASES, l \in Labels : Move(p, ph, l) /\ pc[p] \in RunLabels \ {"except", "finally"}
      BY <2>3 DEF Prelude, AdapterStage, Finish, PHASES, Labels, RunLabels
    <3>2. QED
      BY <3>1, MovePersists
  <2>4. ASSUME NEW p \in Proc, Except(p) PROVE PersistedStep
    <3>1. lock = p /\ lock' = lock /\ p # NoProc /\ loc[p] \in States
      BY <2>4 DEF Except, Ownership, UnderLock, RunLabels, Shape
    <3>2. /\ disk' = transition(loc[p], "error") /\ loc[p].phase # "idle" /\ pc[p] = "except"
          /\ (disk.sid = own[p] /\ disk.phase \in Act) \/ Overtaken(p)
          /\ loc[p].sid = own[p] /\ own[p] # 0 /\ kind[p] \in SupKinds
      BY <2>4 DEF Except, Copies, Copy, Ownership, KindOf, Identity, RunLabels
    <3>3. disk' = [phase |-> "error", sid |-> own[p]]
      BY <3>1, <3>2 DEF transition, States
    <3>4. CASE disk.sid = own[p] /\ disk.phase \in Act
      <4>1. Legal(disk.phase, "error")
        BY <3>4 DEF Legal, TRANSITIONS, Act
      <4> QED BY <3>1, <3>2, <3>3, <3>4, <4>1 DEF PersistedStep, validate_state
    <3>5. CASE Overtaken(p)
      <4>1. faults > 0 /\ disk.sid = 0
        BY <3>2, <3>5 DEF Attended, Settled, Overtaken, Shape, idle_state
      <4> QED BY <3>1, <3>2, <3>3, <3>5, <4>1
              DEF PersistedStep, Retraction, validate_state, Overtaken, SupKinds
    <3>6. QED
      BY <3>2, <3>4, <3>5
  <2>5. ASSUME NEW p \in Proc, RecoverLeave(p) \/ RecoverSettle(p) PROVE PersistedStep
    <3>1. LeavePhase(loc[p].phase) \in PHASES /\ "idle" \in PHASES
      BY LeavePhaseType DEF Shape, PHASES
    <3>2. PICK ph \in PHASES, l \in Labels : RecoverWrite(p, ph, l) /\ pc[p] \in {"leave", "settle"}
      BY <2>5, <3>1 DEF RecoverLeave, RecoverSettle, Labels
    <3>3. QED
      BY <3>2, RecoverPersists
  <2>6. QED
    BY <2>1, <2>2, <2>3, <2>4, <2>5
    DEF Next, Supervise, Environment, Recover, Control, files, Launch, Acquire, Leave, Check,
        ClearAtStart, Result, Finally, AdapterReturn, AdapterRaise, RecoverRead, RecoverSweep,
        StopChoose, StopRequest, StopMark, SystemctlStop, StartRead, StartLaunch,
        StatusRead, StatusProbe, StatusUnprobe, Kill
<1>2. QED
  BY <1>1, ShapeInv, OwnershipInv, IdentityInv, CopiesInv, AttendedInv, PTL
     DEF Spec, PersistedLegal

-----------------------------------------------------------------------------
(* The refinement of CastContract.  The contract sees the processes through *)
(* the holder of the lock and the ids that no supervisor can begin with: a  *)
(* process that runs a cast or mends its document is the one that is seen.  *)
View ==
  /\ \A p \in Proc :
       /\ Running(p) => /\ lock = p /\ Cast = own[p] /\ Cast # 0 /\ Mending = FALSE
                        /\ Unsure = (pc[p] = "except" /\ disk.phase = "idle")
       /\ pc[p] \in {"leave", "settle"} => lock = p /\ Cast = 0 /\ Mending = TRUE
       /\ lock = p /\ ~Running(p) /\ pc[p] \notin {"leave", "settle"} => Cast = 0 /\ Mending = FALSE
       /\ lock = p /\ ~Running(p) => Unsure = FALSE
  /\ lock = NoProc => Cast = 0 /\ Mending = FALSE /\ Unsure = FALSE

Known == Shape /\ Ownership /\ Identity /\ Copies /\ View

(* What the contract sees of the lock follows from who may hold it. *)
THEOREM KnownInv == Spec => []Known
<1>1. ASSUME Shape, Ownership, Identity PROVE View
  <2>1. \A p \in Proc : Running(p) => lock = p /\ own[p] # 0 /\ kind[p] # "recover" /\ p # NoProc
    BY <1>1 DEF Running, Ownership, UnderLock, KindOf, Identity, RunLabels, SupKinds
  <2>2. \A p \in Proc : pc[p] \in {"leave", "settle"}
          => lock = p /\ kind[p] = "recover" /\ p # NoProc /\ ~Running(p)
    BY <1>1 DEF Running, Ownership, UnderLock, KindOf, RunLabels, SupKinds
  <2> QED BY <2>1, <2>2 DEF Cast, Mending, Unsure, View
<1> QED BY <1>1, ShapeInv, OwnershipInv, IdentityInv, CopiesInv, PTL DEF Known

(* A step of p changes nothing of the others. *)
Alone(p) == \A q \in Proc : q # p => pc'[q] = pc[q] /\ kind'[q] = kind[q] /\ own'[q] = own[q]

(* Does p take part in a cast or its recovery? *)
Engaged(p) == Running(p) \/ pc[p] \in {"leave", "settle"}

(* Whoever is not engaged may take the lock and release it unseen. *)
LEMMA Unseen ==
  ASSUME Known, Known', NEW p \in Proc, Alone(p), ~Engaged(p), ~Engaged(p)',
         lock' = lock \/ (lock \in {p, NoProc} /\ lock' \in {p, NoProc}), disk' = disk
  PROVE  UNCHANGED <<Cast, Mending, Unsure>>
<1>1. CASE lock' = lock /\ lock # p
  BY <1>1 DEF Cast, Mending, Unsure, Running, Alone, Known, Shape
<1>2. CASE lock \in {p, NoProc} /\ lock' \in {p, NoProc}
  BY <1>2 DEF Known, View, Engaged
<1> QED BY <1>1, <1>2 DEF Known, Shape

(* A step that leaves q with its session id, published or not. *)
KeepsId(q) == (Unpublished(q)' <=> Unpublished(q)) /\ (Unpublished(q) => own'[q] = own[q])

(* What p does alone concerns no other id. *)
LEMMA AloneKeeps ==
  ASSUME NEW p \in Proc, Alone(p)
  PROVE  \A q \in Proc : q # p => KeepsId(q)
BY DEF Alone, KeepsId, Unpublished

(* No id is spent when nobody gets one, publishes one or gives one up. *)
LEMMA SpentKept ==
  ASSUME issued' = issued, \A q \in Proc : KeepsId(q)
  PROVE  Spent' = Spent
BY DEF Spent, KeepsId

(* A supervisor that publishes its id or gives it up spends it. *)
LEMMA SpentGrows ==
  ASSUME Known, NEW p \in Proc, \A q \in Proc : q # p => KeepsId(q), issued' = issued,
         Unpublished(p), ~Unpublished(p)'
  PROVE  own[p] \in (1..MaxSessions) \ Spent /\ Spent' = Spent \cup {own[p]}
<1>1. own[p] \in 1..issued /\ issued \in 0..MaxSessions
  BY DEF Known, Shape, Identity, Unpublished, EarlyLabels, Sids
<1>2. \A q \in Proc : q # p => own[q] # own[p]
  BY <1>1 DEF Known, Identity
<1>3. own[p] \notin Spent
  BY DEF Spent
<1>4. ASSUME NEW s PROVE s \in Spent' <=> s \in Spent \cup {own[p]}
  BY <1>1, <1>2 DEF Spent, KeepsId
<1> QED BY <1>1, <1>3, <1>4

(* A step of the contract, or one that it does not see. *)
Refines == [Contract!Next]_<<disk, Cast, Mending, Unsure, Spent>>

(* The contract reads the same table of transitions. *)
LEMMA SameTable ==
  /\ Contract!PHASES = PHASES /\ Contract!idle_state = idle_state
  /\ \A from, to : Contract!Legal(from, to) = Legal(from, to)
  /\ \A st, ph : Contract!transition(st, ph) = transition(st, ph)
BY DEF Contract!PHASES, PHASES, Contract!idle_state, idle_state, Contract!Legal, Legal,
       Contract!TRANSITIONS, TRANSITIONS, Contract!transition, transition

(* A step that leaves the document and is not seen, or gives up an id. *)
LEMMA QuietRefines ==
  ASSUME Known, Known', NEW p \in Proc, Alone(p), ~Engaged(p), ~Engaged(p)',
         lock' = lock \/ (lock \in {p, NoProc} /\ lock' \in {p, NoProc}),
         UNCHANGED <<disk, issued>>, Unpublished(p)' => Unpublished(p),
         Unpublished(p)' => own'[p] = own[p]
  PROVE  Refines
<1>1. UNCHANGED <<Cast, Mending, Unsure>>
  BY Unseen
<1>2. CASE Unpublished(p)' <=> Unpublished(p)
  BY <1>1, <1>2, AloneKeeps, SpentKept DEF Refines, KeepsId
<1>3. CASE Unpublished(p) /\ ~Unpublished(p)'
  BY <1>1, <1>3, AloneKeeps, SpentGrows DEF Refines, Contract!Next, Contract!Forfeit
<1> QED BY <1>2, <1>3 DEF Unpublished

(* A phase that a running supervisor publishes, or fails to. *)
LEMMA AdvanceRefines ==
  ASSUME Known, Known', NEW p \in Proc, Alone(p), Running(p), Running(p)', own'[p] = own[p],
         issued' = issued, NEW ph \in PHASES \ {"recovering"},
         disk' \in {disk, transition(disk, ph)},
         disk' # disk => disk.sid = own[p] /\ disk.phase # "error" /\ Legal(disk.phase, ph),
         disk' = disk /\ disk.phase = "idle" => pc'[p] # "except"
  PROVE  Refines
<1>1. /\ UNCHANGED <<Cast, Mending>> /\ Cast # 0 /\ Cast = own[p]
      /\ Unsure  = (pc[p] = "except" /\ disk.phase = "idle")
      /\ Unsure' = (pc'[p] = "except" /\ disk'.phase = "idle")
  BY DEF Known, View
<1>2. Spent' = Spent
  BY AloneKeeps, SpentKept DEF KeepsId, Running, RunLabels, Unpublished, EarlyLabels
<1>3. CASE disk' = disk
  BY <1>1, <1>2, <1>3 DEF Refines, Contract!Next, Contract!Accept
<1>4. CASE disk' # disk
  <2>1. disk'.phase = ph
    BY <1>4, TransitionPhase DEF Known, Shape
  <2> QED BY <1>1, <1>2, <1>4, <2>1, SameTable DEF Refines, Contract!Next, Contract!Advance
<1> QED BY <1>3, <1>4

(* move() and _write_transition of a supervisor, whatever fails. *)
LEMMA MoveRefines ==
  ASSUME Known, Known', NEW p \in Proc, NEW ph \in PHASES \ {"recovering"}, NEW l \in RunLabels,
         Move(p, ph, l), pc[p] \in RunLabels \ {"except", "finally"}
  PROVE  Refines
<1>1. kind[p] \in SupKinds /\ disk = loc[p] /\ loc[p].sid = own[p]
  BY DEF Known, Ownership, KindOf, Copies, Copy
<1>2. loc[p].phase \notin {"error", "idle"}
  BY DEF Known, Copies, Copy, PhaseAt, RunLabels
<1>3. PICK label \in RunLabels : pc' = [pc EXCEPT ![p] = label]
  BY DEF Move, Goto, Uncaught, RunLabels
<1>4. /\ disk' \in {disk, transition(disk, ph)} /\ Legal(disk.phase, ph)
      /\ UNCHANGED <<kind, own, issued>>
  BY <1>1 DEF Move, hist
<1>5. Alone(p) /\ Running(p) /\ Running(p)'
  BY <1>1, <1>3, <1>4 DEF Alone, Running, Known, Shape
<1> QED BY <1>1, <1>2, <1>4, <1>5, AdvanceRefines

(* A write of recover, whether it succeeds, fails or is refused. *)
LEMMA RecoverRefines ==
  ASSUME Known, Known', NEW p \in Proc, NEW ph \in {"stopping", "recovering", "idle"},
         NEW l \in {"settle", "sweep"}, RecoverWrite(p, ph, l), pc[p] \in {"leave", "settle"},
         l = "sweep" <=> ph = "idle"
  PROVE  Refines
<1>1. kind[p] = "recover" /\ disk = loc[p] /\ lock = p /\ Cast = 0 /\ Mending = TRUE
  BY DEF Known, Ownership, KindOf, Copies, Copy, View
<1>2. PICK label \in {l, "release"} : /\ pc' = [pc EXCEPT ![p] = label]
                                      /\ UNCHANGED <<kind, own, issued, lock>>
                                      /\ \/ disk' = transition(disk, ph) /\ Legal(disk.phase, ph)
                                         \/ disk' = disk /\ label = "release"
  BY <1>1 DEF RecoverWrite, Goto, hist
<1>3. Spent' = Spent
  BY <1>1, <1>2, SpentKept DEF KeepsId, Unpublished, EarlyLabels, SupKinds, Known, Shape
<1>4. Cast' = 0 /\ Mending' = (pc'[p] = "settle") /\ Unsure = FALSE /\ Unsure' = FALSE
  BY <1>1, <1>2 DEF Known, View, Running, SupKinds, Shape
<1>5. CASE disk' = transition(disk, ph) /\ Legal(disk.phase, ph)
  <2>1. Mending' => ph # "idle"
    BY <1>2, <1>4, <1>5 DEF Known, Shape
  <2> QED BY <1>1, <1>2, <1>3, <1>4, <1>5, <2>1, SameTable DEF Refines, Contract!Next, Contract!Mend
<1>6. CASE disk' = disk /\ label = "release"
  BY <1>1, <1>2, <1>3, <1>4, <1>6 DEF Refines, Contract!Next, Contract!Abandon, Known, Shape
<1> QED BY <1>2, <1>5, <1>6

(* A process ends in the middle of what it was doing. *)
LEMMA DeathRefines ==
  ASSUME Known, Known', NEW p \in Proc, NEW d \in Proc, Exit({d}), pc'[d] = "exited",
         \A q \in Proc \ {d, p} : pc'[q] = pc[q] /\ kind'[q] = kind[q],
         p # d => ~Engaged(p) /\ ~Engaged(p)' /\ ~Unpublished(p) /\ ~Unpublished(p)' /\ lock # p,
         UNCHANGED <<disk, issued>>
  PROVE  Refines
<1>1. \A q \in Proc : own'[q] = IF q = d THEN 0 ELSE own[q]
  BY DEF Exit
<1>2. ~Engaged(d)' /\ ~Unpublished(d)'
  BY DEF Engaged, Running, RunLabels, Unpublished, EarlyLabels
<1>3. lock' = IF lock = d THEN NoProc ELSE lock
  BY DEF Exit
<1>4. lock # d => UNCHANGED <<Cast, Mending, Unsure>>
  BY <1>1, <1>3 DEF Cast, Mending, Unsure, Running, Engaged, Known, Shape
<1>5. lock = d => Cast' = 0 /\ Mending' = FALSE /\ Unsure' = FALSE
  BY <1>3 DEF Known, View
<1>6. \A q \in Proc : q # d => KeepsId(q)
  BY <1>1 DEF KeepsId, Unpublished
<1>7. CASE Unpublished(d)
  <2>1. ~Engaged(d)
    BY <1>7 DEF Engaged, Unpublished, Running, EarlyLabels, RunLabels
  <2>2. UNCHANGED <<Cast, Mending, Unsure>>
    BY <1>4, <1>5, <2>1 DEF Known, View, Engaged
  <2> QED BY <1>2, <1>6, <1>7, <2>2, SpentGrows DEF Refines, Contract!Next, Contract!Forfeit
<1>8. CASE ~Unpublished(d)
  <2>1. Spent' = Spent
    BY <1>2, <1>6, <1>8, SpentKept DEF KeepsId
  <2>2. lock = d => \/ Cast # 0 /\ Mending = FALSE
                    \/ Cast = 0 /\ Mending = TRUE /\ Unsure = FALSE
                    \/ Cast = 0 /\ Mending = FALSE /\ Unsure = FALSE
    BY DEF Known, View
  <2>3. CASE lock = d /\ Cast # 0 /\ Mending = FALSE
    BY <1>5, <2>1, <2>3 DEF Refines, Contract!Next, Contract!End
  <2>4. CASE lock = d /\ Cast = 0 /\ Mending = TRUE /\ Unsure = FALSE
    BY <1>5, <2>1, <2>4 DEF Refines, Contract!Next, Contract!Abandon
  <2> QED BY <1>4, <1>5, <2>1, <2>2, <2>3, <2>4 DEF Refines
<1> QED BY <1>7, <1>8

(* A command that is launched leaves the ids alone: one that it is issued   *)
(* is not spent, and nobody held it before.                                 *)
LEMMA EnterSpends ==
  ASSUME Known, NEW p \in Proc, NEW k \in Commands, Enter(p, k), pc[p] = "exited",
         pc'[p] = EntryPoint(k), \A q \in Proc : q # p => (Unpublished(q)' <=> Unpublished(q))
  PROVE  Spent' = Spent
<1>1. issued \in Nat /\ \A q \in Proc : own[q] <= issued /\ own[q] \in Nat
  BY DEF Known, Shape, Identity, Sids
<1>2. ~Unpublished(p)
  BY DEF Unpublished, EarlyLabels
<1>3. CASE k \in SupKinds
  <2>1. Unpublished(p)' /\ issued' = issued + 1 /\ own' = [own EXCEPT ![p] = issued + 1]
    <3>1. EntryPoint(k) = "lock"
      BY <1>3 DEF EntryPoint, SupKinds
    <3> QED BY <1>3, <3>1 DEF Enter, Unpublished, Known, Shape
  <2>2. ASSUME NEW s PROVE s \in Spent' <=> s \in Spent
    BY <1>1, <1>2, <2>1 DEF Spent, Known, Shape
  <2> QED BY <2>2
<1>4. CASE k \notin SupKinds
  BY <1>2, <1>4, SpentKept DEF KeepsId, Enter, Unpublished, Known, Shape
<1> QED BY <1>3, <1>4

(* A supervisor that goes on without publishing anything. *)
LEMMA StayRefines ==
  ASSUME Known, Known', NEW p \in Proc, NEW l \in RunLabels, pc' = [pc EXCEPT ![p] = l],
         pc[p] \in RunLabels \ {"except", "finally"}, UNCHANGED <<disk, kind, own, issued>>
  PROVE  Refines
<1>1. kind[p] \in SupKinds
  BY DEF Known, Ownership, KindOf
<1>2. Alone(p) /\ Running(p) /\ Running(p)'
  BY <1>1 DEF Alone, Running, Known, Shape
<1>3. disk.phase # "idle"
  BY DEF Known, Copies, Copy, PhaseAt, RunLabels
<1> QED BY <1>2, <1>3, AdvanceRefines DEF PHASES

(* Every step of every process is a step of the contract or is not seen. *)
LEMMA StepRefines == Known /\ Known' /\ [Next]_vars => Refines
<1> SUFFICES ASSUME Known, Known', [Next]_vars PROVE Refines
  OBVIOUS
<1> USE DEF Alone, Engaged, Running, RunLabels, Unpublished, EarlyLabels
<1>1. ASSUME NEW p \in Proc, NEW k \in Commands, Launch(p, k) PROVE Refines
  <2>1. pc[p] = "exited" /\ pc' = [pc EXCEPT ![p] = EntryPoint(k)] /\ Enter(p, k)
        /\ UNCHANGED files
    BY <1>1 DEF Launch, Goto
  <2>2. EntryPoint(k) \notin RunLabels \cup {"leave", "settle"}
    BY DEF EntryPoint, Commands, SupKinds
  <2>3. UNCHANGED <<Cast, Mending, Unsure, disk>>
    BY <2>1, <2>2, Unseen DEF Enter, files, Known, Shape
  <2>4. Spent' = Spent
    <3>1. \A q \in Proc : q # p => (Unpublished(q)' <=> Unpublished(q))
      BY <2>1 DEF Enter, Known, Shape
    <3> QED BY <2>1, <3>1, EnterSpends DEF Known, Shape
  <2> QED BY <2>3, <2>4 DEF Refines
<1>2. ASSUME NEW p \in Proc, Acquire(p) PROVE Refines
  BY <1>2, QuietRefines DEF Acquire, Goto, Known, Shape
<1>3. ASSUME NEW p \in Proc, Leave(p) PROVE Refines
  <2>1. /\ pc' = [pc EXCEPT ![p] = "exited"] /\ kind' = [kind EXCEPT ![p] = "status"]
        /\ UNCHANGED <<disk, issued>> /\ Exit({p})
    BY <1>3 DEF Leave, Goto, hist
  <2> QED BY <2>1, DeathRefines DEF Known, Shape
<1>4. ASSUME NEW p \in Proc, Check(p) PROVE Refines
  BY <1>4, QuietRefines DEF Check, Goto, files, hist, Known, Shape
<1>5. ASSUME NEW p \in Proc, ClearAtStart(p) PROVE Refines
  BY <1>5, QuietRefines DEF ClearAtStart, Goto, hist, Known, Shape
<1>6. ASSUME NEW p \in Proc, Begin(p) PROVE Refines
  <2>1. kind[p] \in SupKinds /\ lock = p /\ disk = idle_state
    BY <1>6 DEF Begin, Known, Ownership, KindOf, UnderLock, Copies, Copy
  <2>2. PICK label \in {"discover", "step", "release"} :
           /\ pc' = [pc EXCEPT ![p] = label]
           /\ disk' = [phase |-> "checking", sid |-> own[p]] \/ (disk' = disk /\ label = "release")
    BY <1>6 DEF Begin, Goto
  <2>3. UNCHANGED <<lock, kind, own, issued>>
    BY <1>6 DEF Begin, hist
  <2>4. /\ Cast = 0 /\ Mending = FALSE /\ Unsure = FALSE
        /\ Mending' = FALSE /\ Cast' \in {own[p], 0} /\ Unsure' = FALSE
    BY <1>6, <2>1, <2>2, <2>3 DEF Begin, Known, View, Shape
  <2>5. own[p] \in (1..MaxSessions) \ Spent /\ Spent' = Spent \cup {own[p]}
    BY <1>6, <2>1, <2>2, <2>3, AloneKeeps, SpentGrows DEF Begin, Known, Shape
  <2>6. CASE disk' = [phase |-> "checking", sid |-> own[p]]
    BY <2>1, <2>4, <2>5, <2>6, SameTable DEF Refines, Contract!Next, Contract!Begin
  <2>7. CASE disk' = disk /\ label = "release"
    <3>1. Cast' = 0
      BY <2>1, <2>2, <2>3, <2>7 DEF Known, View, Shape
    <3> QED BY <2>4, <2>5, <2>7, <3>1 DEF Refines, Contract!Next, Contract!Forfeit
  <2> QED BY <2>2, <2>6, <2>7
<1>7. ASSUME NEW p \in Proc, Walk(p) PROVE Refines
  <2>1. CASE NextPhase(kind[p], loc[p].phase) # "done" /\ ~StopRequested(loc[p].sid)
    <3>1. NextPhase(kind[p], loc[p].phase) \in PHASES \ {"recovering"}
      BY <2>1 DEF NextPhase, PHASES
    <3> QED BY <1>7, <2>1, <3>1, MoveRefines DEF Walk
  <2>2. CASE ~(NextPhase(kind[p], loc[p].phase) # "done" /\ ~StopRequested(loc[p].sid))
    BY <1>7, <2>2, StayRefines DEF Walk, Goto, files, hist
  <2> QED BY <2>1, <2>2
<1>8. ASSUME NEW p \in Proc, Prelude(p) PROVE Refines
  BY <1>8, MoveRefines DEF Prelude, PHASES
<1>9. ASSUME NEW p \in Proc, AdapterStage(p) PROVE Refines
  BY <1>9, MoveRefines DEF AdapterStage, PHASES
<1>10. ASSUME NEW p \in Proc, NEW o \in {"user", "done", "failed"}, AdapterReturn(p, o)
       PROVE  Refines
  BY <1>10, StayRefines DEF AdapterReturn, Goto, files, hist
<1>11. ASSUME NEW p \in Proc, AdapterRaise(p) PROVE Refines
  BY <1>11, StayRefines DEF AdapterRaise, Goto, files, hist
<1>12. ASSUME NEW p \in Proc, Result(p) PROVE Refines
  BY <1>12, StayRefines DEF Result, Goto, files, hist
<1>13. ASSUME NEW p \in Proc, Finish(p) PROVE Refines
  BY <1>13, MoveRefines DEF Finish, PHASES
<1>14. ASSUME NEW p \in Proc, Except(p) PROVE Refines
  <2>1. /\ pc[p] = "except" /\ pc' = [pc EXCEPT ![p] = "finally"]
        /\ UNCHANGED <<kind, own, issued>> /\ kind[p] \in SupKinds
    BY <1>14 DEF Except, Goto, hist, Known, Ownership, KindOf
  <2>2. Alone(p) /\ Running(p) /\ Running(p)' /\ pc'[p] # "except"
    BY <2>1 DEF Known, Shape
  <2>3. CASE disk' = disk
    BY <2>1, <2>2, <2>3, AdvanceRefines DEF PHASES
  <2>4. CASE disk' # disk
    <3>1. disk' = transition(loc[p], "error") /\ loc[p].phase \notin {"idle", "error"}
      BY <1>14, <2>4 DEF Except
    <3>2. loc[p].sid = own[p] /\ ((disk.sid = own[p] /\ disk.phase \in Act) \/ Overtaken(p))
      BY <2>1, <3>1 DEF Known, Copies, Copy
    <3>3. CASE disk.sid = own[p] /\ disk.phase \in Act
      <4>1. transition(loc[p], "error") = transition(disk, "error")
        <5>1. disk \in States /\ loc[p] \in States
          BY DEF Known, Shape
        <5>2. \A st \in States : transition(st, "error") = [phase |-> "error", sid |-> st.sid]
          BY DEF transition, States
        <5>3. loc[p].sid = disk.sid
          BY <3>2, <3>3
        <5> QED BY <5>1, <5>2, <5>3, Zenon
      <4>2. Legal(disk.phase, "error") /\ disk.phase # "error"
        BY <3>3 DEF Act, Legal, TRANSITIONS
      <4> QED BY <2>1, <2>2, <3>1, <3>3, <4>1, <4>2, AdvanceRefines DEF PHASES
    <3>4. CASE Overtaken(p)
      <4>1. /\ UNCHANGED <<Cast, Mending>> /\ Cast = own[p]
            /\ Unsure = TRUE /\ Unsure' = FALSE
        BY <2>1, <2>2, <3>4 DEF Known, View, Overtaken, idle_state, Shape
      <4>2. Spent' = Spent
        BY <2>1, <2>2, AloneKeeps, SpentKept DEF KeepsId
      <4>3. disk' = [phase |-> "error", sid |-> own[p]]
        BY <3>1, <3>2 DEF transition, Known, Shape, States
      <4> QED BY <4>1, <4>2, <4>3 DEF Refines, Contract!Next, Contract!Retract
    <3> QED BY <3>2, <3>3, <3>4
  <2> QED BY <2>3, <2>4
<1>15. ASSUME NEW p \in Proc, Finally(p) PROVE Refines
  <2>1. /\ pc[p] = "finally" /\ pc' = [pc EXCEPT ![p] = "release"]
        /\ UNCHANGED <<disk, lock, kind, own, issued>> /\ kind[p] \in SupKinds
    BY <1>15 DEF Finally, Goto, hist, Known, Ownership, KindOf
  <2>2. Cast # 0 /\ Mending = FALSE /\ Cast' = 0 /\ Mending' = FALSE /\ Unsure' = FALSE
    BY <2>1 DEF Known, View, Shape
  <2>3. Spent' = Spent
    BY <2>1, AloneKeeps, SpentKept DEF KeepsId, Known, Shape
  <2> QED BY <2>1, <2>2, <2>3 DEF Refines, Contract!Next, Contract!End
<1>16. ASSUME NEW p \in Proc, RecoverRead(p) PROVE Refines
  <2>1. /\ pc[p] = "read" /\ kind[p] = "recover" /\ lock = p
        /\ UNCHANGED <<disk, lock, kind, own, issued>>
    BY <1>16 DEF RecoverRead, files, hist, Known, Ownership, UnderLock
  <2>2. PICK label \in {"settle", "leave", "release"} :
           pc' = [pc EXCEPT ![p] = label] /\ (label # "release" => disk.phase # "idle")
    BY <1>16 DEF RecoverRead, Goto
  <2>3. Spent' = Spent
    BY <2>1, <2>2, AloneKeeps, SpentKept DEF KeepsId, SupKinds, Known, Shape
  <2>4. /\ Cast = 0 /\ Mending = FALSE /\ Cast' = 0 /\ Mending' = (label # "release")
        /\ Unsure = FALSE /\ Unsure' = FALSE
    BY <2>1, <2>2 DEF Known, View, SupKinds, Shape
  <2>5. CASE label = "release"
    BY <2>1, <2>3, <2>4, <2>5 DEF Refines
  <2>6. CASE label # "release"
    BY <2>1, <2>2, <2>3, <2>4, <2>6 DEF Refines, Contract!Next, Contract!Attend
  <2> QED BY <2>5, <2>6
<1>17. ASSUME NEW p \in Proc, RecoverLeave(p) PROVE Refines
  BY <1>17, RecoverRefines DEF RecoverLeave, LeavePhase
<1>18. ASSUME NEW p \in Proc, RecoverSettle(p) PROVE Refines
  BY <1>18, RecoverRefines DEF RecoverSettle
<1>19. ASSUME NEW p \in Proc, RecoverSweep(p) PROVE Refines
  BY <1>19, QuietRefines DEF RecoverSweep, Goto, hist, Known, Shape
<1>20. ASSUME NEW p \in Proc, StopChoose(p) PROVE Refines
  BY <1>20, QuietRefines DEF StopChoose, Goto, files, hist, Known, Shape
<1>21. ASSUME NEW p \in Proc, StopRequest(p) PROVE Refines
  BY <1>21, QuietRefines DEF StopRequest, Goto, files, hist, Known, Shape
<1>22. ASSUME NEW p \in Proc, StopMark(p) PROVE Refines
  BY <1>22, QuietRefines DEF StopMark, Goto, Known, Shape
<1>23. ASSUME NEW p \in Proc, SystemctlStop(p) PROVE Refines
  <2>1. pc[p] = "sysstop" /\ kind[p] = "stop" /\ UNCHANGED <<disk, issued>> /\ lock # p
    BY <1>23 DEF SystemctlStop, hist, Known, Ownership, KindOf, UnderLock
  <2>2. CASE Goto(p, "release") /\ UNCHANGED <<kind, lock, unit, loc, res, own>>
    BY <2>1, <2>2, QuietRefines DEF Goto, Known, Shape
  <2>3. CASE /\ pc' = [q \in Proc |-> IF q = p THEN "lock"
                                    ELSE IF q = unit THEN "exited" ELSE pc[q]]
             /\ kind' = [q \in Proc |-> IF q = p THEN "recover"
                                      ELSE IF q = unit THEN "status" ELSE kind[q]]
             /\ Exit({unit})
    <3>1. /\ ~Engaged(p) /\ ~Engaged(p)' /\ ~Unpublished(p) /\ ~Unpublished(p)'
      BY <2>1, <2>3 DEF SupKinds, Known, Shape
    <3>2. CASE unit \in Proc \ {p}
      <4>1. pc'[unit] = "exited" /\ \A q \in Proc \ {unit, p} : pc'[q] = pc[q] /\ kind'[q] = kind[q]
        BY <2>3, <3>2 DEF Known, Shape
      <4> QED BY <2>1, <2>3, <3>1, <3>2, <4>1, DeathRefines
    <3>3. CASE unit \in {p, NoProc}
      <4>1. Alone(p) /\ lock' = lock
        BY <2>1, <2>3, <3>3 DEF Exit, Known, Shape
      <4> QED BY <2>1, <3>1, <4>1, QuietRefines
    <3> QED BY <3>2, <3>3 DEF Known, Shape
  <2> QED BY <1>23, <2>2, <2>3 DEF SystemctlStop
<1>24. ASSUME NEW p \in Proc, StartRead(p) PROVE Refines
  BY <1>24, QuietRefines DEF StartRead, Goto, files, hist, Known, Shape
<1>25. ASSUME NEW p \in Proc, StartLaunch(p) PROVE Refines
  <2>1. CASE UNCHANGED <<unit, kind, loc, res, own, issued>> /\ Goto(p, "release")
    BY <1>25, <2>1, QuietRefines DEF StartLaunch, Goto, Known, Shape
  <2>2. ASSUME NEW q \in Proc, NEW k \in {"simulated", "transport"}, pc[q] = "exited",
               pc' = [pc EXCEPT ![p] = "release", ![q] = "lock"], Enter(q, k),
               UNCHANGED <<disk, lock>>
        PROVE  Refines
    <3>1. pc[p] = "launch" /\ kind[p] = "start" /\ p # q /\ lock \notin {p, q}
      BY <1>25, <2>2 DEF StartLaunch, Known, Ownership, KindOf, UnderLock
    <3>2. UNCHANGED <<Cast, Mending, Unsure>>
      BY <2>2, <3>1 DEF Cast, Mending, Unsure, Enter, Known, Shape
    <3>3. Spent' = Spent
      <4>1. \A w \in Proc : w # q => (Unpublished(w)' <=> Unpublished(w))
        BY <2>2, <3>1 DEF Enter, SupKinds, Known, Shape
      <4>2. k \in Commands /\ pc'[q] = EntryPoint(k)
        BY <2>2 DEF EntryPoint, SupKinds, Commands, Known, Shape
      <4> QED BY <2>2, <4>1, <4>2, EnterSpends
    <3> QED BY <2>2, <3>2, <3>3 DEF Refines
  <2> QED BY <1>25, <2>1, <2>2 DEF StartLaunch
<1>26. ASSUME NEW p \in Proc, StatusRead(p) PROVE Refines
  BY <1>26, QuietRefines DEF StatusRead, Goto, files, hist, Known, Shape
<1>27. ASSUME NEW p \in Proc, StatusProbe(p) PROVE Refines
  BY <1>27, QuietRefines DEF StatusProbe, Goto, hist, Known, Shape
<1>28. ASSUME NEW p \in Proc, StatusUnprobe(p) PROVE Refines
  <2>1. lock = p
    BY <1>28 DEF StatusUnprobe, Known, Ownership, UnderLock
  <2> QED BY <1>28, <2>1, QuietRefines DEF StatusUnprobe, Goto, hist, Known, Shape
<1>29. ASSUME NEW p \in Proc, Kill(p) PROVE Refines
  <2>1. /\ pc' = [pc EXCEPT ![p] = "exited"] /\ kind' = [kind EXCEPT ![p] = "status"]
        /\ UNCHANGED <<disk, issued>> /\ Exit({p})
    BY <1>29 DEF Kill, Goto, hist
  <2> QED BY <2>1, DeathRefines DEF Known, Shape
<1>30. CASE UNCHANGED vars
  BY <1>30 DEF vars, files, procs, hist, Refines, Cast, Mending, Unsure, Spent
<1>31. ASSUME NEW p \in Proc, Supervise(p) PROVE Refines
  BY <1>31, <1>2, <1>3, <1>4, <1>5, <1>6, <1>7, <1>8, <1>9, <1>10,
     <1>12, <1>13, <1>14, <1>15 DEF Supervise
<1>32. ASSUME NEW p \in Proc, Environment(p) PROVE Refines
  BY <1>32, <1>10, <1>11 DEF Environment
<1>33. ASSUME NEW p \in Proc, Recover(p) PROVE Refines
  BY <1>33, <1>16, <1>17, <1>18, <1>19 DEF Recover
<1>34. ASSUME NEW p \in Proc, Control(p) PROVE Refines
  BY <1>34, <1>20, <1>21, <1>22, <1>23, <1>24, <1>25, <1>26, <1>27, <1>28 DEF Control
<1> QED BY <1>1, <1>29, <1>30, <1>31, <1>32, <1>33, <1>34 DEF Next

(* The controller processes implement CastContract: however they            *)
(* interleave, whatever is killed and whichever write fails, casts run one  *)
(* at a time, each under an id of its own and on an idle document, and only *)
(* recovery touches what a dead cast left behind.                           *)
THEOREM CastsKeepContract == Spec => ContractKept
<1>1. Init => Contract!Init
  <2> SUFFICES ASSUME Init PROVE Contract!Init
    OBVIOUS
  <2>1. Cast = 0 /\ Mending = FALSE /\ Unsure = FALSE /\ Spent = {} /\ disk = idle_state
    BY DEF Init, Cast, Mending, Unsure, Spent
  <2> QED BY <2>1, SameTable DEF Contract!Init
<1>2. Known /\ Known' /\ [Next]_vars => [Contract!Next]_<<disk, Cast, Mending, Unsure, Spent>>
  BY StepRefines DEF Refines
<1> QED BY <1>1, <1>2, KnownInv, PTL DEF Spec, ContractKept, Contract!Spec
=============================================================================
