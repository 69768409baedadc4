-------------------------- MODULE SessionLifecycle --------------------------
(***************************************************************************)
(* The controller processes of one desktop user and the three files they   *)
(* share: state.json, session.lock and stop-request.json.                  *)
(*                                                                         *)
(* A process is one run of the omarchy-cast command line: a supervisor     *)
(* (simulated, dry-run or transport, the last one being the production     *)
(* cast too), recover, stop, start or status.  Every step of a process is  *)
(* one operation on a shared file; anything may happen between two steps.  *)
(* A process may be killed between any two steps, writing state.json may   *)
(* fail with StateError, before or after os.replace installs the document  *)
(* (the fsync of the directory comes last), appending to the event log and *)
(* the operations on the stop marker with SessionError.  An error that     *)
(* ends a process before it wrote anything is the same as its kill.        *)
(***************************************************************************)
EXTENDS CastState

CONSTANTS
  Proc,         \* slots in which controller processes run
  NoProc,       \* no process
  Issues,       \* Issues[p]: the commands that are run in slot p
  MaxSessions,  \* bound on the session ids issued
  MaxFaults     \* bound on kills and failed writes

SupKinds == {"simulated", "dry-run", "transport"}
Commands == SupKinds \cup {"recover", "stop", "start", "status"}

ASSUME ProcAssumption   == NoProc \notin Proc
ASSUME IssuesAssumption == Issues \in [Proc -> SUBSET Commands]
ASSUME BoundsAssumption == MaxSessions \in Nat /\ MaxFaults \in Nat

VARIABLES
  disk,    \* state.json
  lock,    \* the process whose descriptor holds the flock on session.lock
  stop,    \* session id in stop-request.json, 0 when there is no such file
  unit,    \* the process of omacast-session.service
  issued,  \* session ids issued so far
  own,     \* the session id issued to each supervisor
  faults,  \* faults so far
  pc,      \* the next operation of each process
  kind,    \* the command each process runs
  loc,     \* the local variable `state` of each process
  res,     \* what a process has concluded
  asked,   \* sessions for which a stop marker was ever installed
  acked,   \* sessions for which request_stop has returned ok
  turned   \* unfinished sessions whose recovery found the lock taken for a look

files == <<disk, lock, stop, unit>>
procs == <<pc, kind, loc, res, own>>
hist  == <<issued, asked, acked, turned>>
vars  == <<files, procs, hist, faults>>

Sids   == 0..MaxSessions
States == [phase : PHASES, sid : Sids]

Labels == {"exited", "lock", "check", "clear", "begin", "step", "discover",
           "prepare", "auth", "link", "stream", "result", "stopping", "idle",
           "error", "except", "finally", "release", "refused",
           "read", "leave", "settle", "sweep",
           "choose", "request", "mark", "sysstop", "launch",
           "peek", "probe", "unprobe", "reported"}

Results == {"none", "user", "done", "failed", "lost", "blind", "seen"}

Init ==
  /\ disk = idle_state /\ lock = NoProc /\ stop = 0 /\ unit = NoProc
  /\ issued = 0 /\ faults = 0 /\ asked = {} /\ acked = {} /\ turned = {}
  /\ pc   = [p \in Proc |-> "exited"]
  /\ kind = [p \in Proc |-> "status"]
  /\ loc  = [p \in Proc |-> idle_state]
  /\ res  = [p \in Proc |-> "none"]
  /\ own  = [p \in Proc |-> 0]

-----------------------------------------------------------------------------
(* Helpers *)

Goto(p, label) == pc' = [pc EXCEPT ![p] = label]

Fault == faults < MaxFaults /\ faults' = faults + 1

(* The processes of P end: their memory is gone, the kernel drops their     *)
(* flock with their descriptors, systemd collects the unit.  The actions    *)
(* that end one also give its slot the kind it had at the beginning.        *)
Exit(P) ==
  /\ loc'  = [p \in Proc |-> IF p \in P THEN idle_state ELSE loc[p]]
  /\ res'  = [p \in Proc |-> IF p \in P THEN "none" ELSE res[p]]
  /\ own'  = [p \in Proc |-> IF p \in P THEN 0 ELSE own[p]]
  /\ lock' = IF lock \in P THEN NoProc ELSE lock
  /\ unit' = IF unit \in P THEN NoProc ELSE unit

EntryPoint(k) ==
  CASE k \in SupKinds \cup {"recover"} -> "lock"
    [] k = "stop"   -> "choose"
    [] k = "start"  -> "read"
    [] k = "status" -> "peek"

(* A supervisor is given a session id that was never used (uuid4). *)
Enter(p, k) ==
  /\ kind' = [kind EXCEPT ![p] = k]
  /\ loc'  = [loc EXCEPT ![p] = idle_state]
  /\ res'  = [res EXCEPT ![p] = "none"]
  /\ \/ /\ k \in SupKinds /\ issued < MaxSessions
        /\ issued' = issued + 1
        /\ own' = [own EXCEPT ![p] = issued + 1]
     \/ /\ k \notin SupKinds
        /\ own' = [own EXCEPT ![p] = 0]
        /\ UNCHANGED issued

(* A command is run from a terminal or by the panel. *)
Launch(p, k) ==
  /\ pc[p] = "exited" /\ k \in Issues[p]
  /\ Goto(p, EntryPoint(k))
  /\ Enter(p, k)
  /\ UNCHANGED <<files, asked, acked, turned, faults>>

(* Seeded fault: the session id in the marker is not compared. *)
StopRequested_AnySession(s) == stop # 0

(* The marker names exactly the session that polls it. *)
StopRequested(s) == s # 0 /\ stop = s

(* The operations between writing the first document of a session and the   *)
(* release of the lock.                                                     *)
RunLabels == {"step", "discover", "prepare", "auth", "link", "stream", "result",
              "stopping", "idle", "error", "except", "finally"}

Running(p) == kind[p] \in SupKinds /\ pc[p] \in RunLabels

Recovering(p) == kind[p] = "recover" /\ pc[p] \in {"lock", "read", "leave", "settle"}

Unfinished == disk.phase \notin {"idle", "error"}

-----------------------------------------------------------------------------
(* SessionLock.acquire: LOCK_EX | LOCK_NB, refused while anyone else holds  *)
(* a lock on the file, whatever for: the probe of status holds it too, and  *)
(* a supervisor that is about to give up because of the state it found.     *)

Acquire(p) ==
  /\ pc[p] = "lock"
  /\ \/ /\ lock = NoProc
        /\ lock' = p
        /\ Goto(p, IF kind[p] = "recover" THEN "read" ELSE "check")
        /\ UNCHANGED turned
     \/ /\ lock # NoProc
        /\ Goto(p, "refused")
        /\ turned' = IF kind[p] = "recover" /\ Unfinished /\ ~Running(lock) /\ ~Recovering(lock)
                     THEN turned \cup {disk.sid} ELSE turned
        /\ UNCHANGED lock
  /\ UNCHANGED <<disk, stop, unit, kind, loc, res, own, issued, asked, acked, faults>>

(* `with SessionLock` is left, normally or by an exception. *)
Leave(p) ==
  /\ pc[p] \in {"release", "refused", "reported"}
  /\ Goto(p, "exited") /\ Exit({p})
  /\ kind' = [kind EXCEPT ![p] = "status"]
  /\ UNCHANGED <<disk, stop, hist, faults>>

-----------------------------------------------------------------------------
(* The three supervisors *)

(* Seeded fault: a new session does not look at the state it replaces. *)
Check_IgnoresStale(p) ==
  /\ pc[p] = "check"
  /\ Goto(p, "clear")
  /\ UNCHANGED <<files, kind, loc, res, own, hist, faults>>

Check(p) ==
  /\ pc[p] = "check"
  /\ Goto(p, IF disk.phase = "idle" THEN "clear" ELSE "release")
  /\ UNCHANGED <<files, kind, loc, res, own, hist, faults>>

ClearAtStart(p) ==
  /\ pc[p] = "clear"
  /\ \/ stop' = 0 /\ Goto(p, "begin") /\ UNCHANGED faults
     \/ UNCHANGED stop /\ Goto(p, "release") /\ Fault
  /\ UNCHANGED <<disk, lock, unit, kind, loc, res, own, hist>>

(* The first document of a session is written before the try block: a      *)
(* failure here skips the `finally` that removes the stop marker.          *)
Begin(p) ==
  /\ pc[p] = "begin"
  /\ LET new == [phase |-> "checking", sid |-> own[p]] IN
     /\ loc' = [loc EXCEPT ![p] = new]
     /\ \/ /\ disk' = new
           /\ Goto(p, IF kind[p] = "transport" THEN "discover" ELSE "step")
           /\ UNCHANGED faults
        \/ /\ disk' \in {disk, new}          \* write_state or append_event fails
           /\ Goto(p, "release") /\ Fault
  /\ UNCHANGED <<lock, stop, unit, kind, res, own, hist>>

(* move() of the transport supervisor assigns its local state before it     *)
(* writes; _write_transition of the other two returns the state only after  *)
(* the write and the event.  A failed write is a StateError, whether or not *)
(* the document was installed, a failed event a SessionError, which the     *)
(* transport supervisor does not catch unless the adapter, unwinding from   *)
(* its stage callback, replaces it.                                         *)
Uncaught(k, phase) ==
  CASE k # "transport" -> {"except"}
    [] k = "transport" /\ phase \in {"connecting", "streaming"} -> {"finally", "except"}
    [] OTHER -> {"finally"}

Move(p, phase, next) ==
  LET new == transition(loc[p], phase) IN
  /\ Legal(loc[p].phase, phase)
  /\ \/ /\ disk' = new
        /\ loc' = [loc EXCEPT ![p] = new]
        /\ Goto(p, next) /\ UNCHANGED faults
     \/ /\ Fault /\ disk' \in {disk, new}              \* write_state raises
        /\ loc' = IF kind[p] = "transport" THEN [loc EXCEPT ![p] = new] ELSE loc
        /\ Goto(p, "except")
     \/ /\ Fault /\ disk' = new                        \* append_event raises
        /\ kind[p] = "transport" \/ phase # "idle"
        /\ loc' = IF kind[p] = "transport" THEN [loc EXCEPT ![p] = new] ELSE loc
        /\ \E label \in Uncaught(kind[p], phase) : Goto(p, label)
  /\ UNCHANGED <<lock, stop, unit, kind, own, hist>>

(* The phases that the simulated and the dry-run supervisor walk through. *)
NextPhase(k, phase) ==
  CASE phase = "checking"    -> "discovering"
    [] phase = "discovering" -> "preparing"
    [] phase = "preparing"   -> IF k = "dry-run" THEN "done" ELSE "connecting"
    [] phase = "connecting"  -> "streaming"
    [] OTHER                 -> "done"

(* One round of their loop: the stop request is looked at before each phase *)
(* and, in the simulated stream, until its duration has passed.             *)
Walk(p) ==
  /\ pc[p] = "step"
  /\ LET next == NextPhase(kind[p], loc[p].phase) IN
     \/ /\ StopRequested(loc[p].sid)
        /\ kind[p] = "simulated" \/ next # "done"
        /\ res' = [res EXCEPT ![p] = "user"] /\ Goto(p, "stopping")
        /\ UNCHANGED <<files, kind, loc, own, hist, faults>>
     \/ /\ next = "done"
        /\ res' = [res EXCEPT ![p] = "done"] /\ Goto(p, "stopping")
        /\ UNCHANGED <<files, kind, loc, own, hist, faults>>
     \/ /\ next # "done" /\ ~StopRequested(loc[p].sid)
        /\ Move(p, next, "step") /\ UNCHANGED res

(* The transport supervisor moves to preparing and calls adapter.run. *)
Prelude(p) ==
  /\ \/ pc[p] = "discover" /\ Move(p, "discovering", "prepare")
     \/ pc[p] = "prepare"  /\ Move(p, "preparing", "auth")
  /\ UNCHANGED res

(* adapter.run before the connecting stage: authorization and guard setup,  *)
(* and while the receiver connects.  Both are bounded by timeouts.          *)
AdapterStage(p) ==
  /\ \/ pc[p] = "auth" /\ Move(p, "connecting", "link")
     \/ pc[p] = "link" /\ Move(p, "streaming", "stream")
  /\ UNCHANGED res

(* Seeded fault: the poll loop stops looking for a stop once it streams. *)
AdapterReturn_DeafStream(p, outcome) ==
  /\ pc[p] \in IF outcome = "user" THEN {"auth", "link"} ELSE {"link", "stream"}
  /\ outcome = "user" => StopRequested(loc[p].sid)
  /\ res' = [res EXCEPT ![p] = outcome]
  /\ Goto(p, "result")
  /\ UNCHANGED <<files, kind, loc, own, hist, faults>>

AdapterReturn(p, outcome) ==
  /\ pc[p] \in {"auth", "link", "stream"}
  /\ pc[p] = "auth" => outcome = "user"
  /\ outcome = "user" => StopRequested(loc[p].sid)
  /\ res' = [res EXCEPT ![p] = outcome]
  /\ Goto(p, "result")
  /\ UNCHANGED <<files, kind, loc, own, hist, faults>>

(* adapter.run raises: authorization refused or late, an unsafe status,     *)
(* or a guard that did not confirm its cleanup.  An OSError of a child      *)
(* process or of the lease is no TransportError and passes the handler.     *)
AdapterRaise(p) ==
  /\ pc[p] \in {"auth", "link", "stream"}
  /\ \/ Goto(p, "except") /\ UNCHANGED faults
     \/ Goto(p, "finally") /\ Fault
  /\ UNCHANGED <<files, kind, loc, res, own, hist>>

(* Seeded fault: a failed transport returns without publishing error. *)
Result_ForgetsFailure(p) ==
  /\ pc[p] = "result"
  /\ \/ Goto(p, IF res[p] = "failed" THEN "finally" ELSE "stopping") /\ UNCHANGED faults
     \/ Goto(p, "finally") /\ Fault
  /\ UNCHANGED <<files, kind, loc, res, own, hist>>

(* The transport-result event; its failure is caught by no handler. *)
Result(p) ==
  /\ pc[p] = "result"
  /\ \/ Goto(p, IF res[p] = "failed" THEN "error" ELSE "stopping") /\ UNCHANGED faults
     \/ Goto(p, "finally") /\ Fault
  /\ UNCHANGED <<files, kind, loc, res, own, hist>>

Finish(p) ==
  /\ \/ pc[p] = "stopping" /\ Move(p, "stopping", "idle")
     \/ pc[p] = "idle"     /\ Move(p, "idle", "finally")
     \/ pc[p] = "error"    /\ Move(p, "error", "finally")
  /\ UNCHANGED res

(* Seeded fault: the handlers publish error over whatever was published. *)
Except_Always(p) ==
  /\ pc[p] = "except"
  /\ Goto(p, "finally")
  /\ loc' = [loc EXCEPT ![p] = transition(@, "error")]
  /\ \/ disk' = transition(loc[p], "error") /\ UNCHANGED faults
     \/ disk' \in {disk, transition(loc[p], "error")} /\ Fault
  /\ UNCHANGED <<lock, stop, unit, kind, res, own, hist>>

(* The exception handlers: publish error unless the local state forbids it. *)
(* The document may be idle already: the local state of a simulated or      *)
(* dry-run supervisor is still stopping when the write of idle has raised.  *)
Except(p) ==
  /\ pc[p] = "except"
  /\ Goto(p, "finally")
  /\ \/ /\ loc[p].phase \notin {"idle", "error"}
        /\ loc' = [loc EXCEPT ![p] = transition(@, "error")]
        /\ \/ disk' = transition(loc[p], "error") /\ UNCHANGED faults
           \/ disk' \in {disk, transition(loc[p], "error")} /\ Fault
     \/ /\ loc[p].phase \in {"idle", "error"}
        /\ UNCHANGED <<disk, loc, faults>>
  /\ UNCHANGED <<lock, stop, unit, kind, res, own, hist>>

Finally(p) ==
  /\ pc[p] = "finally"
  /\ Goto(p, "release")
  /\ \/ stop' = 0 /\ UNCHANGED faults
     \/ UNCHANGED stop /\ Fault
  /\ UNCHANGED <<disk, lock, unit, kind, loc, res, own, hist>>

-----------------------------------------------------------------------------
(* recover_stale_session, under the lock *)

(* A checking, stopping or recovering session goes straight to idle. *)
RecoverRead(p) ==
  /\ pc[p] = "read" /\ kind[p] = "recover"
  /\ loc' = [loc EXCEPT ![p] = disk]
  /\ \/ disk.phase = "idle" /\ Goto(p, "release") /\ UNCHANGED faults
     \/ /\ disk.phase \in {"checking", "stopping", "recovering"}
        /\ Goto(p, "settle") /\ UNCHANGED faults
     \/ /\ disk.phase \in {"error", "discovering", "preparing", "connecting", "streaming"}
        /\ Goto(p, "leave") /\ UNCHANGED faults
     \/ disk.phase # "idle" /\ Goto(p, "release") /\ Fault    \* append_event raises
  /\ UNCHANGED <<files, kind, res, own, hist>>

(* Seeded fault: an error state is recovered like an abandoned stream. *)
LeavePhase_ErrorAsActive(phase) == "stopping"

LeavePhase(phase) == IF phase = "error" THEN "recovering" ELSE "stopping"

(* A write of recovery either succeeds or raises StateError out of the     *)
(* lock, whether or not the document was installed.                         *)
RecoverWrite(p, phase, next) ==
  /\ IF Legal(loc[p].phase, phase)
     THEN \/ /\ disk' = transition(loc[p], phase)
             /\ loc' = [loc EXCEPT ![p] = transition(@, phase)]
             /\ Goto(p, next) /\ UNCHANGED <<faults, res>>
          \/ /\ disk' \in {disk, transition(loc[p], phase)} /\ UNCHANGED <<loc, res>>
             /\ Goto(p, "release") /\ Fault
     ELSE /\ res' = [res EXCEPT ![p] = "failed"]
          /\ Goto(p, "release")
          /\ UNCHANGED <<disk, loc, faults>>
  /\ UNCHANGED <<lock, stop, unit, kind, own, hist>>

RecoverLeave(p) ==
  /\ pc[p] = "leave"
  /\ RecoverWrite(p, LeavePhase(loc[p].phase), "settle")

RecoverSettle(p) ==
  /\ pc[p] = "settle"
  /\ RecoverWrite(p, "idle", "sweep")

(* The closing event, the telemetry sweep and the stop marker. *)
RecoverSweep(p) ==
  /\ pc[p] = "sweep"
  /\ Goto(p, "release")
  /\ \/ stop' = 0 /\ UNCHANGED faults
     \/ UNCHANGED stop /\ Fault
  /\ UNCHANGED <<disk, lock, unit, kind, loc, res, own, hist>>

-----------------------------------------------------------------------------
(* stop, start and status *)

StopChoose(p) ==
  /\ pc[p] = "choose"
  /\ Goto(p, IF disk.phase = "idle" THEN "sysstop" ELSE "request")
  /\ UNCHANGED <<files, kind, loc, res, own, hist, faults>>

(* request_stop reads the state a second time. *)
StopRequest(p) ==
  /\ pc[p] = "request"
  /\ loc' = [loc EXCEPT ![p] = disk]
  /\ Goto(p, IF disk.phase = "idle" THEN "release" ELSE "mark")
  /\ UNCHANGED <<files, kind, res, own, hist, faults>>

(* os.replace installs the marker, over any other; then ok is returned.     *)
(* Writing the temporary file may fail, and so may the fsync that follows.  *)
StopMark(p) ==
  /\ pc[p] = "mark"
  /\ \/ /\ stop' = loc[p].sid /\ asked' = asked \cup {loc[p].sid}
        /\ \/ acked' = acked \cup {loc[p].sid} /\ UNCHANGED faults
           \/ UNCHANGED acked /\ Fault
     \/ UNCHANGED <<stop, asked, acked>> /\ Fault
  /\ Goto(p, "release")
  /\ UNCHANGED <<disk, lock, unit, kind, loc, res, own, issued, turned>>

(* systemctl stop returns once the unit is dead; recovery follows.  When it *)
(* fails, stop reports the error and changes nothing.                       *)
SystemctlStop(p) ==
  /\ pc[p] = "sysstop"
  /\ \/ /\ pc' = [q \in Proc |-> IF q = p THEN "lock"
                                ELSE IF q = unit THEN "exited" ELSE pc[q]]
        /\ kind' = [q \in Proc |-> IF q = p THEN "recover"
                                  ELSE IF q = unit THEN "status" ELSE kind[q]]
        /\ Exit({unit})
     \/ Goto(p, "release") /\ UNCHANGED <<kind, lock, unit, loc, res, own>>
  /\ UNCHANGED <<disk, stop, hist, faults>>

StartRead(p) ==
  /\ pc[p] = "read" /\ kind[p] = "start"
  /\ Goto(p, IF disk.phase = "idle" THEN "launch" ELSE "release")
  /\ UNCHANGED <<files, kind, loc, res, own, hist, faults>>

(* systemd-run refuses the unit name while such a unit is loaded. *)
StartLaunch(p) ==
  /\ pc[p] = "launch"
  /\ \/ /\ unit # NoProc /\ Goto(p, "release")
        /\ UNCHANGED <<unit, kind, loc, res, own, issued>>
     \/ \E q \in Proc, k \in {"simulated", "transport"} :
          /\ unit = NoProc /\ pc[q] = "exited"
          /\ pc' = [pc EXCEPT ![p] = "release", ![q] = "lock"]
          /\ Enter(q, k)
          /\ unit' = q
  /\ UNCHANGED <<disk, lock, stop, asked, acked, turned, faults>>

StatusRead(p) ==
  /\ pc[p] = "peek"
  /\ loc' = [loc EXCEPT ![p] = disk]
  /\ Goto(p, IF disk.phase \in {"idle", "error"} THEN "release" ELSE "probe")
  /\ UNCHANGED <<files, kind, res, own, hist, faults>>

(* Seeded fault: every active phase is reported as abandoned. *)
StatusProbe_Blind(p) ==
  /\ pc[p] = "probe" /\ Goto(p, "reported")
  /\ res' = [res EXCEPT ![p] = "lost"]
  /\ UNCHANGED <<files, kind, loc, own, hist, faults>>

(* session_lock_is_held takes the lock to find out whether it is free; when *)
(* it cannot even open the file it answers that nobody holds it, and status *)
(* reports session-owner-lost without having seen the lock...               *)
StatusProbe(p) ==
  /\ pc[p] = "probe"
  /\ \/ /\ lock # NoProc /\ Goto(p, "reported")
        /\ res' = [res EXCEPT ![p] = "seen"]
        /\ UNCHANGED <<lock, faults>>
     \/ /\ lock = NoProc /\ Goto(p, "unprobe")
        /\ lock' = p
        /\ UNCHANGED <<res, faults>>
     \/ /\ Fault /\ Goto(p, "reported")
        /\ res' = [res EXCEPT ![p] = "blind"]
        /\ UNCHANGED lock
  /\ UNCHANGED <<disk, stop, unit, kind, loc, own, hist>>

(* ... and gives it back; status then reports session-owner-lost. *)
StatusUnprobe(p) ==
  /\ pc[p] = "unprobe"
  /\ lock' = NoProc
  /\ res' = [res EXCEPT ![p] = "lost"]
  /\ Goto(p, "reported")
  /\ UNCHANGED <<disk, stop, unit, kind, loc, own, hist, faults>>

-----------------------------------------------------------------------------
(* A process is killed. *)
Kill(p) ==
  /\ pc[p] # "exited" /\ Fault
  /\ Goto(p, "exited") /\ Exit({p})
  /\ kind' = [kind EXCEPT ![p] = "status"]
  /\ UNCHANGED <<disk, stop, hist>>

(* What a live supervisor does without waiting for anyone.  While it        *)
(* streams it waits for the receiver or for a stop request.                 *)
Supervise(p) ==
  \/ Acquire(p) \/ Check(p) \/ ClearAtStart(p) \/ Begin(p) \/ Walk(p)
  \/ Prelude(p) \/ Result(p) \/ Finish(p) \/ Except(p) \/ Finally(p) \/ Leave(p)
  \/ AdapterStage(p)
  \/ AdapterReturn(p, "user")

(* The receiver, the engine, the polkit agent or the clock ends the cast. *)
Environment(p) ==
  \/ \E outcome \in {"done", "failed"} : AdapterReturn(p, outcome)
  \/ AdapterRaise(p)

Recover(p) ==
  RecoverRead(p) \/ RecoverLeave(p) \/ RecoverSettle(p) \/ RecoverSweep(p)

Control(p) ==
  \/ StopChoose(p) \/ StopRequest(p) \/ StopMark(p) \/ SystemctlStop(p)
  \/ StartRead(p) \/ StartLaunch(p)
  \/ StatusRead(p) \/ StatusProbe(p) \/ StatusUnprobe(p)

Next ==
  \E p \in Proc :
    \/ \E k \in Commands : Launch(p, k)
    \/ Supervise(p) \/ Environment(p) \/ Recover(p) \/ Control(p) \/ Kill(p)

Spec == Init /\ [][Next]_vars

(* Every wait of a controller process other than the stream itself is       *)
(* bounded by a timeout or by the simulated duration, so a live process     *)
(* keeps going.  Nothing makes a user run a command, a process be killed,   *)
(* or a stream end by itself.                                               *)
Bounded(p) ==
  \/ Supervise(p) \/ Recover(p) \/ Control(p)
  \/ pc[p] # "stream" /\ Environment(p)

FairSpec == Spec /\ \A p \in Proc : WF_vars(Bounded(p))

-----------------------------------------------------------------------------
(* Properties *)

(* The shape of every variable; state.json is a document that read_state    *)
(* accepts: it names a session exactly when its phase is not idle.          *)
TypeOK ==
  /\ disk \in States /\ validate_state(disk)
  /\ lock \in Proc \cup {NoProc} /\ stop \in Sids
  /\ unit \in Proc \cup {NoProc} /\ issued \in Sids /\ faults \in 0..MaxFaults
  /\ asked \subseteq Sids /\ acked \subseteq Sids /\ turned \subseteq Sids
  /\ pc \in [Proc -> Labels] /\ kind \in [Proc -> Commands]
  /\ loc \in [Proc -> States] /\ res \in [Proc -> Results]
  /\ own \in [Proc -> Sids]

(* A cast takes back its end: the write of idle raised after it had         *)
(* installed the document, and the handler publishes error on top of it.    *)
Retraction ==
  /\ kind[lock] \in {"simulated", "dry-run"} /\ pc[lock] = "except" /\ faults > 0
  /\ disk = idle_state /\ disk' = [phase |-> "error", sid |-> own[lock]]

(* Whatever fails, and however far the copy of the state in a supervisor or *)
(* in recover has drifted from the file, state.json is written by the       *)
(* lock's holder, a session never takes over the document of another        *)
(* without an idle one in between, and with one exception the write is a    *)
(* transition of the TRANSITIONS table: the retraction of an end.           *)
PersistedStep ==
  /\ Legal(disk.phase, disk'.phase) \/ Retraction
  /\ validate_state(disk')
  /\ disk.sid = disk'.sid \/ disk.sid = 0 \/ disk'.sid = 0
  /\ lock # NoProc /\ lock' = lock

PersistedLegal == [][PersistedStep]_disk

(* The labels between acquiring the lock and the first document. *)
EarlyLabels == {"check", "clear", "begin"}

(* A supervisor whose session id nobody else has seen yet. *)
Unpublished(p) == kind[p] \in SupKinds /\ pc[p] \in EarlyLabels \cup {"lock"}

(* How the processes appear as one cast: by what the holder of the lock     *)
(* does, and by the session ids that no supervisor can begin with any more. *)
Cast    == IF lock # NoProc /\ Running(lock) THEN own[lock] ELSE 0
Mending == lock # NoProc /\ kind[lock] = "recover" /\ pc[lock] \in {"leave", "settle"}
Unsure  == lock # NoProc /\ Running(lock) /\ pc[lock] = "except" /\ disk.phase = "idle"
Spent   == (1..issued) \ {own[p] : p \in {q \in Proc : Unpublished(q)}}

Contract ==
  INSTANCE CastContract
    WITH Sessions <- 1..MaxSessions, doc <- disk, cast <- Cast, mending <- Mending,
         unsure <- Unsure, spent <- Spent

(* However the processes interleave, and whatever is killed or fails on the *)
(* way, together they run casts one at a time: each on an idle document,    *)
(* under an id of its own, writing nothing while recovery is at work, which *)
(* alone touches what a dead cast left behind, and nothing after its end    *)
(* unless the write of that end was reported as failed.                     *)
ContractKept == Contract!Spec

(* An unfinished phase in state.json has an owner: the running session, or  *)
(* a recovery that holds the lock or is about to take it (the sweep that    *)
(* stop performs after systemctl has killed the unit).  Only a kill, a      *)
(* failed write or event, or a recovery that is turned away by a process    *)
(* that took the lock only for a look (session_lock_is_held, for one)       *)
(* leaves such a phase behind unattended.                                   *)
Attends(p) == (lock = p /\ Running(p) /\ own[p] = disk.sid) \/ Recovering(p)

OrphanOnlyByFault ==
  Unfinished /\ faults = 0 /\ disk.sid \notin turned => \E p \in Proc : Attends(p)

(* A supervisor concludes that the user stopped it only when the marker of  *)
(* its own session was installed: a late stop of the previous session, or a *)
(* marker left behind by a killed process, never cancels the next one.      *)
NoForeignStop ==
  \A p \in Proc : Running(p) /\ res[p] = "user" => own[p] \in asked

(* When status reports session-owner-lost because it found the lock free,   *)
(* the session it has read about is not being run by anyone.  A report that *)
(* comes from a lock it could not open ("blind") tells nothing.             *)
OwnerLostIsOver ==
  \A p \in Proc : pc[p] = "reported" /\ res[p] = "lost" =>
    \A q \in Proc : own[q] = loc[p].sid => ~Running(q)

(* Recovery can leave every phase in which a session can be abandoned,      *)
(* an interrupted recovery included: it never asks transition() for a step  *)
(* the table forbids.                                                       *)
RecoveryNeverStuck ==
  \A p \in Proc : kind[p] = "recover" => res[p] # "failed"

(* Once stop has answered ok for a session, nobody runs that session any    *)
(* more eventually.                                                         *)
StopHonoured ==
  \A s \in 1..MaxSessions :
    s \in acked ~> \A p \in Proc : ~(Running(p) /\ own[p] = s)
=============================================================================
