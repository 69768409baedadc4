----------------------------- MODULE TransportRun -----------------------------
(***************************************************************************)
(* GuardedTransportAdapter.run: from the authorization through the poll    *)
(* loop to the last step of its finally clause, with the threads it starts *)
(* (lease, engine output collector, telemetry sampler), the engine and the *)
(* guard as it sees them.  A step of the main thread is one call that may  *)
(* wait or fail; the others run in between.                                *)
(***************************************************************************)
EXTENDS Integers

CONSTANTS
  Connect,   \* CONNECT_TIMEOUT_SECONDS
  Capture,   \* CAPTURE_START_TIMEOUT_SECONDS
  Grace,     \* RECEIVER_DISCONNECT_GRACE_SECONDS
  Timeouts,  \* the durations asked for; 0 for a cast until it is stopped
  MaxStep,   \* the longest time one round of the poll loop takes
  MaxTime,   \* bound of the clock, for model checking
  Faults     \* what may fail, see below

FaultKinds == {"spawn", "lease", "telemetry", "stage", "engine",
               "unkillable", "sampler", "collector", "drain", "marker"}

ASSUME TimesAssumption ==
  /\ {Connect, Capture, Grace, MaxStep} \subseteq Nat \ {0}
  /\ MaxTime \in Nat /\ Timeouts \subseteq Nat
ASSUME FaultsAssumption == Faults \subseteq FaultKinds

VARIABLES
  timeout,   \* timeout_seconds of this run
  pc,        \* the next call of the main thread
  cancelled, \* a stop has been requested for this session
  stage,     \* the last stage reported; "streaming" is the local streaming
  out,       \* the result, or the exception, that run is about to end with
  helper,    \* the child started through pkexec; whether it still runs
             \* changes nothing that run does
  announced, \* the guard has reported ready, on its pipe and in status.json
  guard,     \* the phase that status.json shows
  marks,     \* the markers written for the guard
  ready,     \* guard_ready
  confirmed, \* guard_cleanup_confirmed
  lease,     \* the SessionLease and its thread
  engine,    \* the engine child
  workspace, \* the descriptors of the TelemetryWorkspace
  collector, \* the BoundedOutputCollector thread
  sampler,   \* the TelemetrySampler thread
  sampler_stopped,
  now,       \* time.monotonic() at the loop's condition, 0 when it is entered
  rtsp_ready_at, seen, missing_since,   \* locals of the loop
  acked,     \* history: the phase of the status that was acknowledged
  absentFor  \* history: for how long every look at the group, once seen, has
             \* proved it absent

children == <<helper, announced, guard, engine>>
threads  == <<collector, sampler>>
poll     == <<now, rtsp_ready_at, seen, missing_since, absentFor>>
flags    == <<ready, confirmed, acked, sampler_stopped>>
vars     == <<timeout, pc, cancelled, stage, out, children, marks, lease, workspace,
              threads, poll, flags>>

Never == -1          \* None, of a time
streaming == stage = "streaming"

FlagsOK ==
  /\ cancelled \in BOOLEAN /\ seen \in BOOLEAN /\ announced \in BOOLEAN
  /\ ready \in BOOLEAN /\ confirmed \in BOOLEAN /\ sampler_stopped \in BOOLEAN

TypeOK ==
  /\ FlagsOK
  /\ timeout \in Timeouts
  /\ pc \in {"spawn", "ready", "lease", "telemetry", "stage", "engine", "threads",
             "poll", "after", "collect", "sampler", "terminate", "resample",
             "unlease", "stop", "drain", "await", "collector", "close",
             "end", "done"}
  /\ stage \in {"none", "connecting", "streaming"}
  /\ out \in {"none", "cancelled", "completed", "failed", "disconnected", "timeout", "raised"}
  /\ (out = "none") = (pc \in {"spawn", "ready", "lease", "telemetry", "stage",
                               "engine", "threads", "poll", "after", "collect"})
  /\ helper \in {"none", "started"}
  /\ guard \in {"none", "ready", "active", "error", "cleaned", "gone"}
  /\ marks \subseteq {"stop", "ack"} /\ acked \in {"none", "error", "cleaned"}
  /\ lease \in {"none", "renewing", "stopped"}
  /\ engine \in {"none", "running", "ended", "failed"}
  /\ workspace \in {"none", "open", "closed"}
  /\ collector \in {"none", "running", "ended"}
  /\ sampler \in {"none", "running", "ended"}
  /\ now \in 0..MaxTime
  /\ rtsp_ready_at \in {Never} \cup 0..MaxTime
  /\ missing_since \in {Never} \cup 0..MaxTime
  /\ absentFor \in 0..MaxTime

Init ==
  /\ timeout \in Timeouts
  /\ pc = "spawn" /\ cancelled = FALSE /\ stage = "none" /\ out = "none"
  /\ helper = "none" /\ announced = FALSE /\ guard = "none" /\ engine = "none" /\ marks = {} /\ acked = "none"
  /\ ready = FALSE /\ confirmed = FALSE /\ sampler_stopped = TRUE
  /\ lease = "none" /\ workspace = "none" /\ collector = "none" /\ sampler = "none"
  /\ now = 0 /\ rtsp_ready_at = Never /\ seen = FALSE /\ missing_since = Never
  /\ absentFor = 0

-----------------------------------------------------------------------------
(* The body of the try statement.  Leaving it, by a return or an exception, *)
(* leads to the first step of the finally clause.                           *)

Leave(result) == pc' = "sampler" /\ out' = result
Stay(label)   == pc' = label /\ UNCHANGED out

Spawn ==
  /\ pc = "spawn"
  /\ \/ Stay("ready") /\ helper' = "started"
     \/ "spawn" \in Faults /\ Leave("raised") /\ UNCHANGED helper
  /\ UNCHANGED <<timeout, cancelled, stage, announced, guard, engine, marks, lease, workspace, threads, poll, flags>>

(* _read_ready: a stop, readiness from the pipe or from status.json, a       *)
(* refusal, a helper that has exited, an invalid answer, or the deadline.    *)
ReadReady ==
  /\ pc = "ready"
  /\ \/ announced /\ Stay("lease") /\ ready' = TRUE
     \/ cancelled /\ Leave("cancelled") /\ UNCHANGED ready
     \/ Leave("raised") /\ UNCHANGED ready
  /\ UNCHANGED <<timeout, cancelled, stage, children, marks, confirmed, acked, lease, workspace,
                 threads, sampler_stopped, poll>>

StartLease ==
  /\ pc = "lease"
  /\ \/ Stay("telemetry") /\ lease' = "renewing"
     \/ "lease" \in Faults /\ Leave("raised") /\ UNCHANGED lease
  /\ UNCHANGED <<timeout, cancelled, stage, children, marks, workspace, threads, poll, flags>>

(* A workspace whose outputs cannot be prepared is closed at the end. *)
PrepareTelemetry ==
  /\ pc = "telemetry"
  /\ \/ Stay("stage") /\ workspace' = "open"
     \/ "telemetry" \in Faults /\ Leave("raised") /\ workspace' \in {"none", "open"}
  /\ UNCHANGED <<timeout, cancelled, stage, children, marks, lease, threads, poll, flags>>

StageConnecting ==
  /\ pc = "stage"
  /\ \/ Stay("engine") /\ stage' = "connecting"
     \/ "stage" \in Faults /\ Leave("raised") /\ UNCHANGED stage
  /\ UNCHANGED <<timeout, cancelled, children, marks, lease, workspace, threads, poll, flags>>

StartEngine ==
  /\ pc = "engine"
  /\ \/ Stay("threads") /\ engine' = "running"
     \/ "engine" \in Faults /\ Leave("raised") /\ UNCHANGED engine
  /\ UNCHANGED <<timeout, cancelled, stage, helper, announced, guard, marks, lease, workspace, threads, poll, flags>>

StartThreads ==
  /\ pc = "threads"
  /\ \/ collector' = "running" /\ sampler' = "running" /\ Stay("poll")
     \/ /\ "engine" \in Faults /\ Leave("raised")      \* no pipe, or no thread
        /\ collector' \in {"none", "running"} /\ UNCHANGED sampler
  /\ UNCHANGED <<timeout, cancelled, stage, children, marks, lease, workspace, poll, flags>>

-----------------------------------------------------------------------------
(* The poll loop. *)

(* Seeded fault: an observation that proves nothing keeps the window open. *)
Observe_UnknownKeeps(present, t) ==
  /\ seen' = (seen \/ present = "yes")
  /\ missing_since' = IF present = "yes" \/ ~seen THEN Never
                      ELSE IF missing_since = Never /\ present = "no" THEN t ELSE missing_since

(* _P2PGroupLiveness.observe: only a proved absence of a group that was seen *)
(* counts, and anything else begins a new window.                            *)
Observe(present, t) ==
  /\ seen' = (seen \/ present = "yes")
  /\ missing_since' = IF present # "no" \/ ~seen THEN Never
                      ELSE IF missing_since = Never THEN t ELSE missing_since

GroupLost(present, t) ==
  present = "no" /\ seen /\ missing_since # Never /\ t - missing_since >= Grace

(* The clock and the locals of the loop are not read after it. *)
ForgetLoop ==
  now' = 0 /\ rtsp_ready_at' = Never /\ seen' = FALSE /\ missing_since' = Never

(* What one round of the loop returns after its observations, if anything. *)
RoundResult(present, t, rtsp, st) ==
  CASE GroupLost(present, t) ->
         IF st = "streaming" THEN "disconnected" ELSE "failed"
    [] ~GroupLost(present, t) /\ rtsp = Never /\ t >= Connect -> "failed"
    [] ~GroupLost(present, t) /\ rtsp # Never /\ st # "streaming"
       /\ t - rtsp >= Capture -> "failed"
    [] OTHER -> "none"

InTime == timeout = 0 \/ now < timeout
TimeUp == timeout # 0 /\ timeout <= now + MaxStep

(* What _rtsp_established, _media_started_text and _p2p_group_present may     *)
(* answer.  The loop takes an RTSP answer of None for no socket.             *)
RtspLooks  == BOOLEAN
FrameLooks == BOOLEAN
GroupLooks == {"yes", "no", "unknown"}

(* Seeded fault: every sight of the socket restarts the capture deadline. *)
RtspReadyAt_Restarts(rtsp, t) == IF rtsp THEN t ELSE rtsp_ready_at

(* The time at which the RTSP socket was first found established. *)
RtspReadyAt(rtsp, t) == IF rtsp_ready_at = Never /\ rtsp THEN t ELSE rtsp_ready_at

(* One round at time t, when no stop is requested: the RTSP socket, the      *)
(* first frame, the group, the deadlines.                                    *)
Round(t, rtsp, frames, present) ==
  LET at == RtspReadyAt(rtsp, t)
      st == IF at # Never /\ frames THEN "streaming" ELSE stage
  IN
  /\ pc = "poll" /\ engine = "running" /\ InTime /\ ~cancelled
  /\ \/ /\ stage' = st
        /\ absentFor' = IF seen /\ present = "no" THEN absentFor + (t - now) ELSE 0
        /\ LET result == RoundResult(present, t, at, st) IN
           IF result = "none"
             THEN Stay("poll") /\ now' = t /\ rtsp_ready_at' = at /\ Observe(present, t)
             ELSE Leave(result) /\ ForgetLoop
     \/ /\ "stage" \in Faults /\ st # stage            \* the callback raises
        /\ Leave("raised") /\ ForgetLoop /\ UNCHANGED <<stage, absentFor>>
  /\ UNCHANGED <<timeout, cancelled, children, marks, lease, workspace, threads, flags>>

PollStopped ==
  /\ pc = "poll" /\ engine = "running" /\ InTime
  /\ cancelled /\ Leave("cancelled") /\ ForgetLoop
  /\ UNCHANGED <<timeout, cancelled, stage, children, marks, lease, workspace, threads,
                 absentFor, flags>>

(* The engine has exited or the duration is over; the code then looks again. *)
LeaveLoop ==
  /\ pc = "poll" /\ (engine # "running" \/ TimeUp)
  /\ Stay("after") /\ ForgetLoop
  /\ UNCHANGED <<timeout, cancelled, stage, children, marks, lease, workspace, threads,
                 absentFor, flags>>

(* Seeded fault: a duration that ends before the stream does not fail. *)
AfterLoop_AlwaysTimeout ==
  /\ pc = "after"
  /\ IF engine = "running" THEN Leave("timeout") ELSE Stay("collect")
  /\ UNCHANGED <<timeout, cancelled, stage, children, marks, lease, workspace, threads, poll, flags>>

AfterLoop ==
  /\ pc = "after"
  /\ IF engine = "running"
       THEN Leave(IF streaming THEN "timeout" ELSE "failed")
       ELSE Stay("collect")
  /\ UNCHANGED <<timeout, cancelled, stage, children, marks, lease, workspace, threads, poll, flags>>

(* BoundedOutputCollector.stop: the thread ends once its pipe is quiet, or   *)
(* is still alive after a second, which raises.                              *)
StopCollector(fine) ==
  \/ collector' = (IF collector = "none" THEN "none" ELSE "ended") /\ fine
  \/ /\ "collector" \in Faults /\ collector = "running" /\ UNCHANGED collector
     /\ out' = "raised" /\ pc' = IF pc = "collect" THEN "sampler" ELSE "done"

Collect ==
  /\ pc = "collect"
  /\ StopCollector(Leave(IF engine = "ended" THEN "completed" ELSE "failed"))
  /\ UNCHANGED <<timeout, cancelled, stage, children, marks, lease, workspace, sampler, poll, flags>>

-----------------------------------------------------------------------------
(* The finally clause.  An exception here replaces the result and skips the *)
(* steps that follow.                                                       *)

(* TelemetrySampler.stop, before and, if the thread was busy, after the      *)
(* engine is terminated.                                                     *)
StopSampler ==
  /\ \/ pc = "sampler" /\ Stay("terminate")
     \/ pc = "resample" /\ Stay("unlease")
  /\ \/ /\ sampler' = (IF sampler = "none" THEN "none" ELSE "ended")
        /\ sampler_stopped' = TRUE
     \/ /\ "sampler" \in Faults /\ sampler = "running"
        /\ sampler_stopped' = FALSE /\ UNCHANGED sampler
  /\ UNCHANGED <<timeout, cancelled, stage, children, marks, lease, workspace, collector, poll,
                 ready, confirmed, acked>>

(* Seeded fault: the wait after SIGTERM has no deadline. *)
TerminateEngine_Waits ==
  /\ pc = "terminate" /\ engine # "running" /\ Stay("resample")
  /\ UNCHANGED <<timeout, cancelled, stage, children, marks, lease, workspace, threads, poll, flags>>

(* SIGTERM, ten seconds, SIGKILL, two seconds: then it is left to itself. *)
TerminateEngine ==
  /\ pc = "terminate" /\ Stay("resample")
  /\ \/ engine' = (IF engine = "running" THEN "failed" ELSE engine)
     \/ "unkillable" \in Faults /\ UNCHANGED engine
  /\ UNCHANGED <<timeout, cancelled, stage, helper, announced, guard, marks, lease, workspace, threads, poll, flags>>

StopLease ==
  /\ pc = "unlease" /\ Stay("stop")
  /\ lease' = (IF lease = "none" THEN "none" ELSE "stopped")
  /\ UNCHANGED <<timeout, cancelled, stage, children, marks, workspace, threads, poll, flags>>

(* _write_private_marker, which fails once the directory is gone. *)
WriteMarker(name) ==
  \/ guard \notin {"none", "gone"} /\ marks' = marks \cup {name}
  \/ (guard \in {"none", "gone"} \/ "marker" \in Faults) /\ UNCHANGED marks

(* The helper is then waited for, killed where that is permitted, and left.  *)
StopGuard ==
  /\ pc = "stop" /\ Stay("drain")
  /\ IF helper = "none" THEN UNCHANGED marks ELSE WriteMarker("stop")
  /\ UNCHANGED <<timeout, cancelled, stage, children, lease, workspace, threads, poll, flags>>

(* The two drains; that of the standard error follows the confirmation, and  *)
(* what it skips is a subset of what this one skips.                         *)
StopDrain ==
  /\ pc = "drain"
  /\ \/ Stay(IF ready THEN "await" ELSE "collector")
     \/ "drain" \in Faults /\ helper # "none" /\ out' = "raised" /\ pc' = "done"
  /\ UNCHANGED <<timeout, cancelled, stage, children, marks, lease, workspace, threads, poll, flags>>

(* Seeded fault: any acknowledged status counts as cleaned. *)
WaitCleanupStatus_AnyTerminal ==
  /\ pc = "await"
  /\ \/ /\ guard \in {"error", "cleaned"}
        /\ WriteMarker("ack")
        /\ confirmed' = ("ack" \in marks')
        /\ acked' = IF "ack" \in marks' THEN guard ELSE acked
     \/ confirmed' = FALSE /\ UNCHANGED <<marks, acked>>
  /\ Stay("collector")
  /\ UNCHANGED <<timeout, cancelled, stage, children, ready, lease, workspace, threads, sampler_stopped, poll>>

(* _wait_cleanup_status: a terminal status is acknowledged; the deadline and *)
(* an unsafe status give up.                                                 *)
WaitCleanupStatus ==
  /\ pc = "await"
  /\ \/ /\ guard \in {"error", "cleaned"}
        /\ WriteMarker("ack")
        /\ confirmed' = ("ack" \in marks' /\ guard = "cleaned")
        /\ acked' = IF "ack" \in marks' THEN guard ELSE acked
     \/ confirmed' = FALSE /\ UNCHANGED <<marks, acked>>
  /\ \/ Stay("collector")
     \/ "drain" \in Faults /\ out' = "raised" /\ pc' = "done"
  /\ UNCHANGED <<timeout, cancelled, stage, children, ready, lease, workspace, threads, sampler_stopped, poll>>

FinalCollector ==
  /\ pc = "collector"
  /\ StopCollector(Stay("close"))
  /\ UNCHANGED <<timeout, cancelled, stage, children, marks, lease, workspace, sampler, poll, flags>>

(* Seeded fault: the descriptors are closed whatever the sampler does. *)
CloseWorkspace_Always ==
  /\ pc = "close" /\ Stay("end")
  /\ workspace' = IF workspace = "open" THEN "closed" ELSE workspace
  /\ UNCHANGED <<timeout, cancelled, stage, children, marks, lease, threads, poll, flags>>

(* TelemetryWorkspace.close, then cleanup_live_telemetry. *)
CloseWorkspace ==
  /\ pc = "close" /\ Stay("end")
  /\ workspace' = IF workspace = "open" /\ sampler_stopped THEN "closed" ELSE workspace
  /\ UNCHANGED <<timeout, cancelled, stage, children, marks, lease, threads, poll, flags>>

End ==
  /\ pc = "end" /\ pc' = "done"
  /\ out' = IF ready /\ ~confirmed THEN "raised" ELSE out
  /\ UNCHANGED <<timeout, cancelled, stage, children, marks, lease, workspace, threads, poll, flags>>
-----------------------------------------------------------------------------
(* Everything else: the user, the engine, the threads and the root helpers. *)

RequestStop ==
  /\ ~cancelled /\ cancelled' = TRUE
  /\ UNCHANGED <<timeout, pc, stage, out, children, marks, lease, workspace, threads, poll, flags>>

EngineExits ==
  /\ engine = "running" /\ engine' \in {"ended", "failed"}
  /\ UNCHANGED <<timeout, pc, cancelled, stage, out, helper, announced, guard, marks, lease, workspace, threads, poll, flags>>

(* The pipe of an exited engine ends; a sampler told to stop finishes late. *)
ThreadEnds ==
  /\ \/ collector = "running" /\ engine # "running" /\ collector' = "ended" /\ UNCHANGED sampler
     \/ sampler = "running" /\ ~sampler_stopped /\ sampler' = "ended" /\ UNCHANGED collector
  /\ UNCHANGED <<timeout, pc, cancelled, stage, out, children, marks, lease, workspace, poll, flags>>

(* The phases of status.json, by the guard or by recovery, until the session *)
(* directory is removed.                                                     *)
GuardPublishes ==
  /\ \/ guard = "none" /\ helper = "started" /\ guard' \in {"ready", "error"}
     \/ guard = "ready" /\ guard' \in {"active", "error", "cleaned"}
     \/ guard = "active" /\ guard' \in {"error", "cleaned"}
     \/ guard = "error" /\ guard' \in {"cleaned", "gone"}
     \/ guard = "cleaned" /\ guard' \in {"error", "gone"}
  /\ announced' = (announced \/ guard' = "ready")
  /\ UNCHANGED <<timeout, pc, cancelled, stage, out, helper, engine, marks, lease, workspace, threads, poll, flags>>

-----------------------------------------------------------------------------
MainStep ==
  \/ Spawn \/ ReadReady \/ StartLease \/ PrepareTelemetry \/ StageConnecting
  \/ StartEngine \/ StartThreads \/ PollStopped \/ LeaveLoop \/ AfterLoop \/ Collect
  \/ \E t \in now..now + MaxStep, rtsp \in RtspLooks, frames \in FrameLooks,
        present \in GroupLooks :
        t <= MaxTime /\ Round(t, rtsp, frames, present)
  \/ StopSampler \/ TerminateEngine \/ StopLease \/ StopGuard
  \/ StopDrain \/ WaitCleanupStatus \/ FinalCollector \/ CloseWorkspace \/ End

Next ==
  \/ MainStep \/ RequestStop \/ EngineExits \/ ThreadEnds
  \/ GuardPublishes

Spec == Init /\ [][Next]_vars

(* The main thread keeps going: each of its waits has a deadline, and while  *)
(* a stop is requested no further round begins.  Nothing else is fair.       *)
FairSpec == Spec /\ WF_vars(MainStep)

-----------------------------------------------------------------------------
(* Properties *)

(* A cast that does not stream yet is given up in time, whenever the socket  *)
(* appears and however slow the rounds are: the two deadlines of the loop    *)
(* add up and none restarts.                                                 *)
StartupBounded ==
  pc = "poll" /\ ~streaming => now < Connect + Capture + MaxStep

(* "receiver disconnected" is said only after the group was there, and every *)
(* look at it during at least the grace period proved it absent.             *)
LossProved ==
  out = "disconnected" => absentFor >= Grace

(* No thread still uses the telemetry descriptors when they are closed, also *)
(* when it did not stop in time or an exception skipped a step.              *)
NoUseAfterClose ==
  workspace = "closed" => sampler # "running" /\ collector # "running"

(* run returns a result of a session whose guard was ready only when the     *)
(* guard's cleanup has been published and acknowledged; otherwise it raises. *)
ReturnMeansCleaned ==
  pc = "done" /\ ready /\ out # "raised" => acked = "cleaned"

(* A stop, or the end of the engine, ends run, even with an engine that does *)
(* not die, a guard that never answers and threads that do not stop.         *)
RunEnds == cancelled \/ engine \in {"ended", "failed"} ~> pc = "done"

Contract == INSTANCE AdapterContract WITH out <- IF pc = "done" THEN out ELSE "none"

(* run implements what SessionLifecycle assumes of the adapter: stages in    *)
(* order, then one result that fits the stage, or an exception.              *)
ContractKept == Contract!Spec
=============================================================================
