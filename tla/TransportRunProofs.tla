-------------------------- MODULE TransportRunProofs --------------------------
(***************************************************************************)
(* The properties of TransportRun for all deadlines, durations and faults, *)
(* and the refinement of AdapterContract.                                  *)
(***************************************************************************)
EXTENDS TransportRun, TLAPS

Body    == {"spawn", "ready", "lease", "telemetry", "stage", "engine", "threads",
            "poll", "after", "collect"}
Finally == {"sampler", "terminate", "resample", "unlease", "stop", "drain",
            "await", "collector", "close", "end"}

(* The loop's locals are untouched outside the loop. *)
LocalsFresh ==
  pc # "poll" => now = 0 /\ rtsp_ready_at = Never /\ missing_since = Never /\ ~seen

(* How far the clock may be, given what the loop has seen. *)
Deadlines ==
  pc = "poll" /\ ~streaming =>
    /\ rtsp_ready_at = Never => now < Connect
    /\ rtsp_ready_at # Never => /\ rtsp_ready_at < Connect + MaxStep
                                /\ now < rtsp_ready_at + Capture

(* An open window of absence began after the last look that was none. *)
Window ==
  /\ pc \in Body \ {"after", "collect"} => absentFor <= now
  /\ missing_since # Never => /\ seen /\ missing_since <= now
                              /\ now - missing_since <= absentFor
  /\ LossProved

(* A thread reported as stopped has ended, and close comes after both. *)
ThreadsEnded ==
  /\ pc \in Finally \ {"sampler"} /\ sampler_stopped => sampler # "running"
  /\ pc = "close" => collector # "running"
  /\ workspace = "closed" => pc \in {"end", "done"}
  /\ NoUseAfterClose

(* guard_cleanup_confirmed is true of the guard, and guards the return. *)
Confirmation ==
  /\ confirmed => acked = "cleaned"
  /\ pc = "done" /\ ready /\ out # "raised" => confirmed

(* The result on its way out fits the stage that was reported. *)
StageFits ==
  /\ pc \in {"spawn", "ready", "lease", "telemetry", "stage"} => stage = "none"
  /\ pc \in {"engine", "threads", "poll", "after", "collect"} => stage # "none"
  /\ out \notin {"none", "raised"} => out \in Contract!ResultsIn(stage)

IInv ==
  TypeOK /\ LocalsFresh /\ Deadlines /\ Window /\ ThreadsEnded /\ Confirmation /\ StageFits

(* The initial state satisfies the invariant. *)
LEMMA InitInv == Init => IInv
<1> SUFFICES ASSUME Init PROVE IInv
  OBVIOUS
<1>1. FlagsOK
  BY Zenon DEF Init, FlagsOK
<1> QED
  BY <1>1, TimesAssumption DEF Init, IInv, TypeOK, LocalsFresh, Deadlines, Window, LossProved,
     ThreadsEnded, NoUseAfterClose, Confirmation, StageFits, Contract!ResultsIn, Body,
     Finally, Never, streaming

(* The Boolean variables stay Boolean. *)
LEMMA FlagsStep == FlagsOK /\ [Next]_vars => FlagsOK'
<1> SUFFICES ASSUME FlagsOK, [Next]_vars PROVE FlagsOK'
  OBVIOUS
<1> USE DEF FlagsOK, vars, poll, flags, children
<1>1. CASE ReadReady
  BY <1>1, Zenon DEF ReadReady
<1>2. CASE RequestStop \/ GuardPublishes
  BY <1>2, Zenon DEF RequestStop, GuardPublishes
<1>3. CASE PollStopped \/ LeaveLoop
  BY <1>3, Zenon DEF PollStopped, LeaveLoop, ForgetLoop
<1>4. CASE StopSampler
  BY <1>4, Zenon DEF StopSampler
<1>5. CASE WaitCleanupStatus
  BY <1>5, Zenon DEF WaitCleanupStatus
<1>6. ASSUME NEW t, NEW rtsp, NEW frames, NEW present, Round(t, rtsp, frames, present)
      PROVE  FlagsOK'
  BY <1>6, Zenon DEF Round, Observe, ForgetLoop
<1>7. CASE UNCHANGED <<cancelled, announced, flags, seen>>
  BY <1>7, Zenon
<1> QED
  BY <1>1, <1>2, <1>3, <1>4, <1>5, <1>6, <1>7, Zenon
     DEF Next, MainStep, Spawn, StartLease, PrepareTelemetry, StageConnecting, StartEngine,
         StartThreads, AfterLoop, Collect, TerminateEngine, StopLease, StopGuard, StopDrain,
         FinalCollector, CloseWorkspace, End, EngineExits, ThreadEnds

(* Every step of run, and of what surrounds it, preserves the invariant. *)
LEMMA StepInv == IInv /\ [Next]_vars => IInv'
<1> SUFFICES ASSUME IInv, [Next]_vars PROVE IInv'
  OBVIOUS
<1> USE TimesAssumption
<1> USE DEF IInv, TypeOK, LocalsFresh, Deadlines, Window, LossProved, ThreadsEnded,
     NoUseAfterClose, Confirmation, StageFits, Contract!ResultsIn, Body,
     Finally, Never, streaming, children, threads, poll, flags, Stay, Leave,
     RtspLooks, FrameLooks, GroupLooks
<1>0. FlagsOK'
  BY FlagsStep
<1>1. CASE Spawn
  BY <1>0, <1>1 DEF Spawn
<1>2. CASE ReadReady
  BY <1>0, <1>2 DEF ReadReady
<1>3. CASE StartLease
  BY <1>0, <1>3 DEF StartLease
<1>4. CASE PrepareTelemetry
  BY <1>0, <1>4 DEF PrepareTelemetry
<1>5. CASE StageConnecting
  BY <1>0, <1>5 DEF StageConnecting
<1>6. CASE StartEngine
  BY <1>0, <1>6 DEF StartEngine
<1>7. CASE StartThreads
  BY <1>0, <1>7 DEF StartThreads
<1>8. CASE PollStopped
  BY <1>0, <1>8 DEF PollStopped, ForgetLoop
<1>9. CASE LeaveLoop
  BY <1>0, <1>9 DEF LeaveLoop, ForgetLoop
<1>10. CASE AfterLoop
  BY <1>0, <1>10 DEF AfterLoop
<1>11. CASE Collect
  BY <1>0, <1>11 DEF Collect, StopCollector
<1>13. CASE StopSampler
  BY <1>0, <1>13 DEF StopSampler
<1>14. CASE TerminateEngine
  BY <1>0, <1>14 DEF TerminateEngine
<1>15. CASE StopLease
  BY <1>0, <1>15 DEF StopLease
<1>16. CASE StopGuard
  <2>1. marks' \subseteq {"stop", "ack"}
    BY <1>16 DEF StopGuard, WriteMarker
  <2> QED
    BY <1>0, <1>16, <2>1 DEF StopGuard, WriteMarker
<1>17. CASE StopDrain
  BY <1>0, <1>17 DEF StopDrain
<1>18. CASE WaitCleanupStatus
  <2>1. marks' \subseteq {"stop", "ack"} /\ marks \subseteq marks'
    BY <1>18 DEF WaitCleanupStatus, WriteMarker
  <2>2. Confirmation'
    BY <1>18 DEF WaitCleanupStatus, WriteMarker
  <2>3. TypeOK' /\ LocalsFresh' /\ Deadlines' /\ Window' /\ ThreadsEnded' /\ StageFits'
    BY <1>0, <1>18, <2>1 DEF WaitCleanupStatus
  <2> QED
    BY <2>2, <2>3
<1>19. CASE FinalCollector
  BY <1>0, <1>19 DEF FinalCollector, StopCollector
<1>20. CASE CloseWorkspace
  BY <1>0, <1>20 DEF CloseWorkspace
<1>21. CASE End
  BY <1>0, <1>21 DEF End
<1>22. CASE RequestStop
  BY <1>0, <1>22 DEF RequestStop
<1>23. CASE EngineExits
  BY <1>0, <1>23 DEF EngineExits
<1>24. CASE ThreadEnds
  BY <1>0, <1>24 DEF ThreadEnds
<1>25. CASE GuardPublishes
  BY <1>0, <1>25 DEF GuardPublishes
<1>26. CASE UNCHANGED vars
  BY <1>0, <1>26 DEF vars
<1>12. ASSUME NEW t \in now..now + MaxStep, NEW rtsp \in RtspLooks, NEW frames \in FrameLooks,
              NEW present \in GroupLooks, t <= MaxTime,
              Round(t, rtsp, frames, present)
       PROVE  IInv'
  <2>1. TypeOK'
    BY <1>0, <1>12 DEF Round, RtspReadyAt, RoundResult, GroupLost, Observe, ForgetLoop
  <2>2. LocalsFresh'
    BY <1>12 DEF Round, RtspReadyAt, RoundResult, GroupLost, Observe, ForgetLoop
  <2>3. Deadlines'
    BY <1>12 DEF Round, RtspReadyAt, RoundResult, GroupLost, Observe, ForgetLoop
  <2>4. Window'
    <3>1. CASE seen /\ present = "no"
      <4>2. (pc' = "poll" => absentFor' = absentFor + (t - now) /\ now' = t) /\ pc' \in {"poll", "sampler"}
        BY <1>12, <3>1 DEF Round
      <4>3. LossProved'
        BY <1>12, <3>1 DEF Round, RoundResult, GroupLost
      <4>4. missing_since' # Never => pc' = "poll" /\ seen' /\ missing_since' \in {t, missing_since}
        BY <1>12, <3>1 DEF Round, Observe, ForgetLoop
      <4>5. now \in Nat /\ t \in Nat /\ now <= t /\ absentFor \in Nat /\ absentFor <= now
        BY <1>12 DEF Round
      <4>6. pc' \in Body \ {"after", "collect"} => absentFor' <= now'
        BY <4>2, <4>5
      <4>7. ASSUME missing_since' # Never
            PROVE  seen' /\ missing_since' <= now' /\ now' - missing_since' <= absentFor'
        <5>1. CASE missing_since' = t
          BY <4>2, <4>4, <4>5, <4>7, <5>1
        <5>2. CASE missing_since' = missing_since
          <6>1. missing_since \in Nat /\ missing_since <= now /\ now - missing_since <= absentFor
            BY <4>7, <5>2
          <6> QED
            BY <4>2, <4>4, <4>5, <4>7, <5>2, <6>1
        <5> QED
          BY <4>4, <4>7, <5>1, <5>2
      <4> QED
        BY <4>3, <4>6, <4>7
    <3>2. CASE ~(seen /\ present = "no")
      BY <1>12, <3>2 DEF Round, RoundResult, GroupLost, Observe, ForgetLoop
    <3> QED
      BY <3>1, <3>2
  <2>5. ThreadsEnded' /\ Confirmation'
    BY <1>12 DEF Round, RtspReadyAt, RoundResult, GroupLost, Observe, ForgetLoop
  <2>6. StageFits'
    BY <1>12 DEF Round, RtspReadyAt, RoundResult, GroupLost, Observe, ForgetLoop
  <2> QED
    BY <2>1, <2>2, <2>3, <2>4, <2>5, <2>6
<1> HIDE DEF IInv
<1> QED
  BY <1>1, <1>2, <1>3, <1>4, <1>5, <1>6, <1>7, <1>8, <1>9, <1>10, <1>11, <1>12, <1>13,
     <1>14, <1>15, <1>16, <1>17, <1>18, <1>19, <1>20, <1>21, <1>22, <1>23, <1>24, <1>25,
     <1>26 DEF Next, MainStep

(* The invariant holds in every reachable state. *)
LEMMA Invariance == Spec => []IInv
  BY InitInv, StepInv, PTL DEF Spec

(* The types of run's locals, its children and its threads, and that the     *)
(* finally clause is entered exactly with a result or an exception.          *)
THEOREM RunTypes == Spec => []TypeOK
<1>1. IInv => TypeOK
  BY DEF IInv
<1> QED
  BY <1>1, Invariance, PTL

(* Whatever the deadlines and however long a round of the poll loop takes,   *)
(* a cast that does not stream is given up.                                  *)
THEOREM StartupGivenUp == Spec => []StartupBounded
<1>1. IInv => StartupBounded
  BY TimesAssumption DEF IInv, TypeOK, Deadlines, StartupBounded, Never
<1> QED
  BY <1>1, Invariance, PTL

(* The group liveness check never reports a loss it has not watched for the  *)
(* whole grace period.                                                       *)
THEOREM DisconnectsProved == Spec => []LossProved
<1>1. IInv => LossProved
  BY DEF IInv, Window
<1> QED
  BY <1>1, Invariance, PTL

(* The descriptors of the telemetry workspace are never closed under a       *)
(* sampler or collector thread that still runs.                              *)
THEOREM WorkspaceSafe == Spec => []NoUseAfterClose
<1>1. IInv => NoUseAfterClose
  BY DEF IInv, ThreadsEnded
<1> QED
  BY <1>1, Invariance, PTL

(* A result for a session whose guard was ready implies a cleanup that the   *)
(* guard has published and the adapter has acknowledged.                     *)
THEOREM ReturnsAreClean == Spec => []ReturnMeansCleaned
<1>1. IInv => ReturnMeansCleaned
  BY DEF IInv, Confirmation, ReturnMeansCleaned
<1> QED
  BY <1>1, Invariance, PTL

(* A step of run is a step, or a stutter, of what the supervisor relies on.  *)
LEMMA StepRefines == IInv /\ [Next]_vars =>
  [Contract!Next]_<<stage, IF pc = "done" THEN out ELSE "none">>
<1> SUFFICES ASSUME IInv, [Next]_vars
             PROVE  [Contract!Next]_<<stage, IF pc = "done" THEN out ELSE "none">>
  OBVIOUS
<1> USE DEF IInv, TypeOK, StageFits, Contract!Next, Contract!Report, Contract!Return,
            Contract!Raise, Stay, Leave
<1>1. CASE StageConnecting
  BY <1>1 DEF StageConnecting
<1>2. ASSUME NEW t, NEW rtsp, NEW frames, NEW present, Round(t, rtsp, frames, present)
      PROVE  [Contract!Next]_<<stage, IF pc = "done" THEN out ELSE "none">>
  BY <1>2 DEF Round
<1>3. CASE StopDrain
  BY <1>3 DEF StopDrain
<1>4. CASE WaitCleanupStatus
  BY <1>4 DEF WaitCleanupStatus
<1>5. CASE FinalCollector
  BY <1>5 DEF FinalCollector, StopCollector
<1>6. CASE End
  BY <1>6 DEF End
<1>7. CASE pc # "done" /\ pc' # "done" /\ UNCHANGED stage
  BY <1>7
<1>8. CASE UNCHANGED <<pc, stage, out>>
  BY <1>8
<1>9. CASE Spawn \/ ReadReady \/ StartLease \/ PrepareTelemetry \/ StartEngine \/ StartThreads
  BY <1>7, <1>9 DEF Spawn, ReadReady, StartLease, PrepareTelemetry, StartEngine, StartThreads
<1>10. CASE PollStopped \/ LeaveLoop \/ AfterLoop \/ Collect
  BY <1>7, <1>10 DEF PollStopped, LeaveLoop, AfterLoop, Collect, StopCollector
<1>11. CASE StopSampler \/ TerminateEngine \/ StopLease \/ StopGuard \/ CloseWorkspace
  BY <1>7, <1>11 DEF StopSampler, TerminateEngine, StopLease, StopGuard, CloseWorkspace
<1>12. CASE RequestStop \/ EngineExits \/ ThreadEnds \/ GuardPublishes \/ UNCHANGED vars
  BY <1>8, <1>12 DEF RequestStop, EngineExits, ThreadEnds, GuardPublishes, vars
<1> HIDE DEF IInv
<1> QED
  BY <1>1, <1>2, <1>3, <1>4, <1>5, <1>6, <1>9, <1>10, <1>11, <1>12 DEF Next, MainStep

(* run implements AdapterContract: stages in order, each once, then one      *)
(* result that fits the stage, or an exception.                              *)
THEOREM RunImplementsContract == Spec => ContractKept
<1>1. Init => Contract!Init
  BY DEF Init, Contract!Init
<1> QED
  BY <1>1, Invariance, StepRefines, PTL DEF Spec, ContractKept, Contract!Spec
=============================================================================
