--------------------------- MODULE SessionHistory ---------------------------
(***************************************************************************)
(* What sessions leave on disk besides the state document: event logs and  *)
(* telemetry archives, of which the newest are retained, and the live      *)
(* telemetry of a running session.  A supervisor and `recover` work under  *)
(* the session lock, the event of a stop request is written without it.    *)
(***************************************************************************)
EXTENDS Naturals, FiniteSets, SequencesExt

CONSTANTS
  MaxLogs,      \* MAX_SESSION_LOGS
  MaxSessions,  \* bound on the sessions started
  MaxFaults     \* bound on kills, failed events and failed removals

ASSUME HistoryAssumption ==
  MaxLogs \in Nat \ {0} /\ MaxSessions \in Nat /\ MaxFaults \in Nat

VARIABLES
  logs,      \* the event logs, by their session, the one written last at the end
  started,   \* the logs that have a session-started event
  archives,  \* the sessions with a telemetry archive
  live,      \* the sessions with live telemetry in the runtime directory
  phase, sid,    \* the state document: "idle", "busy" or "error", and its session
  pc,        \* next step of the holder of the session lock, "free" without one
  target,    \* the session recover works on
  doomed, removed,  \* prune: the logs to remove and the list of removed ones
  stops,     \* the sessions that stop requests have read and not yet logged
  last, faults,  \* sessions and faults so far
  orphaned, uncleared,  \* history: the sessions of which a start removed the log and could
                        \* not remove the archive; those whose clearing failed or was cut off
  late       \* history: a stop wrote to the log of another session

disk == <<logs, started, archives, live>>
vars == <<disk, phase, sid, pc, target, doomed, removed, stops, last, faults,
          orphaned, uncleared, late>>

Ids == 1..MaxSessions

Init ==
  /\ logs = <<>> /\ started = {} /\ archives = {} /\ live = {}
  /\ phase = "idle" /\ sid = 0 /\ pc = "free" /\ target = 0
  /\ doomed = {} /\ removed = {} /\ stops = {}
  /\ last = 0 /\ faults = 0 /\ orphaned = {} /\ uncleared = {} /\ late = FALSE

Fault == faults < MaxFaults /\ faults' = faults + 1

NotCleared(x) == Fault /\ uncleared' = uncleared \cup (live \cap {x})

(* The logs of the others, in their order: a session has one log. *)
Without(s, x) == IF x \in ToSet(s) THEN RemoveAt(s, CHOOSE i \in DOMAIN s : s[i] = x) ELSE s

(* append_event opens the log, creating it, and makes it the newest. *)
Log(x) == logs' = Append(Without(logs, x), x)

Unlink(x) == logs' = Without(logs, x) /\ started' = started \ {x}

-----------------------------------------------------------------------------
(* A cast *)

Begin ==
  /\ pc = "free" /\ phase = "idle" /\ last < MaxSessions
  /\ last' = last + 1 /\ sid' = last + 1 /\ phase' = "busy" /\ pc' = "prune"
  /\ UNCHANGED <<disk, target, doomed, removed, stops, faults, orphaned,
                 uncleared, late>>

(* Seeded fault: the newest logs are removed. *)
Excess_Newest(others) == ToSet(SubSeq(others, MaxLogs, Len(others)))

(* Seeded fault: room is made for the logs that exist only. *)
Excess_NoReserve(others) == ToSet(SubSeq(others, 1, Len(others) - MaxLogs))

(* All but the newest MaxLogs - 1 of the other sessions' logs. *)
Excess(others) == ToSet(SubSeq(others, 1, Len(others) - (MaxLogs - 1)))

(* Seeded fault: the log of the session itself is a candidate. *)
Others_All == logs

(* _event_candidates *)
Others == Without(logs, sid)

Prune ==
  /\ pc = "prune"
  /\ doomed' = Excess(Others) /\ removed' = {}
  /\ pc' = "unlink"
  /\ UNCHANGED <<disk, phase, sid, target, stops, last, faults, orphaned,
                 uncleared, late>>

UnlinkOne ==
  /\ pc = "unlink"
  /\ \E x \in doomed :
       /\ doomed' = doomed \ {x}
       /\ removed' = IF x \in ToSet(logs) THEN removed \cup {x} ELSE removed
       /\ Unlink(x)
  /\ UNCHANGED <<archives, live, phase, sid, pc, target, stops, last, faults,
                 orphaned, uncleared, late>>

Started ==
  /\ pc = "unlink" /\ doomed = {}
  /\ Log(sid) /\ started' = started \cup {sid} /\ pc' = "archives"
  /\ UNCHANGED <<archives, live, phase, sid, target, doomed, removed, stops, last,
                 faults, orphaned, uncleared, late>>

(* Seeded fault: the archives of removed logs stay. *)
RemoveArchives_Skipped ==
  /\ pc = "archives" /\ pc' = "run"
  /\ UNCHANGED <<disk, phase, sid, target, doomed, removed, stops, last,
                 faults, orphaned, uncleared, late>>

(* remove_archived_telemetry reports a failure to nobody. *)
RemoveArchives ==
  /\ pc = "archives" /\ pc' = "run"
  /\ \/ archives' = archives \ removed /\ UNCHANGED <<faults, orphaned>>
     \/ \E kept \in SUBSET removed :
          /\ archives' = archives \ (removed \ kept) /\ Fault
          /\ orphaned' = orphaned \cup kept
  /\ removed' = {}
  /\ UNCHANGED <<logs, started, live, phase, sid, target, doomed, stops, last,
                 uncleared, late>>

(* The workspace of the adapter, and the samples written through it, also   *)
(* by a sampler that the adapter could not stop.                            *)
Sample ==
  /\ pc = "run" \/ (pc = "end" /\ sid \in live)
  /\ live' = live \cup {sid} /\ archives' \in {archives, archives \cup {sid}}
  /\ UNCHANGED <<logs, started, phase, sid, pc, target, doomed, removed, stops, last,
                 faults, orphaned, uncleared, late>>

PhaseEvent ==
  /\ pc = "run" /\ Log(sid)
  /\ UNCHANGED <<started, archives, live, phase, sid, pc, target, doomed, removed, stops,
                 last, faults, orphaned, uncleared, late>>

(* The adapter clears the live telemetry, if its sampler has stopped, and   *)
(* nobody asks whether that succeeded.                                      *)
CleanUp ==
  /\ pc = "run" /\ pc' = "end"
  /\ \/ live' = live \ {sid} /\ UNCHANGED <<faults, uncleared>>
     \/ NotCleared(sid) /\ UNCHANGED live
  /\ UNCHANGED <<logs, started, archives, phase, sid, target, doomed, removed, stops, last,
                 orphaned, late>>

(* Then the document leaves "busy", before the last event. *)
End ==
  /\ pc = "end" /\ pc' = "free"
  /\ \/ phase' = "idle" /\ sid' = 0
     \/ phase' = "error" /\ UNCHANGED sid
  /\ \/ Log(sid) /\ UNCHANGED faults
     \/ Fault /\ UNCHANGED logs
  /\ UNCHANGED <<started, archives, live, target, doomed, removed, stops, last,
                 orphaned, uncleared, late>>

(* A process that is killed, or whose event fails, releases the lock and    *)
(* leaves the document as it is.                                            *)
Abort ==
  /\ pc # "free" /\ pc' = "free"
  /\ IF pc \in {"finish", "clear"} THEN NotCleared(target) ELSE Fault /\ UNCHANGED uncleared
  /\ doomed' = {} /\ removed' = {} /\ orphaned' = orphaned \cup removed
  /\ UNCHANGED <<disk, phase, sid, target, stops, last, late>>

-----------------------------------------------------------------------------
(* recover_stale_session and request_stop *)

Recover ==
  /\ pc = "free" /\ phase # "idle"
  /\ target' = sid /\ pc' = "recover"
  /\ UNCHANGED <<disk, phase, sid, doomed, removed, stops, last, faults,
                 orphaned, uncleared, late>>

RecoveryStarted ==
  /\ pc = "recover" /\ Log(target) /\ pc' = "idle"
  /\ UNCHANGED <<started, archives, live, phase, sid, target, doomed, removed, stops, last,
                 faults, orphaned, uncleared, late>>

WriteIdle ==
  /\ pc = "idle" /\ phase' = "idle" /\ sid' = 0 /\ pc' = "finish"
  /\ UNCHANGED <<disk, target, doomed, removed, stops, last, faults, orphaned,
                 uncleared, late>>

RecoveryFinished ==
  /\ pc = "finish" /\ Log(target) /\ pc' = "clear"
  /\ UNCHANGED <<started, archives, live, phase, sid, target, doomed, removed, stops, last,
                 faults, orphaned, uncleared, late>>

(* Seeded fault: recovery leaves the live telemetry. *)
ClearLive_Skipped ==
  /\ pc = "clear" /\ pc' = "free"
  /\ UNCHANGED <<disk, phase, sid, target, doomed, removed, stops, last,
                 faults, orphaned, uncleared, late>>

(* A failing cleanup_live_telemetry answers False, which nobody reads. *)
ClearLive ==
  /\ pc = "clear" /\ pc' = "free"
  /\ \/ live' = live \ {target} /\ UNCHANGED <<faults, uncleared>>
     \/ NotCleared(target) /\ UNCHANGED live
  /\ UNCHANGED <<logs, started, archives, phase, sid, target, doomed, removed, stops, last,
                 orphaned, late>>

StopRead ==
  /\ phase # "idle" /\ stops' = stops \cup {sid}
  /\ UNCHANGED <<disk, phase, sid, pc, target, doomed, removed, last, faults,
                 orphaned, uncleared, late>>

(* The event of a stop is written when it can be, however late. *)
StopEvent ==
  /\ \E x \in stops :
       /\ stops' = stops \ {x}
       /\ \/ Log(x) /\ late' = (late \/ x # sid)
          \/ UNCHANGED <<logs, late>>
  /\ UNCHANGED <<started, archives, live, phase, sid, pc, target, doomed, removed, last,
                 faults, orphaned, uncleared>>

Next == \/ Begin \/ Prune \/ UnlinkOne \/ Started \/ RemoveArchives \/ Sample \/ PhaseEvent
        \/ CleanUp \/ End \/ Abort
        \/ Recover \/ RecoveryStarted \/ WriteIdle \/ RecoveryFinished \/ ClearLive
        \/ StopRead \/ StopEvent

Spec == Init /\ [][Next]_vars
-----------------------------------------------------------------------------
TypeOK ==
  /\ ToSet(logs) \subseteq Ids /\ IsInjective(logs) /\ started \subseteq ToSet(logs)
  /\ archives \subseteq Ids /\ live \subseteq Ids
  /\ phase \in {"idle", "busy", "error"} /\ sid \in 0..MaxSessions
  /\ (sid = 0) = (phase = "idle")
  /\ pc \in {"free", "prune", "unlink", "archives", "run", "end", "recover", "idle",
             "finish", "clear"}
  /\ target \in 0..MaxSessions /\ doomed \subseteq Ids /\ removed \subseteq Ids
  /\ stops \subseteq Ids /\ last \in 0..MaxSessions
  /\ faults \in 0..MaxFaults /\ orphaned \subseteq Ids /\ uncleared \subseteq Ids
  /\ late \in BOOLEAN

(* No more sessions than MaxLogs are kept, whatever was killed; a log       *)
(* without session-started is one that a late stop or a recovery created.   *)
RetentionHolds == TypeOK /\ Cardinality(started) <= MaxLogs

(* The log of the session that the document names stays, an event that a    *)
(* stop wrote before session-started included.  Of the others the oldest    *)
(* sessions lose their logs, unless a late stop made the log of an old      *)
(* session the newest.                                                      *)
OldestLogsGo ==
  [][/\ \A x \in ToSet(logs) \ ToSet(logs') : x # sid
     /\ ~late => \A x \in started \ started', y \in started' \ doomed : x < y]_vars

(* An archive goes with its log.  The only ones without are those that a    *)
(* start was about to remove when it was killed, or when its event or the   *)
(* removal failed; nothing removes them any more.                           *)
ArchivesFollowLogs ==
  /\ archives \subseteq ToSet(logs) \cup removed \cup orphaned
  /\ faults = 0 => orphaned = {}

(* The session of which a later command finds the live telemetry: the one   *)
(* that the document names or that is being recovered.                      *)
Named == {sid} \cup (IF pc \in {"finish", "clear"} THEN {target} ELSE {})

(* Whatever fails or is killed, and in whatever order: live telemetry that  *)
(* nothing names is that of a session whose clearing failed or was cut off, *)
(* and one fault loses that of one session at most.  So a killed cast       *)
(* leaves none once its recovery has run to the end.                        *)
FaultsLoseOne ==
  /\ live \ Named \subseteq uncleared
  /\ Cardinality(uncleared) <= faults

(* Telemetry outlives what names it, in either directory, only by a fault,  *)
(* and no more of it than that fault interrupted.                           *)
TelemetryNamed == ArchivesFollowLogs /\ FaultsLoseOne
=============================================================================
