------------------------- MODULE GuardSharingProofs -------------------------
(***************************************************************************)
(* Proofs about GuardSharing, for any number of sessions and clients.      *)
(* SharingInv is the inductive invariant.  ReclaimAlone by itself is not   *)
(* inductive: it needs that the lock is held by the guard that works, that *)
(* what a session borrowed is written down in its directory, and that a    *)
(* recovery never works beside a guard that still borrows.                 *)
(***************************************************************************)
EXTENDS GuardSharing, TLAPS

(* What a session may still acquire, it acquires under the lock. *)
LockHeld ==
  /\ \A s \in Sessions : g[s] \notin Over => lock = s
  /\ c \in {"check", "validate", "delete"} => lock = "reclaim"

(* Nothing is borrowed without a record. *)
Recorded ==
  /\ nm = "stopped" => \E s \in Sessions \ resumed : "resume" \in ev[s]
  /\ \A s \in Sessions : s \in ifs => "armed" \in ev[s]

(* Before its prepare a session has nothing. *)
Unborn == \A s \in Sessions : g[s] = "idle" => r[s] = "idle" /\ ev[s] = {} /\ lease[s] = "none"

Borrowing == {"arm", "save", "pause", "baseline", "up"}

(* A guard that borrows has its token and a lease that has not lapsed. *)
LeaseKept ==
  \A s \in Sessions :
    /\ lease[s] = "lapsed" => g[s] \notin Borrowing
    /\ g[s] \in Borrowing \/ (g[s] = "wait" /\ lease[s] # "lapsed") => "token" \in ev[s]

(* Recovery works only once the lease lapsed or the token is gone. *)
RecoveryLate == \A s \in Sessions : r[s] \in Cleaning => lease[s] = "lapsed" \/ "token" \notin ev[s]

(* A helper that has taken the clients has no broker that forms another. *)
Taken == {"resume", "unmark", "restore", "evidence"}
Removed ==
  \A s \in Sessions :
    g[s] \in Taken \/ r[s] \in Taken => "broker" \notin ev[s] /\ s \notin ifs

(* NetworkManager is resumed for a session after it was stopped for it, and *)
(* before the marker of that goes.                                          *)
ResumedLate ==
  \A s \in Sessions :
    /\ s \in resumed => g[s] \notin {"idle", "arm", "save", "wait", "pause", "baseline", "up"}
    /\ g[s] \in {"idle", "arm", "save", "wait", "pause"} => "resume" \notin ev[s]
    /\ g[s] = "unmark" \/ r[s] = "unmark" => s \in resumed

(* From the check to the last deletion there is no session. *)
NoSession == c \in {"validate", "delete"} => \A s \in Sessions : ev[s] = {}

SharingInv ==
  TypeOK /\ LockHeld /\ Recorded /\ Unborn /\ LeaseKept /\ RecoveryLate /\ Removed
    /\ ResumedLate /\ NoSession

(* It holds at first. *)
LEMMA SharingInit == Init => SharingInv
<1> SUFFICES ASSUME Init PROVE SharingInv
  OBVIOUS
<1> USE SharingAssumption
<1>1. /\ g = [s \in Sessions |-> "idle"] /\ r = [s \in Sessions |-> "idle"]
      /\ lease = [s \in Sessions |-> "none"] /\ ev = [s \in Sessions |-> {}]
      /\ saved = [s \in Sessions |-> FALSE]
  BY DEF Init
<1>2. TypeOK
  <2>1. g \in [Sessions -> Pcs] /\ r \in [Sessions -> Pcs]
    BY <1>1 DEF Pcs, Over
  <2>2. lease \in [Sessions -> {"none", "held", "stopping", "gone", "lapsed"}]
    BY <1>1
  <2>3. ev \in [Sessions -> SUBSET {"dir", "token", "networkd", "broker", "resume", "armed"}]
    BY <1>1
  <2>4. saved \in [Sessions -> BOOLEAN]
    BY <1>1
  <2>5. /\ networkd \in BOOLEAN /\ prior \in BOOLEAN /\ late \in BOOLEAN
        /\ lock = "free" /\ nm = "running" /\ c = "idle"
    BY DEF Init
  <2>6. /\ ifs \in SUBSET (Orphans \cup Sessions) /\ linked \in SUBSET ifs
        /\ todo \in SUBSET (Orphans \cup Sessions) /\ count \in Nat /\ faults \in 0..MaxFaults
        /\ resumed \in SUBSET Sessions
    BY DEF Init
  <2> QED BY <2>1, <2>2, <2>3, <2>4, <2>5, <2>6 DEF TypeOK
<1>3. \A s \in Sessions : s \notin ifs
  BY DEF Init
<1> QED
  BY <1>1, <1>2, <1>3 DEF Init, SharingInv, LockHeld, Recorded, Unborn, LeaseKept, RecoveryLate, Removed,
     ResumedLate, NoSession, Taken, Over, Borrowing, Cleaning

(* It is kept by every step of a session, *)
LEMMA SessionStep ==
  ASSUME SharingInv, NEW s \in Sessions,
         \/ Prepare(s) \/ Arm(s) \/ Save(s) \/ Wait(s) \/ Pause(s) \/ Baseline(s) \/ NetworkdUp(s)
         \/ Loop(s) \/ Form(s) \/ Watch(s) \/ KillGuard(s) \/ KillRecovery(s) \/ Controller(s) \/ Lapse(s)
  PROVE  SharingInv'
<1> USE SharingAssumption DEF SharingInv, TypeOK, LockHeld, Recorded, Unborn, LeaseKept, RecoveryLate, Removed,
        ResumedLate, NoSession, Taken, Over, Pcs, Borrowing, Cleaning, sessions, host, recover
<1>1. CASE Prepare(s)
  <2> USE <1>1 DEF Prepare, Goto, Gain
  <2>1. CASE lock # "free" /\ g' = [g EXCEPT ![s] = "exited"] /\ UNCHANGED <<lock, ev, late>>
    BY <2>1
  <2>2. CASE Flock(s) /\ g' = [g EXCEPT ![s] = "arm"] /\ ev' = [ev EXCEPT ![s] = @ \cup {"dir", "token"}]
             /\ late' = (late \/ \E t \in Sessions : ev[t] # {})
    <3>1. late' \in BOOLEAN
      BY <2>2
    <3>2. lock = "free" /\ lock' = s
      BY <2>2 DEF Flock
    <3>3. TypeOK'
      BY <2>2, <3>1, <3>2
    <3> QED BY <2>2, <3>2, <3>3
  <2> QED BY <2>1, <2>2
<1>2. CASE Arm(s)
  BY <1>2 DEF Arm, Goto, Clean
<1>3. CASE Save(s)
  BY <1>3 DEF Save, Gain, Goto
<1>4. CASE Wait(s)
  BY <1>4 DEF Wait, Goto
<1>5. CASE Pause(s)
  BY <1>5 DEF Pause, Gain, Goto
<1>6. CASE Baseline(s)
  BY <1>6 DEF Baseline, Gain, Goto
<1>7. CASE NetworkdUp(s)
  BY <1>7 DEF NetworkdUp, Goto
<1>8. CASE Loop(s)
  BY <1>8 DEF Loop, Goto
<1>9. CASE Form(s)
  BY <1>9 DEF Form
<1>10. CASE Watch(s)
  BY <1>10 DEF Watch
<1>11. CASE KillGuard(s)
  BY <1>11 DEF KillGuard, Goto, Fault
<1>12. CASE KillRecovery(s)
  BY <1>12 DEF KillRecovery, Fault
<1>13. CASE Controller(s)
  BY <1>13 DEF Controller
<1>14. CASE Lapse(s)
  BY <1>14 DEF Lapse
<1> QED
  BY <1>1, <1>2, <1>3, <1>4, <1>5, <1>6, <1>7, <1>8, <1>9, <1>10, <1>11, <1>12, <1>13, <1>14

(* by every step of a helper that restores, *)
LEMMA HelperStep ==
  ASSUME SharingInv, NEW s \in Sessions, NEW w \in {"guard", "recovery"}, Helper(w, s)
  PROVE  SharingInv'
<1> USE SharingAssumption DEF SharingInv, TypeOK, LockHeld, Recorded, Unborn, LeaseKept, RecoveryLate, Removed,
        ResumedLate, NoSession, Taken, Over, Pcs, Borrowing, Cleaning, sessions, host, recover, At, Move, Goto
<1>1. CASE Own(w, s)
  BY <1>1 DEF Own
<1>2. CASE Remove(w, s)
  BY <1>2 DEF Remove, Lose
<1>3. CASE Resume(w, s)
  BY <1>3 DEF Resume, Lose
<1>4. CASE Unmark(w, s)
  BY <1>4 DEF Unmark, Lose
<1>5. CASE Restore(w, s)
  BY <1>5 DEF Restore, Lose
<1>6. CASE Evidence(w, s)
  BY <1>6 DEF Evidence, Lose, Fault
<1>7. CASE Finalize(w, s)
  BY <1>7 DEF Finalize
<1> QED
  BY <1>1, <1>2, <1>3, <1>4, <1>5, <1>6, <1>7 DEF Helper

(* and by the recover command and the other programs. *)
LEMMA RecoverKeeps ==
  ASSUME SharingInv, RecoverStep \/ Others
  PROVE  SharingInv'
<1> USE SharingAssumption DEF SharingInv, TypeOK, LockHeld, Recorded, Unborn, LeaseKept, RecoveryLate, Removed,
        ResumedLate, NoSession, Taken, Over, Pcs, Borrowing, Cleaning, sessions, host, recover
<1>1. CASE Look
  BY <1>1 DEF Look
<1>2. CASE Ask
  BY <1>2 DEF Ask, Flock
<1>3. CASE Check
  BY <1>3 DEF Check, GiveUp, NoGuardSession
<1>4. CASE Validate
  BY <1>4 DEF Validate, GiveUp
<1>5. CASE Delete
  BY <1>5 DEF Delete, GiveUp, Idle
<1>6. CASE Count
  BY <1>6 DEF Count
<1>7. CASE Others
  BY <1>7 DEF Others
<1> QED
  BY <1>1, <1>2, <1>3, <1>4, <1>5, <1>6, <1>7 DEF RecoverStep

(* Every step keeps it. *)
LEMMA SharingStep == SharingInv /\ [Next]_vars => SharingInv'
<1> SUFFICES ASSUME SharingInv, [Next]_vars PROVE SharingInv'
  OBVIOUS
<1>1. ASSUME NEW s \in Sessions,
             GuardStep(s) \/ RecoveryStep(s) \/ Form(s) \/ KillGuard(s) \/ KillRecovery(s)
               \/ Controller(s) \/ Lapse(s)
      PROVE  SharingInv'
  <2>1. CASE Helper("guard", s) \/ Helper("recovery", s)
    BY <2>1, HelperStep
  <2>2. CASE ~(Helper("guard", s) \/ Helper("recovery", s))
    BY <1>1, <2>2, SessionStep DEF GuardStep, RecoveryStep
  <2> QED BY <2>1, <2>2
<1>2. CASE RecoverStep \/ Others
  BY <1>2, RecoverKeeps
<1>3. CASE UNCHANGED vars
  BY <1>3 DEF vars, sessions, host, recover, SharingInv, TypeOK, LockHeld, Recorded, Unborn, LeaseKept,
     RecoveryLate, Removed, ResumedLate, NoSession
<1> QED
  BY <1>1, <1>2, <1>3 DEF Next

(* So it always holds. *)
LEMMA SharingAlways == Spec => []SharingInv
<1> QED BY SharingInit, SharingStep, PTL DEF Spec

(* For any number of sessions and orphans: while reclaim validates and      *)
(* deletes there is no session, no client of one, and NetworkManager runs   *)
(* (omarchy-cast-guard:91-133).                                             *)
THEOREM ReclaimIsAlone == Spec => []ReclaimAlone
<1>1. SharingInv => ReclaimAlone
  BY DEF SharingInv, TypeOK, Recorded, NoSession, ReclaimAlone
<1> QED BY <1>1, SharingAlways, PTL

(* The type invariant *)
THEOREM SharingTypes == Spec => []TypeOK
<1>1. SharingInv => TypeOK
  BY DEF SharingInv
<1> QED BY <1>1, SharingAlways, PTL
-----------------------------------------------------------------------------
(***************************************************************************)
(* Sessions that did not overlap.  HostRestored and GuardSparesOrphans say  *)
(* more than SharingInv does: which session a record belongs to, and that   *)
(* what it says is right.  ExactInv is inductive relative to SharingInv.   *)
(***************************************************************************)

(* Without an overlap there is one session at a time, *)
OneSession == ~late => \A s, t \in Sessions : ev[s] # {} /\ ev[t] # {} => s = t

(* what networkd was first is recorded for as long as it may be changed, *)
StateRecorded ==
  /\ \A s \in Sessions :
       /\ g[s] \in {"idle", "arm", "save"} => "networkd" \notin ev[s]
       /\ g[s] \in {"pause", "baseline", "up"} \/ (g[s] = "wait" /\ lease[s] # "lapsed") =>
            "networkd" \in ev[s]
       /\ ~late /\ "networkd" \in ev[s] => saved[s] = prior
  /\ ~late /\ networkd # prior => \E s \in Sessions : "networkd" \in ev[s]

(* and the adapter of an armed session belongs to it until NetworkManager   *)
(* is resumed for it.                                                       *)
AdapterOwn ==
  \A s \in Sessions :
    /\ g[s] \in {"idle", "arm", "save", "wait", "pause", "baseline"} => "armed" \notin ev[s]
    /\ g[s] = "baseline" \/ ("armed" \in ev[s] /\ s \notin resumed) => "resume" \in ev[s]
    /\ ~late /\ "resume" \in ev[s] /\ s \notin resumed => nm = "stopped"
    /\ ~late /\ "armed" \in ev[s] /\ s \notin resumed => ifs \cap Orphans = {}

ExactInv == SharingInv /\ OneSession /\ StateRecorded /\ AdapterOwn

(* It holds at first, when no session has anything. *)
LEMMA ExactInit == Init => ExactInv
<1> SUFFICES ASSUME Init PROVE ExactInv
  OBVIOUS
<1>1. SharingInv
  BY SharingInit
<1>2. /\ \A s \in Sessions : g[s] = "idle" /\ ev[s] = {}
      /\ networkd = prior
  BY DEF Init
<1> QED BY <1>1, <1>2 DEF ExactInv, OneSession, StateRecorded, AdapterOwn

(* A session keeps it, *)
LEMMA SessionExact ==
  ASSUME SharingInv, OneSession, StateRecorded, AdapterOwn, NEW s \in Sessions,
         \/ Prepare(s) \/ Arm(s) \/ Save(s) \/ Wait(s) \/ Pause(s) \/ Baseline(s) \/ NetworkdUp(s)
         \/ Loop(s) \/ Form(s) \/ Watch(s) \/ KillGuard(s) \/ KillRecovery(s) \/ Controller(s) \/ Lapse(s)
  PROVE  OneSession' /\ StateRecorded' /\ AdapterOwn'
<1>0. TypeOK /\ Unborn /\ LeaseKept /\ RecoveryLate /\ ResumedLate
  BY DEF SharingInv
<1> USE <1>0, SharingAssumption DEF TypeOK, Unborn, LeaseKept, RecoveryLate, ResumedLate, OneSession, StateRecorded,
        AdapterOwn, Over, Borrowing, Cleaning, sessions, host, recover, Goto
<1>1. CASE Prepare(s)
  <2> USE <1>1 DEF Prepare
  <2>1. CASE Goto(s, "exited") /\ UNCHANGED <<lock, ev, late>>
    BY <2>1
  <2>2. CASE g' = [g EXCEPT ![s] = "arm"] /\ ev' = [ev EXCEPT ![s] = @ \cup {"dir", "token"}]
             /\ late' = (late \/ \E t \in Sessions : ev[t] # {})
    <3>1. ~late' => ~late /\ \A t \in Sessions : ev[t] = {}
      BY <2>2
    <3>2. \A t \in Sessions : ev'[t] = IF t = s THEN ev[s] \cup {"dir", "token"} ELSE ev[t]
      BY <2>2
    <3> QED BY <2>2, <3>1, <3>2
  <2> QED BY <2>1, <2>2 DEF Gain
<1>2. CASE Arm(s)
  BY <1>2 DEF Arm
<1>3. CASE Save(s)
  BY <1>3 DEF Save, Gain
<1>4. CASE Wait(s)
  BY <1>4 DEF Wait
<1>5. CASE Pause(s)
  BY <1>5 DEF Pause, Gain
<1>6. CASE Baseline(s)
  BY <1>6 DEF Baseline, Gain, Clean
<1>7. CASE NetworkdUp(s)
  BY <1>7, ZenonT(60) DEF NetworkdUp
<1>8. CASE Loop(s)
  BY <1>8 DEF Loop
<1>9. CASE Form(s)
  BY <1>9 DEF Form
<1>10. CASE Watch(s)
  BY <1>10 DEF Watch
<1>11. CASE KillGuard(s)
  BY <1>11 DEF KillGuard
<1>12. CASE KillRecovery(s)
  BY <1>12 DEF KillRecovery
<1>13. CASE Controller(s)
  BY <1>13 DEF Controller
<1>14. CASE Lapse(s)
  BY <1>14 DEF Lapse
<1> QED
  BY <1>1, <1>2, <1>3, <1>4, <1>5, <1>6, <1>7, <1>8, <1>9, <1>10, <1>11, <1>12, <1>13, <1>14

(* so does a helper that restores, *)
LEMMA HelperExact ==
  ASSUME SharingInv, OneSession, StateRecorded, AdapterOwn,
         NEW s \in Sessions, NEW w \in {"guard", "recovery"}, Helper(w, s)
  PROVE  OneSession' /\ StateRecorded' /\ AdapterOwn'
<1>0. TypeOK /\ Unborn /\ LeaseKept /\ RecoveryLate /\ ResumedLate
  BY DEF SharingInv
<1> USE <1>0, SharingAssumption DEF TypeOK, Unborn, LeaseKept, RecoveryLate, ResumedLate, OneSession, StateRecorded,
        AdapterOwn, Over, Borrowing, Cleaning, sessions, host, recover, Goto, At, Move
<1>1. CASE Own(w, s)
  BY <1>1 DEF Own
<1>2. CASE Remove(w, s)
  BY <1>2 DEF Remove, Lose
<1>3. CASE Resume(w, s)
  BY <1>3 DEF Resume, Lose
<1>4. CASE Unmark(w, s)
  BY <1>4 DEF Unmark, Lose
<1>5. CASE Restore(w, s)
  BY <1>5 DEF Restore, Lose
<1>6. CASE Evidence(w, s)
  BY <1>6 DEF Evidence, Lose
<1>7. CASE Finalize(w, s)
  BY <1>7 DEF Finalize
<1> QED
  BY <1>1, <1>2, <1>3, <1>4, <1>5, <1>6, <1>7 DEF Helper

(* and so do the recover command and the other programs. *)
LEMMA RecoverExact ==
  ASSUME SharingInv, OneSession, StateRecorded, AdapterOwn, RecoverStep \/ Others
  PROVE  OneSession' /\ StateRecorded' /\ AdapterOwn'
<1>1. /\ UNCHANGED <<sessions, networkd, prior, late, resumed, nm>>
      /\ ifs' \subseteq ifs \/ nm = "running"
  BY DEF RecoverStep, Look, Ask, Check, Validate, Delete, Count, GiveUp, Others, host
<1> QED
  BY <1>1 DEF OneSession, StateRecorded, AdapterOwn, sessions

(* Every step keeps it. *)
LEMMA ExactStep == ExactInv /\ [Next]_vars => ExactInv'
<1> SUFFICES ASSUME ExactInv, [Next]_vars PROVE ExactInv'
  OBVIOUS
<1> USE DEF ExactInv
<1>0. SharingInv'
  BY SharingStep
<1>1. ASSUME NEW s \in Sessions,
             GuardStep(s) \/ RecoveryStep(s) \/ Form(s) \/ KillGuard(s) \/ KillRecovery(s)
               \/ Controller(s) \/ Lapse(s)
      PROVE  ExactInv'
  <2>1. CASE Helper("guard", s) \/ Helper("recovery", s)
    BY <1>0, <2>1, HelperExact
  <2>2. CASE ~(Helper("guard", s) \/ Helper("recovery", s))
    BY <1>0, <1>1, <2>2, SessionExact DEF GuardStep, RecoveryStep
  <2> QED BY <2>1, <2>2
<1>2. CASE RecoverStep \/ Others
  BY <1>0, <1>2, RecoverExact
<1>3. CASE UNCHANGED vars
  BY <1>0, <1>3 DEF vars, sessions, host, OneSession, StateRecorded, AdapterOwn
<1> QED
  BY <1>1, <1>2, <1>3 DEF Next

(* So it always holds. *)
LEMMA ExactAlways == Spec => []ExactInv
<1> QED BY ExactInit, ExactStep, PTL DEF Spec

(* For any number of sessions that did not overlap: once all have ended and *)
(* left nothing in /run, NetworkManager runs, networkd is as the first of   *)
(* them found it, and no session's P2P client is left                       *)
(* (omarchy-cast-guard:266-309, omarchy-cast-guard-recover:155-199).        *)
THEOREM HostIsRestored == Spec => []HostRestored
<1>1. ExactInv => HostRestored
  BY DEF ExactInv, SharingInv, TypeOK, Recorded, StateRecorded, HostRestored, AllOver
<1> QED BY <1>1, ExactAlways, PTL

(* For any number of sessions that did not overlap: until NetworkManager    *)
(* has been sent the SIGCONT for an armed session (omarchy-cast-guard:84),  *)
(* no step of the session deletes another program's P2P client              *)
(* (omarchy-cast-guard:160-182, omarchy-cast-guard-recover:66-84).  Whoever *)
(* else may delete one is named in the formula: reclaim, and a helper that  *)
(* removes the clients of a session after the SIGCONT.                      *)
THEOREM OrphansAreSpared == Spec => GuardSparesOrphans
<1> DEFINE Spared == ~late /\ c # "delete" /\ (ifs \ ifs') \cap Orphans # {} =>
                       \E s \in resumed : "armed" \in ev[s] /\ "remove" \in {g[s], r[s]}
<1>1. ExactInv /\ [Next]_vars => [Spared]_vars
  <2> SUFFICES ASSUME ExactInv, [Next]_vars PROVE Spared
    OBVIOUS
  <2>1. ASSUME NEW s \in Sessions, NEW w \in {"guard", "recovery"}, Remove(w, s)
        PROVE  Spared
    BY <2>1 DEF Remove, At, ExactInv, AdapterOwn
  <2>2. CASE \A s \in Sessions, w \in {"guard", "recovery"} : ~Remove(w, s)
    <3>1. ifs \subseteq ifs' \/ c = "delete"
      BY <2>2 DEF Next, vars, host, GuardStep, RecoveryStep, Helper, Prepare, Arm, Save, Wait, Pause,
         Baseline, NetworkdUp, Loop, Own, Resume, Unmark, Restore, Evidence, Finalize, Watch, Form, KillGuard,
         KillRecovery, Controller, Lapse, RecoverStep, Look, Ask, Check, Validate, Delete, Count, GiveUp, Others
    <3> QED BY <3>1
  <2> QED BY <2>1, <2>2
<1> QED BY <1>1, ExactAlways, PTL DEF Spec, GuardSparesOrphans
=============================================================================
