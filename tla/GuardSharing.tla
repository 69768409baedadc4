---------------------------- MODULE GuardSharing ----------------------------
(***************************************************************************)
(* Several guarded sessions, of any users, and the command that reclaims   *)
(* orphaned P2P clients, on one host and one Wi-Fi adapter.  They meet in  *)
(* the flock of /run/omarchy-cast, in the session directories below it, in *)
(* the `p2p-<interface>-*` names, in NetworkManager and in networkd.       *)
(* GuardSession has one session in detail; here a session is what the      *)
(* others can see of it, with the direct backend, which borrows the most.  *)
(***************************************************************************)
EXTENDS Naturals, FiniteSets

CONSTANTS
  Sessions,     \* guarded sessions, each prepared at most once
  Orphans,      \* P2P clients of other programs
  GuardLimit,   \* max_p2p_interfaces of the guard
  ClientLimit,  \* the largest count that the controller accepts
  MaxFaults     \* bound on kills and failing restoration steps

ASSUME SharingAssumption ==
  /\ "reclaim" \notin Sessions /\ "free" \notin Sessions /\ Sessions \cap Orphans = {}
  /\ GuardLimit \in Nat /\ ClientLimit \in Nat /\ MaxFaults \in Nat

VARIABLES
  lock,      \* who holds the flock: a session, "reclaim" or "free"
  g, r,      \* next step of the guard and of the recovery of each session
  lease,     \* the controller of each session, as the heartbeat shows it
  ev,        \* what each session has in /run: its files, and the broker unit
  saved,     \* the networkd state each session recorded
  nm, networkd, ifs, linked,  \* the host: services, P2P clients, connected ones
  c, todo, count,   \* the recover command: next step, candidates, deletions
  prior, late,      \* history: networkd at first; a prepare found another's directory;
  resumed, faults   \* sessions that a helper resumed NetworkManager for; faults

sessions == <<g, r, lease, ev, saved>>
host     == <<nm, networkd, ifs, linked>>
recover  == <<c, todo, count>>
vars     == <<lock, sessions, host, recover, prior, late, resumed, faults>>

Over     == {"idle", "exited", "dead"}
Cleaning == {"own", "remove", "resume", "unmark", "restore", "evidence", "finalize"}
Pcs      == Over \cup Cleaning \cup
              {"arm", "save", "wait", "pause", "baseline", "up", "active", "watch"}

Init ==
  /\ lock = "free" /\ g = [s \in Sessions |-> "idle"] /\ r = g
  /\ lease = [s \in Sessions |-> "none"] /\ ev = [s \in Sessions |-> {}]
  /\ networkd \in BOOLEAN /\ saved = [s \in Sessions |-> FALSE] /\ nm = "running"
  /\ ifs \in SUBSET Orphans /\ linked \in SUBSET ifs
  /\ c = "idle" /\ todo = {} /\ count = 0
  /\ prior = networkd /\ late = FALSE /\ resumed = {} /\ faults = 0

Fault == faults < MaxFaults /\ faults' = faults + 1

-----------------------------------------------------------------------------
(* A session up to its activation *)

Goto(s, label) == g' = [g EXCEPT ![s] = label]
Gain(s, what)  == ev' = [ev EXCEPT ![s] = @ \cup what]

(* acquire_guard_lock: whoever finds the lock taken gives up at once. *)
Flock(holder) == lock = "free" /\ lock' = holder

(* create_session_identity looks only for a directory of its own name. *)
Prepare(s) ==
  /\ g[s] = "idle"
  /\ lease' = [lease EXCEPT ![s] = "held"]
  /\ \/ Flock(s) /\ Goto(s, "arm") /\ Gain(s, {"dir", "token"})
        /\ late' = (late \/ \E t \in Sessions : ev[t] # {})
     \/ lock # "free" /\ Goto(s, "exited") /\ UNCHANGED <<lock, ev, late>>
  /\ UNCHANGED <<r, saved, host, recover, prior, resumed, faults>>

(* Seeded fault: a P2P client that is not connected is no obstacle. *)
Clean_LinkedOnly == linked = {}

(* verify_clean_interface_baseline, before anything is borrowed *)
Clean == ifs = {}

Arm(s) ==
  /\ g[s] = "arm"
  /\ \/ Clean /\ r' = [r EXCEPT ![s] = "watch"] /\ Goto(s, "save")
     \/ Goto(s, "own") /\ UNCHANGED r
  /\ UNCHANGED <<lock, lease, ev, saved, host, recover, prior, late, resumed, faults>>

(* write_privileged_runtime and start_broker *)
Save(s) ==
  /\ g[s] = "save"
  /\ saved' = [saved EXCEPT ![s] = networkd]
  /\ Gain(s, {"networkd", "broker"}) /\ Goto(s, "wait")
  /\ UNCHANGED <<lock, r, lease, host, recover, prior, late, resumed, faults>>

(* The trigger comes while the lease is fresh; otherwise the guard gives up. *)
Wait(s) ==
  /\ g[s] = "wait"
  /\ \/ lease[s] \in {"held", "gone"} /\ Goto(s, "pause")
     \/ lease[s] # "held" /\ Goto(s, "own")
  /\ UNCHANGED <<lock, r, lease, ev, saved, host, recover, prior, late, resumed, faults>>

Pause(s) ==
  /\ g[s] = "pause"
  /\ Gain(s, {"resume"}) /\ nm' = "stopped" /\ Goto(s, "baseline")
  /\ UNCHANGED <<lock, r, lease, saved, networkd, ifs, linked, recover, prior, late, resumed, faults>>

(* The second look, when NetworkManager can no longer create a client. *)
Baseline(s) ==
  /\ g[s] = "baseline"
  /\ \/ Clean /\ Gain(s, {"armed"}) /\ Goto(s, "up")
     \/ ~Clean /\ Goto(s, "own") /\ UNCHANGED ev
  /\ UNCHANGED <<lock, r, lease, saved, host, recover, prior, late, resumed, faults>>

NetworkdUp(s) ==
  /\ g[s] = "up"
  /\ networkd' = TRUE /\ Goto(s, "active")
  /\ UNCHANGED <<lock, r, lease, ev, saved, nm, ifs, linked, recover, prior, late, resumed, faults>>

(* The broker of an armed session forms the group. *)
Form(s) ==
  /\ {"broker", "armed"} \subseteq ev[s] /\ lease[s] = "held" /\ s \notin ifs
  /\ ifs' = ifs \cup {s} /\ linked' = linked \cup {s}
  /\ UNCHANGED <<lock, sessions, nm, networkd, recover, prior, late, resumed, faults>>

Loop(s) ==
  /\ g[s] = "active"
  /\ lease[s] \in {"stopping", "lapsed"} \/ "token" \notin ev[s]
  /\ Goto(s, "own")
  /\ UNCHANGED <<lock, r, lease, ev, saved, host, recover, prior, late, resumed, faults>>

Watch(s) ==
  /\ r[s] = "watch"
  /\ lease[s] = "lapsed" \/ "token" \notin ev[s]
  /\ r' = [r EXCEPT ![s] = "own"]
  /\ UNCHANGED <<lock, g, lease, ev, saved, host, recover, prior, late, resumed, faults>>

-----------------------------------------------------------------------------
(* Restoration, by the guard (w = "guard") or by recovery *)

At(w, s, label) == IF w = "guard" THEN g[s] = label ELSE r[s] = label
Move(w, s, label) ==
  IF w = "guard" THEN Goto(s, label) /\ UNCHANGED r
                 ELSE r' = [r EXCEPT ![s] = label] /\ UNCHANGED g
Lose(s, what) == ev' = [ev EXCEPT ![s] = @ \ what]

(* Without its token a helper restores nothing. *)
Own(w, s) ==
  /\ At(w, s, "own")
  /\ Move(w, s, IF "token" \in ev[s] THEN "remove" ELSE "finalize")
  /\ UNCHANGED <<lock, lease, ev, saved, host, recover, prior, late, resumed, faults>>

(* stop_broker, record_ and remove_session_interfaces: an armed session     *)
(* deletes every client of the adapter, whoever made it.                    *)
Remove(w, s) ==
  /\ At(w, s, "remove")
  /\ Lose(s, {"broker"})
  /\ IF "armed" \in ev[s] THEN ifs' = {} /\ linked' = {} ELSE UNCHANGED <<ifs, linked>>
  /\ Move(w, s, "resume")
  /\ UNCHANGED <<lock, lease, saved, nm, networkd, recover, prior, late, resumed, faults>>

(* resume_network_manager sends SIGCONT while the marker is still there, *)
Resume(w, s) ==
  /\ At(w, s, "resume")
  /\ \/ /\ "resume" \in ev[s] /\ Move(w, s, "unmark")
        /\ nm' = "running" /\ resumed' = resumed \cup {s}
     \/ "resume" \notin ev[s] /\ Move(w, s, "restore") /\ UNCHANGED <<nm, resumed>>
  /\ UNCHANGED <<lock, lease, ev, saved, networkd, ifs, linked, recover, prior, late, faults>>

(* and then removes the marker. *)
Unmark(w, s) ==
  /\ At(w, s, "unmark")
  /\ Lose(s, {"resume"}) /\ Move(w, s, "restore")
  /\ UNCHANGED <<lock, lease, saved, host, recover, prior, late, resumed, faults>>

(* Seeded fault: networkd is stopped, whatever was recorded. *)
Restore_AlwaysStops(w, s) ==
  /\ At(w, s, "restore")
  /\ networkd' = IF "networkd" \in ev[s] THEN FALSE ELSE networkd
  /\ Lose(s, {"networkd"}) /\ Move(w, s, "evidence")
  /\ UNCHANGED <<lock, lease, saved, nm, ifs, linked, recover, prior, late, resumed, faults>>

Restore(w, s) ==
  /\ At(w, s, "restore")
  /\ networkd' = IF "networkd" \in ev[s] THEN saved[s] ELSE networkd
  /\ Lose(s, {"networkd"}) /\ Move(w, s, "evidence")
  /\ UNCHANGED <<lock, lease, saved, nm, ifs, linked, recover, prior, late, resumed, faults>>

(* The token outlives a restoration of which a step failed. *)
Evidence(w, s) ==
  /\ At(w, s, "evidence")
  /\ \/ Lose(s, {"armed", "token"}) /\ UNCHANGED faults
     \/ Lose(s, {"armed"}) /\ Fault
  /\ Move(w, s, "finalize")
  /\ UNCHANGED <<lock, lease, saved, host, recover, prior, late, resumed>>

(* finalize_status removes an empty directory; the lock ends with the guard. *)
Finalize(w, s) ==
  /\ At(w, s, "finalize")
  /\ ev' = [ev EXCEPT ![s] = IF @ = {"dir"} THEN {} ELSE @]
  /\ lock' = IF w = "guard" THEN "free" ELSE lock
  /\ Move(w, s, "exited")
  /\ UNCHANGED <<lease, saved, host, recover, prior, late, resumed, faults>>

Helper(w, s) == Own(w, s) \/ Remove(w, s) \/ Resume(w, s) \/ Unmark(w, s)
                  \/ Restore(w, s) \/ Evidence(w, s) \/ Finalize(w, s)

KillGuard(s) ==
  /\ g[s] \notin Over /\ Goto(s, "dead") /\ lock' = "free" /\ Fault
  /\ UNCHANGED <<r, lease, ev, saved, host, recover, prior, late, resumed>>

KillRecovery(s) ==
  /\ r[s] \notin Over /\ r' = [r EXCEPT ![s] = "dead"] /\ Fault
  /\ UNCHANGED <<lock, g, lease, ev, saved, host, recover, prior, late, resumed>>

(* The controller asks for the end, or goes; a lease it left lapses, though *)
(* not in the moments of setup and activation (GuardSession has that race). *)
Controller(s) ==
  /\ \/ lease[s] = "held" /\ lease' = [lease EXCEPT ![s] = "stopping"]
     \/ lease[s] \in {"held", "stopping"} /\ lease' = [lease EXCEPT ![s] = "gone"]
  /\ UNCHANGED <<lock, g, r, ev, saved, host, recover, prior, late, resumed, faults>>

Lapse(s) ==
  /\ lease[s] = "gone" /\ g[s] \notin {"arm", "save", "pause", "baseline", "up"}
  /\ lease' = [lease EXCEPT ![s] = "lapsed"]
  /\ UNCHANGED <<lock, g, r, ev, saved, host, recover, prior, late, resumed, faults>>

-----------------------------------------------------------------------------
(* The recover command and the guard's reclaim action *)

(* orphan_parent_interfaces: without a child no approval is asked for. *)
Look ==
  /\ c \in {"idle", "ok", "failed"}
  /\ c' = IF ifs = {} THEN "ok" ELSE "ask"
  /\ UNCHANGED <<lock, sessions, host, todo, count, prior, late, resumed, faults>>

(* Seeded fault: reclaim does not look for sessions. *)
NoGuardSession_Unchecked == TRUE

(* verify_no_guard_session *)
NoGuardSession == \A s \in Sessions : ev[s] = {}

(* pkexec, the lock, the list; refused, or too many clients to be safe. *)
Ask ==
  /\ c = "ask"
  /\ \/ /\ Flock("reclaim") /\ c' = "check"
     \/ c' = "failed" /\ UNCHANGED lock
  /\ UNCHANGED <<sessions, host, todo, count, prior, late, resumed, faults>>

GiveUp == c' = "failed" /\ lock' = "free" /\ todo' = {} /\ count' = 0 /\ UNCHANGED <<ifs, linked>>

Check ==
  /\ c = "check"
  /\ \/ /\ NoGuardSession /\ Cardinality(ifs) <= GuardLimit
        /\ todo' = ifs /\ c' = "validate" /\ UNCHANGED <<lock, ifs, linked, count>>
     \/ ~(NoGuardSession /\ Cardinality(ifs) <= GuardLimit) /\ GiveUp
  /\ UNCHANGED <<sessions, nm, networkd, prior, late, resumed, faults>>

(* validate_reclaim_candidate *)
Idle(x) == x \in ifs \ linked

(* All candidates are validated before the first is deleted. *)
Validate ==
  /\ c = "validate"
  /\ \/ (\A x \in todo : Idle(x)) /\ c' = "delete" /\ UNCHANGED <<lock, ifs, linked, todo, count>>
     \/ (\E x \in todo : ~Idle(x)) /\ GiveUp
  /\ UNCHANGED <<sessions, nm, networkd, prior, late, resumed, faults>>

Delete ==
  /\ c = "delete"
  /\ \E x \in todo :
       \/ /\ Idle(x) /\ ifs' = ifs \ {x} /\ todo' = todo \ {x} /\ count' = count + 1
          /\ UNCHANGED <<lock, linked, c>>
       \/ ~Idle(x) /\ GiveUp
  /\ UNCHANGED <<sessions, nm, networkd, prior, late, resumed, faults>>

(* reclaim_orphan_interfaces of the controller checks the count, and only   *)
(* then recovers the session state.                                         *)
Count ==
  /\ c = "delete" /\ todo = {}
  /\ lock' = "free" /\ c' = IF count <= ClientLimit THEN "ok" ELSE "failed"
  /\ count' = 0
  /\ UNCHANGED <<sessions, host, todo, prior, late, resumed, faults>>

(* Other programs, by way of NetworkManager. *)
Others ==
  /\ nm = "running"
  /\ \E x \in Orphans :
       \/ x \notin ifs /\ ifs' = ifs \cup {x} /\ UNCHANGED linked
       \/ x \in ifs /\ UNCHANGED ifs
          /\ linked' = IF x \in linked THEN linked \ {x} ELSE linked \cup {x}
  /\ UNCHANGED <<lock, sessions, nm, networkd, recover, prior, late, resumed, faults>>

GuardStep(s) == Prepare(s) \/ Arm(s) \/ Save(s) \/ Wait(s) \/ Pause(s) \/ Baseline(s)
                  \/ NetworkdUp(s) \/ Loop(s) \/ Helper("guard", s)
RecoveryStep(s) == Watch(s) \/ Helper("recovery", s)
RecoverStep == Look \/ Ask \/ Check \/ Validate \/ Delete \/ Count

Next ==
  \/ \E s \in Sessions : \/ GuardStep(s) \/ RecoveryStep(s) \/ Form(s)
                         \/ KillGuard(s) \/ KillRecovery(s) \/ Controller(s) \/ Lapse(s)
  \/ RecoverStep \/ Others

Spec == Init /\ [][Next]_vars
-----------------------------------------------------------------------------
TypeOK ==
  /\ lock \in Sessions \cup {"free", "reclaim"}
  /\ g \in [Sessions -> Pcs] /\ r \in [Sessions -> Pcs]
  /\ lease \in [Sessions -> {"none", "held", "stopping", "gone", "lapsed"}]
  /\ ev \in [Sessions -> SUBSET {"dir", "token", "networkd", "broker", "resume", "armed"}]
  /\ saved \in [Sessions -> BOOLEAN] /\ networkd \in BOOLEAN
  /\ nm \in {"running", "stopped"}
  /\ ifs \in SUBSET (Orphans \cup Sessions) /\ linked \in SUBSET ifs
  /\ c \in {"idle", "ask", "check", "validate", "delete", "ok", "failed"}
  /\ todo \in SUBSET (Orphans \cup Sessions) /\ count \in Nat
  /\ prior \in BOOLEAN /\ late \in BOOLEAN
  /\ resumed \in SUBSET Sessions /\ faults \in 0..MaxFaults

(* While the reclaim action works no session owns anything: no file below  *)
(* /run/omarchy-cast, no broker, no P2P client, and NetworkManager is not   *)
(* stopped for it.  This needs the flock and verify_no_guard_session both.  *)
ReclaimAlone ==
  c \in {"validate", "delete"} =>
    /\ \A s \in Sessions : ev[s] = {} /\ s \notin ifs
    /\ nm = "running"

(* All sessions have ended and left nothing in /run. *)
AllOver == \A s \in Sessions : g[s] \in Over /\ r[s] \in Over /\ ev[s] = {}

(* Sessions that did not overlap, that is, of which none was prepared while *)
(* another still had its directory, leave the host as the first found it,   *)
(* whoever restored it.                                                     *)
HostRestored ==
  AllOver /\ ~late => nm = "running" /\ networkd = prior /\ ifs \subseteq Orphans

(* packaging/arch/README.md: the exact prior state of the systemd-networkd  *)
(* units is restored on every exit path.                                    *)
ExactRestore == AllOver => networkd = prior

(* Until one of its helpers has sent NetworkManager its SIGCONT, a session  *)
(* deletes no P2P client of another program, though it deletes by prefix:   *)
(* none existed when NetworkManager had been stopped and the adapter        *)
(* checked.  This is as much as the code keeps.  After the SIGCONT, already *)
(* before the marker goes, another program may make a client, and the       *)
(* session's other helper, which repeats the removal while interfaces-armed *)
(* is there, takes it.                                                      *)
GuardSparesOrphans ==
  [][~late /\ c # "delete" /\ (ifs \ ifs') \cap Orphans # {} =>
       \E s \in resumed : "armed" \in ev[s] /\ "remove" \in {g[s], r[s]}]_vars
=============================================================================
