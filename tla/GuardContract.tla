--------------------------- MODULE GuardContract ---------------------------
(***************************************************************************)
(* What passes between the controller and the root guard: the fixed        *)
(* arguments of prepare, checked by GuardRequest.validate, by the launcher *)
(* and by the guard's parse_request, and the status documents that guard   *)
(* and recovery publish and the controller validates.                      *)
(* A request is a record with the values of its fields; "good" stands for  *)
(* what the patterns of both sides admit; the peer may be a group address  *)
(* or "zero", the address of six zeros.  user says whether getent finds    *)
(* the uid, caller is PKEXEC_UID.  Numbers are written as str writes them, *)
(* without leading zeros.                                                  *)
(***************************************************************************)
EXTENDS Integers, FiniteSets

(* Seeded fault: the client admits a root or system user. *)
PermittedUid_Any(n) == n <= 2147483647

(* The ranges of GuardRequest.validate *)
PermittedUid(n) == n >= 1000 /\ n <= 2147483647
P2PFrequency(n) == n = 0 \/ n \in 2300..7125
CastDuration(n) == n \in 60..1800

ClientAccepts(r) ==
  /\ r.session = "good" /\ r.interface = "good" /\ r.peer = "unicast"
  /\ PermittedUid(r.uid) /\ P2PFrequency(r.frequency) /\ CastDuration(r.duration)
  /\ r.backend \in {"direct", "networkmanager"}

(* The digits a number is written with; none of the patterns has a sign. *)
Digits(n) == IF n < 0 THEN 0 ELSE 1 + Cardinality({k \in 1..9 : n >= 10 ^ k})

(* The argument's text fits a pattern, the number is in its range; launcher *)
(* and guard have the same functions.                                       *)
valid_uid(n)       == Digits(n) \in 4..10 /\ n <= 2147483647
valid_frequency(n) == Digits(n) \in 1..4 /\ (n = 0 \/ (n >= 2300 /\ n <= 7125))
valid_duration(n)  == Digits(n) \in 2..4 /\ n >= 60 /\ n <= 1800
valid_peer(peer)   == peer \in {"unicast", "group", "zero"}

(* parse_request *)
GuardAccepts(r) ==
  /\ r.session = "good" /\ valid_peer(r.peer)
  /\ valid_frequency(r.frequency) /\ valid_duration(r.duration)
  /\ r.backend \in {"direct", "networkmanager"}
  /\ valid_uid(r.uid) /\ r.interface = "good"
  /\ r.caller = r.uid /\ r.user = "known"

-----------------------------------------------------------------------------
BaseFields == {"schemaVersion", "kind", "ok", "phase", "sessionId", "error"}

(* status of the guard and publish_status of the recovery, which knows no   *)
(* paths.  A document is the record of what a reader can tell apart.        *)
Published(publisher, phase, session) ==
  [fields  |-> BaseFields \cup (IF phase = "ready" THEN {"triggerPath", "brokerPath"} ELSE {}),
   ok      |-> phase # "error", phase |-> phase, session |-> session,
   error   |-> IF phase = "error" THEN publisher ELSE "null",
   trigger |-> IF phase = "ready" THEN session ELSE "none",
   broker  |-> IF phase = "ready" THEN session ELSE "none"]

Publishable == {<<"guard", p>> : p \in {"ready", "active", "cleaned", "error"}}
                 \cup {<<"recovery", p>> : p \in {"cleaned", "error"}}

(* Seeded fault: the fields of a ready status are those of every status. *)
Fields_Same(phase) == BaseFields \cup {"triggerPath", "brokerPath"}

Fields(phase) == BaseFields \cup IF phase = "ready" THEN {"triggerPath", "brokerPath"} ELSE {}

(* validate_helper_result *)
ValidStatus(d) ==
  /\ d.phase \in {"ready", "active", "cleaned", "error"}
  /\ d.fields = Fields(d.phase)
  /\ IF d.phase = "error" THEN ~d.ok /\ d.error # "null" ELSE d.ok /\ d.error = "null"
  /\ d.phase = "ready" => d.trigger = d.session /\ d.broker = d.session

(* read_guard_status, and _read_ready on the guard's output *)
Reads(d, session) == ValidStatus(d) /\ d.session = session
-----------------------------------------------------------------------------
(* Client, launcher and guard, written in two languages, agree: what the    *)
(* client lets through for its own user, who has an account, is not refused *)
(* behind the user's approval; and the guard admits nothing that the client *)
(* would not send but a receiver that is a group address or all zeros,      *)
(* which receiver_address refuses and valid_peer does not.                  *)
SidesAgree(r) ==
  /\ ClientAccepts(r) /\ r.caller = r.uid /\ r.user = "known" => GuardAccepts(r)
  /\ GuardAccepts(r) => ClientAccepts(r) \/ r.peer \in {"group", "zero"}

(* Every status that guard or recovery can publish is understood, by the    *)
(* controller of the session it tells of and by no other: a status that is  *)
(* refused would leave the cleanup unacknowledged.                          *)
StatusUnderstood(pub, session, reader) ==
  Reads(Published(pub[1], pub[2], session), reader) <=> session = reader
=============================================================================
