---------------------------- MODULE CastContract ----------------------------
(***************************************************************************)
(* What the controller processes promise together about casting: there is  *)
(* one document, at most one cast runs or one recovery mends it at a time, *)
(* a cast begins on an idle document with a session id that was never used *)
(* and writes only a document of its own that is not over, unless it does  *)
(* not know that its end was published; and what a dead cast left behind   *)
(* is brought to idle by recovery alone.                                   *)
(***************************************************************************)
EXTENDS CastState

CONSTANT Sessions   \* the session ids that can be issued

VARIABLES
  doc,      \* state.json
  cast,     \* the session that runs, 0 for none
  mending,  \* a recovery has found the document abandoned
  unsure,   \* the cast was told that publishing its end had failed
  spent     \* the session ids that can no longer begin

Init == doc = idle_state /\ cast = 0 /\ ~mending /\ ~unsure /\ spent = {}

(* The supervisor may fail as soon as the first document is there. *)
Begin ==
  /\ cast = 0 /\ ~mending /\ doc = idle_state
  /\ \E s \in Sessions \ spent :
       /\ doc' = [phase |-> "checking", sid |-> s]
       /\ cast' \in {s, 0}
       /\ spent' = spent \cup {s}
  /\ UNCHANGED <<mending, unsure>>

(* A supervisor gives up or dies before it has published anything. *)
Forfeit ==
  /\ UNCHANGED <<doc, cast, mending, unsure>>
  /\ \E s \in Sessions \ spent : spent' = spent \cup {s}

(* The cast publishes its next phase, its end and its failure included. *)
Advance ==
  /\ cast # 0 /\ doc.sid = cast /\ doc.phase # "error"
  /\ \E phase \in PHASES \ {"recovering"} :
       /\ Legal(doc.phase, phase) /\ doc' = transition(doc, phase)
       /\ unsure' => phase = "idle"
  /\ unsure' \in BOOLEAN
  /\ UNCHANGED <<cast, mending, spent>>

(* A cast that is unsure of its end publishes its failure instead... *)
Retract ==
  /\ unsure /\ ~unsure'
  /\ doc' = [phase |-> "error", sid |-> cast]
  /\ UNCHANGED <<cast, mending, spent>>

(* ... or leaves it at that. *)
Accept ==
  /\ unsure /\ ~unsure'
  /\ UNCHANGED <<doc, cast, mending, spent>>

(* The cast ends or dies, whatever it has published. *)
End ==
  /\ cast # 0 /\ cast' = 0 /\ ~unsure'
  /\ UNCHANGED <<doc, mending, spent>>

Attend ==
  /\ cast = 0 /\ ~mending /\ mending' = TRUE
  /\ doc.phase # "idle"
  /\ UNCHANGED <<doc, cast, unsure, spent>>

(* Recovery leaves the abandoned phase; it is done once the document is     *)
(* idle, and gives up when it is told that the write has failed.            *)
Mend ==
  /\ mending
  /\ \E phase \in {"stopping", "recovering", "idle"} :
       /\ Legal(doc.phase, phase) /\ doc' = transition(doc, phase)
       /\ mending' => phase # "idle"
  /\ mending' \in BOOLEAN
  /\ UNCHANGED <<cast, unsure, spent>>

(* Recovery fails or dies; the document stays for the next one. *)
Abandon ==
  /\ mending /\ ~mending'
  /\ UNCHANGED <<doc, cast, unsure, spent>>

Next ==
  \/ Begin \/ Forfeit \/ Advance \/ Retract \/ Accept \/ End
  \/ Attend \/ Mend \/ Abandon

Spec == Init /\ [][Next]_<<doc, cast, mending, unsure, spent>>
=============================================================================
