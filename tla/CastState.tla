----------------------------- MODULE CastState -----------------------------
(***************************************************************************)
(* The runtime state of the one cast session of a user                     *)
(* (src/src/omarchy_cast/state.py).  A state.json document is abstracted   *)
(* to its phase and its session id; timestamps, the request and the error  *)
(* text never decide anything.  Session ids are positive numbers, 0 stands *)
(* for the JSON null of an idle document.                                  *)
(***************************************************************************)
EXTENDS Naturals

PHASES == {"idle", "checking", "discovering", "preparing", "connecting",
           "streaming", "stopping", "error", "recovering"}

TRANSITIONS ==
  [idle        |-> {"checking", "discovering", "recovering"},
   checking    |-> {"idle", "discovering", "stopping", "error"},
   discovering |-> {"idle", "preparing", "error", "stopping"},
   preparing   |-> {"connecting", "error", "stopping"},
   connecting  |-> {"streaming", "error", "stopping"},
   streaming   |-> {"stopping", "error"},
   stopping    |-> {"idle", "error"},
   error       |-> {"idle", "recovering"},
   recovering  |-> {"idle", "error"}]

idle_state == [phase |-> "idle", sid |-> 0]

(* transition() raises StateError unless Legal. *)
Legal(from, to) == from = to \/ to \in TRANSITIONS[from]

(* Seeded fault: the idle document keeps the id of the finished session. *)
transition_KeepsSession(state, phase) == [state EXCEPT !.phase = phase]

transition(state, phase) ==
  IF phase = "idle" THEN idle_state ELSE [state EXCEPT !.phase = phase]

(* What validate_state demands of a document's phase and session id. *)
validate_state(state) == (state.phase = "idle") <=> (state.sid = 0)
=============================================================================
