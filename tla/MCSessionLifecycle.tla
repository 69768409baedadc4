------------------------- MODULE MCSessionLifecycle -------------------------
(* Instances of SessionLifecycle for TLC. *)
EXTENDS SessionLifecycle, TLC

CONSTANTS p1, p2, p3

MCProc == {p1, p2, p3}

(* A cast from a terminal in one slot, recover and status in another, the   *)
(* panel in the third, whose start puts a cast of the unit into a free slot. *)
IssuesMixed ==
  (p1 :> {"dry-run"}) @@ (p2 :> {"recover", "status"}) @@ (p3 :> {"stop", "start"})

(* The panel: casts run in the unit only, one start, stop or restore at a time. *)
IssuesPanel ==
  (p1 :> {}) @@ (p2 :> {"recover"}) @@ (p3 :> {"stop", "start"})
=============================================================================
