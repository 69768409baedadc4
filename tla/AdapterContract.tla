--------------------------- MODULE AdapterContract ---------------------------
(***************************************************************************)
(* What adapter.run promises its supervisor: it reports the connecting and *)
(* then the streaming stage, each once, and ends by returning one result   *)
(* or by raising.  These are the three adapter actions of SessionLifecycle *)
(* with the results told apart.                                            *)
(***************************************************************************)
VARIABLES
  stage,     \* the last stage reported to the StageCallback
  out        \* how run ended: a TransportResult, an exception, or not yet

(* A cast that never streamed cannot have lost its receiver or run out of   *)
(* its duration; before an engine runs, only a stop returns.                *)
ResultsIn(s) ==
  {"cancelled"} \cup (IF s = "none" THEN {} ELSE {"completed", "failed"})
                \cup (IF s = "streaming" THEN {"disconnected", "timeout"} ELSE {})

Init == stage = "none" /\ out = "none"

Report ==
  /\ out = "none"
  /\ \/ stage = "none" /\ stage' = "connecting"
     \/ stage = "connecting" /\ stage' = "streaming"
  /\ UNCHANGED out

Return == out = "none" /\ out' \in ResultsIn(stage) /\ UNCHANGED stage

Raise == out = "none" /\ out' = "raised" /\ UNCHANGED stage

Next == Report \/ Return \/ Raise

Spec == Init /\ [][Next]_<<stage, out>>
=============================================================================
