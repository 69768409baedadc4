--------------------------- MODULE MCControllerIO ---------------------------
(***************************************************************************)
(* The bounded readers of the controller, one at a time: a command, the    *)
(* engine's output, a streamed scan, the telemetry sampler.                *)
(***************************************************************************)
EXTENDS BoundedCommand, OutputCollector, ScanStream, TelemetrySampler

VARIABLE scenario

vars == <<scenario, cmdvars, colvars, scanvars, samvars>>

Init ==
  /\ scenario \in {"command", "output", "scan", "health", "archive"}
  /\ CmdInit /\ ColInit /\ ScanInit /\ SamInit
  /\ scenario # "health" => ~orphan

Command == scenario = "command" /\ CmdNext /\ UNCHANGED <<scenario, colvars, scanvars, samvars>>
Collect == scenario = "output" /\ ColNext /\ UNCHANGED <<scenario, cmdvars, scanvars, samvars>>
Scan    == scenario = "scan" /\ ScanNext /\ UNCHANGED <<scenario, cmdvars, colvars, samvars>>

(* The verdict does not look at the archive, nor the archive at the link:   *)
(* the sampler is checked once without failing writes, once without a link. *)
Health  == scenario = "health" /\ SamNext /\ lost' = 0
           /\ UNCHANGED <<scenario, cmdvars, colvars, scanvars>>
Archive == scenario = "archive" /\ SamNext /\ ~own'
           /\ UNCHANGED <<scenario, cmdvars, colvars, scanvars>>

Next == Command \/ Collect \/ Scan \/ Health \/ Archive

(* The controller runs, and time passes; processes owe nothing. *)
Fairness ==
  /\ WF_cmdvars(scenario = "command" /\ CmdStep)
  /\ WF_cmdvars(scenario = "command" /\ Expire)

Spec == Init /\ [][Next]_vars /\ Fairness
-----------------------------------------------------------------------------
(* run_command returns, whatever the child and its helper do with the pipes *)
(* and however long they live.                                              *)
CommandEnds == scenario = "command" => <>(at = "done")
=============================================================================
