----------------------------- MODULE ScanStream -----------------------------
(***************************************************************************)
(* `omacast scan --stream`: the scanner of the companion engine reports    *)
(* snapshots of the peers to a callback, each changed list of receivers    *)
(* becomes a line for the panel, the final list is a last line if it is    *)
(* news.  SIGTERM raises an exception wherever the controller is.          *)
(***************************************************************************)
EXTENDS Naturals, SequencesExt

CONSTANTS Lists,     \* the lists of receivers a scan can show
          MaxLines,  \* MAX_STREAMED_SCAN_SNAPSHOTS
          MaxScans   \* bound on the snapshots of one scan

None  == "none"    \* no list yet
Error == "error"   \* the line of a failed scan

ASSUME ScanAssumption ==
  MaxLines \in Nat /\ MaxScans \in Nat /\ {None, Error} \cap Lists = {}

VARIABLES
  pc,        \* "scan": in the scanner, "emit", "emitted": in the callback, "stop_find": in the
             \* scanner's finally, "returned", "restore": after it, "unwind": failing, "over"
  list,      \* the list at hand
  previous, last_emitted, emitted_snapshots,
  lines,     \* what the panel has read
  handler,   \* cancel_scan is installed
  exit,      \* exit status, 9 before it is decided
  scans, terms  \* snapshots and signals so far

scanvars == <<pc, list, previous, last_emitted, emitted_snapshots, lines, handler, exit, scans, terms>>

ScanInit ==
  /\ pc = "scan" /\ list = None /\ previous = None /\ last_emitted = None
  /\ emitted_snapshots = 0 /\ lines = <<>> /\ handler = TRUE /\ exit = 9
  /\ scans = 0 /\ terms = 0

(* A ReceiverDiscoveryUnavailable is on its way up. *)
Failed == pc' = "unwind" /\ UNCHANGED <<lines, handler, exit>>

(* The finally clause, then one error line. *)
Unwind ==
  /\ pc = "unwind" /\ pc' = "over" /\ handler' = FALSE /\ exit' = 2
  /\ lines' = Append(lines, Error)
  /\ UNCHANGED <<list, previous, last_emitted, emitted_snapshots, scans, terms>>

(* The scanner calls publish with peers that make the list l, or with peers *)
(* that _receivers_from_peers refuses.                                      *)
Report ==
  /\ pc = "scan" /\ scans < MaxScans /\ scans' = scans + 1
  /\ \/ \E l \in Lists :
          /\ list' = l
          /\ pc' = IF l = previous THEN "scan" ELSE "emit"
          /\ UNCHANGED <<lines, handler, exit>>
     \/ Failed /\ UNCHANGED list
  /\ UNCHANGED <<previous, last_emitted, emitted_snapshots, terms>>

(* Seeded fault: one line too many. *)
Full_OffByOne == emitted_snapshots > MaxLines

Full == emitted_snapshots >= MaxLines

(* cli.publish *)
Emit(next) ==
  IF Full
  THEN Failed /\ UNCHANGED <<emitted_snapshots, last_emitted>>
  ELSE /\ lines' = Append(lines, list) /\ last_emitted' = list
       /\ emitted_snapshots' = emitted_snapshots + 1
       /\ pc' = next /\ UNCHANGED <<handler, exit>>

Publish ==
  /\ pc = "emit" /\ Emit("emitted")
  /\ UNCHANGED <<list, previous, scans, terms>>

(* Seeded fault: the callback's list is not remembered. *)
Remember_Skipped ==
  /\ pc = "emitted" /\ pc' = "scan"
  /\ UNCHANGED <<list, previous, last_emitted, emitted_snapshots, lines, handler, exit, scans, terms>>

Remember ==
  /\ pc = "emitted" /\ pc' = "scan" /\ previous' = list
  /\ UNCHANGED <<list, last_emitted, emitted_snapshots, lines, handler, exit, scans, terms>>

(* The deadline of the scanner, its StopFind, and its answer: a failure or *)
(* peers, which need not be those of its last report.                      *)
StopFind ==
  /\ pc = "scan" /\ pc' = "stop_find"
  /\ UNCHANGED <<list, previous, last_emitted, emitted_snapshots, lines, handler, exit, scans, terms>>

Answer ==
  /\ pc = "stop_find"
  /\ \/ \E l \in Lists : list' = l /\ pc' = "returned" /\ UNCHANGED <<lines, handler, exit>>
     \/ Failed /\ UNCHANGED list
  /\ UNCHANGED <<previous, last_emitted, emitted_snapshots, scans, terms>>

(* Seeded fault: only a scan without any line shows its answer. *)
IsNews_First == last_emitted = None

(* final_receivers != last_emitted *)
IsNews == list # last_emitted

Final ==
  /\ pc = "returned"
  /\ IF IsNews THEN Emit("restore")
     ELSE pc' = "restore" /\ UNCHANGED <<lines, handler, exit, emitted_snapshots, last_emitted>>
  /\ UNCHANGED <<list, previous, scans, terms>>

Restore ==
  /\ pc = "restore" /\ pc' = "over" /\ handler' = FALSE /\ exit' = 0
  /\ UNCHANGED <<list, previous, last_emitted, emitted_snapshots, lines, scans, terms>>

(* Where `except Exception` of watch_receivers or of the companion is around. *)
Watched == {"scan", "emit", "emitted", "stop_find"}

(* cancel_scan: _ScanCancelled is an Exception; watch_receivers turns it into *)
(* a failed scan, the StopFind of the companion swallows it.                  *)
Cancel ==
  /\ handler /\ pc # "over" /\ terms < 2 /\ terms' = terms + 1
  /\ \/ pc \in Watched /\ Failed
     \/ pc = "stop_find" /\ UNCHANGED <<pc, lines, handler, exit>>
     \/ /\ pc \notin Watched
        /\ pc' = "over" /\ handler' = FALSE /\ exit' = 0 /\ UNCHANGED lines
  /\ UNCHANGED <<list, previous, last_emitted, emitted_snapshots, scans>>

ScanNext ==
  Report \/ Publish \/ Remember \/ StopFind \/ Answer \/ Final \/ Restore \/ Unwind \/ Cancel

ScanSpec == ScanInit /\ [][ScanNext]_scanvars
-----------------------------------------------------------------------------
ScanTypeOK ==
  /\ pc \in Watched \cup {"returned", "restore", "unwind", "over"}
  /\ {list, previous, last_emitted} \subseteq Lists \cup {None}
  /\ emitted_snapshots \in 0..MaxLines /\ scans \in 0..MaxScans /\ terms \in 0..2
  /\ ToSet(lines) \subseteq Lists \cup {Error} /\ Len(lines) <= MaxLines + 1
  /\ handler \in BOOLEAN /\ exit \in {0, 2, 9}

(* No list is told twice in a row: callback and final line remember in two  *)
(* variables what was told last (receivers.publish and cli.publish).        *)
NoRepeat == \A i \in 1..(Len(lines) - 1) : lines[i] # lines[i + 1]

(* A scan that was not told to stop and succeeds leaves the panel with the  *)
(* scanner's answer, although reports may differ from it.                   *)
AnswerShown == exit = 0 /\ terms = 0 => Len(lines) > 0 /\ Last(lines) = list

(* The panel reads every change once, at most MaxLines of them and an       *)
(* error, and ends with the answer.                                         *)
ScanTold == ScanTypeOK /\ NoRepeat /\ AnswerShown
=============================================================================
