---------------------------- MODULE HostReadiness ----------------------------
(***************************************************************************)
(* discover_host asks the host's tools for a snapshot, from which the      *)
(* panel takes its readiness, `plan` and `connect` a launch plan, and      *)
(* `recover` the adapters to look at.                                      *)
(* A host is a record: missing, the commands that are not installed;       *)
(* engine and helper, what they answer; devices, the rows of nmcli, each   *)
(* with the answer of iw; monitors and sink, what hyprctl and pactl        *)
(* answer; down, the queries of these three that fail; render, whether     *)
(* there is a render node.                                                 *)
(***************************************************************************)
EXTENDS Naturals, Sequences, FiniteSets

CONSTANTS MaxDevices,     \* MAX_WIFI_DEVICES
          MaxDiagnostics  \* MAX_DIAGNOSTICS

ASSUME DeviceAssumption == MaxDevices \in Nat \ {0} /\ MaxDiagnostics \in Nat

Failed == "failed"
None   == "none"

(* The commands by the two uses that differ: those a plan requires, those  *)
(* the companion package brings, and hyprctl, which is neither.            *)
Commands  == {"fluxcast", "nmcli", "ffmpeg", "pactl", "hyprctl"}
Companion == Commands \ {"hyprctl"}
Planned   == {"fluxcast", "nmcli", "ffmpeg"}

(* Seeded fault: what the limit cuts off goes unnoticed. *)
Complete_Always(rows) == TRUE

(* The Wi-Fi rows, and whether the list is full when row k comes: the names *)
(* before it that are printable are in the list, up to the limit.           *)
WifiRows(rows) == {k \in 1..Len(rows) : rows[k].type # "other"}
Full(rows, k)  == Cardinality({j \in WifiRows(rows) : j < k /\ rows[j].printable}) >= MaxDevices

(* _parse_nmcli_devices: no row comes when the list is full already, and    *)
(* the list has the rows with a printable name that come before it is full. *)
Complete(rows) == \A k \in WifiRows(rows) : ~Full(rows, k)
Devices(rows)  == {k \in WifiRows(rows) : rows[k].printable /\ ~Full(rows, k)}

(* parse_iw_link; a device that iw cannot tell about counts as disconnected. *)
Link(d) == [interface |-> d.name, connected |-> d.link \in {"2 GHz", "5 GHz"},
            frequency |-> IF d.link \in {"2 GHz", "5 GHz"} THEN d.link ELSE None]

(* Seeded fault: an adapter that iw cannot tell about is just disconnected. *)
LinkFailures_Dropped(radio) == {}

LinkFailures(radio) == {d.name : d \in {e \in radio : e.link = Failed}}

(* The failures of the three queries are noted after those of the links, in *)
(* this order, while there is room.                                         *)
QueryOrder == [nmcli |-> 1, hyprctl |-> 2, pactl |-> 3]
Noted(failures, down) ==
  {q \in down : Cardinality(failures) + Cardinality({p \in down : QueryOrder[p] < QueryOrder[q]})
                  < MaxDiagnostics}

(* discover_host; the links in the order of their rows *)
Snapshot(h) ==
  LET rows     == IF "nmcli" \in h.down THEN <<>> ELSE h.devices
      wifi     == {k \in Devices(rows) : rows[k].type = "wifi"}
      failures == LinkFailures({rows[k] : k \in wifi})
  IN  [missing     |-> h.missing,
       helper      |-> h.helper,
       engine      |-> IF "fluxcast" \in h.missing THEN None ELSE h.engine,
       complete    |-> "nmcli" \notin h.down /\ Complete(rows),
       links       |-> [k \in wifi |-> Link(rows[k])],
       monitors    |-> IF "hyprctl" \in h.down THEN {} ELSE h.monitors,
       sink        |-> IF "pactl" \in h.down THEN None ELSE h.sink,
       render      |-> h.render,
       diagnostics |-> failures \cup Noted(failures, h.down)]

(* What the user has to change on the host *)
HostIssues(s) ==
  {c \in {"hyprctl", "Wi-Fi", "display", "audio"} :
     \/ c = "hyprctl" /\ c \in s.missing
     \/ c = "Wi-Fi" /\ \A k \in DOMAIN s.links : ~s.links[k].connected
     \/ c = "display" /\ s.monitors = {}
     \/ c = "audio" /\ s.sink = None}

(* What the companion package is needed for *)
SetupIssues(s) ==
  (s.missing \cap Companion)
    \cup (IF s.engine = "other" THEN {"engine"} ELSE {})
    \cup (IF s.helper # "good" THEN {"helper"} ELSE {})

(* _readiness *)
Ready(s)         == HostIssues(s) \cup SetupIssues(s) = {}
SetupRequired(s) == SetupIssues(s) # {}

(* Seeded fault: a link counts, connected or not. *)
Candidates_All(s) == DOMAIN s.links

Candidates(s) == {k \in DOMAIN s.links : s.links[k].connected}

(* _select_wifi takes the first of the connected links. *)
First(candidates) == CHOOSE k \in candidates : \A j \in candidates : k <= j

(* build_launch_plan, for valid arguments; a monitor is a record with its  *)
(* name and whether it has the focus.                                      *)
CanPlan(s) ==
  Planned \cap s.missing = {} /\ Candidates(s) # {} /\ s.monitors # {} /\ s.sink # None

Plan(s) ==
  LET link == s.links[First(Candidates(s))]
  IN  [interface |-> link.interface,
       frequency |-> IF link.frequency = "2 GHz" THEN "2 GHz" ELSE None,
       monitor   |-> IF \E m \in s.monitors : m.focused
                     THEN CHOOSE m \in s.monitors : m.focused
                     ELSE CHOOSE m \in s.monitors : TRUE,
       encoder   |-> IF s.render THEN "vaapi" ELSE "libx264"]

(* probe_media uses the encoder that a plan would. *)
Probe(s) == IF "ffmpeg" \in s.missing THEN None ELSE IF s.render THEN "vaapi" ELSE "libx264"

(* The adapters that `recover` inspects; none of a cut-off list. *)
Recoverable(s) ==
  IF s.complete THEN {s.links[k].interface : k \in DOMAIN s.links} ELSE {}
-----------------------------------------------------------------------------
(* What the panel calls ready can be planned, on a link that is connected,  *)
(* with the encoder the probe tries: two functions of the same snapshot     *)
(* that were written apart agree.                                           *)
ReadyCanPlan(h) ==
  LET s == Snapshot(h)
  IN  Ready(s) =>
        /\ CanPlan(s) /\ Probe(s) = Plan(s).encoder
        /\ \E k \in DOMAIN s.links : s.links[k].connected /\ s.links[k].interface = Plan(s).interface

(* No query fails silently: readiness is refused, or the failure is of an   *)
(* adapter other than the one a plan uses, and diagnosed.                   *)
FailureShows(h) ==
  LET s == Snapshot(h)
  IN  Ready(s) =>
        /\ h.down = {}
        /\ \A i \in 1..Len(h.devices) :
             h.devices[i].type = "wifi" /\ h.devices[i].link = Failed /\ h.devices[i].printable
               => ~s.complete \/ (h.devices[i].name \in s.diagnostics /\ h.devices[i].name # Plan(s).interface)

(* Recovery looks at every Wi-Fi adapter of the host or says that it could  *)
(* not: the adapter of an interrupted cast is never left out silently.      *)
RecoverySeesAll(h) ==
  LET s == Snapshot(h)
  IN  s.complete => \A i \in 1..Len(h.devices) :
        h.devices[i].type = "wifi" /\ h.devices[i].printable => h.devices[i].name \in Recoverable(s)
=============================================================================
