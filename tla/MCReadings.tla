----------------------------- MODULE MCReadings -----------------------------
(***************************************************************************)
(* One bounded input at a time for each of the controller's readers: a     *)
(* typed PIN, a host, the peers of a scan, the bytes of a peer, a request  *)
(* and a status of the guard, a progress file, a WFD transcript.           *)
(***************************************************************************)
EXTENDS PairingPin, HostReadiness, ReceiverList, GuardContract, TelemetryReadings, WfdFixture, TLC

CONSTANT Digits3  \* the digits that are typed

VARIABLES reader, input

Init == /\ reader \in {"pin", "host", "peers", "bytes", "request", "status", "progress", "wfd"}
        /\ input = <<>> /\ EntryInit

Reading(r, values) == reader = r /\ input = <<>> /\ input' \in values /\ UNCHANGED <<reader, entry>>

-----------------------------------------------------------------------------
(* A host with up to three devices, at most one of its other answers bad. *)
Row(n) ==
  [name : {n}, type : {"wifi"}, printable : BOOLEAN, link : {"2 GHz", "5 GHz", "off", Failed}]
    \cup [name : {n}, type : {"wifi-p2p", "other"}, printable : {TRUE}, link : {"off"}]
DeviceLists == {<<>>} \cup {<<a>> : a \in Row("w1")} \cup {<<a, b>> : a \in Row("w1"), b \in Row("w2")}
                 \cup {<<a, b, c>> : a \in Row("w1"), b \in Row("w2"), c \in Row("w3")}
Monitors  == {[name |-> "m1", focused |-> f] : f \in BOOLEAN} \cup {[name |-> "m2", focused |-> FALSE]}
GoodHost  == [missing |-> {}, engine |-> "omacast", helper |-> "good", devices |-> <<>>, down |-> {},
              monitors |-> Monitors, sink |-> "sink", render |-> TRUE]
(* A missing command answers no query. *)
Hosts0 == {GoodHost}
  \cup {[GoodHost EXCEPT !.missing = {c}, !.down = {c} \ {"fluxcast", "ffmpeg"}] : c \in Commands}
  \cup {[GoodHost EXCEPT !.down = {q}] : q \in {"nmcli", "hyprctl", "pactl"}}
  \cup {[GoodHost EXCEPT !.engine = "other"], [GoodHost EXCEPT !.helper = "bad"],
        [GoodHost EXCEPT !.render = FALSE], [GoodHost EXCEPT !.sink = None]}
  \cup {[GoodHost EXCEPT !.monitors = m] : m \in {{}, {[name |-> "m2", focused |-> FALSE]}}}
MCHosts == {[h EXCEPT !.devices = d] : h \in Hosts0, d \in DeviceLists}

Sink == <<0, 0, 6, 0, 17, 28, 68, 0, 50>>
Peer == [text : {<<17, 7236, 50>>}, ies : {<<>>}, address : {1, 2, NoAddress}, name : {"fire", "tv", ""}]
          \cup [text : {NoInfo, <<16, 7236, 50>>}, ies : {<<>>}, address : {3}, name : {"tv"}]
          \cup [text : {NoInfo}, ies : {Sink}, address : {3}, name : {"tv", "tab"}]
MCPeers == UNION {[1..n -> Peer] : n \in 0..4}

Element  == [id : {0, 1}, bytes : {<<>>, <<0>>, <<0, 17, 28, 68, 0, 50>>, <<1, 0, 6, 0, 17, 0, 0>>}]
Elements == UNION {[1..n -> Element] : n \in 0..3}
MCBytes  == {<<e, cut>> : e \in Elements, cut \in {1, 4, 9, 12, 30}}

MCRequests == [session : {"good", "bad"}, interface : {"good"}, peer : {"unicast", "group", "zero", "bad"},
               uid : {0, 999, 1000, 2147483647}, caller : {1000, 2147483647, 999}, user : {"known", "unknown"},
               frequency : {-1, 0, 1, 2299, 2300, 7125, 7126}, duration : {0, 59, 60, 1800, 1801},
               backend : {"direct", "networkmanager", "other"}]
MCStatuses == Publishable \X {"s1", "s2"} \X {"s1", "s2"}

(* At each place of a good transcript, any of these messages or none *)
Good(n) == [wellformed |-> TRUE, response |-> n <= 4, ok |-> TRUE, number |-> n, ports |-> TRUE,
            video |-> TRUE, method |-> IF n = 5 THEN "SETUP" ELSE IF n = 6 THEN "PLAY" ELSE ""]
Messages == {Good(n) : n \in 1..6}
              \cup {[Good(2) EXCEPT !.video = FALSE], [Good(2) EXCEPT !.ports = FALSE],
                    [Good(3) EXCEPT !.ok = FALSE], [Good(4) EXCEPT !.wellformed = FALSE]}
Upto(n) == [i \in 1..n |-> Good(i)]

ReadHost     == Reading("host", MCHosts)
ReadPeers    == Reading("peers", MCPeers)
ReadBytes    == Reading("bytes", MCBytes)
ReadRequest  == Reading("request", MCRequests)
ReadStatus   == Reading("status", MCStatuses)
ReadProgress == Reading("progress", {<<n>> : n \in 1..40})
ReadWfd      == /\ reader = "wfd" /\ Len(input) < 7 /\ Result(input) = "timeout"
                /\ \E m \in Messages : input' = Append(input, m)
                /\ UNCHANGED <<reader, entry>>
TypePin      == reader = "pin" /\ (\E d \in Digits3 : Type(d)) /\ UNCHANGED <<reader, input>>

Next == TypePin \/ ReadHost \/ ReadPeers \/ ReadBytes \/ ReadRequest \/ ReadStatus \/ ReadProgress \/ ReadWfd
Spec == Init /\ [][Next]_<<reader, input, entry>>

Read(r) == reader = r /\ input # <<>>
-----------------------------------------------------------------------------
(* The properties of the readers, of the input at hand *)

(* discover_host: what the panel calls ready has a launch plan, no failed   *)
(* query goes unnoticed, and recovery sees every Wi-Fi adapter or knows     *)
(* that its list is not complete.                                           *)
HostTold ==
  Read("host") => ReadyCanPlan(input) /\ FailureShows(input) /\ RecoverySeesAll(input)

(* _wfd_device_info, the engine's parser of the same bytes and              *)
(* _receivers_from_peers: of the bytes of a peer the first element 0 that   *)
(* is long enough for the one or the other is read, and the engine's text   *)
(* agrees with the bytes where those tell something; every sink is listed,  *)
(* once, and nothing else; the order of the scan does not show in the list. *)
ReceiversTold ==
  /\ Read("bytes") => InfoIsMeant(input[1], input[2])
  /\ Read("peers") => ListingComplete(input) /\ OrderIrrelevant(input)

(* GuardRequest.validate and parse_request of the guard admit the same,     *)
(* group addresses and the address of zeros aside, and                      *)
(* validate_helper_result understands every status that is published.       *)
ContractAgrees ==
  /\ Read("request") => SidesAgree(input)
  /\ Read("status") => StatusUnderstood(input[1], input[2], input[3])

(* parse_ffmpeg_progress behind _bounded_read: the newest whole record. *)
RecordsWhole == Read("progress") => NewestRecordShown(input[1])

(* run_wfd_fixture completes a transcript in the order of RTSP only. *)
WfdInOrder == reader = "wfd" => CompletedInOrder(input)
=============================================================================
