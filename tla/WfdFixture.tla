----------------------------- MODULE WfdFixture -----------------------------
(***************************************************************************)
(* The offline WFD negotiation: run_wfd_fixture takes the messages of a    *)
(* sink one after the other.  A message is a record: response; number, its *)
(* CSeq; ok, its start line has 200; method; ports, video and audio, what  *)
(* its body advertises; wellformed, whether parse_rtsp_fixture reads it.   *)
(***************************************************************************)
EXTENDS Naturals, Sequences

Phases == <<"m1-options", "m3-get-parameter", "m4-set-parameter", "m5-trigger-setup",
            "setup", "play", "streaming">>

(* Seeded fault: any answer of the sink counts. *)
Answers_AnyNumber(m, phase) == m.response /\ m.ok

(* The answer to the request of a phase *)
Answers(m, phase) == m.response /\ m.ok /\ m.number = phase

(* The message that the loop of run_wfd_fixture takes in a phase *)
Expected(m, phase) ==
  CASE phase = 2 -> Answers(m, phase) /\ m.ports /\ m.video
    [] phase = 5 -> ~m.response /\ m.method = "SETUP"
    [] phase = 6 -> ~m.response /\ m.method = "PLAY"
    [] OTHER -> Answers(m, phase)

(* The loop: at each message the phase advances or the negotiation fails.   *)
After(m, phase) ==
  IF phase \in {0, 7} THEN phase
  ELSE IF m.wellformed /\ Expected(m, phase) THEN phase + 1 ELSE 0

Negotiated(transcript) ==
  LET phase[n \in 0..Len(transcript)] == IF n = 0 THEN 1 ELSE After(transcript[n], phase[n - 1])
  IN  phase[Len(transcript)]

Result(transcript) ==
  CASE Negotiated(transcript) = 7 -> "completed"
    [] Negotiated(transcript) = 0 -> "incompatible"
    [] OTHER -> "timeout"
-----------------------------------------------------------------------------
(* The order of RTSP's M1 to M7: a negotiation completes only with the four *)
(* answers in the order of their requests, the second with ports and video, *)
(* then SETUP and PLAY; what comes before PLAY cannot be left out, repeated *)
(* or swapped.                                                              *)
CompletedInOrder(transcript) ==
  Result(transcript) = "completed" =>
    /\ Len(transcript) >= 6
    /\ \A n \in 1..6 : transcript[n].wellformed /\ (transcript[n].response <=> n <= 4)
    /\ \A n \in 1..4 : transcript[n].number = n
    /\ transcript[2].video /\ transcript[2].ports
    /\ transcript[5].method = "SETUP" /\ transcript[6].method = "PLAY"
=============================================================================
