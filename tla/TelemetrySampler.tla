-------------------------- MODULE TelemetrySampler --------------------------
(***************************************************************************)
(* TelemetrySampler: a thread of the controller samples engine and radio   *)
(* once a second, derives a health verdict from a window of samples,       *)
(* publishes the current sample and appends it to a bounded archive.       *)
(* Time is counted in seconds; the engine produces one frame a second or   *)
(* none, and media time advances with the frames: of the two rules about   *)
(* the rate (98.5 % of real time, 97 % of the frames) the first decides.   *)
(* The progress file can always be read.                                   *)
(***************************************************************************)
EXTENDS Integers, Sequences

CONSTANTS Span,        \* the window, 3 seconds
          Warm,        \* samples before a verdict on rates, 8
          ArchiveSize, \* MAX_ARCHIVED_TELEMETRY_BYTES, in units
          MaxTime, MaxFails, MaxLost  \* bounds on time, radio failures and failed writes

ASSUME SamplerAssumption ==
  {Span, Warm, ArchiveSize, MaxFails, MaxLost} \subseteq Nat /\ MaxTime \in Nat \ {0}

Absent == -1   \* no reading

VARIABLES
  now, frame, quiet,     \* time, frames produced, seconds since the last of them
  own, orphan, failed,   \* the cast's own P2P interface is up; one of an earlier cast exists;
                         \* the own station's tx failed counter
  since, hidden,         \* failures of the own link since the first reading, or since the link
                         \* formed; those of the first reading, once another link has formed
  deadline, count,       \* of the thread: start of the next sample, _sample_count
  window, dropped,       \* _window, and the time of the last sample dropped from it
  radio, radio_at, baseline,  \* _radio, _radio_sampled_at, _baseline_radio
  read,                  \* time of the last reading of the own station
  archived, used, capped, \* number of archived samples, their size, archive_capped
  current, status, mode, \* the published sample, its verdict, and whether it has the
                         \* negotiated mode
  lost                   \* number of samples of which a write failed

world  == <<now, frame, quiet, own, orphan, failed, since, hidden>>
thread == <<deadline, count, window, dropped, radio, radio_at, baseline, read>>
samvars == <<world, thread, archived, used, capped, current, status, mode, lost>>

SamInit ==
  /\ now = 1 /\ frame = 0 /\ quiet = 0 /\ own = FALSE /\ orphan \in BOOLEAN /\ failed = 0
  /\ deadline = 1 /\ count = 0 /\ window = <<>> /\ dropped = 0
  /\ radio = Absent /\ radio_at = 0 /\ baseline = Absent /\ read = 0
  /\ since = 0 /\ hidden = 0
  /\ archived = 0 /\ used = 0 /\ capped = FALSE
  /\ current = [sample |-> 0, historyCapped |-> FALSE] /\ status = "warming" /\ lost = 0
  /\ mode = FALSE

(* A group forms, or the receiver associates anew: the counter of the new  *)
(* station begins at zero.                                                 *)
LinkForms ==
  /\ own' = TRUE /\ failed' = 0 /\ since' = 0
  /\ hidden' = IF read > 0 THEN hidden + (failed - since) ELSE 0

LinkGoes == own /\ own' = FALSE /\ UNCHANGED <<failed, since, hidden>>

LinkFails ==
  /\ own /\ failed' \in (failed + 1)..MaxFails
  /\ since' = IF read > 0 THEN since + (failed' - failed) ELSE since
  /\ UNCHANGED <<own, hidden>>

(* A second passes: the engine produces or stalls, the group forms, goes, *)
(* or fails to deliver.                                                   *)
Tick ==
  /\ now < MaxTime /\ now' = now + 1
  /\ \/ frame' = frame + 1 /\ quiet' = 0
     \/ frame' = frame /\ quiet' = quiet + 1
  /\ UNCHANGED <<own, failed, since, hidden>> \/ LinkForms \/ LinkGoes \/ LinkFails
  /\ UNCHANGED <<orphan, thread, archived, used, capped, current, status, mode, lost>>

-----------------------------------------------------------------------------
(* Seeded fault: a sample at the limit is dropped, the newest but one too. *)
Stale_Short(w, i) == i < Len(w) /\ now - w[i].at >= Span

(* The loop drops a first sample that is older than the window and not one *)
(* of the two newest.                                                      *)
Stale(w, i) == i + 1 < Len(w) /\ now - w[i].at > Span

(* It stops at the first sample that stays. *)
FirstKept(w) == CHOOSE k \in 1..Len(w) : ~Stale(w, k) /\ \A i \in 1..(k-1) : Stale(w, i)

Slid(w) == SubSeq(w, FirstKept(w), Len(w))

(* Seeded fault: the rate is compared with half of the negotiated one. *)
Slow_Half(frames, elapsed) == frames > 0 /\ 2 * frames < elapsed

(* The engine falls behind real time below 98.5 % of one frame a second.   *)
(* realtimeRatio is rounded to three decimals before: below 0.9845 it is   *)
(* 0.984 or less, up to 0.0005 it is zero, and a rate of zero does not     *)
(* count.  (A ratio of 0.9845 takes a window of 2000 seconds.)             *)
Slow(frames, elapsed) == 2000 * frames > elapsed /\ 2000 * frames < 1969 * elapsed

(* Seeded fault: every reading becomes the baseline. *)
Baseline_Latest(reading) == reading

(* The first reading that is not empty. *)
Baseline(reading) == IF baseline = Absent THEN reading ELSE baseline

(* _p2p_interface: an active one first; _sample_radio reads it once a      *)
(* second, and keeps the last reading when iw fails.  No station answers   *)
(* on the interface of an earlier cast.                                    *)
ReadRadio ==
  IF ~(own \/ orphan) \/ now = radio_at THEN UNCHANGED <<radio, radio_at, baseline, read>>
  ELSE /\ radio_at' = now
       /\ \/ UNCHANGED <<radio, baseline, read>>
          \/ /\ radio' = IF own THEN failed ELSE Absent
             /\ baseline' = Baseline(radio')
             /\ read' = IF own THEN now ELSE read

Known(reading) == IF reading = Absent THEN 0 ELSE reading

(* _health: before the first frame, or when no mode was read, there is no *)
(* verdict.                                                               *)
Verdict(w, negotiated) ==
  LET frames  == frame - w[1].frame
      elapsed == now - w[1].at
      loss    == (own \/ orphan) /\ Known(radio') > Known(baseline')
  IN  CASE ~negotiated \/ frame = 0 -> "warming"
        [] loss \/ (count + 1 > Warm /\ Slow(frames, elapsed)) -> "attention"
        [] OTHER -> IF count + 1 > Warm THEN "healthy" ELSE "warming"

(* Seeded fault: only the flag is looked at. *)
Refused_FlagOnly(size) == capped

(* append_sample *)
Refused(size) == capped \/ used + size > ArchiveSize

(* Seeded fault: the sample is not published again when the archive is full. *)
Shown_Before(full) == capped

(* historyCapped of the last document that _record writes *)
Shown(full) == full

(* _record: the current document, the archive, and the current document    *)
(* again when the archive is full.  Each write may fail.                   *)
Record(size) ==
  LET full == Refused(size)
  IN  \/ /\ current' = [sample |-> count', historyCapped |-> Shown(full)]
         /\ capped' = full
         /\ IF full THEN UNCHANGED <<archived, used>>
            ELSE archived' = archived + 1 /\ used' = used + size
         /\ UNCHANGED lost
      \/ /\ lost < MaxLost /\ lost' = lost + 1
         /\ \/ UNCHANGED <<current, capped>>
            \/ /\ current' = [sample |-> count', historyCapped |-> capped]
               /\ capped' \in {capped, full}
         /\ UNCHANGED <<archived, used>>

Sample ==
  /\ now >= deadline /\ deadline' = deadline + 1 /\ count' = count + 1
  /\ LET w == Append(window, [at |-> now, frame |-> frame])
     IN  /\ window' = Slid(w)
         /\ dropped' = IF Len(window') = Len(w) THEN dropped
                       ELSE w[Len(w) - Len(window')].at
  /\ ReadRadio
  /\ mode' \in BOOLEAN /\ status' = Verdict(window', mode')
  /\ \E size \in 1..2 : Record(size)
  /\ UNCHANGED world

SamNext == Tick \/ Sample

SamSpec == SamInit /\ [][SamNext]_samvars
-----------------------------------------------------------------------------
SamTypeOK ==
  /\ now \in 1..MaxTime /\ frame \in 0..MaxTime /\ count \in 0..MaxTime
  /\ \A i \in 1..Len(window) : window[i].at \in 1..now /\ window[i].frame \in 0..frame
  /\ radio \in Absent..MaxFails /\ baseline \in Absent..MaxFails
  /\ used \in 0..ArchiveSize /\ capped \in BOOLEAN /\ lost \in 0..MaxLost
  /\ status \in {"warming", "attention", "healthy"} /\ mode \in BOOLEAN

(* The window holds every sample of the last Span seconds and, beyond its   *)
(* two newest, nothing older, whatever the pace of the samples.             *)
WindowCovers ==
  Len(window) > 0 =>
    LET newest == window[Len(window)].at
    IN  /\ dropped > 0 => newest - dropped > Span
        /\ Len(window) > 2 => newest - window[1].at <= Span

(* A warm cast whose engine has been quiet for more than 1.55 % of the      *)
(* window needs attention, in a sample that has the mode.  (Once the window *)
(* has no frame, or so few that the rate rounds to zero, the verdict turns  *)
(* to healthy: a rate of zero does not count.)                              *)
StallNoticed ==
  (count > Warm /\ mode /\ window[Len(window)].at = now
     /\ 2000 * (frame - window[1].frame) > now - window[1].at
     /\ 2000 * quiet > 31 * (now - window[1].at))
    => status = "attention"

(* Failures of the own radio link since the first reading are reported by   *)
(* a sample that has the mode and read the link, although an interface that *)
(* an earlier cast left was sampled before; but of a link that forms after  *)
(* the first reading as many are hidden as that reading had.                *)
LossReported ==
  (count > 0 /\ mode /\ read = now /\ own /\ since > hidden /\ frame > 0
     /\ window[Len(window)].frame = frame) => status = "attention"

(* A sample's verdict rests on a full window and tells what is wrong. *)
VerdictHolds == SamTypeOK /\ WindowCovers /\ StallNoticed /\ LossReported

(* The archive has every sample up to the one that did not fit, but for     *)
(* failed writes, and none after it; and whoever reads the current document *)
(* is told that history ended.                                              *)
ArchiveIsPrefix ==
  /\ used <= ArchiveSize
  /\ lost = 0 => /\ current.sample = count
                 /\ archived < count <=> capped
                 /\ current.historyCapped = capped
=============================================================================
