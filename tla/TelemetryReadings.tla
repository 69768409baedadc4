------------------------- MODULE TelemetryReadings -------------------------
(***************************************************************************)
(* The sampler reads growing files through a bounded window: the head of   *)
(* the file, a separator and the tail, cut to the limit once more.  The    *)
(* progress file is written by ffmpeg while it is read.  Its records have  *)
(* a line with values and a line that ends the record; a line is two       *)
(* units, its key with the begin of the value and the rest.                *)
(***************************************************************************)
EXTENDS Naturals, Sequences

CONSTANTS HeadSize, Limit  \* sizes of the head and of the whole window, in units

ASSUME WindowAssumption == HeadSize \in Nat /\ Limit \in Nat /\ HeadSize < Limit

Separator == [rec |-> 0, key |-> "", part |-> 2]

(* The first size units of what ffmpeg writes *)
ProgressFile(size) ==
  [i \in 1..size |-> [rec |-> ((i - 1) \div 4) + 1,
                      key |-> IF (i - 1) % 4 < 2 THEN "frame" ELSE "progress",
                      part |-> ((i - 1) % 2) + 1]]

(* Seeded fault: only the head is read. *)
BoundedRead_HeadOnly(file) == SubSeq(file, 1, IF Len(file) < Limit THEN Len(file) ELSE Limit)

(* _bounded_read and _read_descriptor_text *)
BoundedRead(file) ==
  IF Len(file) <= Limit THEN file
  ELSE SubSeq(SubSeq(file, 1, HeadSize) \o <<Separator>>
                \o SubSeq(file, Len(file) - (Limit - HeadSize) + 1, Len(file)), 1, Limit)

(* The lines of a text by the unit that has their key, and whether the       *)
(* value is whole; a line without its key is skipped.                        *)
KeyAt(text, i)   == text[i].part = 1
WholeAt(text, i) == i < Len(text) /\ text[i + 1] = [text[i] EXCEPT !.part = 2]

(* parse_ffmpeg_progress: the fields after the end of the record before the  *)
(* last one, up to the last end of a record.                                 *)
Progress(text) ==
  LET ends   == {i \in 1..Len(text) : KeyAt(text, i) /\ text[i].key = "progress"}
      last   == CHOOSE i \in ends : \A j \in ends : j <= i
      before == {i \in ends : i < last}
      from   == IF before = {} THEN 0 ELSE CHOOSE i \in before : \A j \in before : j <= i
  IN  IF ends = {} THEN {} ELSE {i \in (from + 1)..last : KeyAt(text, i)}
-----------------------------------------------------------------------------
(* A sample shows the newest finished record of the file, whole and with no *)
(* field of another, although the window cuts lines at the end of its head, *)
(* at the begin of its tail and at its end, and ffmpeg is in the middle of  *)
(* a line.  (The tail holds two records, as the real one holds hundreds.)   *)
NewestRecordShown(size) ==
  LET text == BoundedRead(ProgressFile(size))
      shown == Progress(text)
      done == size \div 4
  IN  /\ shown = {} => done = 0
      /\ \A i \in shown : text[i].rec \in {done, done + 1} /\ (text[i].key = "frame" => WholeAt(text, i))
      /\ shown # {} => \E r \in {done, done + 1} : {<<text[i].rec, text[i].key>> : i \in shown}
                                                     = {<<r, "frame">>, <<r, "progress">>}
=============================================================================
