------------------------- MODULE ControllerIOProofs -------------------------
(***************************************************************************)
(* Proofs about the bounded readers of the controller, for every limit and *)
(* every behaviour of the processes they read: BoundedCommand,             *)
(* OutputCollector, ScanStream and TelemetrySampler, each with an          *)
(* inductive invariant of its own (CmdInv, ColInv, ScanInv, SamInv).       *)
(***************************************************************************)
EXTENDS BoundedCommand, OutputCollector, ScanStream, TelemetrySampler, SequenceTheorems,
        WellFoundedInduction, TLAPS

-----------------------------------------------------------------------------
(* A command: CmdInv is what the flags say of the processes at each step of *)
(* run_command, and what a closed stream implies.                           *)
USE OutputAssumption

(* Nothing is thrown away from a buffer within its limit. *)
BufferedAll == \A s \in Streams : buffer[s] = Capped(taken[s])

(* A closed stream was read to its end, and nobody can write to it again. *)
ClosedIsDone ==
  \A s \in Streams \ open : taken[s] = written[s] /\ child # "running" /\ helper \notin Holders

(* The loop ends early only with a flag; otherwise every stream is closed   *)
(* and every buffer within the limit.                                       *)
FlagsTell ==
  /\ at = "poll" => ~timed_out /\ ~output_limited
  /\ at = "wait" => ~timed_out /\ ~output_limited
  /\ at # "poll" /\ ~timed_out /\ ~output_limited => open = {}
  /\ ~output_limited => \A s \in Streams : buffer[s] <= MaxOutput

(* The child is reaped before the last step only if nothing will be killed. *)
ReapedLate ==
  child = "reaped" => at = "done" \/ (at \in {"check", "reap"} /\ ~timed_out /\ ~output_limited)

(* After the kill nobody of the group runs, and only a timeout leaves a     *)
(* child that is not reaped.                                                *)
KilledAll ==
  /\ (timed_out \/ output_limited) /\ at \in {"reap", "done"}
       => child \in {"killed", "zombie", "reaped"} /\ helper # "running"
  /\ at \in {"check", "kill", "reap"} /\ ~timed_out /\ ~output_limited => child = "reaped"
  /\ at = "kill" => timed_out \/ output_limited
  /\ at = "done" /\ ~timed_out => child = "reaped"

Answered ==
  /\ at # "done" => answer = "none"
  /\ answer = "exit" => ~timed_out /\ ~output_limited
  /\ answer = "limit" => ~timed_out /\ output_limited
  /\ answer = "timeout" => timed_out

CmdInv == CmdTypeOK /\ BufferedAll /\ ClosedIsDone /\ FlagsTell /\ ReapedLate /\ KilledAll /\ Answered

(* It holds at first. *)
LEMMA CmdInitInv == CmdInit => CmdInv
<1> SUFFICES ASSUME CmdInit PROVE CmdInv
  OBVIOUS
<1>1. /\ written = [s \in Streams |-> 0] /\ buffer = [s \in Streams |-> 0]
      /\ taken = [s \in Streams |-> 0]
  BY DEF CmdInit
<1>2. CmdTypeOK
  <2>1. 0 \in 0..MaxWritten /\ 0 \in 0..(MaxOutput + 1)
    OBVIOUS
  <2>2. /\ written \in [Streams -> 0..MaxWritten] /\ taken \in [Streams -> 0..MaxWritten]
        /\ buffer \in [Streams -> 0..(MaxOutput + 1)]
    BY <1>1, <2>1
  <2> QED BY <2>2 DEF CmdInit, CmdTypeOK
<1>3. BufferedAll /\ \A s \in Streams : buffer[s] <= MaxOutput
  BY <1>1 DEF BufferedAll, Capped
<1> QED
  BY <1>2, <1>3 DEF CmdInit, CmdInv, ClosedIsDone, FlagsTell, ReapedLate, KilledAll, Answered

(* It is kept by every step of run_command, of the processes and of time. *)
LEMMA CmdStepInv == CmdInv /\ [CmdNext]_cmdvars => CmdInv'
<1> SUFFICES ASSUME CmdInv, [CmdNext]_cmdvars PROVE CmdInv'
  OBVIOUS
<1> USE DEF CmdInv, CmdTypeOK, BufferedAll, ClosedIsDone, FlagsTell, ReapedLate, KilledAll, Answered,
            locals, Holders, Alive
<1>1. ASSUME NEW s \in Streams, Read(s) PROVE CmdInv'
  <2>1. PICK n \in 1..(written[s] - taken[s]) :
          /\ taken' = [taken EXCEPT ![s] = @ + n]
          /\ buffer' = [buffer EXCEPT ![s] = Capped(@ + n)]
    BY <1>1 DEF Read
  <2>2. n \in Nat /\ taken[s] + n \in 0..MaxWritten /\ taken[s] \in Nat /\ buffer[s] = Capped(taken[s])
    OBVIOUS
  <2>3. Capped(Capped(taken[s]) + n) = Capped(taken[s] + n) /\ Capped(taken[s] + n) \in 0..(MaxOutput + 1)
    BY <2>2 DEF Capped
  <2>4. buffer' \in [Streams -> 0..(MaxOutput + 1)] /\ taken' \in [Streams -> 0..MaxWritten]
    BY <2>1, <2>2, <2>3
  <2>5. BufferedAll'
    BY <2>1, <2>2, <2>3
  <2>6. ~output_limited' => \A q \in Streams : buffer'[q] <= MaxOutput
    <3>3. output_limited' = (buffer'[s] > MaxOutput)
      BY <1>1, Zenon DEF Read, Limited
    <3>4. buffer'[s] \in Nat /\ (~(buffer'[s] > MaxOutput) => buffer'[s] <= MaxOutput)
      BY <2>4
    <3>1. ~output_limited' => buffer'[s] <= MaxOutput
      BY <3>3, <3>4
    <3>2. \A q \in Streams \ {s} : buffer'[q] = buffer[q] /\ buffer[q] <= MaxOutput
      BY <1>1, <2>1 DEF Read
    <3> QED BY <3>1, <3>2
  <2>7. output_limited' \in BOOLEAN
    BY <1>1 DEF Read, Limited
  <2> QED
    BY <1>1, <2>4, <2>5, <2>6, <2>7, <2>1 DEF Read
<1>2. ASSUME NEW s \in Streams, Eof(s) PROVE CmdInv'
  BY <1>2 DEF Eof, AtEof
<1>3. CASE TimeOut
  BY <1>3 DEF TimeOut
<1>4. CASE Wait
  BY <1>4 DEF Wait
<1>5. CASE Check
  BY <1>5 DEF Check, MustKill
<1>6. CASE Kill
  BY <1>6 DEF Kill
<1>7. CASE Reap
  <2>1. CASE child \in {"zombie", "reaped"} /\ child' = "reaped" /\ UNCHANGED timed_out
    <3>1. CmdTypeOK' /\ BufferedAll' /\ ClosedIsDone' /\ FlagsTell'
      BY <1>7, <2>1 DEF Reap
    <3>2. ReapedLate' /\ KilledAll'
      BY <1>7, <2>1 DEF Reap
    <3>3. Answered'
      BY <1>7, <2>1 DEF Reap
    <3> QED BY <3>1, <3>2, <3>3
  <2>2. CASE child \notin {"zombie", "reaped"} /\ UNCHANGED child /\ timed_out' = TRUE
    BY <1>7, <2>2 DEF Reap
  <2> QED BY <1>7, <2>1, <2>2 DEF Reap
<1>8. ASSUME NEW s \in Streams, Write(s) PROVE CmdInv'
  BY <1>8 DEF Write
<1>9. CASE Fork
  BY <1>9 DEF Fork
<1>10. CASE End
  BY <1>10 DEF End
<1>11. CASE Expire
  BY <1>11 DEF Expire
<1>12. CASE UNCHANGED cmdvars
  BY <1>12 DEF cmdvars
<1> QED
  BY <1>1, <1>2, <1>3, <1>4, <1>5, <1>6, <1>7, <1>8, <1>9, <1>10, <1>11, <1>12 DEF CmdNext, CmdStep

(* What the readers of a result rely on *)
LEMMA CmdInvImplies == CmdInv => CmdTypeOK /\ NothingTruncated /\ KillsOwnGroup /\ GroupKilled
<1> SUFFICES ASSUME CmdInv PROVE CmdTypeOK /\ NothingTruncated /\ KillsOwnGroup /\ GroupKilled
  OBVIOUS
<1> USE DEF CmdInv, CmdTypeOK, BufferedAll, ClosedIsDone, FlagsTell, ReapedLate, KilledAll, Answered
<1>1. NothingTruncated
  BY DEF NothingTruncated, Capped
<1>2. KillsOwnGroup
  BY DEF KillsOwnGroup
<1>3. GroupKilled
  BY DEF GroupKilled, Alive
<1> QED BY <1>1, <1>2, <1>3

(* Every run of a command keeps the invariant. *)
LEMMA CmdAlways == CmdSpec => []CmdInv
<1> QED BY CmdInitInv, CmdStepInv, PTL DEF CmdSpec

(* For every limit, output of a command that succeeded is all that was      *)
(* written (command.py:64-82), its group is never killed after the leader   *)
(* was reaped (command.py:95: the flags are read before process.poll), and  *)
(* of a command that timed out or wrote too much every process of the group *)
(* has ended or been sent SIGKILL, the child of an answer other than the    *)
(* timeout being reaped (command.py:95-104).                                *)
THEOREM AnswersHold == CmdSpec => []AnswerHolds
<1>1. CmdInv => AnswerHolds
  BY CmdInvImplies DEF AnswerHolds
<1> QED BY <1>1, CmdAlways, PTL

(* The type invariant, buffers within one unit of the limit included. *)
THEOREM CommandTypes == CmdSpec => []CmdTypeOK
<1> QED BY CmdAlways, CmdInvImplies, PTL

-----------------------------------------------------------------------------
(* The engine's output: ColInv is the shape of the tail, and why the last   *)
(* copy is made by one thread alone, of a pipe that is empty.               *)
HIDE OutputAssumption
USE TailAssumption

(* What a thread may hold: units, within the limit. *)
Bounded(s) == s \in Seq(1..MaxUnits) /\ Len(s) <= TailLimit

(* The shape of the collector's variables. *)
ColTyped ==
  /\ step \in [Threads -> {"select", "check", "copy", "truncate", "write", "last", "truncate_last",
                           "write_last", "idle", "join", "final", "truncate_final", "write_final", "over"}]
  /\ step["reader"] \notin {"idle", "join", "final", "truncate_final", "write_final"}
  /\ step["main"] \notin {"select", "check", "last", "truncate_last", "write_last"}
  /\ unread \in Nat /\ total \in Nat /\ total + unread <= MaxUnits
  /\ stopping \in {"no", "open", "closed"}
  /\ Bounded(file) /\ payload \in [Threads -> Seq(1..MaxUnits)] /\ \A t \in Threads : Bounded(payload[t])

Flags == ended \in BOOLEAN /\ waited \in BOOLEAN /\ broken \in BOOLEAN

(* The tail is the newest units, in their order. *)
Newest(s, n) == Bounded(s) /\ Len(s) <= n /\ \A i \in 1..Len(s) : s[i] = n - Len(s) + i

TailNewest == Newest(tail, total)

(* The last copy is made alone: the reader is over, nothing is appended.    *)
LastCopy ==
  /\ step["main"] \in {"final", "truncate_final", "write_final"} => step["reader"] = "over"
  /\ step["main"] \in {"truncate_final", "write_final"} => payload["main"] = tail
  /\ step["main"] = "write_final" => file = <<>>
  /\ step["main"] = "over" /\ ~waited => step["reader"] = "over" /\ (~broken => file = tail)

(* The reader leaves a pipe that was open at the stop or that it had found  *)
(* open, or one that is empty for good.                                     *)
Emptied ==
  /\ stopping = "no" <=> step["main"] \in {"idle", "copy", "truncate", "write"}
  /\ stopping = "closed" => ended /\ step["reader"] # "check"
  /\ step["reader"] \in {"last", "truncate_last", "write_last", "over"} /\ stopping # "open"
       => ended /\ unread = 0

ColInv == ColTyped /\ Flags /\ TailNewest /\ LastCopy /\ Emptied

(* Appending keeps the newest units, within the limit. *)
LEMMA KeptIsNewest ==
  ASSUME TailNewest, total \in Nat, NEW n \in Nat, total + n <= MaxUnits
  PROVE  Newest(Kept(n), total + n)
<1> DEFINE new == [i \in 1..n |-> total + i]
           all == tail \o new
           first == IF Len(all) > TailLimit THEN Len(all) - TailLimit + 1 ELSE 1
<1>1. tail \in Seq(1..MaxUnits) /\ Len(tail) \in Nat /\ Len(tail) <= total
  BY DEF TailNewest, Newest, Bounded
<1>2. new \in Seq(1..MaxUnits) /\ Len(new) = n /\ \A i \in 1..n : new[i] = total + i
  <2>1. \A i \in 1..n : total + i \in 1..MaxUnits
    OBVIOUS
  <2>2. new \in Seq(1..MaxUnits)
    BY <2>1
  <2> QED BY <2>2
<1> HIDE DEF new
<1>3. /\ all \in Seq(1..MaxUnits) /\ Len(all) = Len(tail) + n
      /\ \A i \in 1..Len(all) : all[i] = IF i <= Len(tail) THEN tail[i] ELSE new[i - Len(tail)]
  <2>1. /\ tail \o new \in Seq(1..MaxUnits) /\ Len(tail \o new) = Len(tail) + Len(new)
        /\ \A i \in 1..(Len(tail) + Len(new)) :
             (tail \o new)[i] = IF i <= Len(tail) THEN tail[i] ELSE new[i - Len(tail)]
    BY <1>1, <1>2, ConcatProperties, Zenon
  <2> QED BY <1>2, <2>1, Zenon
<1>4. \A i \in 1..Len(all) : all[i] = total + n - Len(all) + i
  <2> SUFFICES ASSUME NEW i \in 1..Len(all) PROVE all[i] = total + n - Len(all) + i
    OBVIOUS
  <2> HIDE DEF all
  <2>1. CASE i <= Len(tail)
    <3>1. all[i] = tail[i] /\ i \in 1..Len(tail)
      BY <1>1, <1>3, <2>1
    <3>2. tail[i] = total - Len(tail) + i
      BY <3>1 DEF TailNewest, Newest
    <3> QED BY <1>1, <1>3, <3>1, <3>2
  <2>2. CASE ~(i <= Len(tail))
    <3>1. i - Len(tail) \in 1..n
      BY <1>1, <1>3, <2>2
    <3>2. all[i] = total + (i - Len(tail))
      BY <1>2, <1>3, <2>2, <3>1
    <3> QED BY <1>1, <1>3, <3>2
  <2> QED BY <2>1, <2>2
<1>5. Kept(n) = SubSeq(all, first, Len(all))
  BY DEF Kept, new
<1> HIDE DEF all
<1>6. Len(all) \in Nat /\ first \in 1..(Len(all) + 1) /\ Len(all) - first + 1 <= TailLimit
      /\ Len(all) - first + 1 <= total + n
  <2>1. Len(all) \in Nat /\ Len(all) <= total + n
    BY <1>1, <1>3
  <2>2. CASE Len(all) > TailLimit
    BY <2>1, <2>2
  <2>3. CASE ~(Len(all) > TailLimit)
    BY <2>1, <2>3
  <2> QED BY <2>2, <2>3
<1> HIDE DEF first
<1>7. /\ Kept(n) \in Seq(1..MaxUnits) /\ Len(Kept(n)) = Len(all) - first + 1
      /\ \A i \in 1..(Len(all) - first + 1) : Kept(n)[i] = all[first + i - 1]
  <2>1. \A i \in first..Len(all) : all[i] \in 1..MaxUnits
    BY <1>3, <1>6
  <2>2. Len(SubSeq(all, first, Len(all))) = IF first <= Len(all) THEN Len(all) - first + 1 ELSE 0
    BY <1>6, <2>1, SubSeqProperties
  <2>3. Len(SubSeq(all, first, Len(all))) = Len(all) - first + 1
    BY <1>6, <2>2
  <2> QED BY <1>5, <1>6, <2>1, <2>3, SubSeqProperties
<1>8. \A i \in 1..Len(Kept(n)) : Kept(n)[i] = total + n - Len(Kept(n)) + i
  <2> SUFFICES ASSUME NEW i \in 1..Len(Kept(n)) PROVE Kept(n)[i] = total + n - Len(Kept(n)) + i
    OBVIOUS
  <2>1. first + i - 1 \in 1..Len(all) /\ first + i - 1 = Len(all) - Len(Kept(n)) + i
    BY <1>6, <1>7
  <2> QED BY <1>4, <1>6, <1>7, <2>1
<1> QED BY <1>6, <1>7, <1>8 DEF Newest, Bounded

(* Writing over the file keeps it within the limit. *)
LEMMA WrittenOver ==
  ASSUME NEW p, NEW f, Bounded(p), Bounded(f)
  PROVE  Bounded(Over(p, f)) /\ (f = <<>> => Over(p, f) = p)
<1> DEFINE rest == SubSeq(f, Len(p) + 1, Len(f))
<1>1. /\ p \in Seq(1..MaxUnits) /\ Len(p) \in Nat /\ Len(p) <= TailLimit
      /\ f \in Seq(1..MaxUnits) /\ Len(f) \in Nat /\ Len(f) <= TailLimit
  BY DEF Bounded
<1>2. rest \in Seq(1..MaxUnits) /\ Len(rest) = IF Len(p) + 1 <= Len(f) THEN Len(f) - Len(p) ELSE 0
  <2>1. \A i \in (Len(p) + 1)..Len(f) : f[i] \in 1..MaxUnits
    BY <1>1
  <2> QED BY <1>1, <2>1, SubSeqProperties
<1> HIDE DEF rest
<1>3. p \o rest \in Seq(1..MaxUnits) /\ Len(p \o rest) = Len(p) + Len(rest)
  BY <1>1, <1>2, ConcatProperties, Zenon
<1>4. Bounded(p \o rest)
  BY <1>1, <1>2, <1>3 DEF Bounded
<1>5. f = <<>> => p \o rest = p
  <2> SUFFICES ASSUME f = <<>> PROVE p \o rest = p
    OBVIOUS
  <2>1. rest = <<>>
    BY <1>1, <1>2
  <2> QED BY <1>1, <2>1
<1> QED BY <1>4, <1>5 DEF rest, Over

(* The invariant holds at first, *)
LEMMA ColInitInv == ColInit => ColInv
<1> SUFFICES ASSUME ColInit PROVE ColInv
  OBVIOUS
<1>1. Bounded(<<>>) /\ Newest(<<>>, 0)
  BY DEF Bounded, Newest
<1>2. /\ step = [reader |-> "select", main |-> "idle"] /\ step["reader"] = "select" /\ step["main"] = "idle"
      /\ payload = [t \in Threads |-> <<>>]
      /\ file = <<>> /\ tail = <<>> /\ total = 0 /\ unread = 0 /\ stopping = "no"
  BY DEF ColInit
<1>3. ended = FALSE /\ waited = FALSE /\ broken = FALSE
  BY DEF ColInit
<1>4. ColTyped
  <2>1. step = [t \in Threads |-> IF t = "reader" THEN "select" ELSE "idle"]
    BY <1>2 DEF Threads
  <2>2. payload \in [Threads -> Seq(1..MaxUnits)] /\ \A t \in Threads : Bounded(payload[t])
    BY <1>1, <1>2 DEF Bounded
  <2> QED BY <1>1, <1>2, <2>1, <2>2 DEF ColTyped
<1> QED BY <1>1, <1>2, <1>3, <1>4 DEF ColInv, Flags, TailNewest, LastCopy, Emptied

(* the flags stay flags, *)
LEMMA FlagsStep ==
  ASSUME Flags, [ColNext]_colvars
  PROVE  Flags'
<1>1. ended' = ended \/ ended' = TRUE
  BY DEF ColNext, Output, Close, Drain, EndOfFile, Nothing, CheckStop, Note, Stop, Join, Snapshot,
         Truncate, WriteFile, colvars
<1>2. waited' = waited \/ waited' = TRUE
  BY DEF ColNext, Output, Close, Drain, EndOfFile, Nothing, CheckStop, Note, Stop, Join, Snapshot,
         Truncate, WriteFile, colvars
<1>3. \A t \in Threads : Truncate(t) \/ WriteFile(t) => broken' \in BOOLEAN
  BY Zenon DEF Truncate, WriteFile, Copied, Flags
<1>4. broken' = broken \/ broken' \in BOOLEAN
  BY <1>3 DEF ColNext, Output, Close, Drain, EndOfFile, Nothing, CheckStop, Note, Stop, Join, Snapshot, colvars
<1> QED BY <1>1, <1>2, <1>4 DEF Flags

(* and every step keeps it. *)
LEMMA ColStepInv == ColInv /\ [ColNext]_colvars => ColInv'
<1> SUFFICES ASSUME ColInv, [ColNext]_colvars PROVE ColInv'
  OBVIOUS
<1>1. ColTyped /\ TailNewest /\ LastCopy /\ Emptied /\ Flags'
  BY FlagsStep DEF ColInv
<1> USE <1>1 DEF ColInv, Threads
<1>2. UNCHANGED <<tail, total>> => TailNewest'
  BY DEF TailNewest, Newest, Bounded
<1>3. UNCHANGED file => Bounded(file)'
  BY DEF Bounded, ColTyped
<1>4. UNCHANGED payload => payload' \in [Threads -> Seq(1..MaxUnits)] /\ \A t \in Threads : Bounded(payload'[t])
  BY DEF Bounded, ColTyped
<1>5. CASE Output
  BY <1>2, <1>3, <1>4, <1>5 DEF Output, ColTyped, LastCopy, Emptied
<1>6. CASE Close
  BY <1>2, <1>3, <1>4, <1>6 DEF Close, ColTyped, LastCopy, Emptied
<1>7. CASE Drain
  <2>1. PICK n \in 1..unread : unread' = unread - n /\ tail' = Kept(n) /\ total' = total + n
    BY <1>7 DEF Drain, AppendUnits
  <2>2. TailNewest'
    BY <2>1, KeptIsNewest DEF TailNewest, ColTyped
  <2> QED BY <1>3, <1>4, <1>7, <2>1, <2>2 DEF Drain, Advance, ColTyped, LastCopy, Emptied
<1>8. CASE EndOfFile \/ Nothing \/ CheckStop
  <2>1. CASE EndOfFile
    BY <1>2, <1>3, <1>4, <2>1 DEF EndOfFile, Advance, ColTyped, LastCopy, Emptied
  <2>2. CASE Nothing
    BY <1>2, <1>3, <1>4, <2>2 DEF Nothing, Idle, Advance, ColTyped, LastCopy, Emptied
  <2>3. CASE CheckStop
    BY <1>2, <1>3, <1>4, <2>3 DEF CheckStop, Advance, ColTyped, LastCopy, Emptied
  <2> QED BY <1>8, <2>1, <2>2, <2>3
<1>9. CASE Note
  <2>1. tail' = Kept(1) /\ total' = total + 1
    BY <1>9 DEF Note, AppendUnits
  <2>2. TailNewest'
    BY <1>9, <2>1, KeptIsNewest DEF TailNewest, ColTyped, Note
  <2> QED BY <1>3, <1>4, <1>9, <2>1, <2>2 DEF Note, Advance, ColTyped, LastCopy, Emptied
<1>10. CASE Stop
  BY <1>2, <1>3, <1>4, <1>10 DEF Stop, Advance, ColTyped, LastCopy, Emptied
<1>11. CASE Join
  BY <1>2, <1>3, <1>4, <1>11 DEF Join, AfterJoin, Advance, ColTyped, LastCopy, Emptied
<1>12. ASSUME NEW t \in Threads, Snapshot(t) PROVE ColInv'
  <2>1. payload' = [payload EXCEPT ![t] = tail] /\ Bounded(tail)
    BY <1>12 DEF Snapshot, TailNewest, Newest
  <2>2. payload' \in [Threads -> Seq(1..MaxUnits)] /\ \A q \in Threads : Bounded(payload'[q])
    BY <2>1 DEF ColTyped, Bounded
  <2> QED BY <1>2, <1>3, <1>12, <2>1, <2>2 DEF Snapshot, Copying, Advance, ColTyped, LastCopy, Emptied
<1>13. ASSUME NEW t \in Threads, Truncate(t) PROVE ColInv'
  <2>1. Bounded(file')
    <3>1. Bounded(<<>>) /\ Bounded(file)
      BY DEF Bounded, ColTyped
    <3> QED BY <1>13, <3>1 DEF Truncate
  <2>2. CASE file' = <<>> /\ broken' = broken
             /\ Advance(t, [truncate |-> "write", truncate_last |-> "write_last",
                            truncate_final |-> "write_final"][step[t]])
    BY <1>2, <1>4, <1>13, <2>1, <2>2 DEF Truncate, Advance, ColTyped, LastCopy, Emptied
  <2>3. CASE file' = file /\ Copied(t, TRUE)
    <3>1. step[t] = "truncate_final" => broken'
      BY <2>3 DEF Copied
    <3> QED BY <1>2, <1>4, <1>13, <2>1, <2>3, <3>1 DEF Truncate, Copied, Advance, ColTyped, LastCopy, Emptied
  <2> QED BY <1>13, <2>2, <2>3 DEF Truncate
<1>14. ASSUME NEW t \in Threads, WriteFile(t) PROVE ColInv'
  <2>1. Bounded(payload[t]) /\ Bounded(file)
    BY DEF ColTyped
  <2>2. CASE file' = Over(payload[t], file) /\ Copied(t, FALSE)
    <3>1. Bounded(file') /\ (file = <<>> => file' = payload[t])
      BY <2>1, <2>2, WrittenOver
    <3> QED BY <1>2, <1>4, <1>14, <2>2, <3>1 DEF WriteFile, Copied, Advance, ColTyped, LastCopy, Emptied
  <2>3. CASE \E k \in 0..(Len(payload[t]) - 1) :
               file' = Over(SubSeq(payload[t], 1, k), file) /\ Copied(t, TRUE)
    <3>1. PICK k \in 0..(Len(payload[t]) - 1) : file' = Over(SubSeq(payload[t], 1, k), file)
      BY <2>3
    <3>2. Bounded(SubSeq(payload[t], 1, k))
      <4>1. k \in Nat /\ k < Len(payload[t]) /\ Len(payload[t]) \in Nat
        BY <2>1 DEF Bounded
      <4>2. \A i \in 1..k : payload[t][i] \in 1..MaxUnits
        BY <2>1, <4>1 DEF Bounded
      <4>3. SubSeq(payload[t], 1, k) \in Seq(1..MaxUnits) /\ Len(SubSeq(payload[t], 1, k)) <= k
        BY <4>1, <4>2, SubSeqProperties
      <4>4. SubSeq(payload[t], 1, k) \in Seq(1..MaxUnits) /\ Len(SubSeq(payload[t], 1, k)) \in Nat
        BY <4>3
      <4> QED BY <2>1, <4>1, <4>3, <4>4 DEF Bounded
    <3>3. Bounded(file')
      BY <2>1, <3>1, <3>2, WrittenOver
    <3>4. (step[t] = "write_final" => broken') /\ Copied(t, TRUE)
      BY <2>3 DEF Copied
    <3> QED BY <1>2, <1>4, <1>14, <3>3, <3>4 DEF WriteFile, Copied, Advance, ColTyped, LastCopy, Emptied
  <2> QED BY <1>14, <2>2, <2>3 DEF WriteFile
<1>15. CASE UNCHANGED colvars
  BY <1>2, <1>3, <1>4, <1>15 DEF colvars, ColTyped, LastCopy, Emptied
<1> QED
  BY <1>5, <1>6, <1>7, <1>8, <1>9, <1>10, <1>11, <1>12, <1>13, <1>14, <1>15 DEF ColNext

(* For every limit and every interleaving of the two threads: after a stop  *)
(* whose last copy succeeded the file is the newest output within the       *)
(* limit, in its order; and nothing is missing of a pipe that was closed    *)
(* before the stop, unless the reader stood between its select and its look *)
(* at _stop (telemetry.py copies outside the lock; the last copy alone is   *)
(* made with the reader gone).                                              *)
THEOREM OutputIsKept == ColSpec => []OutputKept
<1>1. ColInv => OutputKept
  <2> SUFFICES ASSUME ColInv PROVE OutputKept
    OBVIOUS
  <2>1. ASSUME NEW s, Bounded(s) PROVE Len(s) <= TailLimit /\ ToSet(s) \subseteq 1..MaxUnits
    BY <2>1 DEF Bounded, ToSet
  <2>2. \A s \in {tail, file, payload["reader"], payload["main"]} : Bounded(s)
    BY DEF ColInv, ColTyped, TailNewest, Newest, Threads
  <2>3. ended \in BOOLEAN /\ waited \in BOOLEAN /\ broken \in BOOLEAN
    BY DEF ColInv, Flags
  <2>4. ColTypeOK
    BY <2>1, <2>2, <2>3 DEF ColInv, ColTyped, ColTypeOK
  <2>5. FileIsTail
    <3> SUFFICES ASSUME Stopped, ~broken PROVE file = [i \in 1..Len(file) |-> total - Len(file) + i] /\ file = tail
      BY DEF FileIsTail
    <3>1. file = tail
      BY DEF Stopped, ColInv, LastCopy
    <3>2. tail \in Seq(1..MaxUnits) /\ \A i \in 1..Len(tail) : tail[i] = total - Len(tail) + i
      BY DEF ColInv, TailNewest, Newest, Bounded
    <3>3. tail = [i \in 1..Len(tail) |-> tail[i]]
      BY <3>2
    <3> QED BY <3>1, <3>2, <3>3
  <2>6. AllDrained
    BY DEF AllDrained, Stopped, ColInv, LastCopy, Emptied
  <2> QED BY <2>4, <2>5, <2>6 DEF OutputKept
<1> QED BY <1>1, ColInitInv, ColStepInv, PTL DEF ColSpec

-----------------------------------------------------------------------------
(* A streamed scan: ScanInv relates what the panel has read to the two      *)
(* memories of it, and those to the list at hand.                           *)
HIDE TailAssumption
USE ScanAssumption

(* The shape of the scan's variables. *)
ScanTyped ==
  /\ pc \in Watched \cup {"returned", "restore", "unwind", "over"}
  /\ {list, previous, last_emitted} \subseteq Lists \cup {None}
  /\ emitted_snapshots \in 0..MaxLines /\ scans \in 0..MaxScans /\ terms \in 0..2
  /\ lines \in Seq(Lists \cup {Error})
  /\ handler \in BOOLEAN /\ exit \in {0, 2, 9}

(* last_emitted is the last line, and there is a line for each emission and *)
(* one for a failure.                                                       *)
LineTold ==
  /\ pc # "over" => exit = 9
  /\ exit = 2 => Len(lines) = emitted_snapshots + 1
  /\ exit # 2 => /\ Len(lines) = emitted_snapshots
                 /\ Len(lines) = 0 => last_emitted = None
                 /\ Len(lines) > 0 => lines[Len(lines)] = last_emitted

(* While the scanner runs its own memory is the one of the lines. *)
Remembered ==
  /\ pc \in {"scan", "emit"} => previous = last_emitted
  /\ pc = "emit" => list # previous
  /\ pc \in {"emitted", "restore"} => list = last_emitted
  /\ pc \in {"emit", "emitted", "returned", "restore"} => list \in Lists
  /\ exit = 0 /\ terms = 0 => list = last_emitted /\ list \in Lists

ScanInv == ScanTyped /\ LineTold /\ Remembered /\ NoRepeat

(* A line that differs from the last one repeats nothing. *)
LEMMA LineAdded ==
  ASSUME ScanTyped, LineTold, NoRepeat, exit = 9,
         NEW x \in Lists \cup {Error}, x # last_emitted, lines' = Append(lines, x)
  PROVE  /\ NoRepeat' /\ lines' \in Seq(Lists \cup {Error})
         /\ Len(lines') = emitted_snapshots + 1 /\ lines'[Len(lines')] = x
<1>1. lines \in Seq(Lists \cup {Error}) /\ Len(lines) \in Nat /\ Len(lines) = emitted_snapshots
  BY DEF ScanTyped, LineTold
<1>2. /\ lines' \in Seq(Lists \cup {Error}) /\ Len(lines') = Len(lines) + 1
      /\ lines'[Len(lines) + 1] = x /\ \A i \in 1..Len(lines) : lines'[i] = lines[i]
  BY <1>1
<1>3. ASSUME NEW i \in 1..(Len(lines') - 1) PROVE lines'[i] # lines'[i + 1]
  <2>1. CASE i = Len(lines)
    BY <1>1, <1>2, <2>1 DEF LineTold
  <2>2. CASE i # Len(lines)
    BY <1>1, <1>2, <2>2 DEF NoRepeat
  <2> QED BY <2>1, <2>2
<1> QED BY <1>1, <1>2, <1>3 DEF NoRepeat

(* It holds at first, and every step of the scan keeps it. *)
LEMMA ScanInitInv == ScanInit => ScanInv
<1> SUFFICES ASSUME ScanInit PROVE ScanInv
  OBVIOUS
<1>1. lines = <<>> /\ Len(lines) = 0 /\ lines \in Seq(Lists \cup {Error})
  BY DEF ScanInit
<1>2. NoRepeat
  BY <1>1 DEF NoRepeat
<1>3. ScanTyped
  BY <1>1 DEF ScanInit, ScanTyped, Watched
<1> QED BY <1>1, <1>2, <1>3 DEF ScanInit, ScanInv, LineTold, Remembered

LEMMA ScanStepInv == ScanInv /\ [ScanNext]_scanvars => ScanInv'
<1> SUFFICES ASSUME ScanInv, [ScanNext]_scanvars PROVE ScanInv'
  OBVIOUS
<1>1. ScanTyped /\ LineTold /\ Remembered /\ NoRepeat
  BY DEF ScanInv
<1>2. UNCHANGED lines => NoRepeat'
  BY <1>1 DEF NoRepeat
<1>3. ASSUME NEW next \in {"emitted", "restore"}, Emit(next), list \in Lists, list # last_emitted,
             exit = 9, scans' = scans, terms' = terms, previous' = previous, list' = list,
             pc # "over"
      PROVE  ScanInv'
  <2>1. CASE Full
    BY <1>1, <1>2, <1>3, <2>1 DEF Emit, Failed, ScanTyped, LineTold, Remembered, ScanInv, Watched
  <2>2. CASE ~Full
    <3>1. /\ lines' = Append(lines, list) /\ last_emitted' = list
          /\ emitted_snapshots' = emitted_snapshots + 1
          /\ pc' = next /\ UNCHANGED <<handler, exit>>
      BY <1>3, <2>2 DEF Emit
    <3>2. /\ NoRepeat' /\ lines' \in Seq(Lists \cup {Error})
          /\ Len(lines') = emitted_snapshots + 1 /\ lines'[Len(lines')] = list
      BY <1>1, <1>3, <3>1, LineAdded
    <3>3. emitted_snapshots' \in 0..MaxLines
      BY <1>1, <2>2, <3>1 DEF Full, ScanTyped
    <3> QED BY <1>1, <1>3, <3>1, <3>2, <3>3 DEF ScanTyped, LineTold, Remembered, ScanInv, Watched
  <2> QED BY <2>1, <2>2
<1>a. ASSUME pc = "unwind", lines' = Append(lines, Error)
      PROVE  NoRepeat' /\ lines' \in Seq(Lists \cup {Error}) /\ Len(lines') = emitted_snapshots + 1
  <2>1. exit = 9 /\ Error # last_emitted
    BY <1>1, <1>a DEF LineTold, ScanTyped, None, Error
  <2> QED BY <1>1, <1>a, <2>1, LineAdded
<1>b. ASSUME UNCHANGED <<lines, last_emitted, emitted_snapshots>>, exit # 2, exit' # 2, pc' # "over" => exit' = 9
      PROVE  LineTold'
  BY <1>1, <1>b DEF LineTold
<1>c. pc # "over" => exit = 9
  BY <1>1 DEF LineTold
<1>d. handler' \in BOOLEAN
  <2>1. handler' = handler \/ handler' = FALSE
    BY DEF ScanNext, Report, Publish, Remember, StopFind, Answer, Final, Restore, Unwind, Cancel, Emit,
       Failed, scanvars
  <2> QED BY <1>1, <2>1 DEF ScanTyped
<1> USE DEF ScanTyped, Remembered, ScanInv, Watched
<1>4. CASE Report
  BY <1>1, <1>2, <1>4 DEF Report, Failed, LineTold
<1>5. CASE Publish
  <2>1. list # last_emitted /\ exit = 9 /\ list \in Lists
    BY <1>1, <1>5 DEF Publish, LineTold
  <2> QED BY <1>3, <1>5, <2>1 DEF Publish
<1>6. CASE Remember
  BY <1>1, <1>2, <1>6 DEF Remember, LineTold
<1>7. CASE StopFind
  BY <1>1, <1>2, <1>7 DEF StopFind, LineTold
<1>8. CASE Answer
  BY <1>1, <1>2, <1>8 DEF Answer, Failed, LineTold
<1>9. CASE Final
  <2>1. exit = 9 /\ list \in Lists
    BY <1>1, <1>9 DEF Final, LineTold
  <2>2. CASE IsNews
    BY <1>3, <1>9, <2>1, <2>2 DEF Final, IsNews
  <2>3. CASE ~IsNews
    BY <1>1, <1>2, <1>9, <2>1, <2>3 DEF Final, IsNews, LineTold
  <2> QED BY <2>2, <2>3
<1>10. CASE Restore
  BY <1>1, <1>2, <1>b, <1>c, <1>d, <1>10 DEF Restore
<1>11. CASE Unwind
  <2>1. /\ NoRepeat' /\ lines' \in Seq(Lists \cup {Error}) /\ Len(lines') = emitted_snapshots + 1
    BY <1>a, <1>11 DEF Unwind
  <2> QED BY <1>1, <1>d, <1>11, <2>1 DEF Unwind, LineTold
<1>12. CASE Cancel
  <2>1. /\ pc # "over" /\ terms < 2 /\ terms' = terms + 1
        /\ UNCHANGED <<list, previous, last_emitted, emitted_snapshots, scans, lines>>
        /\ \/ pc' = "unwind" /\ exit' = exit
           \/ pc' = pc /\ exit' = exit
           \/ pc' = "over" /\ exit' = 0
    BY <1>12 DEF Cancel, Failed
  <2>2. LineTold' /\ NoRepeat'
    BY <1>2, <1>b, <1>c, <2>1
  <2>3. terms' \in 0..2 /\ terms' # 0 /\ exit' \in {0, 2, 9}
    BY <1>1, <2>1
  <2> QED BY <1>1, <1>c, <1>d, <2>1, <2>2, <2>3
<1>13. CASE UNCHANGED scanvars
  BY <1>1, <1>2, <1>13 DEF scanvars, LineTold
<1> QED
  BY <1>4, <1>5, <1>6, <1>7, <1>8, <1>9, <1>10, <1>11, <1>12, <1>13 DEF ScanNext

(* For every set of lists, every limit and any number of snapshots: the     *)
(* panel reads no list twice in a row (receivers.py and cli.py remember in  *)
(* two variables what was told), at most MaxLines of them, and a scan that  *)
(* succeeds ends with the scanner's answer.                                 *)
THEOREM ScanIsTold == ScanSpec => []ScanTold
<1>1. ScanInv => ScanTold
  <2> SUFFICES ASSUME ScanInv PROVE ScanTold
    OBVIOUS
  <2>1. ToSet(lines) \subseteq Lists \cup {Error} /\ Len(lines) \in Nat
    BY DEF ScanInv, ScanTyped, ToSet
  <2>2. ScanTypeOK
    BY <2>1 DEF ScanInv, ScanTyped, LineTold, ScanTypeOK
  <2>3. AnswerShown
    BY <2>1 DEF ScanInv, LineTold, Remembered, AnswerShown, Last
  <2> QED BY <2>2, <2>3 DEF ScanInv, ScanTold
<1> QED BY <1>1, ScanInitInv, ScanStepInv, PTL DEF ScanSpec

-----------------------------------------------------------------------------
(* The telemetry sampler: SamInv is what the window knows of the engine,    *)
(* what the readings know of the link, and what the archive has.            *)
HIDE ScanAssumption
USE SamplerAssumption

(* A set of naturals that is not empty has a least element. *)
LEMMA LeastOf ==
  ASSUME NEW T, T \subseteq Nat, T # {}
  PROVE  \E k \in T : \A j \in T : k <= j
<1>1. PICK k \in T : \A j \in T : <<j, k>> \notin OpToRel(<, Nat)
  BY NatLessThanWellFounded, WFMin, Zenon
<1>2. \A j \in T : ~(j < k)
  BY <1>1 DEF OpToRel
<1> QED BY <1>2

Reading == [at : Nat, frame : Nat]

(* What the loop leaves is the window from the first sample that stays. *)
LEMMA SlidFacts ==
  ASSUME NEW w \in Seq(Reading), Len(w) > 0, now \in Nat
  PROVE  \E k \in 1..Len(w) :
           /\ Slid(w) \in Seq(Reading) /\ Len(Slid(w)) = Len(w) - k + 1
           /\ \A i \in 1..Len(Slid(w)) : Slid(w)[i] = w[k + i - 1]
           /\ ~Stale(w, k) /\ (k > 1 => Stale(w, k - 1))
<1> DEFINE T == {i \in 1..Len(w) : ~Stale(w, i)}
           k == FirstKept(w)
<1>1. Len(w) \in T
  BY DEF Stale
<1>2. PICK m \in T : \A j \in T : m <= j
  <2>1. T \subseteq Nat /\ T # {}
    BY <1>1
  <2> HIDE DEF T
  <2> QED BY <2>1, LeastOf, Zenon
<1>3. m \in 1..Len(w) /\ ~Stale(w, m) /\ \A i \in 1..(m - 1) : Stale(w, i)
  BY <1>2
<1>4. k \in 1..Len(w) /\ ~Stale(w, k) /\ \A i \in 1..(k - 1) : Stale(w, i)
  BY <1>3 DEF FirstKept
<1>5. Slid(w) = SubSeq(w, k, Len(w))
  BY DEF Slid
<1> HIDE DEF k, T
<1>6. \A i \in k..Len(w) : w[i] \in Reading
  BY <1>4
<1>7. /\ SubSeq(w, k, Len(w)) \in Seq(Reading) /\ Len(SubSeq(w, k, Len(w))) = Len(w) - k + 1
      /\ \A i \in 1..(Len(w) - k + 1) : SubSeq(w, k, Len(w))[i] = w[k + i - 1]
  BY <1>4, <1>6, SubSeqProperties
<1>8. k > 1 => Stale(w, k - 1)
  BY <1>4
<1> QED BY <1>4, <1>5, <1>7, <1>8

-----------------------------------------------------------------------------
(* The clock, the engine and the pace of the thread. *)
Paced ==
  /\ now \in 1..MaxTime /\ frame \in 0..(now - 1) /\ quiet \in Nat
  /\ deadline = count + 1 /\ count \in 0..now

(* No sample knows more than there was, and the engine has made at most a   *)
(* frame a second since, except while it is quiet.                          *)
WindowTrue ==
  /\ window \in Seq(Reading) /\ dropped \in Nat /\ (count > 0 => Len(window) > 0)
  /\ Len(window) = 0 => dropped = 0
  /\ \A i \in 1..Len(window) :
       /\ window[i].at \in 1..now /\ window[i].frame \in 0..frame
       /\ frame > window[i].frame => frame - window[i].frame <= now - window[i].at - quiet

(* The failures since the first reading are those beyond the baseline, but  *)
(* for the hidden ones of a link that formed later.                         *)
RadioTrue ==
  /\ failed \in 0..MaxFails /\ since \in Nat /\ hidden \in Nat /\ read \in 0..now
  /\ radio \in Absent..MaxFails /\ baseline \in Absent..MaxFails
  /\ read = 0 => since = 0 /\ hidden = 0 /\ baseline = Absent
  /\ read > 0 => baseline \in Nat /\ failed + hidden = baseline + since
  /\ read = now => radio = failed /\ radio_at = now

(* The archive and the published sample count alike. *)
ArchiveTrue ==
  /\ archived \in 0..count /\ used \in 0..ArchiveSize /\ lost \in 0..MaxLost
  /\ ArchiveIsPrefix

Booleans == own \in BOOLEAN /\ orphan \in BOOLEAN /\ capped \in BOOLEAN

StatusTrue ==
  /\ status \in {"warming", "attention", "healthy"} /\ mode \in BOOLEAN
  /\ StallNoticed /\ LossReported

SamInv == Paced /\ WindowTrue /\ WindowCovers /\ RadioTrue /\ ArchiveTrue /\ Booleans /\ StatusTrue

(* It holds at first. *)
LEMMA SamInitInv == SamInit => SamInv
<1> SUFFICES ASSUME SamInit PROVE SamInv
  OBVIOUS
<1>1. Paced /\ WindowTrue /\ WindowCovers /\ RadioTrue
  BY DEF SamInit, Paced, WindowTrue, WindowCovers, RadioTrue, Absent
<1>2. ArchiveTrue
  <2>1. /\ archived = 0 /\ count = 0 /\ used = 0 /\ lost = 0 /\ capped = FALSE
        /\ current.sample = 0 /\ current.historyCapped = FALSE
    BY DEF SamInit
  <2>2. archived < count <=> capped
    BY <2>1
  <2>3. current.historyCapped = capped
    BY <2>1
  <2>4. archived \in 0..count /\ used \in 0..ArchiveSize /\ lost \in 0..MaxLost /\ used <= ArchiveSize
    BY <2>1
  <2> QED BY <2>1, <2>2, <2>3, <2>4, Zenon DEF ArchiveTrue, ArchiveIsPrefix
<1>3. Booleans
  BY DEF SamInit, Booleans
<1>4. StatusTrue
  BY DEF SamInit, StatusTrue, StallNoticed, LossReported
<1> QED BY <1>1, <1>2, <1>3, <1>4 DEF SamInv

(* A second that passes keeps it: a verdict is about the time of its sample. *)
LEMMA TickInv == SamInv /\ Tick => SamInv'
<1> SUFFICES ASSUME SamInv, Tick PROVE SamInv'
  OBVIOUS
<1>1. /\ now < MaxTime /\ now' = now + 1
      /\ (frame' = frame + 1 /\ quiet' = 0) \/ (frame' = frame /\ quiet' = quiet + 1)
      /\ UNCHANGED <<thread, archived, used, lost, status, mode, count, window, read>>
  BY DEF Tick, thread
<1>2. Paced'
  BY <1>1 DEF SamInv, Paced, thread
<1>3. WindowTrue'
  <2>1. window' = window /\ dropped' = dropped /\ count' = count
    BY <1>1 DEF thread
  <2>2. ASSUME NEW i \in 1..Len(window)
        PROVE  /\ window[i].at \in 1..now' /\ window[i].frame \in 0..frame'
               /\ frame' > window[i].frame => frame' - window[i].frame <= now' - window[i].at - quiet'
    <3>1. /\ window[i].at \in 1..now /\ window[i].frame \in 0..frame
          /\ frame > window[i].frame => frame - window[i].frame <= now - window[i].at - quiet
      BY DEF SamInv, WindowTrue
    <3>2. now \in Nat /\ frame \in Nat /\ quiet \in Nat
      BY DEF SamInv, Paced
    <3>3. ASSUME NEW a \in 1..now, NEW f \in 0..frame, frame > f => frame - f <= now - a - quiet
          PROVE  /\ a \in 1..now' /\ f \in 0..frame'
                 /\ frame' > f => frame' - f <= now' - a - quiet'
      <4>1. CASE frame' = frame + 1 /\ quiet' = 0
        BY <1>1, <3>2, <3>3, <4>1
      <4>2. CASE frame' = frame /\ quiet' = quiet + 1
        BY <1>1, <3>2, <3>3, <4>2
      <4> QED BY <1>1, <4>1, <4>2
    <3> QED BY <3>1, <3>3
  <2> QED BY <2>1, <2>2 DEF SamInv, WindowTrue
<1>4. WindowCovers'
  BY <1>1 DEF thread, SamInv, WindowCovers
<1>5. RadioTrue'
  <2>1. UNCHANGED <<own, failed, since, hidden>> \/ LinkForms \/ LinkGoes \/ LinkFails
    BY DEF Tick
  <2>2. CASE UNCHANGED <<failed, since, hidden>>
    BY <1>1, <2>2 DEF SamInv, RadioTrue, Paced, thread, Absent
  <2>3. CASE LinkForms
    <3>1. failed \in Nat /\ since \in Nat /\ hidden \in Nat /\ read \in Nat /\ MaxFails \in Nat
      BY DEF SamInv, RadioTrue, Paced
    <3>2. read > 0 => hidden' = baseline /\ hidden' \in Nat
      BY <2>3, <3>1 DEF LinkForms, SamInv, RadioTrue
    <3>3. read = 0 => hidden' = 0
      BY <2>3, <3>1 DEF LinkForms
    <3>4. failed' = 0 /\ since' = 0 /\ UNCHANGED <<radio, radio_at, baseline, read>>
      BY <1>1, <2>3 DEF LinkForms, thread
    <3> QED BY <1>1, <3>1, <3>2, <3>3, <3>4 DEF SamInv, RadioTrue, Paced, Absent
  <2>4. CASE LinkFails
    <3>1. failed' \in 0..MaxFails /\ failed' > failed /\ hidden' = hidden
          /\ since' = IF read > 0 THEN since + (failed' - failed) ELSE since
      BY <2>4 DEF LinkFails, SamInv, RadioTrue
    <3>2. UNCHANGED <<radio, radio_at, baseline, read>> /\ read \in 0..now /\ now' = now + 1 /\ now \in Nat
      BY <1>1 DEF thread, SamInv, RadioTrue, Paced
    <3>3. /\ failed \in Nat /\ since \in Nat /\ hidden \in Nat /\ radio \in Absent..MaxFails
          /\ baseline \in Absent..MaxFails /\ (read = 0 => since = 0 /\ hidden = 0 /\ baseline = Absent)
          /\ (read > 0 => baseline \in Nat /\ failed + hidden = baseline + since)
      BY DEF SamInv, RadioTrue
    <3>4. since' \in Nat /\ (read = 0 => since' = 0) /\ (read > 0 => failed' + hidden' = baseline' + since')
      <4>1. CASE read = 0
        BY <3>1, <3>3, <4>1
      <4>2. CASE read > 0
        <5>1. /\ since' = since + (failed' - failed) /\ failed' \in Nat /\ failed' > failed
              /\ baseline' = baseline /\ hidden' = hidden
          BY <3>1, <3>2, <4>2
        <5>2. failed + hidden = baseline + since /\ {failed, hidden, baseline, since} \subseteq Nat
          BY <3>3, <4>2
        <5>3. since' \in Nat /\ failed' + hidden' = baseline' + since'
          BY <5>1, <5>2
        <5> QED BY <4>2, <5>3
      <4> QED BY <3>2, <4>1, <4>2
    <3>5. read' # now' /\ read' \in 0..now'
      BY <3>2
    <3> QED BY <3>1, <3>2, <3>3, <3>4, <3>5 DEF RadioTrue
  <2> QED BY <2>1, <2>2, <2>3, <2>4 DEF LinkGoes
<1>6. ArchiveTrue'
  BY DEF Tick, thread, SamInv, ArchiveTrue, ArchiveIsPrefix
<1>7. Booleans'
  <2>1. own' \in {own, TRUE, FALSE}
    BY DEF Tick, LinkForms, LinkGoes, LinkFails
  <2>2. UNCHANGED <<orphan, capped>>
    BY DEF Tick
  <2> QED BY <2>1, <2>2 DEF SamInv, Booleans
<1>8. StatusTrue'
  <2>1. read' # now'
    BY <1>1 DEF SamInv, RadioTrue, Paced
  <2>2. count' > 0 => window'[Len(window')].at # now'
    BY <1>1 DEF SamInv, WindowTrue, Paced
  <2>3. count' > Warm => count' > 0
    BY <1>1 DEF SamInv, Paced
  <2> QED BY <1>1, <2>1, <2>2, <2>3 DEF SamInv, StatusTrue, StallNoticed, LossReported
<1> QED BY <1>2, <1>3, <1>4, <1>5, <1>6, <1>7, <1>8 DEF SamInv

(* Quiet for more than 1.55 % of a time, an engine is below 98.45 % of it. *)
LEMMA QuietIsSlow ==
  ASSUME NEW d \in Int, NEW e \in Int, NEW q \in Int, d <= e - q, 2000 * q > 31 * e
  PROVE  2000 * d < 1969 * e
  OBVIOUS

(* A sample keeps it. *)
LEMMA SampleInv == SamInv /\ Sample => SamInv'
<1> SUFFICES ASSUME SamInv, Sample PROVE SamInv'
  OBVIOUS
<1> DEFINE w == Append(window, [at |-> now, frame |-> frame])
<1>1. /\ now >= deadline /\ deadline' = deadline + 1 /\ count' = count + 1
      /\ window' = Slid(w)
      /\ dropped' = IF Len(window') = Len(w) THEN dropped ELSE w[Len(w) - Len(window')].at
      /\ ReadRadio /\ mode' \in BOOLEAN /\ status' = Verdict(window', mode') /\ UNCHANGED world
  BY DEF Sample
<1>2. PICK size \in 1..2 : Record(size)
  BY DEF Sample
<1>3. UNCHANGED <<now, frame, quiet, own, orphan, failed, since, hidden>>
  BY <1>1 DEF world
<1>4. /\ now \in Nat /\ now >= 1 /\ frame \in Nat /\ quiet \in Nat /\ count \in Nat
      /\ Paced /\ WindowTrue /\ WindowCovers /\ RadioTrue /\ ArchiveTrue
  BY DEF SamInv, Paced
<1>5. /\ w \in Seq(Reading) /\ Len(w) = Len(window) + 1 /\ Len(window) \in Nat
      /\ w[Len(w)].at = now /\ w[Len(w)].frame = frame
      /\ \A i \in 1..Len(window) : w[i] = window[i]
  <2>1. [at |-> now, frame |-> frame] \in Reading
    BY <1>4 DEF Reading
  <2> QED BY <1>4, <2>1 DEF WindowTrue
<1>6. Paced'
  BY <1>1, <1>3, <1>4 DEF Paced
<1>7. \A i \in 1..Len(w) :
       /\ w[i].at \in 1..now /\ w[i].frame \in 0..frame
       /\ frame > w[i].frame => frame - w[i].frame <= now - w[i].at - quiet
  <2> SUFFICES ASSUME NEW i \in 1..Len(w)
               PROVE  /\ w[i].at \in 1..now /\ w[i].frame \in 0..frame
                      /\ frame > w[i].frame => frame - w[i].frame <= now - w[i].at - quiet
    OBVIOUS
  <2>1. CASE i = Len(w)
    BY <1>4, <1>5, <2>1
  <2>2. CASE i # Len(w)
    <3>1. i \in 1..Len(window) /\ w[i] = window[i]
      BY <1>5, <2>2
    <3> QED BY <1>4, <3>1 DEF WindowTrue
  <2> QED BY <2>1, <2>2
<1> HIDE DEF w
<1>8. PICK k \in 1..Len(w) :
           /\ Slid(w) \in Seq(Reading) /\ Len(Slid(w)) = Len(w) - k + 1
           /\ \A i \in 1..Len(Slid(w)) : Slid(w)[i] = w[k + i - 1]
           /\ ~Stale(w, k) /\ (k > 1 => Stale(w, k - 1))
  <2>1. Len(w) > 0
    BY <1>5
  <2> QED BY <1>4, <1>5, <2>1, SlidFacts
<1>9. /\ window' \in Seq(Reading) /\ Len(window') = Len(w) - k + 1 /\ Len(window') > 0
      /\ \A i \in 1..Len(window') : k + i - 1 \in 1..Len(w) /\ window'[i] = w[k + i - 1]
      /\ window'[1] = w[k] /\ window'[Len(window')] = w[Len(w)]
  <2>1. window' \in Seq(Reading) /\ Len(window') = Len(w) - k + 1 /\ Len(w) \in Nat
    BY <1>1, <1>5, <1>8
  <2>2. \A i \in 1..Len(window') : k + i - 1 \in 1..Len(w) /\ window'[i] = w[k + i - 1]
    <3>1. window' = Slid(w) /\ \A i \in 1..Len(Slid(w)) : Slid(w)[i] = w[k + i - 1]
      BY <1>1, <1>8
    <3>2. \A i \in 1..Len(window') : window'[i] = w[k + i - 1]
      BY <3>1, Zenon
    <3>3. \A i \in 1..Len(window') : k + i - 1 \in 1..Len(w)
      BY <2>1
    <3> QED BY <3>2, <3>3
  <2>3. 1 \in 1..Len(window') /\ Len(window') \in 1..Len(window') /\ k + 1 - 1 = k /\ k + Len(window') - 1 = Len(w)
    BY <2>1
  <2>4. window'[1] = w[k] /\ window'[Len(window')] = w[Len(w)]
    BY <2>2, <2>3
  <2> QED BY <2>1, <2>2, <2>3, <2>4
<1>10. WindowTrue'
  <2>1. ASSUME NEW i \in 1..Len(window')
        PROVE  /\ window'[i].at \in 1..now' /\ window'[i].frame \in 0..frame'
               /\ frame' > window'[i].frame => frame' - window'[i].frame <= now' - window'[i].at - quiet'
    BY <1>3, <1>7, <1>9
  <2>2. dropped' \in Nat
    <3>1. CASE Len(window') = Len(w)
      BY <1>1, <1>4, <3>1 DEF WindowTrue
    <3>2. CASE Len(window') # Len(w)
      <4>1. Len(w) - Len(window') \in 1..Len(w)
        <5>1. Len(w) \in Nat /\ Len(window') = Len(w) - k + 1 /\ k \in 1..Len(w)
          BY <1>5, <1>9
        <5> QED BY <3>2, <5>1
      <4>2. w[Len(w) - Len(window')].at \in Nat
        BY <1>7, <4>1
      <4>3. dropped' = w[Len(w) - Len(window')].at
        BY <1>1, <3>2
      <4> QED BY <4>2, <4>3
    <3> QED BY <3>1, <3>2
  <2> QED BY <1>9, <2>1, <2>2 DEF WindowTrue
<1>11. WindowCovers'
  <2>1. window'[Len(window')].at = now
    BY <1>5, <1>9
  <2>2. dropped' > 0 => now - dropped' > Span
    <3>1. CASE k = 1
      <4>1. dropped' = dropped
        BY <1>1, <1>5, <1>9, <3>1
      <4>2. CASE Len(window) > 0
        <5>1. window[Len(window)].at \in 1..now /\ dropped \in Nat
          BY <1>4, <1>5, <4>2 DEF WindowTrue
        <5>2. dropped > 0 => window[Len(window)].at - dropped > Span
          BY <1>4, <4>2 DEF WindowCovers
        <5> QED BY <1>4, <4>1, <5>1, <5>2
      <4>3. CASE Len(window) = 0
        BY <1>4, <4>1, <4>3 DEF WindowTrue
      <4> QED BY <1>5, <4>2, <4>3
    <3>2. CASE k > 1
      <4>1. Len(w) - Len(window') = k - 1 /\ Len(window') # Len(w)
        <5>1. Len(w) \in Nat /\ Len(window') = Len(w) - k + 1
          BY <1>5, <1>9
        <5> QED BY <3>2, <5>1
      <4>2. dropped' = w[Len(w) - Len(window')].at
        BY <1>1, <4>1
      <4>3. dropped' = w[k - 1].at
        BY <4>1, <4>2
      <4> QED BY <1>8, <3>2, <4>3 DEF Stale
    <3> QED BY <3>1, <3>2
  <2>3. Len(window') > 2 => now - window'[1].at <= Span
    <3>1. Len(window') > 2 => k + 1 < Len(w)
      BY <1>5, <1>9
    <3>2. k + 1 < Len(w) => ~(now - w[k].at > Span)
      BY <1>8 DEF Stale
    <3>3. w[k].at \in Nat
      BY <1>7
    <3> QED BY <1>4, <1>9, <3>1, <3>2, <3>3, SMTT(30)
  <2> QED BY <2>1, <2>2, <2>3 DEF WindowCovers
<1>12. RadioTrue'
  <2>1. \/ UNCHANGED <<radio, baseline, read>> /\ radio_at' \in {radio_at, now}
        \/ own /\ radio_at' = now /\ radio' = failed /\ read' = now /\ baseline' = IF baseline = Absent THEN failed ELSE baseline
        \/ ~own /\ radio' = Absent /\ baseline' = baseline /\ read' = read /\ radio_at # now
    BY <1>1 DEF ReadRadio, Baseline
  <2>2. CASE UNCHANGED <<radio, baseline, read>> /\ radio_at' \in {radio_at, now}
    BY <1>3, <1>4, <2>2 DEF RadioTrue, Absent
  <2>3. CASE /\ radio' = failed /\ radio_at' = now /\ read' = now
             /\ baseline' = IF baseline = Absent THEN failed ELSE baseline
    BY <1>3, <1>4, <2>3 DEF RadioTrue, Absent
  <2>4. CASE radio' = Absent /\ baseline' = baseline /\ read' = read /\ radio_at # now
    BY <1>3, <1>4, <2>4 DEF RadioTrue, Absent
  <2> QED BY <2>1, <2>2, <2>3, <2>4
<1>13. ArchiveTrue'
  <2>1. count' = count + 1 /\ size \in {1, 2}
    BY <1>1, <1>2
  <2>2. /\ archived \in 0..count /\ used \in 0..ArchiveSize /\ lost \in 0..MaxLost
        /\ lost = 0 => (archived < count <=> capped)
    BY <1>4 DEF ArchiveTrue, ArchiveIsPrefix
  <2>3. CASE Refused(size) /\ UNCHANGED lost
    <3>1. /\ current'.sample = count' /\ current'.historyCapped = capped' /\ capped'
          /\ UNCHANGED <<archived, used>>
      <4>1. lost' # lost + 1
        BY <2>2, <2>3
      <4>2. /\ current' = [sample |-> count', historyCapped |-> Refused(size)] /\ capped' = Refused(size)
            /\ IF Refused(size) THEN UNCHANGED <<archived, used>>
               ELSE archived' = archived + 1 /\ used' = used + size
        BY <1>2, <4>1, Zenon DEF Record, Shown
      <4> QED BY <2>3, <4>2
    <3>2. archived' < count'
      BY <1>4, <2>1, <2>2, <3>1
    <3>3. archived' \in 0..count' /\ used' \in 0..ArchiveSize /\ lost' \in 0..MaxLost /\ used' <= ArchiveSize
      BY <1>4, <2>1, <2>2, <2>3, <3>1
    <3> QED BY <3>1, <3>2, <3>3, Zenon DEF ArchiveTrue, ArchiveIsPrefix
  <2>4. CASE ~Refused(size) /\ UNCHANGED lost
    <3>1. /\ current'.sample = count' /\ current'.historyCapped = capped' /\ ~capped' /\ ~capped
          /\ archived' = archived + 1 /\ used' = used + size
      <4>1. lost' # lost + 1
        BY <2>2, <2>4
      <4>2. /\ current' = [sample |-> count', historyCapped |-> Refused(size)] /\ capped' = Refused(size)
            /\ IF Refused(size) THEN UNCHANGED <<archived, used>>
               ELSE archived' = archived + 1 /\ used' = used + size
        BY <1>2, <4>1, Zenon DEF Record, Shown
      <4>3. ~capped
        BY <2>4 DEF Refused
      <4> QED BY <2>4, <4>2, <4>3
    <3>2. used + size <= ArchiveSize
      BY <2>1, <2>2, <2>4 DEF Refused
    <3>3. lost = 0 => ~(archived' < count')
      BY <1>4, <2>1, <2>2, <3>1
    <3>4. archived' \in 0..count' /\ used' \in 0..ArchiveSize /\ lost' \in 0..MaxLost /\ used' <= ArchiveSize
      BY <1>4, <2>1, <2>2, <2>4, <3>1, <3>2
    <3> QED BY <2>4, <3>1, <3>3, <3>4, Zenon DEF ArchiveTrue, ArchiveIsPrefix
  <2>5. CASE lost < MaxLost /\ lost' = lost + 1 /\ UNCHANGED <<archived, used>>
    <3>1. lost' # 0 /\ lost' \in 0..MaxLost
      BY <2>2, <2>5
    <3>2. archived' \in 0..count' /\ used' \in 0..ArchiveSize /\ used' <= ArchiveSize
      BY <1>4, <2>1, <2>2, <2>5
    <3> QED BY <3>1, <3>2 DEF ArchiveTrue, ArchiveIsPrefix
  <2> QED
    <3>1. UNCHANGED lost \/ (lost < MaxLost /\ lost' = lost + 1 /\ UNCHANGED <<archived, used>>)
      BY <1>2, Zenon DEF Record
    <3> QED BY <2>3, <2>4, <2>5, <3>1
<1>14. Booleans'
  <2>1. capped' = capped \/ capped' = Refused(size)
    BY <1>2, Zenon DEF Record
  <2>2. UNCHANGED <<own, orphan>>
    BY <1>3
  <2> QED BY <2>1, <2>2 DEF Refused, SamInv, Booleans
<1>15. StatusTrue'
  <2> DEFINE first == window'[1]
             frames == frame - first.frame
             elapsed == now - first.at
             loss == (own \/ orphan) /\ Known(radio') > Known(baseline')
  <2>1. /\ first.at \in 1..now /\ first.frame \in 0..frame
        /\ frame > first.frame => frame - first.frame <= now - first.at - quiet
    BY <1>3, <1>9, <1>10, SMTT(30) DEF WindowTrue
  <2>2. status' = CASE ~mode' \/ frame = 0 -> "warming"
                    [] loss \/ (count + 1 > Warm /\ Slow(frames, elapsed)) -> "attention"
                    [] OTHER -> IF count + 1 > Warm THEN "healthy" ELSE "warming"
    BY <1>1 DEF Verdict
  <2> HIDE DEF loss, first
  <2>3. status' \in {"warming", "attention", "healthy"}
    <3>1. CASE ~mode' \/ frame = 0
      <4>1. status' \in {"warming", "attention"}
        BY <2>2, <3>1
      <4> QED BY <4>1
    <3>2. CASE mode' /\ frame # 0 /\ (loss \/ (count + 1 > Warm /\ Slow(frames, elapsed)))
      BY <2>2, <3>2
    <3>3. CASE mode' /\ frame # 0 /\ ~(loss \/ (count + 1 > Warm /\ Slow(frames, elapsed)))
      BY <2>2, <3>3
    <3> QED BY <3>1, <3>2, <3>3
  <2>4. StallNoticed'
    <3> SUFFICES ASSUME count' > Warm, mode', 2000 * (frame - first.frame) > now - first.at,
                        2000 * quiet > 31 * (now - first.at)
                 PROVE  status' = "attention"
      BY <1>3 DEF StallNoticed, first
    <3>1. Slow(frames, elapsed)
      <4>1. ASSUME NEW a \in 1..now, NEW f \in 0..frame,
                   frame > f => frame - f <= now - a - quiet,
                   2000 * (frame - f) > now - a, 2000 * quiet > 31 * (now - a)
            PROVE  frame > f /\ 2000 * (frame - f) < 1969 * (now - a)
        <5>1. frame - f \in Int /\ now - a \in Int /\ now - a >= 0
          BY <1>4, <4>1
        <5>2. frame > f
          BY <1>4, <4>1, <5>1
        <5> QED BY <1>4, <4>1, <5>1, <5>2, QuietIsSlow
      <4> QED BY <2>1, <4>1 DEF Slow
    <3>2. frame # 0 /\ count + 1 > Warm
      <4>1. ASSUME NEW a \in 1..now, NEW f \in 0..frame, 2000 * (frame - f) > now - a
            PROVE  frame # 0
        BY <1>4, <4>1
      <4> QED BY <1>1, <2>1, <4>1
    <3> QED BY <2>2, <3>1, <3>2
  <2>5. read' = now => /\ radio' = failed /\ baseline' \in Nat /\ failed + hidden = baseline' + since
                       /\ failed \in Nat /\ since \in Nat /\ hidden \in Nat
    <3>1. /\ failed' = failed /\ since' = since /\ now' = now /\ hidden' = hidden
          /\ failed' \in 0..MaxFails /\ since' \in Nat /\ hidden' \in Nat
          /\ read' > 0 => baseline' \in Nat /\ failed' + hidden' = baseline' + since'
          /\ read' = now' => radio' = failed'
      BY <1>3, <1>12 DEF RadioTrue
    <3>2. read' = now => read' > 0
      BY <1>4
    <3> QED BY <3>1, <3>2
  <2>6. read' = now /\ since > hidden => Known(radio') > Known(baseline')
    <3>1. ASSUME NEW b \in Nat, NEW f \in Nat, f > b PROVE Known(f) > Known(b)
      BY <3>1 DEF Known, Absent
    <3>2. read' = now /\ since > hidden => failed > baseline'
      BY <2>5
    <3> QED BY <2>5, <3>1, <3>2
  <2>7. LossReported'
    <3> SUFFICES ASSUME own, mode', read' = now, since > hidden, frame > 0
                 PROVE  status' = "attention"
      BY <1>3 DEF LossReported
    <3>1. loss
      BY <2>6 DEF loss
    <3>2. frame # 0
      BY <1>4
    <3> QED BY <2>2, <3>1, <3>2
  <2> QED BY <1>1, <2>3, <2>4, <2>7 DEF StatusTrue
<1> QED BY <1>6, <1>10, <1>11, <1>12, <1>13, <1>14, <1>15 DEF SamInv

(* It always holds. *)
LEMMA SamAlways == SamSpec => []SamInv
<1>1. SamInv /\ [SamNext]_samvars => SamInv'
  <2> SUFFICES ASSUME SamInv, [SamNext]_samvars PROVE SamInv'
    OBVIOUS
  <2>1. CASE UNCHANGED samvars
    BY <2>1 DEF samvars, world, thread, SamInv, Paced, WindowTrue, WindowCovers, RadioTrue, ArchiveTrue,
       ArchiveIsPrefix, Booleans, StatusTrue, StallNoticed, LossReported
  <2> QED BY <2>1, TickInv, SampleInv DEF SamNext
<1> QED BY <1>1, SamInitInv, PTL DEF SamSpec

(* For every window, pace of the thread and sequence of readings: the       *)
(* window covers its span (telemetry.py:877), and a sample that has the     *)
(* negotiated mode tells of an engine that falls quiet within it, and of a  *)
(* link that lost more since the first reading than was hidden by a reading *)
(* of an earlier link (telemetry.py:775, 897-926).                          *)
THEOREM VerdictsHold == SamSpec => []VerdictHolds
<1>1. SamInv => VerdictHolds
  <2> SUFFICES ASSUME SamInv PROVE VerdictHolds
    OBVIOUS
  <2>1. now \in 1..MaxTime /\ frame \in 0..MaxTime /\ count \in 0..MaxTime
    BY DEF SamInv, Paced
  <2>2. \A i \in 1..Len(window) : window[i].at \in 1..now /\ window[i].frame \in 0..frame
    BY DEF SamInv, WindowTrue
  <2>3. capped \in BOOLEAN
    BY DEF SamInv, Booleans
  <2>4. SamTypeOK
    BY <2>1, <2>2, <2>3 DEF SamInv, RadioTrue, ArchiveTrue, StatusTrue, SamTypeOK
  <2> QED BY <2>4 DEF SamInv, StatusTrue, VerdictHolds
<1> QED BY <1>1, SamAlways, PTL

(* For every size of the archive and every failed write: what is archived   *)
(* is a prefix of the samples, and the published sample says when it ended  *)
(* (telemetry.py:227-255, 963-969).                                         *)
THEOREM ArchiveStaysPrefix == SamSpec => []ArchiveIsPrefix
<1>1. SamInv => ArchiveIsPrefix
  BY DEF SamInv, ArchiveTrue
<1> QED BY <1>1, SamAlways, PTL
=============================================================================
