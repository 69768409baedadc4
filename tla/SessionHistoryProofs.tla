------------------------ MODULE SessionHistoryProofs ------------------------
(***************************************************************************)
(* Proofs about SessionHistory, for every limit and any number of sessions *)
(* and faults.  HistoryInv is the inductive invariant: Typed, what the     *)
(* step of the lock holder says of the document (InOrder), why the limit   *)
(* holds (Retained), that the logs are in the order of the sessions until  *)
(* a late stop (Oldest), and which telemetry there may be (Archived, Lived).*)
(***************************************************************************)
EXTENDS SessionHistory, FiniteSetTheorems, SequenceTheorems, TLAPS

USE HistoryAssumption

Ascending(s) == \A i, j \in DOMAIN s : i < j => s[i] < s[j]

-----------------------------------------------------------------------------
(* Without removes one element and keeps the rest as it was. *)
LEMMA WithoutFacts ==
  ASSUME NEW s \in Seq(Ids), IsInjective(s), NEW x
  PROVE  /\ Without(s, x) \in Seq(Ids) /\ IsInjective(Without(s, x))
         /\ ToSet(Without(s, x)) = ToSet(s) \ {x}
         /\ Ascending(s) => Ascending(Without(s, x))
<1>1. CASE x \notin ToSet(s)
  BY <1>1 DEF Without
<1>2. CASE x \in ToSet(s)
  <2> DEFINE k == CHOOSE i \in DOMAIN s : s[i] = x
             w == Without(s, x)
  <2>1. k \in 1..Len(s) /\ s[k] = x
    BY <1>2 DEF ToSet
  <2>2. w = RemoveAt(s, k)
    BY <1>2 DEF Without
  <2> HIDE DEF k, w
  <2>3. /\ SubSeq(s, 1, k-1) \in Seq(Ids) /\ Len(SubSeq(s, 1, k-1)) = k-1
        /\ \A i \in 1..(k-1) : SubSeq(s, 1, k-1)[i] = s[i]
    <3>1. \A i \in 1..(k-1) : s[i] \in Ids
      BY <2>1
    <3> QED BY <2>1, <3>1, SubSeqProperties
  <2>4. /\ SubSeq(s, k+1, Len(s)) \in Seq(Ids) /\ Len(SubSeq(s, k+1, Len(s))) = Len(s) - k
        /\ \A i \in 1..(Len(s) - k) : SubSeq(s, k+1, Len(s))[i] = s[k+i]
    <3>1. \A i \in (k+1)..Len(s) : s[i] \in Ids
      BY <2>1
    <3> QED BY <2>1, <3>1, SubSeqProperties
  <2>5. /\ w \in Seq(Ids) /\ Len(w) = Len(s) - 1
        /\ \A i \in 1..(Len(s) - 1) : w[i] = IF i < k THEN s[i] ELSE s[i+1]
    <3> DEFINE front == SubSeq(s, 1, k-1)
               back == SubSeq(s, k+1, Len(s))
    <3>1. /\ front \in Seq(Ids) /\ Len(front) = k-1 /\ \A i \in 1..(k-1) : front[i] = s[i]
          /\ back \in Seq(Ids) /\ Len(back) = Len(s) - k /\ \A i \in 1..(Len(s) - k) : back[i] = s[k+i]
      BY <2>3, <2>4
    <3>2. w = front \o back
      BY <2>2 DEF RemoveAt
    <3> HIDE DEF front, back
    <3>3. /\ w \in Seq(Ids) /\ Len(w) = Len(s) - 1
          /\ \A i \in 1..(Len(s) - 1) : w[i] = IF i <= k-1 THEN front[i] ELSE back[i - (k-1)]
      <4>1. /\ front \o back \in Seq(Ids) /\ Len(front \o back) = Len(front) + Len(back)
            /\ \A i \in 1..(Len(front) + Len(back)) :
                 (front \o back)[i] = IF i <= Len(front) THEN front[i] ELSE back[i - Len(front)]
        BY <3>1, ConcatProperties, Zenon
      <4>2. Len(front) + Len(back) = Len(s) - 1
        BY <2>1, <3>1
      <4> QED BY <3>1, <3>2, <4>1, <4>2, Zenon
    <3>4. ASSUME NEW i \in 1..(Len(s) - 1) PROVE w[i] = IF i < k THEN s[i] ELSE s[i+1]
      <4>1. CASE i < k
        BY <2>1, <3>1, <3>3, <4>1
      <4>2. CASE ~(i < k)
        <5>1. i - (k-1) \in 1..(Len(s) - k) /\ k + (i - (k-1)) = i + 1
          BY <2>1, <4>2
        <5> QED BY <2>1, <3>1, <3>3, <4>2, <5>1
      <4> QED BY <4>1, <4>2
    <3> QED BY <3>3, <3>4
  <2>6. DOMAIN w = 1..(Len(s) - 1) /\ DOMAIN s = 1..Len(s) /\ Len(s) \in Nat
    BY <2>5
  <2>7. IsInjective(w)
    <3> SUFFICES ASSUME NEW i \in DOMAIN w, NEW j \in DOMAIN w, w[i] = w[j] PROVE i = j
      BY DEF IsInjective
    <3>1. \A m, n \in 1..Len(s) : s[m] = s[n] => m = n
      BY <2>6 DEF IsInjective
    <3>2. i \in 1..(Len(s) - 1) /\ j \in 1..(Len(s) - 1)
      BY <2>6
    <3> DEFINE m == IF i < k THEN i ELSE i + 1
               n == IF j < k THEN j ELSE j + 1
    <3>3. m \in 1..Len(s) /\ n \in 1..Len(s)
      BY <2>1, <2>6, <3>2
    <3>4. w[i] = s[m] /\ w[j] = s[n]
      BY <2>5, <3>2
    <3>5. m = n
      BY <3>1, <3>3, <3>4
    <3> QED BY <2>1, <3>2, <3>5
  <2>8. ToSet(w) = ToSet(s) \ {x}
    <3>1. ASSUME NEW y \in ToSet(w) PROVE y \in ToSet(s) \ {x}
      BY <2>1, <2>5, <2>6, <3>1 DEF ToSet, IsInjective
    <3>2. ASSUME NEW y \in ToSet(s), y # x PROVE y \in ToSet(w)
      <4>1. PICK i \in 1..Len(s) : s[i] = y
        BY <2>6 DEF ToSet
      <4>2. CASE i < k
        BY <2>1, <2>5, <2>6, <4>1, <4>2 DEF ToSet
      <4>3. CASE i > k
        <5>1. i - 1 \in 1..(Len(s) - 1) /\ w[i - 1] = y
          BY <2>1, <2>5, <2>6, <4>1, <4>3
        <5> QED BY <2>6, <5>1 DEF ToSet
      <4> QED BY <2>1, <3>2, <4>1, <4>2, <4>3
    <3> QED BY <3>1, <3>2
  <2>9. Ascending(s) => Ascending(w)
    <3> SUFFICES ASSUME Ascending(s), NEW i \in DOMAIN w, NEW j \in DOMAIN w, i < j PROVE w[i] < w[j]
      BY DEF Ascending
    <3>1. /\ w[i] = IF i < k THEN s[i] ELSE s[i+1]
          /\ w[j] = IF j < k THEN s[j] ELSE s[j+1]
      BY <2>5, <2>6
    <3>2. i \in DOMAIN s /\ j \in DOMAIN s /\ i + 1 \in DOMAIN s /\ j + 1 \in DOMAIN s /\ i \in Int /\ j \in Int
      BY <2>6
    <3> QED BY <2>1, <3>1, <3>2 DEF Ascending
  <2> QED BY <2>5, <2>7, <2>8, <2>9 DEF w
<1> QED BY <1>1, <1>2

(* A log that is written becomes the newest. *)
LEMMA LogFacts ==
  ASSUME logs \in Seq(Ids), IsInjective(logs), NEW x \in Ids, Log(x)
  PROVE  /\ logs' \in Seq(Ids) /\ IsInjective(logs') /\ ToSet(logs') = ToSet(logs) \cup {x}
         /\ Ascending(logs) /\ (\A y \in ToSet(logs) : y <= x) => Ascending(logs')
<1> DEFINE w == Without(logs, x)
<1>1. /\ w \in Seq(Ids) /\ IsInjective(w) /\ ToSet(w) = ToSet(logs) \ {x}
      /\ Ascending(logs) => Ascending(w)
  BY WithoutFacts
<1>2. logs' = Append(w, x)
  BY DEF Log
<1> HIDE DEF w
<1>3. /\ logs' \in Seq(Ids) /\ Len(logs') = Len(w) + 1 /\ Len(w) \in Nat /\ DOMAIN w = 1..Len(w)
      /\ DOMAIN logs' = 1..(Len(w) + 1) /\ logs'[Len(w) + 1] = x
      /\ \A i \in 1..Len(w) : logs'[i] = w[i]
  BY <1>1, <1>2
<1>4. \A i \in 1..Len(w) : w[i] \in ToSet(logs) /\ w[i] # x
  BY <1>1, <1>3 DEF ToSet
<1>5. IsInjective(logs')
  BY <1>1, <1>3, <1>4 DEF IsInjective
<1>6. ToSet(logs') = ToSet(logs) \cup {x}
  <2>1. ToSet(logs') = ToSet(w) \cup {x}
    BY <1>3 DEF ToSet
  <2> QED BY <1>1, <2>1
<1>7. ASSUME Ascending(w), \A y \in ToSet(logs) : y <= x, NEW i \in DOMAIN logs', NEW j \in DOMAIN logs', i < j
      PROVE  logs'[i] < logs'[j]
  <2>1. i \in 1..Len(w) /\ w[i] \in Ids
    BY <1>1, <1>3, <1>7
  <2>2. CASE j \in 1..Len(w)
    BY <1>3, <1>7, <2>1, <2>2 DEF Ascending
  <2>3. CASE j = Len(w) + 1
    BY <1>3, <1>4, <1>7, <2>1, <2>3 DEF Ids
  <2> QED BY <1>3, <2>2, <2>3
<1> QED BY <1>1, <1>3, <1>5, <1>6, <1>7 DEF Ascending

(* Of the others' logs prune leaves fewer than MaxLogs, the newest. *)
LEMMA ExcessFacts ==
  ASSUME NEW s \in Seq(Ids), IsInjective(s)
  PROVE  /\ Excess(s) \subseteq ToSet(s)
         /\ IsFiniteSet(ToSet(s) \ Excess(s)) /\ Cardinality(ToSet(s) \ Excess(s)) <= MaxLogs - 1
         /\ Ascending(s) => \A x \in Excess(s), y \in ToSet(s) \ Excess(s) : x < y
<1> DEFINE n == Len(s) - (MaxLogs - 1)
           pre == SubSeq(s, 1, n)
<1>1. /\ Len(s) \in Nat /\ DOMAIN s = 1..Len(s) /\ n \in Int /\ n <= Len(s)
      /\ \A i \in 1..Len(s) : s[i] \in Ids
  OBVIOUS
<1>2. Excess(s) = ToSet(pre)
  BY DEF Excess
<1> HIDE DEF n, pre
<1>3. /\ pre \in Seq(Ids) /\ Len(pre) = IF 1 <= n THEN n ELSE 0
      /\ \A i \in 1..n : pre[i] = s[i]
  <2>1. \A i \in 1..n : s[i] \in Ids
    BY <1>1
  <2> QED BY <1>1, <2>1, SubSeqProperties DEF pre
<1>4. Excess(s) = {s[i] : i \in 1..n}
  <2>1. DOMAIN pre = 1..n
    BY <1>1, <1>3
  <2> QED BY <1>2, <1>3, <2>1 DEF ToSet
<1>5. \A y \in ToSet(s) \ Excess(s) : \E i \in 1..Len(s) : i > n /\ s[i] = y
  BY <1>1, <1>4 DEF ToSet
<1>6. Excess(s) \subseteq ToSet(s)
  BY <1>1, <1>4 DEF ToSet
<1>7. Ascending(s) => \A x \in Excess(s), y \in ToSet(s) \ Excess(s) : x < y
  BY <1>1, <1>4, <1>5 DEF Ascending
<1>8. IsFiniteSet(ToSet(s) \ Excess(s)) /\ Cardinality(ToSet(s) \ Excess(s)) <= MaxLogs - 1
  <2> DEFINE T == ToSet(s) \ Excess(s)
             D == {i \in 1..Len(s) : i > n}
             f == [i \in D |-> s[i]]
  <2>1. IsFiniteSet(D) /\ Cardinality(D) <= MaxLogs - 1
    <3> DEFINE lo == IF n < 0 THEN 1 ELSE n + 1
    <3>1. D = lo..Len(s) /\ lo \in Int
      BY <1>1
    <3>2. Len(s) - lo + 1 <= MaxLogs - 1 /\ 0 <= MaxLogs - 1
      BY <1>1 DEF n
    <3> HIDE DEF lo
    <3>3. IsFiniteSet(lo..Len(s)) /\ Cardinality(lo..Len(s)) = IF lo > Len(s) THEN 0 ELSE Len(s) - lo + 1
      <4>1. lo \in Int /\ Len(s) \in Int
        BY <1>1, <3>1
      <4> QED BY <4>1, FS_Interval, Zenon
    <3> QED BY <3>1, <3>2, <3>3
  <2>2. f \in Surjection(D, T)
    <3>1. \A i \in D : s[i] \in T
      BY <1>1, <1>4 DEF ToSet, IsInjective
    <3> QED BY <1>5, <3>1 DEF Surjection
  <2>3. IsFiniteSet(T) /\ Cardinality(T) <= Cardinality(D)
    BY <2>1, <2>2, FS_Surjection
  <2>4. Cardinality(T) \in Nat /\ Cardinality(D) \in Nat
    BY <2>1, <2>3, FS_CardinalityType
  <2> QED BY <2>1, <2>3, <2>4
<1> QED BY <1>6, <1>7, <1>8

-----------------------------------------------------------------------------
(* The shape of the variables. *)
Typed ==
  /\ logs \in Seq(Ids) /\ IsInjective(logs) /\ started \subseteq ToSet(logs)
  /\ archives \subseteq Ids /\ live \subseteq Ids
  /\ phase \in {"idle", "busy", "error"} /\ sid \in 0..MaxSessions
  /\ sid = 0 <=> phase = "idle"
  /\ pc \in {"free", "prune", "unlink", "archives", "run", "end", "recover", "idle",
             "finish", "clear"}
  /\ target \in 0..MaxSessions /\ doomed \subseteq Ids /\ removed \subseteq Ids
  /\ stops \subseteq Ids /\ last \in 0..MaxSessions

(* The document names the latest session or none, recovery works on it, and *)
(* nothing is known of a later one; prune spares it.                        *)
InOrder ==
  /\ phase # "idle" => sid = last
  /\ pc \in {"prune", "unlink", "archives", "run", "end"} => phase = "busy"
  /\ pc \in {"recover", "idle"} => phase # "idle" /\ target = sid
  /\ pc \in {"finish", "clear"} => phase = "idle" /\ target = last /\ last # 0
  /\ \A x \in ToSet(logs) \cup stops \cup doomed : x <= last
  /\ sid \notin doomed
  /\ pc # "unlink" => doomed = {}

(* Room is made before a session is added. *)
Retained ==
  /\ Cardinality(started) <= MaxLogs
  /\ pc = "unlink" => Cardinality(started \ (doomed \cup {sid})) <= MaxLogs - 1

(* The logs are in the order of their sessions, and prune takes a prefix. *)
Oldest ==
  ~late => /\ Ascending(logs)
           /\ \A x \in doomed, y \in ToSet(logs) \ doomed : x < y

(* An archive has a log, or the start that removed it still knows, or knew  *)
(* when it failed.                                                          *)
Archived ==
  /\ ArchivesFollowLogs
  /\ pc \notin {"unlink", "archives"} => removed = {}
  /\ pc \in {"archives", "run", "end"} => sid \in ToSet(logs)

(* Live telemetry that nothing names was not cleared, nor what a cast       *)
(* leaves that is about to end; and each has had a fault of its own.        *)
Owing == live \ (Named \ (IF pc = "end" THEN {sid} ELSE {}))
Lived == Owing \subseteq uncleared /\ Cardinality(uncleared) <= faults

(* The faults and what they cost. *)
Counted ==
  /\ faults \in 0..MaxFaults /\ late \in BOOLEAN
  /\ orphaned \subseteq Ids /\ uncleared \subseteq Ids

HistoryInv == Typed /\ Counted /\ InOrder /\ Retained /\ Oldest /\ Archived /\ Lived

(* It holds at first. *)
LEMMA HistoryInit == Init => HistoryInv
<1> SUFFICES ASSUME Init PROVE HistoryInv
  OBVIOUS
<1>1. logs = <<>> /\ ToSet(logs) = {} /\ DOMAIN logs = {}
  BY DEF Init, ToSet
<1>2. Typed
  BY <1>1 DEF Init, Typed, IsInjective, Ids
<1>3. Retained
  BY FS_EmptySet DEF Init, Retained
<1>4. Counted
  <2>1. faults \in 0..MaxFaults
    BY DEF Init
  <2> QED BY <2>1 DEF Init, Counted
<1>5. InOrder
  BY <1>1 DEF Init, InOrder
<1>6. Oldest
  BY <1>1 DEF Init, Oldest, Ascending
<1>7. Archived
  BY DEF Init, Archived, ArchivesFollowLogs
<1>8. Lived
  BY FS_EmptySet DEF Init, Lived, Owing
<1> QED
  BY <1>2, <1>3, <1>4, <1>5, <1>6, <1>7, <1>8 DEF HistoryInv

(* What a step may do to the logs: nothing, one is written, or prune removes one. *)
LogKept == logs' = logs /\ ToSet(logs') = ToSet(logs)
LogWritten(x) ==
  /\ logs' \in Seq(Ids) /\ IsInjective(logs') /\ ToSet(logs') = ToSet(logs) \cup {x}
  /\ Ascending(logs) /\ (\A y \in ToSet(logs) : y <= x) => Ascending(logs')

(* What a log that is written and the step of the lock holder tell. *)
LEMMA LogSteps ==
  ASSUME Typed, InOrder
  PROVE  /\ UNCHANGED logs => LogKept
         /\ \A x \in Ids : Log(x) => LogWritten(x)
         /\ phase # "idle" => sid \in Ids /\ sid = last
         /\ pc \in {"recover", "finish"} => target \in Ids /\ target = last
<1>1. \A x \in Ids : Log(x) => LogWritten(x)
  BY LogFacts DEF Typed, LogWritten
<1> QED BY <1>1 DEF Typed, InOrder, LogKept, Ids

(* The shape is kept, *)
LEMMA TypedStep ==
  ASSUME HistoryInv, [Next]_vars
  PROVE  Typed'
<1>0. Typed /\ InOrder
  BY DEF HistoryInv
<1>a. /\ UNCHANGED logs => LogKept
      /\ \A x \in Ids : Log(x) => LogWritten(x)
      /\ phase # "idle" => sid \in Ids /\ sid = last
      /\ pc \in {"recover", "finish"} => target \in Ids /\ target = last
  BY <1>0, LogSteps
<1> USE <1>0, <1>a DEF Typed, Ids
<1>1. CASE Begin
  BY <1>1 DEF Begin, disk, LogKept
<1>2. CASE Prune
  <2>1. /\ Others \in Seq(Ids) /\ IsInjective(Others) /\ ToSet(Others) = ToSet(logs) \ {sid}
        /\ Ascending(logs) => Ascending(Others)
    BY WithoutFacts DEF Others, Typed
  <2>2. /\ doomed' \subseteq ToSet(Others)
        /\ IsFiniteSet(ToSet(Others) \ doomed') /\ Cardinality(ToSet(Others) \ doomed') <= MaxLogs - 1
        /\ Ascending(Others) => \A x \in doomed', y \in ToSet(Others) \ doomed' : x < y
    BY <1>2, <2>1, ExcessFacts DEF Prune
  <2>3. ToSet(logs) \subseteq Ids
    BY DEF ToSet
  <2> QED BY <1>2, <2>1, <2>2, <2>3 DEF Prune, disk, LogKept
<1>3. CASE UnlinkOne
  <2>1. PICK x \in doomed : doomed' = doomed \ {x} /\ Unlink(x)
             /\ removed' = IF x \in ToSet(logs) THEN removed \cup {x} ELSE removed
    BY <1>3 DEF UnlinkOne
  <2>2. /\ logs' \in Seq(Ids) /\ IsInjective(logs') /\ ToSet(logs') = ToSet(logs) \ {x}
        /\ Ascending(logs) => Ascending(logs')
    BY <2>1, WithoutFacts DEF Unlink, Typed
  <2> QED BY <1>3, <2>1, <2>2 DEF UnlinkOne, Unlink
<1>4. CASE Started
  BY <1>4 DEF Started, disk, LogWritten, InOrder
<1>5. CASE RemoveArchives
  BY <1>5 DEF RemoveArchives, Fault, disk, LogKept
<1>6. CASE Sample
  BY <1>6 DEF Sample, InOrder, disk, LogKept
<1>7. CASE PhaseEvent
  BY <1>7 DEF PhaseEvent, disk, LogWritten, InOrder
<1>8. CASE CleanUp
  BY <1>8 DEF CleanUp, disk, LogKept
<1>9. CASE End
  BY <1>9 DEF End, disk, LogWritten, InOrder
<1>10. CASE Abort
  BY <1>10 DEF Abort, Fault, disk, LogKept
<1>11. CASE Recover
  BY <1>11 DEF Recover, disk, LogKept
<1>12. CASE RecoveryStarted
  BY <1>12 DEF RecoveryStarted, disk, LogWritten
<1>13. CASE WriteIdle
  BY <1>13 DEF WriteIdle, disk, LogKept
<1>14. CASE RecoveryFinished
  BY <1>14 DEF RecoveryFinished, disk, LogWritten
<1>15. CASE ClearLive
  BY <1>15 DEF ClearLive, disk, LogKept
<1>16. CASE StopRead
  BY <1>16 DEF StopRead, disk, LogKept
<1>17. CASE StopEvent
  BY <1>17 DEF StopEvent, disk, LogWritten
<1>18. CASE UNCHANGED vars
  BY <1>18 DEF vars, disk, LogKept
<1> QED
  BY <1>1, <1>2, <1>3, <1>4, <1>5, <1>6, <1>7, <1>8, <1>9, <1>10, <1>11, <1>12, <1>13, <1>14, <1>15, <1>16, <1>17, <1>18 DEF Next

(* the order of the steps is kept, *)
LEMMA InOrderStep ==
  ASSUME HistoryInv, [Next]_vars
  PROVE  InOrder'
<1>0. Typed /\ InOrder
  BY DEF HistoryInv
<1>a. /\ UNCHANGED logs => LogKept
      /\ \A x \in Ids : Log(x) => LogWritten(x)
      /\ phase # "idle" => sid \in Ids /\ sid = last
      /\ pc \in {"recover", "finish"} => target \in Ids /\ target = last
  BY <1>0, LogSteps
<1> USE <1>0, <1>a DEF InOrder, Typed, Ids
<1>1. CASE Begin
  <2>1. ToSet(logs) \cup stops \cup doomed \subseteq Ids
    <3>1. ToSet(logs) \subseteq Ids
      BY <1>0 DEF ToSet, Typed
    <3> QED BY <1>0, <3>1 DEF Typed
  <2>2. \A x \in ToSet(logs) \cup stops \cup doomed : x <= last /\ x <= last' /\ x # sid'
    BY <1>1, <2>1 DEF Begin
  <2>3. UNCHANGED <<stops, doomed>> /\ ToSet(logs') = ToSet(logs)
    BY <1>1 DEF Begin, disk, LogKept
  <2> QED BY <1>1, <2>2, <2>3 DEF Begin
<1>2. CASE Prune
  <2>1. /\ Others \in Seq(Ids) /\ IsInjective(Others) /\ ToSet(Others) = ToSet(logs) \ {sid}
        /\ Ascending(logs) => Ascending(Others)
    BY WithoutFacts DEF Others, Typed
  <2>2. /\ doomed' \subseteq ToSet(Others)
        /\ IsFiniteSet(ToSet(Others) \ doomed') /\ Cardinality(ToSet(Others) \ doomed') <= MaxLogs - 1
        /\ Ascending(Others) => \A x \in doomed', y \in ToSet(Others) \ doomed' : x < y
    BY <1>2, <2>1, ExcessFacts DEF Prune
  <2> QED BY <1>2, <2>1, <2>2 DEF Prune, disk, LogKept
<1>3. CASE UnlinkOne
  <2>1. PICK x \in doomed : doomed' = doomed \ {x} /\ Unlink(x)
             /\ removed' = IF x \in ToSet(logs) THEN removed \cup {x} ELSE removed
    BY <1>3 DEF UnlinkOne
  <2>2. /\ logs' \in Seq(Ids) /\ IsInjective(logs') /\ ToSet(logs') = ToSet(logs) \ {x}
        /\ Ascending(logs) => Ascending(logs')
    BY <2>1, WithoutFacts DEF Unlink, Typed
  <2> QED BY <1>3, <2>1, <2>2 DEF UnlinkOne, Unlink
<1>4. CASE Started
  BY <1>4 DEF Started, disk, LogWritten
<1>5. CASE RemoveArchives
  BY <1>5 DEF RemoveArchives, Fault, disk, LogKept
<1>6. CASE Sample
  BY <1>6 DEF Sample, disk, LogKept
<1>7. CASE PhaseEvent
  BY <1>7 DEF PhaseEvent, disk, LogWritten
<1>8. CASE CleanUp
  BY <1>8 DEF CleanUp, disk, LogKept
<1>9. CASE End
  BY <1>9 DEF End, disk, LogWritten
<1>10. CASE Abort
  BY <1>10 DEF Abort, Fault, disk, LogKept
<1>11. CASE Recover
  BY <1>11 DEF Recover, disk, LogKept
<1>12. CASE RecoveryStarted
  BY <1>12 DEF RecoveryStarted, disk, LogWritten
<1>13. CASE WriteIdle
  BY <1>13 DEF WriteIdle, disk, LogKept
<1>14. CASE RecoveryFinished
  BY <1>14 DEF RecoveryFinished, disk, LogWritten
<1>15. CASE ClearLive
  BY <1>15 DEF ClearLive, disk, LogKept
<1>16. CASE StopRead
  BY <1>16 DEF StopRead, disk, LogKept
<1>17. CASE StopEvent
  BY <1>17 DEF StopEvent, disk, LogWritten
<1>18. CASE UNCHANGED vars
  BY <1>18 DEF vars, disk, LogKept
<1> QED
  BY <1>1, <1>2, <1>3, <1>4, <1>5, <1>6, <1>7, <1>8, <1>9, <1>10, <1>11, <1>12, <1>13, <1>14, <1>15, <1>16, <1>17, <1>18 DEF Next

(* the limit holds, *)
LEMMA RetainedStep ==
  ASSUME HistoryInv, [Next]_vars
  PROVE  Retained'
<1>0. Typed /\ InOrder /\ Retained
  BY DEF HistoryInv
<1>1. IsFiniteSet(started)
  <2>1. IsFiniteSet(Ids) /\ ToSet(logs) \subseteq Ids
    BY <1>0, FS_Interval DEF Ids, ToSet, Typed
  <2> QED BY <1>0, <2>1, FS_Subset DEF Typed
<1>2. CASE Prune
  <2>1. /\ Others \in Seq(Ids) /\ IsInjective(Others) /\ ToSet(Others) = ToSet(logs) \ {sid}
        /\ Ascending(logs) => Ascending(Others)
    BY <1>0, WithoutFacts DEF Others, Typed
  <2>2. /\ doomed' \subseteq ToSet(Others)
        /\ IsFiniteSet(ToSet(Others) \ doomed') /\ Cardinality(ToSet(Others) \ doomed') <= MaxLogs - 1
        /\ Ascending(Others) => \A x \in doomed', y \in ToSet(Others) \ doomed' : x < y
    BY <1>2, <2>1, ExcessFacts DEF Prune
  <2>3. started \ (doomed' \cup {sid}) \subseteq ToSet(Others) \ doomed'
    BY <1>0, <2>1 DEF Typed
  <2>4. Cardinality(started \ (doomed' \cup {sid})) <= Cardinality(ToSet(Others) \ doomed')
    BY <2>2, <2>3, FS_Subset
  <2>5. Cardinality(started \ (doomed' \cup {sid})) \in Nat /\ Cardinality(ToSet(Others) \ doomed') \in Nat
    <3>1. IsFiniteSet(started \ (doomed' \cup {sid}))
      BY <2>2, <2>3, FS_Subset
    <3> QED BY <2>2, <3>1, FS_CardinalityType
  <2> QED BY <1>0, <1>2, <2>2, <2>4, <2>5 DEF Prune, Retained, disk
<1>3. CASE UnlinkOne
  <2>1. PICK x \in doomed : doomed' = doomed \ {x} /\ started' = started \ {x}
    BY <1>3 DEF UnlinkOne, Unlink
  <2>2. started' \ (doomed' \cup {sid}) = started \ (doomed \cup {sid}) /\ started' \subseteq started
    BY <1>0, <2>1 DEF InOrder
  <2>3. Cardinality(started') <= Cardinality(started) /\ IsFiniteSet(started')
    BY <1>1, <2>2, FS_Subset
  <2>4. Cardinality(started) \in Nat /\ Cardinality(started') \in Nat
    BY <1>1, <2>3, FS_CardinalityType
  <2> QED BY <1>0, <1>3, <2>2, <2>3, <2>4 DEF UnlinkOne, Retained
<1>4. CASE Started
  <2>1. Cardinality(started \ {sid}) <= MaxLogs - 1
    <3>1. doomed \cup {sid} = {sid}
      BY <1>4 DEF Started
    <3> QED BY <1>0, <1>4, <3>1 DEF Started, Retained
  <2>2. IsFiniteSet(started \ {sid}) /\ sid \notin started \ {sid}
    BY <1>1, FS_Subset
  <2>3. Cardinality((started \ {sid}) \cup {sid}) = Cardinality(started \ {sid}) + 1
    BY <2>2, FS_AddElement
  <2>4. started' = (started \ {sid}) \cup {sid} /\ pc' = "archives"
    BY <1>4 DEF Started
  <2>5. Cardinality(started \ {sid}) \in Nat
    BY <2>2, FS_CardinalityType
  <2> QED BY <2>1, <2>3, <2>4, <2>5 DEF Retained
<1>5. CASE started' = started /\ (pc' = "unlink" => pc = "unlink" /\ doomed' = doomed /\ sid' = sid)
  BY <1>0, <1>5 DEF Retained
<1>6. CASE UNCHANGED vars
  BY <1>6, <1>5 DEF vars, disk
<1>7. CASE Begin \/ RemoveArchives \/ Sample \/ PhaseEvent \/ CleanUp \/ End \/ Abort
  BY <1>5, <1>7 DEF Begin, RemoveArchives, Sample, PhaseEvent, CleanUp, End, Abort, disk
<1>8. CASE Recover \/ RecoveryStarted \/ WriteIdle \/ RecoveryFinished \/ ClearLive \/ StopRead \/ StopEvent
  BY <1>5, <1>8 DEF Recover, RecoveryStarted, WriteIdle, RecoveryFinished, ClearLive, StopRead, StopEvent, disk
<1> QED BY <1>2, <1>3, <1>4, <1>6, <1>7, <1>8 DEF Next

(* the order of the logs is kept, *)
LEMMA OldestStep ==
  ASSUME HistoryInv, [Next]_vars
  PROVE  Oldest'
<1> SUFFICES ASSUME ~late'
             PROVE  Ascending(logs)' /\ \A x \in doomed', y \in ToSet(logs') \ doomed' : x < y
  BY DEF Oldest
<1>1. Typed /\ InOrder /\ Counted
  BY DEF HistoryInv
<1>2. ~late
  BY DEF Next, Begin, Prune, UnlinkOne, Started, RemoveArchives, Sample, PhaseEvent, CleanUp, End, Abort,
     Recover, RecoveryStarted, WriteIdle, RecoveryFinished, ClearLive, StopRead, StopEvent, vars, disk
<1>3. Ascending(logs) /\ \A x \in doomed, y \in ToSet(logs) \ doomed : x < y
  BY <1>2 DEF HistoryInv, Oldest
<1>4. ASSUME UNCHANGED logs, doomed' = doomed \/ doomed' = {}
      PROVE  Ascending(logs)' /\ \A x \in doomed', y \in ToSet(logs') \ doomed' : x < y
  BY <1>3, <1>4 DEF Ascending
<1>5. ASSUME NEW z \in Ids, Log(z), z = last, sid = last \/ doomed = {}, UNCHANGED doomed
      PROVE  Ascending(logs)' /\ \A x \in doomed', y \in ToSet(logs') \ doomed' : x < y
  <2>1. LogWritten(z) /\ \A y \in ToSet(logs) : y <= z
    BY <1>1, <1>5, LogSteps DEF InOrder
  <2>2. Ascending(logs)' /\ ToSet(logs') = ToSet(logs) \cup {z}
    BY <1>3, <2>1 DEF LogWritten, Ascending
  <2>3. \A x \in doomed : x < z
    BY <1>1, <1>5 DEF InOrder, Typed, Ids
  <2> QED BY <1>3, <1>5, <2>2, <2>3
<1>6. CASE Prune
  <2>1. /\ Others \in Seq(Ids) /\ IsInjective(Others) /\ ToSet(Others) = ToSet(logs) \ {sid}
        /\ Ascending(logs) => Ascending(Others)
    BY <1>1, WithoutFacts DEF Others, Typed
  <2>2. /\ doomed' \subseteq ToSet(Others)
        /\ Ascending(Others) => \A x \in doomed', y \in ToSet(Others) \ doomed' : x < y
    BY <1>6, <2>1, ExcessFacts DEF Prune
  <2>3. logs' = logs /\ sid = last /\ sid \in Ids
    BY <1>1, <1>6, LogSteps DEF Prune, disk, InOrder
  <2>4. \A x \in doomed' : x < sid
    <3>1. \A x \in doomed' : x \in ToSet(logs) /\ x # sid
      BY <2>1, <2>2
    <3>2. ToSet(logs) \subseteq Ids
      BY <1>1 DEF Typed, ToSet
    <3>3. \A x \in doomed' : x \in Ids /\ x <= last /\ x # last
      BY <1>1, <2>3, <3>1, <3>2 DEF InOrder
    <3> QED BY <2>3, <3>3 DEF Ids
  <2>5. \A y \in ToSet(logs') \ doomed' : y = sid \/ y \in ToSet(Others) \ doomed'
    BY <2>1, <2>3
  <2>6. Ascending(logs)'
    BY <1>3, <2>3 DEF Ascending
  <2> QED BY <1>3, <2>1, <2>2, <2>4, <2>5, <2>6
<1>7. CASE UnlinkOne
  <2>1. PICK x \in doomed : doomed' = doomed \ {x} /\ logs' = Without(logs, x)
    BY <1>7 DEF UnlinkOne, Unlink
  <2>2. ToSet(logs') = ToSet(logs) \ {x} /\ Ascending(logs)'
    BY <1>1, <1>3, <2>1, WithoutFacts DEF Typed, Ascending
  <2> QED BY <1>3, <2>1, <2>2
<1>8. CASE Started \/ PhaseEvent \/ End
  <2>1. (Log(sid) \/ UNCHANGED logs) /\ sid \in Ids /\ sid = last /\ UNCHANGED doomed
    BY <1>1, <1>8, LogSteps DEF Started, PhaseEvent, End, InOrder
  <2> QED BY <1>4, <1>5, <2>1
<1>9. CASE RecoveryStarted \/ RecoveryFinished
  <2>1. Log(target) /\ target \in Ids /\ target = last /\ doomed = {} /\ UNCHANGED doomed
    BY <1>1, <1>9, LogSteps DEF RecoveryStarted, RecoveryFinished, InOrder
  <2> QED BY <1>5, <2>1
<1>10. CASE StopEvent
  <2>1. PICK x \in stops : (Log(x) /\ late' = (late \/ x # sid)) \/ UNCHANGED logs
    BY <1>10 DEF StopEvent
  <2>2. UNCHANGED doomed
    BY <1>10 DEF StopEvent
  <2>3. CASE Log(x) /\ late' = (late \/ x # sid)
    <3>1. x = sid
      BY <2>3
    <3>2. x \in Ids /\ x = last
      BY <1>1, <3>1 DEF Typed, InOrder, Ids
    <3> QED BY <1>5, <2>2, <2>3, <3>1, <3>2
  <2> QED BY <1>4, <2>1, <2>2, <2>3
<1>11. CASE Begin \/ RemoveArchives \/ Sample \/ CleanUp \/ Abort \/ Recover \/ WriteIdle \/ ClearLive
            \/ StopRead \/ UNCHANGED vars
  BY <1>4, <1>11 DEF Begin, RemoveArchives, Sample, CleanUp, Abort, Recover, WriteIdle, ClearLive,
     StopRead, vars, disk
<1> QED BY <1>6, <1>7, <1>8, <1>9, <1>10, <1>11 DEF Next

(* archives follow, *)
LEMMA ArchivedStep ==
  ASSUME HistoryInv, [Next]_vars
  PROVE  Archived'
<1>0. Typed /\ InOrder /\ Archived /\ ArchivesFollowLogs /\ faults \in Nat
  BY DEF HistoryInv, Counted, Archived
<1>a. /\ UNCHANGED logs => LogKept
      /\ \A x \in Ids : Log(x) => LogWritten(x)
      /\ phase # "idle" => sid \in Ids /\ sid = last
      /\ pc \in {"recover", "finish"} => target \in Ids /\ target = last
  BY <1>0, LogSteps
<1> USE <1>0, <1>a DEF InOrder, Archived, ArchivesFollowLogs, Typed, Ids
<1>1. CASE Begin
  BY <1>1 DEF Begin, disk, LogKept
<1>2. CASE Prune
  BY <1>2 DEF Prune, disk, LogKept
<1>3. CASE UnlinkOne
  <2>1. PICK x \in doomed : doomed' = doomed \ {x} /\ Unlink(x)
             /\ removed' = IF x \in ToSet(logs) THEN removed \cup {x} ELSE removed
    BY <1>3 DEF UnlinkOne
  <2>2. /\ logs' \in Seq(Ids) /\ IsInjective(logs') /\ ToSet(logs') = ToSet(logs) \ {x}
        /\ Ascending(logs) => Ascending(logs')
    BY <2>1, WithoutFacts DEF Unlink, Typed
  <2> QED BY <1>3, <2>1, <2>2 DEF UnlinkOne, Unlink
<1>4. CASE Started
  BY <1>4 DEF Started, disk, LogWritten
<1>5. CASE RemoveArchives
  <2>1. /\ removed' = {} /\ pc = "archives" /\ pc' = "run" /\ sid' = sid
        /\ ToSet(logs') = ToSet(logs)
    BY <1>5 DEF RemoveArchives, LogKept
  <2>2. CASE archives' = archives \ removed /\ UNCHANGED <<faults, orphaned>>
    BY <2>1, <2>2
  <2>3. ASSUME NEW kept \in SUBSET removed, archives' = archives \ (removed \ kept), Fault,
               orphaned' = orphaned \cup kept
        PROVE  Archived'
    <3>1. faults' # 0
      BY <2>3 DEF Fault
    <3> QED BY <2>1, <2>3, <3>1
  <2> QED BY <1>5, <2>2, <2>3 DEF RemoveArchives
<1>6. CASE Sample
  BY <1>6 DEF Sample, disk, LogKept
<1>7. CASE PhaseEvent
  BY <1>7 DEF PhaseEvent, disk, LogWritten
<1>8. CASE CleanUp
  BY <1>8 DEF CleanUp, Fault, NotCleared, disk, LogKept
<1>9. CASE End
  BY <1>9 DEF End, Fault, disk, LogWritten, LogKept
<1>10. CASE Abort
  BY <1>10 DEF Abort, Fault, NotCleared, disk, LogKept
<1>11. CASE Recover
  BY <1>11 DEF Recover, disk, LogKept
<1>12. CASE RecoveryStarted
  BY <1>12 DEF RecoveryStarted, disk, LogWritten
<1>13. CASE WriteIdle
  BY <1>13 DEF WriteIdle, disk, LogKept
<1>14. CASE RecoveryFinished
  BY <1>14 DEF RecoveryFinished, disk, LogWritten
<1>15. CASE ClearLive
  BY <1>15 DEF ClearLive, Fault, NotCleared, disk, LogKept
<1>16. CASE StopRead
  BY <1>16 DEF StopRead, disk, LogKept
<1>17. CASE StopEvent
  BY <1>17 DEF StopEvent, disk, LogWritten
<1>18. CASE UNCHANGED vars
  BY <1>18 DEF vars, disk, LogKept
<1> QED
  BY <1>1, <1>2, <1>3, <1>4, <1>5, <1>6, <1>7, <1>8, <1>9, <1>10, <1>11, <1>12, <1>13, <1>14, <1>15, <1>16, <1>17, <1>18 DEF Next

(* and a fault loses the live telemetry of one session. *)
LEMMA LivedStep ==
  ASSUME HistoryInv, [Next]_vars
  PROVE  Lived' /\ Counted'
<1>0. Typed /\ InOrder /\ Lived /\ Counted
  BY DEF HistoryInv
<1>1. Counted'
  <2>1. faults' \in 0..MaxFaults
    BY <1>0 DEF Counted, Next, Begin, Prune, UnlinkOne, Started, RemoveArchives, Sample, PhaseEvent,
       CleanUp, End, Abort, Recover, RecoveryStarted, WriteIdle, RecoveryFinished, ClearLive,
       StopRead, StopEvent, Fault, NotCleared, vars
  <2>2. orphaned' \subseteq Ids /\ uncleared' \subseteq Ids
    BY <1>0 DEF Counted, Typed, Next, Begin, Prune, UnlinkOne, Started, RemoveArchives, Sample,
       PhaseEvent, CleanUp, End, Abort, Recover, RecoveryStarted, WriteIdle, RecoveryFinished,
       ClearLive, StopRead, StopEvent, NotCleared, vars
  <2>3. UNCHANGED late \/ StopEvent
    BY DEF Next, Begin, Prune, UnlinkOne, Started, RemoveArchives, Sample, PhaseEvent,
       CleanUp, End, Abort, Recover, RecoveryStarted, WriteIdle, RecoveryFinished, ClearLive,
       StopRead, StopEvent, vars
  <2>4. late' \in BOOLEAN
    BY <1>0, <2>3 DEF Counted, StopEvent
  <2> QED BY <2>1, <2>2, <2>4 DEF Counted
<1>2. IsFiniteSet(uncleared) /\ Cardinality(uncleared) \in Nat
  <2>1. IsFiniteSet(Ids)
    BY FS_Interval DEF Ids
  <2> QED BY <1>0, <2>1, FS_Subset, FS_CardinalityType DEF Counted
<1>3. faults \in Nat /\ faults' \in Nat /\ Cardinality(uncleared) <= faults /\ Owing \subseteq uncleared
  BY <1>0, <1>1 DEF Counted, Lived
<1>4. ASSUME Owing' \subseteq Owing, UNCHANGED uncleared, faults <= faults' PROVE Lived'
  <2>1. Cardinality(uncleared') <= faults'
    BY <1>2, <1>3, <1>4
  <2> QED BY <1>3, <1>4, <2>1 DEF Lived
<1>5. ASSUME NEW x, Owing' \subseteq Owing \cup (live \cap {x}), NotCleared(x) PROVE Lived'
  <2>1. IsFiniteSet(uncleared \cup {x}) /\ Cardinality(uncleared \cup {x}) <= Cardinality(uncleared) + 1
    <3>1. CASE x \in uncleared
      <4>1. uncleared \cup {x} = uncleared
        BY <3>1
      <4>2. IsFiniteSet(uncleared \cup {x}) /\ Cardinality(uncleared \cup {x}) = Cardinality(uncleared)
        BY <1>2, <4>1, Zenon
      <4> QED BY <1>2, <4>2
    <3>2. CASE x \notin uncleared
      BY <1>2, <3>2, FS_AddElement
    <3> QED BY <3>1, <3>2
  <2>2. uncleared' \subseteq uncleared \cup {x}
    BY <1>5 DEF NotCleared
  <2>3. Cardinality(uncleared') <= Cardinality(uncleared \cup {x}) /\ IsFiniteSet(uncleared')
    BY <2>1, <2>2, FS_Subset
  <2>4. Cardinality(uncleared') \in Nat /\ Cardinality(uncleared \cup {x}) \in Nat
    BY <2>1, <2>3, FS_CardinalityType
  <2>5. Cardinality(uncleared') <= faults'
    BY <1>2, <1>3, <1>5, <2>1, <2>3, <2>4 DEF NotCleared, Fault
  <2>6. Owing' \subseteq uncleared'
    BY <1>3, <1>5 DEF NotCleared
  <2> QED BY <2>5, <2>6 DEF Lived
<1>6. 0 \notin live /\ sid \in 0..MaxSessions /\ (phase = "idle" => sid = 0)
  BY <1>0 DEF Typed, Ids
<1>7. CASE Begin \/ Prune \/ UnlinkOne \/ Started \/ RemoveArchives
  <2>1. Owing' \subseteq Owing /\ UNCHANGED uncleared /\ faults <= faults'
    BY <1>3, <1>6, <1>7 DEF Owing, Named, Begin, Prune, UnlinkOne, Started, RemoveArchives, Fault, disk
  <2> QED BY <1>1, <1>4, <2>1
<1>8. CASE Sample \/ PhaseEvent
  <2>1. Owing' \subseteq Owing /\ UNCHANGED uncleared /\ faults <= faults'
    BY <1>3, <1>8 DEF Owing, Named, Sample, PhaseEvent
  <2> QED BY <1>1, <1>4, <2>1
<1>9. CASE CleanUp
  <2>1. CASE live' = live \ {sid} /\ UNCHANGED <<faults, uncleared>>
    <3>1. Owing' \subseteq Owing /\ UNCHANGED uncleared /\ faults <= faults'
      BY <1>3, <1>9, <2>1 DEF Owing, Named, CleanUp
    <3> QED BY <1>1, <1>4, <3>1
  <2>2. CASE NotCleared(sid) /\ UNCHANGED live
    <3>1. Owing' \subseteq Owing \cup (live \cap {sid})
      BY <1>9, <2>2 DEF Owing, Named, CleanUp
    <3> QED BY <1>1, <1>5, <2>2, <3>1
  <2> QED BY <1>9, <2>1, <2>2 DEF CleanUp
<1>10. CASE End
  <2>1. Owing' \subseteq Owing /\ UNCHANGED uncleared /\ faults <= faults'
    BY <1>3, <1>10 DEF Owing, Named, End, Fault
  <2> QED BY <1>1, <1>4, <2>1
<1>11. CASE Abort
  <2>1. CASE pc \in {"finish", "clear"}
    <3>1. NotCleared(target) /\ Owing' \subseteq Owing \cup (live \cap {target})
      BY <1>11, <2>1 DEF Owing, Named, Abort, disk
    <3> QED BY <1>1, <1>5, <3>1
  <2>2. CASE pc \notin {"finish", "clear"}
    <3>1. Owing' \subseteq Owing /\ UNCHANGED uncleared /\ faults <= faults'
      BY <1>3, <1>11, <2>2 DEF Owing, Named, Abort, Fault, disk
    <3> QED BY <1>1, <1>4, <3>1
  <2> QED BY <2>1, <2>2
<1>12. CASE Recover \/ RecoveryStarted \/ WriteIdle \/ RecoveryFinished
  <2>1. Owing' \subseteq Owing /\ UNCHANGED uncleared /\ faults <= faults'
    BY <1>0, <1>3, <1>12 DEF Owing, Named, Recover, RecoveryStarted, WriteIdle, RecoveryFinished,
       InOrder, disk
  <2> QED BY <1>1, <1>4, <2>1
<1>13. CASE ClearLive
  <2>1. CASE live' = live \ {target} /\ UNCHANGED <<faults, uncleared>>
    <3>1. Owing' \subseteq Owing /\ UNCHANGED uncleared /\ faults <= faults'
      BY <1>3, <1>13, <2>1 DEF Owing, Named, ClearLive
    <3> QED BY <1>1, <1>4, <3>1
  <2>2. CASE NotCleared(target) /\ UNCHANGED live
    <3>1. Owing' \subseteq Owing \cup (live \cap {target})
      BY <1>13, <2>2 DEF Owing, Named, ClearLive
    <3> QED BY <1>1, <1>5, <2>2, <3>1
  <2> QED BY <1>13, <2>1, <2>2 DEF ClearLive
<1>14. CASE StopRead \/ StopEvent \/ UNCHANGED vars
  <2>1. Owing' \subseteq Owing /\ UNCHANGED uncleared /\ faults <= faults'
    BY <1>3, <1>14 DEF Owing, Named, StopRead, StopEvent, vars, disk
  <2> QED BY <1>1, <1>4, <2>1
<1> QED BY <1>1, <1>7, <1>8, <1>9, <1>10, <1>11, <1>12, <1>13, <1>14 DEF Next

(* So it always holds. *)
LEMMA HistoryAlways == Spec => []HistoryInv
<1>1. HistoryInv /\ [Next]_vars => HistoryInv'
  BY TypedStep, InOrderStep, RetainedStep, OldestStep, ArchivedStep, LivedStep DEF HistoryInv
<1> QED BY <1>1, HistoryInit, PTL DEF Spec

(* For every limit: no more sessions than MaxLogs are kept, whatever was    *)
(* killed and however late a stop writes its event (session.py:137-156).    *)
THEOREM RetentionAlwaysHolds == Spec => []RetentionHolds
<1>1. HistoryInv => RetentionHolds
  <2> SUFFICES ASSUME HistoryInv PROVE RetentionHolds
    OBVIOUS
  <2>1. ToSet(logs) \subseteq Ids
    BY DEF HistoryInv, Typed, ToSet
  <2>2. (sid = 0) = (phase = "idle")
    BY DEF HistoryInv, Typed
  <2>3. orphaned \subseteq Ids /\ uncleared \subseteq Ids /\ late \in BOOLEAN
    BY DEF HistoryInv, Counted
  <2> QED BY <2>1, <2>2, <2>3 DEF HistoryInv, Typed, Counted, Retained, RetentionHolds, TypeOK
<1> QED BY <1>1, HistoryAlways, PTL

(* For every limit and any number of faults: an archive without its log is  *)
(* one that an interrupted or failing start was about to remove, and live   *)
(* telemetry that no document names and no recovery works on is of a        *)
(* session whose clearing failed or was cut off, of which there are no more *)
(* than faults (session.py:145-202, 394-410, telemetry.py:421-477,          *)
(* transport.py:809-812).                                                   *)
THEOREM TelemetryIsNamed == Spec => []TelemetryNamed
<1>1. HistoryInv => TelemetryNamed
  <2> SUFFICES ASSUME HistoryInv PROVE FaultsLoseOne /\ ArchivesFollowLogs
    BY DEF TelemetryNamed
  <2>1. live \ Named \subseteq Owing
    BY DEF Owing
  <2> QED BY <2>1 DEF HistoryInv, Lived, Archived, FaultsLoseOne
<1> QED BY <1>1, HistoryAlways, PTL

(* A removed log is not the one of the named session, and of two started    *)
(* sessions the earlier one goes (session.py:97-156).                       *)
THEOREM OldestGoFirst == Spec => OldestLogsGo
<1> DEFINE Goes == /\ \A x \in ToSet(logs) \ ToSet(logs') : x # sid
                   /\ ~late => \A x \in started \ started', y \in started' \ doomed : x < y
<1>1. HistoryInv /\ [Next]_vars => [Goes]_vars
  <2> SUFFICES ASSUME HistoryInv, [Next]_vars PROVE Goes
    OBVIOUS
  <2>1. CASE UnlinkOne
    <3>1. PICK x \in doomed : Unlink(x)
      BY <2>1 DEF UnlinkOne
    <3>2. ToSet(logs') = ToSet(logs) \ {x} /\ started' = started \ {x}
      BY <3>1, WithoutFacts DEF Unlink, HistoryInv, Typed
    <3> QED BY <3>1, <3>2 DEF HistoryInv, Typed, InOrder, Oldest
  <2>2. CASE ~UnlinkOne
    <3>1. started \subseteq started'
      BY <2>2 DEF Next, Begin, Prune, Started, RemoveArchives, Sample, PhaseEvent, CleanUp, End, Abort,
         Recover, RecoveryStarted, WriteIdle, RecoveryFinished, ClearLive, StopRead, StopEvent, vars, disk
    <3>2. UNCHANGED logs \/ \E x \in Ids : Log(x)
      BY <2>2, LogSteps DEF HistoryInv, Typed, Next, Begin, Prune, Started, RemoveArchives, Sample,
         PhaseEvent, CleanUp, End, Abort, Recover, RecoveryStarted, WriteIdle, RecoveryFinished, ClearLive,
         StopRead, StopEvent, vars, disk, InOrder
    <3>3. ToSet(logs) \subseteq ToSet(logs')
      BY <3>2, LogSteps DEF HistoryInv, LogWritten
    <3> QED BY <3>1, <3>3
  <2> QED BY <2>1, <2>2
<1> QED BY <1>1, HistoryAlways, PTL DEF Spec, OldestLogsGo
=============================================================================
