--------------------------- MODULE OutputCollector ---------------------------
(***************************************************************************)
(* BoundedOutputCollector: a thread drains the engine's pipe into a        *)
(* bounded tail and copies the tail to a file of the workspace, while the  *)
(* main thread adds startup milestones, copies too, and stops the thread.  *)
(* Output is a sequence of units, numbered in the order of their append.   *)
(* The copies are not under the lock: the truncation and the write of one  *)
(* thread may fall between those of the other.                             *)
(***************************************************************************)
EXTENDS Naturals, SequencesExt

CONSTANTS TailLimit,  \* the limit of the collector
          MaxUnits    \* bound on units written and milestones

ASSUME TailAssumption == TailLimit \in Nat \ {0} /\ MaxUnits \in Nat

Threads == {"reader", "main"}

VARIABLES
  step,            \* next step of each thread
  unread, ended,   \* units in the pipe; the engine and its children have closed it
  total,           \* units appended so far
  tail, file,      \* _tail and the contents of the output file
  payload,         \* the payload each thread copies
  stopping,        \* "no", or _stop is set and the reader knew the pipe "open" or
                   \* would find it "closed" then
  waited,          \* the join has timed out
  broken           \* the last copy of stop failed

colvars == <<step, unread, ended, total, tail, file, payload, stopping, waited, broken>>

ColInit ==
  /\ step = [reader |-> "select", main |-> "idle"]
  /\ unread = 0 /\ ended = FALSE /\ total = 0 /\ tail = <<>> /\ file = <<>>
  /\ payload = [t \in Threads |-> <<>>] /\ stopping = "no" /\ waited = FALSE
  /\ broken = FALSE

Advance(t, label) == step' = [step EXCEPT ![t] = label]

(* Seeded fault: the limit applies to the new units only. *)
Kept_NewOnly(n) == tail \o [i \in 1..n |-> total + i]

(* The last TailLimit units of what is there and n new ones. *)
Kept(n) == LET all == tail \o [i \in 1..n |-> total + i]
           IN  SubSeq(all, IF Len(all) > TailLimit THEN Len(all) - TailLimit + 1 ELSE 1, Len(all))

(* _append, under the lock *)
AppendUnits(n) == tail' = Kept(n) /\ total' = total + n

Output ==
  /\ ~ended /\ total + unread < MaxUnits
  /\ unread' = unread + 1
  /\ UNCHANGED <<step, ended, total, tail, file, payload, stopping, waited, broken>>

Close ==
  /\ ~ended /\ ended' = TRUE
  /\ UNCHANGED <<step, unread, total, tail, file, payload, stopping, waited, broken>>

(* Seeded fault: the stop is looked for whether there are events or not. *)
Idle_Always == TRUE

(* The select of the reader times out: the pipe is open and empty. *)
Idle == unread = 0 /\ ~ended

Drain ==
  /\ step["reader"] = "select" /\ unread > 0
  /\ \E n \in 1..unread : unread' = unread - n /\ AppendUnits(n)
  /\ Advance("reader", "copy")
  /\ UNCHANGED <<ended, file, payload, stopping, waited, broken>>

EndOfFile ==
  /\ step["reader"] = "select" /\ unread = 0 /\ ended
  /\ Advance("reader", "last")
  /\ UNCHANGED <<unread, ended, total, tail, file, payload, stopping, waited, broken>>

Nothing ==
  /\ step["reader"] = "select" /\ Idle
  /\ Advance("reader", "check")
  /\ UNCHANGED <<unread, ended, total, tail, file, payload, stopping, waited, broken>>

(* Only then _stop is looked at; the pipe may have changed by now. *)
CheckStop ==
  /\ step["reader"] = "check"
  /\ Advance("reader", IF stopping # "no" THEN "last" ELSE "select")
  /\ UNCHANGED <<unread, ended, total, tail, file, payload, stopping, waited, broken>>

(* note_startup *)
Note ==
  /\ step["main"] = "idle" /\ total + unread < MaxUnits
  /\ AppendUnits(1) /\ Advance("main", "copy")
  /\ UNCHANGED <<unread, ended, file, payload, stopping, waited, broken>>

(* stop: the event, the join, and a last copy *)
Stop ==
  /\ step["main"] = "idle" /\ Advance("main", "join")
  /\ stopping' = IF ended /\ step["reader"] # "check" THEN "closed" ELSE "open"
  /\ UNCHANGED <<unread, ended, total, tail, file, payload, waited, broken>>

(* Seeded fault: stop does not copy the tail once more. *)
AfterJoin_NoCopy == "over"
AfterJoin == "final"

Join ==
  /\ step["main"] = "join"
  /\ \/ step["reader"] = "over" /\ Advance("main", AfterJoin) /\ UNCHANGED waited
     \/ step["reader"] # "over" /\ Advance("main", "over") /\ waited' = TRUE
  /\ UNCHANGED <<unread, ended, total, tail, file, payload, stopping, broken>>

Copying == {"copy", "last", "final"}

(* _snapshot: the tail is copied under the lock, *)
Snapshot(t) ==
  /\ step[t] \in Copying
  /\ payload' = [payload EXCEPT ![t] = tail]
  /\ Advance(t, [copy |-> "truncate", last |-> "truncate_last", final |-> "truncate_final"][step[t]])
  /\ UNCHANGED <<unread, ended, total, tail, file, stopping, waited, broken>>

(* _snapshot ends, and swallows the error of a copy that failed. *)
Copied(t, failed) ==
  /\ Advance(t, IF step[t] \notin {"truncate", "write"} THEN "over"
                ELSE IF t = "reader" THEN "select" ELSE "idle")
  /\ broken' = (broken \/ (failed /\ step[t] \in {"truncate_final", "write_final"}))

(* and replace_output truncates the file, if it can, *)
Truncate(t) ==
  /\ step[t] \in {"truncate", "truncate_last", "truncate_final"}
  /\ \/ /\ file' = <<>> /\ UNCHANGED broken
        /\ Advance(t, [truncate |-> "write", truncate_last |-> "write_last",
                       truncate_final |-> "write_final"][step[t]])
     \/ UNCHANGED file /\ Copied(t, TRUE)
  /\ UNCHANGED <<unread, ended, total, tail, payload, stopping, waited>>

(* What writing p from the beginning leaves of contents that are longer. *)
Over(p, contents) == p \o SubSeq(contents, Len(p) + 1, Len(contents))

(* and writes from its beginning, all of the payload or a part of it. *)
WriteFile(t) ==
  /\ step[t] \in {"write", "write_last", "write_final"}
  /\ \/ file' = Over(payload[t], file) /\ Copied(t, FALSE)
     \/ \E k \in 0..(Len(payload[t]) - 1) :
          file' = Over(SubSeq(payload[t], 1, k), file) /\ Copied(t, TRUE)
  /\ UNCHANGED <<unread, ended, total, tail, payload, stopping, waited>>

ColNext ==
  \/ Output \/ Close \/ Drain \/ EndOfFile \/ Nothing \/ CheckStop \/ Note \/ Stop \/ Join
  \/ \E t \in Threads : Snapshot(t) \/ Truncate(t) \/ WriteFile(t)

ColSpec == ColInit /\ [][ColNext]_colvars
-----------------------------------------------------------------------------
Stopped == step["main"] = "over" /\ ~waited

ColTypeOK ==
  /\ unread \in 0..MaxUnits /\ total \in 0..MaxUnits /\ ended \in BOOLEAN
  /\ \A s \in {tail, file, payload["reader"], payload["main"]} :
       Len(s) <= TailLimit /\ ToSet(s) \subseteq 1..MaxUnits
  /\ stopping \in {"no", "open", "closed"} /\ waited \in BOOLEAN /\ broken \in BOOLEAN

(* After a stop whose own copy succeeded the file holds the newest units,   *)
(* in their order, whatever the copies before did: no older tail, no        *)
(* mixture of two and no half of one survives it.                           *)
FileIsTail ==
  Stopped /\ ~broken => file = [i \in 1..Len(file) |-> total - Len(file) + i] /\ file = tail

(* When the engine had closed the pipe before the stop, all it wrote has    *)
(* been read, unless the reader had found the pipe open and empty and not   *)
(* yet looked at _stop: it then leaves what came since.                     *)
AllDrained == Stopped /\ stopping = "closed" => unread = 0

(* What the user is shown of a failed engine is the end of its output,      *)
(* within the limit.                                                        *)
OutputKept == ColTypeOK /\ FileIsTail /\ AllDrained
=============================================================================
