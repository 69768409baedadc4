--------------------------- MODULE BoundedCommand ---------------------------
(***************************************************************************)
(* run_command: a child with two pipes, of which the controller keeps a    *)
(* bounded part until a deadline.  The child may start a helper process    *)
(* that inherits the pipes, in the child's process group or out of it.     *)
(* Output is counted in units, a read takes any part of what is there.     *)
(***************************************************************************)
EXTENDS Naturals

CONSTANTS MaxOutput,  \* MAX_COMMAND_OUTPUT_BYTES
          MaxWritten  \* bound on what is written to one pipe

ASSUME OutputAssumption == MaxOutput \in Nat /\ MaxWritten \in Nat

Streams == {"stdout", "stderr"}

VARIABLES
  at,               \* next step of run_command
  child, helper,    \* the child and its helper process
  written, buffer,  \* units written to and kept from each pipe
  taken,            \* units read from each pipe
  open,             \* the streams still registered with the selector
  expired,          \* the deadline has passed
  timed_out, output_limited,
  answer            \* what is returned: "none", "exit", "timeout" or "limit"

locals  == <<buffer, taken, open, timed_out, output_limited>>
cmdvars == <<at, child, helper, written, locals, expired, answer>>

Holders == {"running", "escaped"}  \* a helper that holds the pipes
Alive   == {"running", "silent"}   \* a child that has not ended; it may have closed them

CmdInit ==
  /\ at = "poll" /\ child = "running" /\ helper = "none"
  /\ written = [s \in Streams |-> 0] /\ buffer = written /\ taken = written
  /\ open = Streams /\ expired = FALSE
  /\ timed_out = FALSE /\ output_limited = FALSE /\ answer = "none"

-----------------------------------------------------------------------------
(* The world: processes write, fork, close their pipes and end, and time    *)
(* passes.                                                                  *)

Write(s) ==
  /\ child = "running" \/ helper \in Holders
  /\ written[s] < MaxWritten /\ written' = [written EXCEPT ![s] = @ + 1]
  /\ UNCHANGED <<at, child, helper, locals, expired, answer>>

Fork ==
  /\ child = "running" /\ helper = "none" /\ helper' \in Holders
  /\ UNCHANGED <<at, child, written, locals, expired, answer>>

End ==
  /\ \/ child = "running" /\ child' \in {"silent", "zombie"} /\ UNCHANGED helper
     \/ child \in {"silent", "killed"} /\ child' = "zombie" /\ UNCHANGED helper
     \/ helper \in Holders \cup {"killed"} /\ helper' = "ended" /\ UNCHANGED child
  /\ UNCHANGED <<at, written, locals, expired, answer>>

Expire ==
  /\ ~expired /\ expired' = TRUE
  /\ UNCHANGED <<at, child, helper, written, locals, answer>>

-----------------------------------------------------------------------------
(* The buffer takes one unit more than allowed, to tell that there was more. *)
Capped(n) == IF n < MaxOutput + 1 THEN n ELSE MaxOutput + 1

(* Seeded fault: output past the limit is dropped silently. *)
Limited_Never(b, s) == FALSE

Limited(b, s) == b[s] > MaxOutput

(* A read of one ready stream *)
Read(s) ==
  /\ at = "poll" /\ s \in open /\ ~expired /\ taken[s] < written[s]
  /\ \E n \in 1..(written[s] - taken[s]) :
       /\ taken' = [taken EXCEPT ![s] = @ + n]
       /\ buffer' = [buffer EXCEPT ![s] = Capped(@ + n)]
  /\ output_limited' = Limited(buffer', s)
  /\ at' = IF output_limited' THEN "check" ELSE "poll"
  /\ UNCHANGED <<child, helper, written, open, expired, timed_out, answer>>

(* End of file: all is read and nobody holds the pipe. *)
AtEof(s) == taken[s] = written[s] /\ child # "running" /\ helper \notin Holders

Eof(s) ==
  /\ at = "poll" /\ s \in open /\ ~expired /\ AtEof(s)
  /\ open' = open \ {s}
  /\ at' = IF open' = {} THEN "wait" ELSE "poll"
  /\ UNCHANGED <<child, helper, written, buffer, taken, expired, timed_out,
                 output_limited, answer>>

(* Seeded fault: the wait for the child has no deadline. *)
TimeOut_LoopOnly ==
  /\ at = "poll" /\ expired
  /\ timed_out' = TRUE /\ at' = "check"
  /\ UNCHANGED <<child, helper, written, buffer, taken, open, expired, output_limited, answer>>

(* The deadline ends the loop and the wait for the child. *)
TimeOut ==
  /\ at \in {"poll", "wait"} /\ expired
  /\ timed_out' = TRUE /\ at' = "check"
  /\ UNCHANGED <<child, helper, written, buffer, taken, open, expired, output_limited, answer>>

Wait ==
  /\ at = "wait" /\ child = "zombie"
  /\ child' = "reaped" /\ at' = "check"
  /\ UNCHANGED <<helper, written, locals, expired, answer>>

(* Seeded fault: only an unfinished child is killed. *)
MustKill_RunningOnly == child \in Alive

(* timed_out or output_limited or process.poll() is None *)
MustKill == timed_out \/ output_limited \/ child \in Alive

(* Seeded fault: the child is polled, and so reaped, before the flags are read. *)
Check_PollFirst ==
  /\ at = "check" /\ at' = IF MustKill THEN "kill" ELSE "reap"
  /\ child' = IF child = "zombie" THEN "reaped" ELSE child
  /\ UNCHANGED <<helper, written, locals, expired, answer>>

Check ==
  /\ at = "check" /\ at' = IF MustKill THEN "kill" ELSE "reap"
  /\ UNCHANGED <<child, helper, written, locals, expired, answer>>

(* SIGKILL to the group; who gets it ends as soon as the kernel lets it. *)
Kill ==
  /\ at = "kill" /\ at' = "reap"
  /\ child' = IF child \in Alive THEN "killed" ELSE child
  /\ helper' = IF helper = "running" THEN "killed" ELSE helper
  /\ UNCHANGED <<written, locals, expired, answer>>

(* The last wait, of a second: a child that SIGKILL has not ended by then is *)
(* left, and counts as timed out.                                           *)
Reap ==
  /\ at = "reap" /\ at' = "done"
  /\ \/ child \in {"zombie", "reaped"} /\ child' = "reaped" /\ UNCHANGED timed_out
     \/ child \notin {"zombie", "reaped"} /\ UNCHANGED child /\ timed_out' = TRUE
  /\ answer' = IF timed_out' THEN "timeout" ELSE IF output_limited THEN "limit" ELSE "exit"
  /\ UNCHANGED <<helper, written, buffer, taken, open, output_limited, expired>>

CmdStep == (\E s \in Streams : Read(s) \/ Eof(s)) \/ TimeOut \/ Wait \/ Check \/ Kill \/ Reap
CmdNext == CmdStep \/ (\E s \in Streams : Write(s)) \/ Fork \/ End \/ Expire

CmdSpec == CmdInit /\ [][CmdNext]_cmdvars
-----------------------------------------------------------------------------
CmdTypeOK ==
  /\ at \in {"poll", "wait", "check", "kill", "reap", "done"}
  /\ child \in {"running", "silent", "killed", "zombie", "reaped"}
  /\ helper \in {"none", "running", "escaped", "killed", "ended"}
  /\ written \in [Streams -> 0..MaxWritten] /\ taken \in [Streams -> 0..MaxWritten]
  /\ buffer \in [Streams -> 0..(MaxOutput + 1)] /\ open \subseteq Streams
  /\ expired \in BOOLEAN /\ timed_out \in BOOLEAN /\ output_limited \in BOOLEAN
  /\ answer \in {"none", "exit", "timeout", "limit"}

(* A result with the child's exit status has all that was written to both   *)
(* pipes: truncated output is never taken for the whole.                    *)
NothingTruncated ==
  answer = "exit" => \A s \in Streams : buffer[s] = written[s] /\ written[s] <= MaxOutput

(* The process group is killed only while its leader is not reaped, so that *)
(* the number cannot belong to another group.                               *)
KillsOwnGroup == at = "kill" => child # "reaped"

(* Of a command that did not succeed every process of the group has ended   *)
(* or been sent SIGKILL.  It need not be over: a child that is not reaped   *)
(* in time is answered as a timeout, and the helper is awaited by nobody.   *)
GroupKilled ==
  /\ answer \in {"timeout", "limit"} => child \notin Alive /\ helper # "running"
  /\ answer \in {"exit", "limit"} => child = "reaped"

(* What run_command answers can be relied on: an exit status of a child     *)
(* that is reaped, with its whole output, or a failure whose group gets no  *)
(* further.                                                                 *)
AnswerHolds == NothingTruncated /\ KillsOwnGroup /\ GroupKilled
=============================================================================
