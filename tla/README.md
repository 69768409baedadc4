# Verification of omacast

TLA+ models of omacast.  The core is what several processes share: the state of a
cast as the controller keeps it on disk, and the host network that a root helper
borrows for the time of a cast and has to give back.  Around it are what sessions
leave behind, the bounded readers by which the controller talks to other programs,
and the pure decisions about what was read.  The models are checked on small
instances with TLC; every safety property but those of two readers, and one refinement,
are also proved with TLAPS, for every value of their constants (section 4).

## 1. The system

| Component | Where | State | Operations |
|---|---|---|---|
| Session state document | `src/omarchy_cast/state.py` | `state.json`: phase, session id, error | `idle_state`, `transition`, `validate_state`, `read_state`, `write_state` (atomic replace) |
| Session lock | `state.py` `SessionLock`, `session_lock_is_held` | flock on `session.lock` | non-blocking acquire, release (also by death), probe |
| Supervisors | `session.py` | local copy of the state, stop marker, event log | simulated, dry-run and transport runs; `recover_stale_session`; `request_stop` |
| Command line, user service | `cli.py`, `service.py` | transient unit `omacast-session.service` | start, stop, status, recover |
| Transport adapter | `transport.py` | child processes, lease thread, guard cleanup flag | authorize, lease, run engine, stop guard, await and acknowledge cleanup |
| Root guard | `packaging/arch/omarchy-cast-guard`, `-guard-launch` | `/run/omarchy-cast/<session>`, firewall, NetworkManager, networkd | prepare, activate, session loop, cleanup, reclaim |
| Independent recovery | `packaging/arch/omarchy-cast-guard-recover` | same files | readiness, watch, restoration, status, finalization |
| Supplicant broker | `packaging/arch/omarchy-cast-supplicant-broker` | one engine connection, one P2P group, NetworkManager record | find, connect, disconnect, cleanup of metadata and activation |
| Guard client contracts | `guard.py` | none | argument and status validation, reclaim client |
| Event log, telemetry | `session.py`, `telemetry.py` | bounded files, sampling threads | append, retention, summary |
| Host discovery, launch plan, receivers, pairing, bounded I/O, WFD fixture | `discovery.py`, `engine.py`, `media_probe.py`, `receivers.py`, `pairing.py`, `bounds.py`, `command.py`, `wfd_fixture.py` | none that outlives a call | parsing, selection, validation |
| Panel, engine patches, build scripts | `ui/`, `patches/`, `scripts/`, `bin/` | | |

(Paths of this table are relative to `src/src` for the Python package and `src/`
for the rest.)

How the parts interact:

- Every command is a process of its own.  The controller processes of one user
  communicate only through `state.json`, `session.lock` and `stop-request.json`;
  `start` makes systemd run a supervisor, `stop` either writes the stop marker or,
  when the state is still idle, stops the unit and then runs recovery.
- The transport supervisor calls the adapter.  The adapter has the guard started
  through polkit, reads its `status.json`, renews the `heartbeat` file that both
  root helpers watch, starts the engine, and at the end writes `stop`, waits for a
  terminal status and writes `ack`.
- The guard starts recovery and the broker before it reports `ready`, and changes
  the network only after the engine has written `trigger`.  Recovery takes over when
  the lease lapses.  Both run nearly the same restoration over the same files.
- The engine reaches the receiver only through the broker, which forms the P2P
  group once the guard has written the `armed` marker.

What is hard in this code: kills between any two file operations; failed writes
that leave memory and file different; stop requests for sessions that have ended;
a status that is used after the state has moved on; guard and recovery restoring
the same session at once; a heartbeat that is read while it is rewritten; a
restoration of which one step fails; and that all of it must still end.  The
hazards of `PROJECT.json` list each at its line with the property that guards it.

What makes each component correct:

- state document: only legal transitions reach the file, written by the lock's
  owner, one session at a time; recovery leaves every phase;
- stop: never ends another session; an acknowledged stop ends its session;
- status: "owner lost" is only said of a session that is over, unless the probe could not
  open the lock;
- adapter: a result is returned only after a confirmed cleanup, a start-up that
  leads nowhere is given up, a lost receiver is a proved one, nothing is closed under
  a thread, and a stop ends it whatever hangs;
- broker: what it leaves in wpa_supplicant and NetworkManager has a trace by which
  the helpers find it, and a cleanup that reports success has taken it back;
- guard and recovery: `cleaned` means the host has everything back, and anything still
  borrowed has root-owned evidence, but for what no cleanup would look for (`missed`,
  see GuardSession); a healthy cast keeps its network; a vanished controller leads to
  restoration, and the helpers end;
- several sessions and `recover` on one adapter: reclaim deletes nothing of a session, a
  session nothing of other programs until it has resumed NetworkManager, and the last one to
  end leaves the host as the first one found it;
- event logs and telemetry: the limit holds after any kill, the log of the running
  session is never the one that goes, archives go with their logs, the live
  telemetry of a killed cast is found again, and a fault loses that of one session at most;
- commands and output: truncated output is never taken for the whole, no process group
  but the own is killed, and of a failed command every process has ended or been sent
  SIGKILL; the retained engine output is the newest and in order, and complete when the
  engine had ended before the stop, but for what came between the reader's last look at
  the pipe and its look for the stop;
- streamed scan: the panel is told every change once and ends with the scanner's answer;
- sampler: the window has what a verdict needs, a stall and the failures of a link beyond
  the first reading are noticed once the negotiated mode is known, a full archive is told
  to whoever reads it;
- readings: a mistyped PIN is refused, a ready host has a plan, a failed query shows,
  a listing shows each sink once, with what either of its two sources says of it, client
  and guard accept the same requests, except those for a group address or the all-zero
  one, and understand each other's statuses, a progress record is shown whole, a negotiation
  completes only in order.

## 2. Modules

| Module | Models | Used by |
|---|---|---|
| `CastState` | phases, `TRANSITIONS`, `transition`, `validate_state` | `CastContract`, `SessionLifecycle` |
| `CastContract` | abstract: what all controller processes together promise about casting | `SessionLifecycle` |
| `SessionLifecycle` | the controller processes and their three shared files | `MCSessionLifecycle`, `SessionLifecycleProofs` |
| `MCSessionLifecycle` | three process slots and which command runs in which | the `lifecycle_*` runs |
| `GuardSession` | guard, recovery, adapter and engine of one session | `MCGuardSession`: `guard_session`, `guard_ack`, `guard_recovery_race`; `GuardSessionProofs` |
| `GuardSharing` | several sessions, reclaim and other programs on one adapter | `MCGuardSharing`: `guard_sharing`, `guard_overlap`; `GuardSharingProofs` |
| `SupplicantBroker` | broker, metadata, NetworkManager record and the cleanups of broker and helpers | `MCSupplicantBroker`: `broker_cleanup`; `SupplicantBrokerProofs` |
| `AdapterContract` | abstract: what `adapter.run` promises its supervisor | `TransportRun` |
| `TransportRun` | `GuardedTransportAdapter.run` with its threads and children | `MCTransportRun`: `transport_run`; `TransportRunProofs` |
| `SessionHistory` | event logs, archives and live telemetry over several sessions | `session_history`; `SessionHistoryProofs` |
| `BoundedCommand` | `run_command` | `MCControllerIO`, `ControllerIOProofs` |
| `OutputCollector` | `BoundedOutputCollector` with its two threads | `MCControllerIO`, `ControllerIOProofs` |
| `ScanStream` | `omacast scan --stream` from the scanner to the panel | `MCControllerIO`, `ControllerIOProofs` |
| `TelemetrySampler` | the sampling thread, its window, verdict and archive | `MCControllerIO`, `ControllerIOProofs` |
| `MCControllerIO` | one of the four at a time, and their fairness | `controller_io` |
| `PairingPin` | checksum, validation and reading of a PIN | `MCReadings` |
| `HostReadiness` | `discover_host`, readiness, launch plan, probe, the list of `recover` | `MCReadings` |
| `ReceiverList` | WFD bytes of a peer, and how peers become the list of receivers | `MCReadings` |
| `GuardContract` | requests and statuses between controller, launcher and guard | `MCReadings` |
| `TelemetryReadings` | the bounded read of the progress file and its last record | `MCReadings` |
| `WfdFixture` | the offline WFD negotiation | `MCReadings` |
| `MCReadings` | the inputs of the six, one at a time | `readings`; `ReadingsProofs` |
| `SessionLifecycleProofs`, `TransportRunProofs`, `GuardSessionProofs`, `GuardSharingProofs`, `SupplicantBrokerProofs`, `SessionHistoryProofs`, `ControllerIOProofs`, `ReadingsProofs` | inductive invariants, theorems | |

The MC modules that are not described have nothing of their own: the configurations
give the constants.

### SessionLifecycle

`Proc` is a set of slots; in each a controller process may run, end, and be
followed by another; a process that ends resets its part of the state, so that a free
slot remembers nothing (`kind` included).  `pc[p]` names the next operation of a
process, `kind[p]` its command, `loc[p]` the Python variable `state`, `own[p]` the
session id it was given.  The shared state is `disk` (the document; request, timestamps and messages
are dropped, phase and session id kept), `lock`, `stop` (the session in the marker,
0 without a marker) and `unit`.  `asked`, `acked` and `turned` (the sessions that a
recovery was turned away from by a lock that no owner held) are history variables.

One action is one operation on a shared file.  Reading the state and deciding on
it is one action, the write that follows another, so anything may happen in
between; the same goes for the two reads of `stop` (`StopChoose`, `StopRequest`)
and for the probe of `status`, which takes the lock and gives it back
(`StatusProbe`, `StatusUnprobe`).  A probe that cannot open the lock file answers that
nobody holds it (`res = "blind"`), and status then says "owner lost" whatever runs.

`Move` has three outcomes: the write and the
event succeed, the write fails, the event after the write fails.  `write_state` replaces
the file and then syncs the directory, so a write that fails may have changed the file or
not; the same goes for every other write of the document (`Begin`, `Except`,
`RecoverWrite`) and of the marker (`StopMark`).  The transport
supervisor keeps the new state in memory even when the write failed, because its
`move()` assigns before it writes; the other two do not.  `Uncaught` says which of
these exceptions the handler of the supervisor sees.  A simulated or dry-run supervisor
whose write of idle fails after the replace still has "stopping" in memory, and its handler
writes error over the idle document: `Retraction`, the one change of the file that is no
transition of the table.  `Kill` drops memory and lock
and leaves the files.

The adapter is reduced here to what the supervisor sees of it: it reports the
connecting and streaming stage, returns with an outcome, or raises.  That this is
what it does is the refinement of `AdapterContract` by `TransportRun`.

`CastContract` is the abstract specification: one document, at most one cast or one recovery
at work on it, and the session ids that are spent. Processes, lock and memory do not occur
in it; what occurs is that a cast may be told that publishing its end failed (`unsure`), and
then either publishes its failure over it (`Retract`) or leaves it (`Accept`). `Contract`
maps it to the processes: the document is the file, the cast is the session of the process
that holds the lock between its first write and its `finally`, recovery mends while it holds
the lock with an abandoned phase before it, and an id is spent unless a supervisor still on
its way to its first document holds it. `Begin` requires an idle document and an id that is
not spent; `Advance` a document that is the cast's own and not yet over, and never gives it
a phase of recovery; `Attend` and `Mend` need a document that no running cast owns, and
nothing else may bring it to idle. Every other step of `SessionLifecycle`, the whole of
stop, start and status included, is a stutter, an id given up (`Forfeit`) or the end of
whoever was killed (`End`, `Abandon`). The contract states no fairness: nothing makes
anybody run `recover`.

### GuardSession

One session, from the polkit authorization to the end of all its processes. `files` is the
set of files that exist under `/run/omarchy-cast/<session>`, `status` the phase in
`status.json`, `hb` what a read of the heartbeat yields (fresh, stale, or torn between
truncation and write, which every renewal goes through and which is no lease), and
`borrowed` the set of things changed on the host: the broker process, the UFW rule, the
firewalld port, the stopped NetworkManager, the P2P interface, the networkd units. Guard and
recovery have a program counter each; the ten steps of the restoration they share
(`Restore(w)`) are written once, with their differences (who deletes which UFW rule, who
insists on the NetworkManager record) where they occur.

Faults are named by what goes wrong: `kill` (SIGKILL of a helper or of the
controller), `setup` (a command of prepare or activation), `broker` (the broker
unit does not stop), `wfd`, `interfaces`, `resume`, `rule`, `networkd` (that step of
the restoration reports failure), and three that the scripts do not report: `blind`, a look
at the host that fails and passes for nothing to do (`iw dev X info`, `systemctl is-active`,
`ufw status | grep`, and an `ufw` or a `systemd-run` that fails although it did its work),
`networkd-stop`, a networkd unit that does not stop (`|| true`), and `torn`, a look at the
lease during a renewal.  No fault is needed for a lease that lapses (`Expire`), at any
place of the guard's setup, activation or cleanup, once the controller renews no more.

What can be left on the host with success as the answer is remembered in the history
variable `missed`: what a blind look or an ignored stop left, and what the guard, or the
broker, changed when the other helper had already been past the place where it would have
given it back, or had removed the record by which a cleanup finds it (`Behind`, `Connect`).
Nothing else may be left, and `missed` may be non-empty only after a fault or a lapsed lease.

### GuardSharing

Here a session is what others can see of it: the flock of `/run/omarchy-cast`, its
directory with what is in it (`ev`), and what it changes on the host (`nm`, `networkd`,
`ifs`, the P2P clients of the adapter).  Guard and recovery have the same steps as in
`GuardSession`, with the steps merged that concern nobody else, over the direct
backend, which borrows the most.  `lease` is the heartbeat as the helpers see it.  `Resume` and
`Unmark` are the SIGCONT and the removal of the marker, between which NetworkManager runs;
`resumed` remembers the sessions that have been through the first.  The
`recover` command is a process of its own with the whole path from the controller's look
at the interfaces over the approval, the lock, the two checks and the deletions to the
count that the controller accepts.  `Others` lets other programs create, connect and
remove P2P clients as long as NetworkManager runs.  `prior` remembers networkd as the
first session found it, `late` that a session was prepared while another still had its
directory.

### SupplicantBroker

One session of the broker and the two helpers that take back what it leaves.
`marker` and `record` are the files `supplicant-wfd-owned` and
`networkmanager-active` (absent, intent, or with paths); `wfd`, `group` and `active`
are what wpa_supplicant and NetworkManager hold: the metadata (ours or of another
program), the P2P group (absent, being negotiated, formed) and the activation.
`flags`, `reply`, `stop` and `final` are the attributes of the broker object.  One
action is one D-Bus call or one file operation.  `Request` is the dispatch of
`handle`, the operators up to `PollActive` are `connect` over either backend, `Wfd*`
and `Nm*` are the two cleanups; they take the process as a parameter because the
broker and both helpers run the same code.  A fault is a kill, a call that fails, or
a call that fails although it was carried out.

### TransportRun and AdapterContract

`pc` names the next call of the main thread, up to the last step of the `finally`
clause; the local variables keep their names.  `helper`, `guard` and `engine` are the
children as the adapter sees them, `collector` and `sampler` its threads, `workspace`
the descriptors that these write to.  One round of the poll loop is one action,
`Round`, at a time of its own; what it finds when it looks for the RTSP socket, for
a frame and for the group is free, including that nothing can be established.  An
exception in the `finally` clause replaces `out` and skips what follows.  `acked` and
`absentFor` are history variables.  The clock and the locals of the loop are reset
after it because nothing reads them any more.

`AdapterContract` has two variables, the reported stage and the end.  The refinement
maps `out` to "none" until `run` has really ended.

### SessionHistory

`logs` is the sequence of event logs in the order of their last write, which is the
order `_prune_event_logs` sorts by; `started` those with a `session-started` event,
`archives` and `live` the telemetry in state and runtime directory.  Supervisor and
`recover` are steps of the holder of the session lock; pruning is a look at the logs
(`Prune`) and one step per removal, so that it can be killed in between.  The event of
a stop request is written without the lock and however late (`stops`).  The adapter clears
the live telemetry only when its sampler has stopped, and a clearing that fails, the
adapter's or that of recovery, is reported to nobody: either leaves it (`CleanUp`,
`ClearLive`), and a sampler that goes on may write it again (`Sample` at "end").
`orphaned` are the archives whose logs a start had removed when something failed, `uncleared`
the sessions whose live telemetry was not cleared when it was to be.

### MCControllerIO: BoundedCommand, OutputCollector, ScanStream, TelemetrySampler

Four machines of the controller that do not touch each other, each a module with its
own variables, `Init` and `Next`; `scenario` chooses the one that runs.  The sampler has two
scenarios: its verdict does not look at the archive and the archive does not look at the
link, so that "health" runs without failing writes and "archive" without a P2P link; the
theorems have both together.

- `BoundedCommand`: the loop of `run_command` over two pipes with a read of any part of
  what is there, deadline, limit, kill of the process group and the two waits.  The
  world writes, forks a helper that holds the pipes inside or outside the group, closes
  them and ends.  The last wait is bounded too: a child that SIGKILL has not ended within a
  second is left, and the answer is a timeout (`Reap`).
- `OutputCollector`: the reader thread and the main thread append to the tail under the
  lock; the copy to the file is three steps (`Snapshot`, `Truncate`, `WriteFile`)
  without it, as in the code, and each of the two that touch the file may fail or do half,
  which `_snapshot` swallows (`broken` when it was the last copy).  What the reader finds at
  the pipe (`Drain`, `EndOfFile`, `Nothing`) and its look for the stop (`CheckStop`) are two
  steps.  `stopping` remembers whether the pipe was closed, and whether the reader could
  still find it so, when the stop was asked for.
- `ScanStream`: the scanner's reports, the two callbacks with the variable in which each
  remembers what it last told, the final answer, and SIGTERM, which raises an exception
  at any of these places.
- `TelemetrySampler`: time in seconds, the engine producing one frame a second or none,
  the own radio link and an interface of an earlier cast; `Sample` is one turn of
  the thread with its window, radio reading, verdict and `_record`, of which each write
  may fail.  The link may fail, go, and form again at any time, and a new link counts its
  failures from zero while the baseline stays; `hidden` is what that conceals.  A sample
  without the negotiated mode gives no verdict (`mode`).  The engine is slow below 98.5 % of
  real time, after the ratio has been rounded to three decimals, so that a very small one is
  zero and does not count.  The progress file can always be read here.

### MCReadings: the readers without state

Parsers and decisions are operators, named after the functions; MCReadings enumerates their
inputs, one at a time, and the properties compare what is read with what was meant.
`HostReadiness` has every query of `discover_host` and how it may fail; `ReceiverList` reads
the WFD element byte by byte and is compared with elements encoded by `Encoded`. What the
code asks first, the text `wfd_dev_info=` that the patched engine writes, comes before the
bytes: `EngineDetails` has that text, from the engine's own reading of the elements (patch
0052, the first element 0 of six bytes or more), `RawDetails` has the bytes alone, and both
are compared with what was encoded. The lists of these two are sets of positions in the list
they are made from: `Devices` has the rows that become devices, `Records` the peers that
become records, and `Place` says where the stable sort puts a record; `GuardContract` has
the checks of three programs in two languages side by side, over peers that are unicast,
group, all-zero or no address, and with the look-up of the user (`getent`);
`TelemetryReadings` reads a growing progress file at every length through the window of
`_bounded_read`; `WfdFixture` is the loop over a transcript; `PairingPin` is compared with
the errors a user makes.

## 3. Runs

Passing runs:

| Run | Question | Instance |
|---|---|---|
| `lifecycle_safety` | Do the processes keep `CastContract`; do marker and status stay consistent; is an unfinished phase unattended only after a fault or after a probe turned its recovery away? | a dry-run cast from a terminal, simulated and transport casts of the unit, recover, stop, start and status over three slots; two sessions; one fault |
| `lifecycle_stop` | Does an acknowledged stop end its session? | start, stop and restore one at a time, as the panel issues them; two sessions; one fault; fairness |
| `guard_session` | Does `cleaned` mean restored and is the evidence kept, but for what was missed; does a healthy cast keep its network; do both helpers end after the controller has gone, and is the host then restored but for what was missed? | both backends, one fault of any kind; fairness |
| `guard_sharing` | Does reclaim meet no session, do sessions leave the host as they found it, do they spare other programs until NetworkManager runs again? | two sessions, two clients of others, one `recover` after the other, one fault |
| `broker_cleanup` | Has everything left on the bus a trace, is a reported success true, and does the cleanup end? | both backends, broker and both helpers, two faults; fairness |
| `transport_run` | Is start-up bounded, is a loss proved, is nothing closed under a thread, does a result mean a confirmed cleanup, does a stop end it, does it keep the contract? | one run, bounded or until stopped, every fault; fairness |
| `session_history` | Does the limit hold, do the newest logs and the named one stay, do archives follow, does a fault lose the live telemetry of one session at most? | four sessions, two logs retained, two faults |
| `controller_io` | Does a command end, with its whole output or with its group ended or killed; is the end of the output kept; is every change of a scan told once; do window, verdict and archive of the sampler hold? | one of the five scenarios at a time, see Bounds; fairness |
| `readings` | Do the readers read what their inputs mean (section 1)? | enumerated inputs, see Bounds |

Runs in which the code disagrees with its documentation, each with the shortest
trace TLC finds (quoted in the findings of `PROJECT.json`):

| Run | What it shows |
|---|---|
| `guard_ack` | A stop before the trigger makes the guard publish `error` before its cleanup; the adapter acknowledges that status. |
| `guard_recovery_race` | "Incomplete cleanup retains root-owned recovery evidence and is reported": recovery reads a torn heartbeat and cleans up while the guard is inside `activate_network`; the guard then borrows the network without a token, its own cleanup returns at once, and the status says `cleaned`. |
| `guard_overlap` | A session is prepared while the restoration of an earlier one is pending; it records networkd as the earlier one left it, running, and restores that: the units that were stopped before both stay up. |

### Further deviations

Found while modelling, and reproduced by changing one file:

| Change | What TLC then finds |
|---|---|
| `SessionLifecycle.tla`: drop `disk.sid \notin turned` from `OrphanOnlyByFault` | violated without any fault: `stop` read idle and stops the unit, the supervisor has just published its first phase and dies; the recovery of `stop` finds the lock taken by the probe of a status poll, takes it for another session and leaves the phase unfinished. |
| `BrokerCleanup.cfg`: add `INVARIANT Converges` | violated: an activation that goes between the list of active connections and the read of its properties makes the cleanup fail although nothing is left. |

The properties of section 3 hold with exceptions that are part of their formulas.  Each of
them is something the code does; a trace of any of them is found by dropping the exception:

| Exception | What the code does |
|---|---|
| `CleanedMeansRestored`, `EvidenceKept`: `missed` | A look at the host that fails (`omarchy-cast-guard:169`, `:237`, `:283`; `omarchy-cast-guard-recover:73`, `:172`) is taken for nothing to do, and a networkd unit that does not stop is ignored (`omarchy-cast-guard:201`, `omarchy-cast-guard-recover:161`): the session is `cleaned` and the evidence goes. |
| the same, `Behind` and `Connect` | A helper restores while the guard is still inside `activate_network`, or cannot stop the broker, which forms its group after the interfaces have been removed. |
| `HealthyCastKept`: `faults = 0` | A helper that looks at the lease between the truncation and the write of a renewal (`transport.py:266`) ends a healthy cast. |
| `PersistedLegal`: `Retraction` | Error is published over an idle document, after a sync that failed behind the replace (`state.py:344`). |
| `OwnerLostIsOver`: `res = "lost"` | A probe that cannot open the lock file says that nobody holds it (`state.py:186`), and `status` that the owner is lost. |
| `GuardSparesOrphans`: `resumed` | After NetworkManager has been resumed the other helper may repeat the removal by prefix, and take a client that another program has just made. |
| `AllDrained`: `stopping` | Output that comes between the reader's look at the pipe (`telemetry.py:322`) and its look for the stop (`:324`) is left. |
| `FileIsTail`: `broken` | The last copy of the output fails and nobody is told (`telemetry.py:290`). |
| `GroupKilled` | A child that SIGKILL does not end within a second is left (`command.py:100`), and nobody waits for its helpers. |
| `LossReported`: `hidden` | A link that forms again counts from zero, against the baseline of the one before (`telemetry.py:775`). |
| `SidesAgree` | The all-zero and the group addresses pass `valid_peer` of the guard and not `receiver_address` of the client. |

### Bounds

- Two sessions are needed for everything that is about an earlier and a later
  session (late stop, stale marker, stale status); three slots let a cast, its
  successor and a control command, or two control commands and a cast, overlap.
  One fault already separates memory and file, or leaves an orphan; the theorems
  hold for any number.
- `lifecycle_safety` gives each slot its commands (`IssuesMixed`): a cast from a
  terminal, recover or status, the panel.  The first is a dry-run because `start`
  puts simulated and transport casts into any free slot, so all three kinds occur and
  two of them overlap.  That keeps the run at 1.7 million states; the theorems hold
  for every `Issues`.
- `lifecycle_stop` issues one stop at a time.  With two, `StopHonoured` does not hold:
  `request_stop` replaces any marker, so a stop that has read session A and is delayed
  until B runs erases the marker of B that was already acknowledged.
- `guard_session` has every kind of fault, one of them in a run of the session, together
  with the lapse of a lease.  With `MaxFaults = 2` and without the liveness property the
  invariants hold as well (3.3 million states, too long for a regular run); the theorems
  hold for every number.
- `GuardSession` has one session: what it says of the helpers of a session does not
  depend on another one.  What several sessions share is in `GuardSharing`.  There is no
  rule that keeps them apart: prepare takes the lock and refuses only a directory of its
  own name, so that a session is accepted while an earlier restoration is pending.
  `HostRestored` and `GuardSparesOrphans` are therefore about sessions that did not
  overlap (`~late`), and `guard_overlap` shows what happens to the others.
- `guard_sharing`: two sessions give an earlier and a later one; two foreign clients
  with `GuardLimit` 2 and `ClientLimit` 1 reach the refusal of the controller after the
  guard has deleted; with a group of a killed session they exceed the guard's limit
  too.  One fault is a killed helper, whose session the other helper restores, or a
  restoration of which a step fails.  That a networkd unit silently does not stop is a fault
  of `GuardSession` only.  A lease does not lapse during setup and
  activation here; `GuardSession` has that race.
- Two faults in `broker_cleanup` cover a killed broker together with a helper whose
  call fails, or with the kill of one of the two helpers.
- `transport_run` has deadlines of two time units and rounds of up to two, so that a
  round may step over a deadline; its clock ends after the latest possible end of
  start-up, so no deadline is cut off.  The theorems hold for all values.
- `session_history`: with `MaxLogs` 2 the third session is the first to prune and the
  fourth prunes again after a kill in between; two faults are two kills, or a kill and a
  failing removal.
- `controller_io`: a command may write up to three units to each pipe with one allowed,
  so that a buffer fills, overflows by one and is written to after that; the collector
  keeps two of four units; a scan has two lists, a limit of three lines and five reports;
  the sampler has a window of two seconds in five, one warm sample and an archive of
  three units with samples of one or two.  Two radio failures, one before and one after the first
  reading, and one failed write.
- `readings`: PINs over the digits 0, 5 and 9, whose differences include the one (five) that
  the checksum misses, the theorems have all digits; hosts with up to three devices and one
  bad answer (two devices and two diagnostics fit); up to four peers (three fit, three
  receivers); progress files up to 40 units through a window of 16; requests at both sides
  of every limit; transcripts of up to seven messages out of ten.

Deadlock is checked in the `lifecycle_*` runs: there some command can always be
run.  The other runs turn it off, because what they model really ends: one session
(`GuardSession`, `SupplicantBroker`, `TransportRun`), the sessions of `GuardSharing` and
`SessionHistory` when all have been used, one command, scan or input.

### Fairness

`SessionLifecycle!FairSpec`: every live controller process keeps going.  The code
justifies it because every wait is a poll with a deadline (authorization,
readiness, connection, cleanup) or a finite simulated duration.  The stream itself
is not forced to end, nobody is forced to run a command, and no fault has to occur.

`GuardSession!FairSpec`: guard, recovery and the adapter's own steps keep going,
each as a whole, and a lease that is no longer renewed lapses.  The helpers are
systemd units; their loops poll and have deadlines.  Approval, the trigger, the
connection, the end of a cast and all faults are free.

`SupplicantBroker!FairSpec`: broker and helpers keep going, because each call is a
`gdbus` process with a timeout and each wait has a deadline, and NetworkManager gives
up an activation it was told to deactivate.  No client has to ask and no receiver has
to answer.

`TransportRun!FairSpec`: the main thread keeps going, because each of its waits has a
deadline.  Engine, guard and the other threads owe it nothing.

`MCControllerIO!Fairness`: the loop of `run_command` goes on and time passes.  Child and
helper owe it nothing: they may write for ever, close their pipes and live on, or never
end, so that only the deadline ends the command.  `GuardSharing`, `SessionHistory` and
`MCReadings` state no fairness and no liveness.

## 4. Proofs

Each module of proofs has an inductive invariant, as a conjunction of named parts, the
steps `Init => Inv` and `Inv /\ [Next]_vars => Inv'` (one step per action, and one lemma
per part where the actions are many), and from it the theorems.  They assume of the
constants only what the named `ASSUME` of each module says, that they have their types
and that deadlines and limits are positive; what else a theorem assumes is stated here.

| Module | Theorem | States |
|---|---|---|
| `SessionLifecycleProofs` | `TypeCorrect` | `[]TypeOK`; the file is always a document that `read_state` accepts |
| | `CastsKeepContract` | `ContractKept`, the refinement of `CastContract` |
| | `PersistedStepsLegal` | `PersistedLegal`, not a property of a run; every change of the file is made by the lock's owner and, but for the retraction of an end, a legal transition |
| | `OnlyOwnStops`, `OwnerLostMeansOver`, `RecoveryAlwaysLegal` | `[]NoForeignStop`, `[]OwnerLostIsOver`, `[]RecoveryNeverStuck` |
| | `OrphansOnlyByFault` | `[]OrphanOnlyByFault` |
| `TransportRunProofs` | `RunTypes`, `StartupGivenUp`, `DisconnectsProved`, `WorkspaceSafe`, `ReturnsAreClean` | `[]TypeOK`, `[]StartupBounded`, `[]LossProved`, `[]NoUseAfterClose`, `[]ReturnMeansCleaned` |
| | `RunImplementsContract` | `ContractKept`, the refinement of `AdapterContract` |
| `GuardSessionProofs` | `GuardTypes` | `[]TypeOK` |
| | `EvidenceIsKept`, `CleanedIsRestored`, `HealthyCastIsKept` | `[]EvidenceKept`, `[]CleanedMeansRestored`, `[]HealthyCastKept`, for any faults and any number of them |
| `GuardSharingProofs` | `SharingTypes`, `ReclaimIsAlone`, `HostIsRestored`, `OrphansAreSpared` | `[]TypeOK`, `[]ReclaimAlone`, `[]HostRestored`, `GuardSparesOrphans` |
| `SupplicantBrokerProofs` | `BrokerTypes`, `TracesAreKept`, `SuccessIsRelease`, `GroupsEnd` | `[]TypeOK`, `[]TraceKept`, `[]SuccessMeansReleased`, `[]GroupEnded` |
| `SessionHistoryProofs` | `RetentionAlwaysHolds`, `TelemetryIsNamed`, `OldestGoFirst` | `[]RetentionHolds`, `[]TelemetryNamed`, `OldestLogsGo` |
| `ControllerIOProofs` | `CommandTypes`, `AnswersHold` | `[]CmdTypeOK`, `[]AnswerHolds` |
| | `OutputIsKept`, `ScanIsTold` | `[]OutputKept`, `[]ScanTold` |
| | `VerdictsHold`, `ArchiveStaysPrefix` | `[]VerdictHolds`, `[]ArchiveIsPrefix` |
| `ReadingsProofs` | `TyposAreDetected` | `TyposDetected`, for every PIN |
| | `ContractAlwaysAgrees`, `TranscriptsInOrder` | `ContractAgrees` for every request and status, `WfdInOrder` for every transcript |
| | `HostsAreTold` | `HostTold`, for every host whose devices have different names and all limits of the lists |
| | `ReceiversAreTold` | `ReceiversTold`, for every scan, and for all elements of a peer cut anywhere |
| | `RecordsAreWhole` | `RecordsWhole` for every size of the file and every window whose tail holds two records |

`SessionLifecycleProofs`.  None of the properties is inductive.  `IInv` has the parts

- `Shape`: the types;
- `Ownership`: a process inside a `with SessionLock` block holds the lock, so there
  is at most one, and the process that the lock names is inside such a block or about to
  release it;
- `Identity`: session ids are given out once, no two supervisors share one, and
  before a supervisor has published its first document neither the file, the marker
  nor the memory of another process names its session;
- `Copies`: that the file is a valid document, and how far the local state of a running
  supervisor or recovery may be from the file at each operation, which is what makes a
  write after a failed write still legal;
- `Conclusions`: what `res` says about the marker (`asked`) and about lost owners.

`Attended` is a second layer, proved on top of `IInv`: without a fault an unfinished phase
of a session in `turned` excepted has a process that attends to it, a supervisor between
its first and its last write, or a recovery on its way (`Attends`).

The refinement needs the first four parts and `View`: who holds the lock decides what the
contract sees, so a running supervisor is the cast, a recovery before `settle` mends, and
any other holder of the lock is unseen.  A step then falls into one of a few lemmas:
unseen and without a write (`QuietRefines`, with `SpentGrows` for a supervisor that gives
up), a write of a supervisor or of recovery (`AdvanceRefines`, `RecoverRefines`), a death
(`DeathRefines`, which serves `Kill`, `Leave` and the unit that `stop` kills), and the
three steps that change what is seen (`Begin`, `Finally`, `RecoverRead`).  `Copies` makes
the writes those of the contract although they start from memory.

`TransportRunProofs`.  `IInv` adds to the types how far the clock can be given what the
loop has seen (`Deadlines`), that an open window of absence began after the last look that
was none (`Window`), that a thread reported as stopped has ended (`ThreadsEnded`), that
`guard_cleanup_confirmed` is true of what was acknowledged (`Confirmation`), and that
the result on its way out fits the stage (`StageFits`), which is what the refinement
needs.  The Boolean variables have a lemma of their own.

`GuardSessionProofs`.  Unconditional: every step may fail, reported or not, any look at the
lease may be torn and every process be killed, any number of times, and the lease may lapse
while the guard activates the network.  `IInv` is `TypeOK` with two groups of parts.

- `OrderInv`: a session without an identity has nothing (`Untouched`), only what is ready is
  leased and triggered (`LeaseInOrder`), while recovery only watches nobody but the guard
  changes the session (`Watched`), what can end that watch is a fault or a lapsed lease
  (`Attended`), a marker precedes its change (`MarkerFirst`); with them `HealthyCastKept`.
- `KeptInv`: what is owed, that is borrowed and not missed (`Owed`), has its evidence
  (`Evidence`); what a cleanup without a failure has behind it is not owed any more, even
  while the other helper is at an earlier step (`AllGivenBack`); nothing is missed before a
  fault or a lapse (`Faultless`); who reports `cleaned` has no token (`CleanedHasNoToken`).

`missed` is what makes the second group inductive without an assumption about the faults:
a change of the guard behind recovery's back enters `missed` in the step that makes it.

`GuardSharingProofs`.  `SharingInv` says why the lock and the look for directories are
enough together, although the lock dies with a killed guard and recovery never takes it: a
guard holds the lock from its directory to its end; what a session has on the host (its
group, the stopped NetworkManager, its marker) it has only while it has its directory; and
while reclaim holds the lock after its check there is no directory, and none can appear.
`ResumedLate` places the SIGCONT between the guard's activation and the removal of the marker.
`ExactInv` adds, for sessions that did not overlap (`~late`, see Bounds), that one session
at most has a directory (`OneSession`), that its record of networkd is how the first one
found it (`StateRecorded`) and whose clients the adapter has while NetworkManager is
stopped (`AdapterOwn`).

`SupplicantBrokerProofs`.  Unconditional.  `HelpersAreLate` (a helper works only when the
broker is gone), `BackendsApart` (each backend has its own labels), `TraceFirst` (marker and
record come before the change and go after it), `AllReleased` (a helper without a failure
leaves nothing behind its steps), `GroupFollowed` (the broker knows when there may be a
group, and Cancel with Disconnect ends it in either state).

`SessionHistoryProofs`.  `WithoutFacts` and `LogFacts` say what a removal and a write do to
the sequence of logs, `ExcessFacts` what prune may take.  `HistoryInv`: the state document
names the latest session or none (`InOrder`), room is made before a session is added
(`Retained`), prune takes a prefix (`Oldest`), an archive has its log or a session that still
knows of it (`Archived`), live telemetry that nothing names was not cleared, nor what a
cast leaves that is about to end, and each such session has had a fault (`Lived`).

`ControllerIOProofs` has an invariant for each of the four machines.

- `CmdInv`: a buffer has all that was read until it is over its limit (`BufferedAll`), a
  stream is closed only when all was read and nobody holds the pipe (`ClosedIsDone`), the
  flags tell why the loop was left (`FlagsTell`), the child is reaped late (`ReapedLate`),
  after the kill nobody of the group runs and only a timeout leaves a child that is not
  reaped (`KilledAll`), and what the answer says of the flags (`Answered`).
- `ColInv`: the tail is the newest units in order (`TailNewest`), the last copy is made
  alone, so that no earlier one that failed or was half survives it (`LastCopy`), the reader
  leaves only a pipe that it had last found open or that is empty for good (`Emptied`).
- `ScanInv`: the lines end with what the reporting callback remembers (`LineTold`), and the
  list the scanner remembers is that one (`Remembered`).
- `SamInv`: no sample of the window knows more than there was (`WindowTrue`), the window
  covers its span, failures and hidden ones together are the baseline and those since the
  first reading (`RadioTrue`), archive and published sample count alike (`ArchiveTrue`), and
  the verdict follows (`StatusTrue`).  `LeastOf`, from
  the well-foundedness of the naturals, gives the first sample that is kept.
  The proof corrected `StallNoticed`: TLC's bound on time had hidden that a short pause
  between two samples far apart is within the 1.5 % the code tolerates.

`ReadingsProofs`.  PIN: `ValidSum` turns the checksum digit into a sum that is divisible by
ten, `SumFollows` says how the sum changes with a digit, 1 and 3 are units modulo ten and
their difference 2 is not; `LineIsAll` says when the line that is read is the whole input.
Host: `SnapshotFacts` says which rows a snapshot has links of and what a failed query leaves
empty; the rest follows from the readiness without a bound on the list.  Scan: `PlacesTaken`
shows that the sort key orders the records of a list that is not refused, so that their
places are 1 to n, one each; `PlacesKept` that exchanging two peers moves the records and
keeps their places, by a renaming that is its own inverse.  Bytes: `InfoExists` and
`UptoExists` show by a least counterexample that the two recursions have solutions,
`ElementSeen` what the loop sees of an element that is whole and that an element that is not
is never read, `InfoGoesOn` that it goes from one element to the next until it stops at one
of id 0, `InfoFound` what it has found then; all of these for both parsers, that of the
package and that of the patched engine, and `ParsersAgree` that the second reads the same
wherever the first reads something.
Contract: `DigitsAtMost` and `DigitsAtLeast` relate the length of a number to the powers of
ten it reaches, so that the guard's patterns and the client's ranges admit the same numbers
(`UidsAgree`, `FrequenciesAgree`, `DurationsAgree`).
Transcript: `PhasesExist` shows by a least counterexample that the recursion of the loop has
a solution, `PhasesInOrder` what each phase says of the messages before it.  Progress file:
`TextUnits` locates the tail of the window in the file, `LastRecord` shows that between the
last two ends of records in it there is one whole record.

The type invariants of `SessionLifecycle`, `TransportRun`, `GuardSharing` and
`BoundedCommand` are proved and not repeated in the runs.

Only model-checked:

- liveness (`StopHonoured`, `GoneMeansRestored`, `CleanupEnds`, `RunEnds`,
  `CommandEnds`), which needs fairness and is out of the prover's reach.

## 5. Not modelled

- The sealed memory file by which a PIN reaches the service, and the construction of
  commands and units around it.
- The walk of the process tree (`_descendants`), process and network rates and packet
  timing in `telemetry.py`: numbers for display, from which no decision follows.
- `bounds.py`, `identity.py` and the limits on argument text: they accept or raise, and
  the models allow both outcomes where it matters.
- Reading the events back (`logs`), the fixture adapters, and the formatting of results.
- The text of D-Bus replies, of command output and of pipes: it is valid or it is not,
  or it says what the record of the model has.
- A lease renewal that fails: its thread ends silently, the helpers take the network
  back, and `run` reports a receiver that disconnected.  `LossProved` says that the
  group was gone, not who removed it.
- The moment at which wpa_supplicant or NetworkManager acts on a call: `Activate` and the
  others are decided in the step that makes them, although their answer may get lost.
- A cancellation during authorization (`transport.py:664`) returns without a confirmed
  cleanup; there is no session then, and `ReturnMeansCleaned` is about prepared ones.
- Rows of device tables whose names cannot be printed (`discovery.py:63`): they are skipped and
  the listing still counts as complete; `HostTold` exempts them.
- The panel, the patches to the third-party engine, packaging, linting, release and lab
  scripts.

Risks of the code that no property covers, because the code decides so or has no means
against them:

- `state.py:190`: the probe of `status` holds the lock for a moment in which a real owner
  is refused, although its docstring says that it does not take it (`StatusProbe`).
- `guard.py:159`: the controller accepts at most 32 reclaimed interfaces while the guard
  removes up to 64; a larger reclaim is done and reported as a failure (`Count`).
- `omarchy-cast-supplicant-broker:1001`: the metadata is read and cleared in two calls;
  what another program sets in between is cleared, wpa_supplicant has no compare-and-set.
- `omarchy-cast-supplicant-broker:988`: nobody cancels a negotiation whose broker was
  killed; `GroupEnded` is stated for a broker that ended by itself.
- `omarchy-cast-guard:216`: a guard killed between its directory and the start of recovery
  leaves a directory that nothing removes, and every later reclaim is refused.
- `cli.py:292`: `recover` reclaims adapters before it recovers the state; one refused
  approval leaves the state document unrecovered, until `recover` is run again.
- `cli.py:174`: the idle check of a scan is made once; a cast that starts during the scan
  shares the radio with it.
- `receivers.py:147`: one peer with a control character in its name, or two records of one
  address, make the whole scan fail (`Refused`).
- `omarchy-cast-guard:201` and `omarchy-cast-guard-recover:161`: see Further deviations.

## 6. Plan

1. `SupplicantBroker` shown to implement the broker that `GuardSession` assumes
   (`StopBroker`, `Connect`), and the refinement proved.
