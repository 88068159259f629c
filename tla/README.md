# A TLA+ model of nut-server

nut-server shuts machines down in order when a UPS runs on battery. One
`nut-master` polls the UPS (over SNMP or from a NUT `upsd`), decides which nodes
must go down, sends them shutdown commands over persistent connections, waits
for their answers and finally powers itself off. A `nut-slave` on every node
executes the command and reports what became of it.

This directory holds a model of the parts of that program where mistakes are
expensive and tests hardly reach: the decisions of the master under concurrent
polls, ticks, acks, registrations, operator requests and restarts; what it reads
from the UPS and when a policy is due; the state file that carries its decisions
across a power-off; the execution of commands by a slave; the connection between
the two, from heartbeats to tokens; what a configuration file means; and how the
master ends. TLC checks the properties on small instances; the central safety
properties are also proved with TLAPS for every instance.

Files:

| file | what it is |
|---|---|
| `ShutdownCommand.tla` | a shutdown command and the predicates decided on it (constant level) |
| `Master.tla` | the master: state, actions, fairness, properties |
| `MCMaster.tla`, `MasterCommands.cfg`, `MasterLiveness.cfg` | its instances for TLC |
| `MCMasterScenarios.tla`, `MasterOutage.cfg` | an instance in which several commands and faults meet |
| `MasterProofs.tla` | its types and all its safety properties |
| `UPSReading.tla` | what a poll returns (constant level), shared by the next two |
| `UPSPolling.tla`, `MCUPSPolling.tla`, `UPSPolling.cfg` | polls, policies, debounce timers and silence over time |
| `UPSReader.tla`, `MCUPSReader.tla`, `UPSReader.cfg` | one poll: the conversation with upsd or an SNMP agent, and its decoding |
| `UPSProofs.tla` | the safety properties of both, and that a reading of one is a reading of the other |
| `DurableRegister.tla` | what a state file promises (abstract specification) |
| `StatePersistence.tla`, `MCStatePersistence.tla`, `StatePersistence.cfg` | the writers of the state file |
| `StatePersistenceProofs.tla` | durability, that nothing is forgotten, and that the writers implement the register |
| `SlaveExecutor.tla`, `SlaveExecutor.cfg` | how a slave executes commands |
| `SlaveExecutorProofs.tla` | its types and its three safety invariants |
| `ConfirmedShutdown.tla` | what master and slave promise together (abstract specification) |
| `Cluster.tla`, `MCCluster.tla`, `Cluster.cfg` | `SlaveExecutor` composed with the master's side of the exchange |
| `ClusterProofs.tla` | that the two implement `ConfirmedShutdown`, and that a booted node stays up |
| `Session.tla`, `MCSession.tla`, `Session.cfg` | heartbeats, deadlines, reconnects and backoff |
| `SessionProofs.tla` | that a served node is registered and online, a healthy connection is kept and a dead one noticed |
| `Enrollment.tla`, `MCEnrollment.tla`, `Enrollment.cfg` | how a node gets, keeps and loses its token |
| `EnrollmentProofs.tla` | its types and its three safety invariants |
| `ShutdownCheck.tla` | the self-check of a shutdown command (constant level) |
| `Configuration.tla`, `MCConfiguration.tla`, `Configuration.cfg` | what a configuration file means |
| `ServerLifecycle.tla`, `ServerLifecycle.cfg` | the master process from start to end |
| `ServerProofs.tla` | that it drains what it started, and what an accepted configuration means |
| `Finding*.cfg` | configurations in which a documented claim fails, see "Disagreements" |
| `PROJECT.json` | components, runs, mutants, hazards, theorems, and which source lines each definition models |

Definitions keep the name of the function they model where there is one
(`endEpisodeOnLinePower`, `recordShutdownUpdate`, ...); a capital letter marks
what has no function of its own in the source, usually one branch of a long
function. A definition `X_Bug` is not part of any specification: it is `X` with
a plausible mistake, and `PROJECT.json` ("mutants") says which property notices
when it takes the place of `X`.

## Inventory

### Master (`internal/master`)

* **Shutdown commands** (`shutdown.go`, `status_class.go`). State: `commands`
  by ID, each with target, tracked nodes, the last status of every node,
  `CompletedAt`, `ReplayDisabled`, `Auto`; `activeCommand`. Operations: manual
  request, ack, timeout, pruning, replay to a (re)connecting node, reset.
  Correct when a confirmed outcome is never lost, every matching node is tracked,
  and the episode's command lives as long as the episode.
* **Episode** (`episode.go`, `policy.go`). State: one on-battery period with its
  command, the policies that fired and whether the master powered itself off in
  it. Operations: start, end on line power, evaluation and application of
  policies, supersession of a manual command, retry of unfinished nodes. Correct
  when all policies of one outage share one command that only widens, and
  nothing automatic outlives line power.
* **Local shutdown** (`local_shutdown.go`). State: phase (waiting for remotes,
  wait expired, emergency, executing, completed, failed), command, trigger,
  dry-run. Operations: arm, escalate, expire, execute, retry. Correct when it is
  executed once at a time, only for a command for all nodes or an emergency,
  with the right dry-run, and eventually when it must be.
* **UPS view and polling** (`ups.go`). State: the last reading and the times of
  the last success and the last failure; `upsConfirmed`: has *this* process a
  reason to believe the restored episode; a debounce timer per policy. Correct
  when a policy fires as soon as its condition has held for its duration and never
  on a stale, missing or forgotten reading.
* **Readers** (`nut.go`, `snmp.go`). No state between polls. Correct when a reading
  says what the UPS said, rounds towards safety, and a poll ends whatever the
  other side does.
* **Connections** (`conn.go`, `registry.go`, `client.go`). State: the registry
  of live connections. Operations: register (authenticate, store, ack, replay),
  heartbeat, ack, disconnect; a newer connection of a node replaces the older.
  Correct when a working connection is kept, a dead one is noticed by both ends,
  and the registry and the reported node state follow the newest connection.
* **Server** (`server.go`). State: the listener, the tracked connections, two wait
  groups, readiness. Correct when a cancelled server ends, after everything it
  started.
* **State file** (`state.go`, `internal/atomicfile`). Snapshots numbered under
  the lock and written outside it.
* **Enrollment and directory** (`enrollment.go`, `directory.go`). State: the
  token hash of each node, known and expected nodes. Operations: authenticate,
  issue, confirm, revoke, replace, delete. Correct when the master binds only
  tokens the node has stored, a revoked token stays revoked, and a connection
  never outlives the token it was accepted for.
* **Admin API** (`admin_http.go`, `admin_tls.go`), **status**, **metrics**,
  **install scripts**.

### Slave (`internal/slave`)

* **Client** (`client.go`). State: the status of each remembered command, the
  table of executions, the issued token. Operations: reconnect with backoff,
  register, heartbeat, execute commands, answer a duplicate with the last known
  status, prune old ones. Correct when a command runs once at a time and what is
  reported happened.
* **State file** (`state.go`): command states and the issued token, written like
  the master's.

### Shared

* **Configuration** (`config`). Correct when an accepted file is one the program
  works with, and nothing that was written is silently without effect.
* **Self-check** (`shutdowncheck`). Correct when a shutdown command is called ready
  exactly if it would run.
* `protocol` (messages, JSON lines), `security` (token comparison), `logging`,
  `version`, and the two programs under `cmd/`.

### How they interact, and what is hard

Inside the master four kinds of goroutines share one mutex, `commandMu`: the
polling loop, the one-second command watcher, one handler per connection, and
the admin API. Several operations release it in the middle: policies are
evaluated in one critical section and applied in the next; an ack decides that
the master may power off and starts the execution after a file write; a manual
request selects its nodes before it locks; the watcher reads the UPS before it
locks. A slave may answer late, twice, or not at all. In the slave the reader of
messages and the executions share the command states, and executions outlive
connections. A registration is a conversation of several messages during which
either side may restart and an administrator may change the token. The master itself dies in
the middle of its own power-off, by design, and must understand on the next boot
what happened. `PROJECT.json` lists these hazards at their lines, each with the
properties aimed at it.

## The modules

### ShutdownCommand

The record `Command` is `shutdownCommandState` reduced to what is decided on:
`done` is `CompletedAt != nil`, `upd[n]` is the status in `NodeUpdates`
(`"none"`: no entry). The four status predicates are the columns of the table in
`status_class.go`. `TimeOut`, `Report`, `Reopen`, `Disable` are the ways the code
modifies a command.

### Master

| variable | code |
|---|---|
| `commands`, `active`, `episode`, `local` | `s.commands`, `s.activeCommand`, `s.episode`, `s.localShutdown` (`phase = "idle"`: nil) |
| `upsConfirmed`, `ups` | `s.upsConfirmed`, `s.upsStatus` |
| `connected`, `greeting` | `s.registry`; handlers between `registry.Set` and `replayPendingShutdown` |
| `sent` | commands handed to a connection of this process |
| `poll`, `watch`, `job`, `request` | where the polling loop, the watcher, the executions and a manual request are |
| `disk`, `restarts` | the state file; how many of `MaxRestarts` restarts are used up or will not come |
| `issued`, `markedHere`, `bootMark` | observers: IDs ever used; the running power-off was started in this episode; the file this process loaded said that the master powered off in it |

| actions | code |
|---|---|
| `PollUPS`, `endEpisodeOnLinePower` / `startEpisodeIfNeeded`, `ConfirmReading`, `evaluateEpisodePolicies`, `VouchForEpisode`, `applyPolicyMatch` | one `evaluateUPS` |
| `MarkTimedOutCommands`, `retryEpisodeShutdown` / `SkipRetry`, `SampleUPSStatus`, `evaluateLocalShutdown` / `SkipLocalShutdown` | one tick of `runCommandWatcher` |
| `beginLocalShutdownExecution` / `DropExecution`, `persistState`, `finishLocalShutdownExecution` | `beginLocalShutdownExecution`, by the watcher or an ack handler |
| `Register`, `replayPendingShutdown`, `Disconnect`, `recordShutdownUpdate` | `handleConn`, `handleEnvelope` |
| `SelectManualTargets`, `TriggerShutdown` / `RejectManualShutdown`, `ResetActiveCommand` | the admin API |
| `Restart` | the process ends at any point and `loadState` starts from the file |

An action is a critical section, or a store to `upsConfirmed` outside of one: a poll
ends or starts the episode under the lock and confirms it afterwards
(`ConfirmReading`), and it finds under the lock that a silence vouches for the episode
and confirms it after the unlock (`VouchForEpisode`). What the code does between two
of them may be interleaved with anything. The disjuncts of `evaluateLocalShutdown` are its
branches.

What is abstracted, and why nothing is lost for the properties:

* *Time.* Whenever the code compares a deadline or an interval with the clock,
  the model allows both outcomes. Every timing of the program is thereby a
  behaviour of the model; what needs time to pass (liveness) is stated with
  fairness.
* *Readings* (in detail in `UPSPolling` and `UPSReader`). `"critical"` is a reading on battery with the runtime under
  `emergency_runtime_minutes` or with the LB flag; both triggers are one
  (`"emergency"`), because nothing tells them apart but their name. Which policies
  match a reading is a free choice (conditions and debounce timers).
* `unreachable_after` is positive, as the configuration defaults make it.
* *Sending.* A command is recorded in `sent` with the state change that sends
  it; delivery is up to the slave, which may never answer. An ack needs
  `<<n, c>> \in sent`: a slave reports on a command on a connection on which it
  received it. Acks may come in any order and any number of times.
* *Pruning* evicts the oldest completed commands; the age is not kept and any of
  them may be the oldest.
* `shutdownIssued`, reasons, log lines, metrics and timestamps decide nothing here.
* *The file.* `persistState` puts the current snapshot into the file at any time
  (some goroutine that took it wrote it), and lets the executions that wait for
  their write go on. That this is what the writers do is what
  `StatePersistence` shows: the file holds some earlier state, never one older
  than a state whose write returned. A failing write is not part of `Master`.

Two instances bound the environment, because every fault in every behaviour is more
than TLC can visit. `MasterOutage` follows one of three scenarios: several commands and
drills, a node that stays and no fault; or one command, a UPS that may fall silent and a
crash at any point of an outage or after it, with which a node may leave; or a crash, in
a power-off or not, with no node and no command before it, and after it a real manual
command for all nodes while the UPS may be silent. In `MasterLiveness` (`LivenessBound`
of `MCMaster`) operators act and line power returns only in behaviours, or parts of
them, that no restart follows, and the UPS falls silent only after a restart, before the
reading that confirms the restored episode. Both restrict operators, nodes, the UPS (and
so which policies are due), crashes and the number of commands, but no decision of the
master. The initial value of `restarts` tells whether a crash will come.

### UPSPolling

`Master` lets any policy be due and any silence be long enough; `UPSPolling` models
when they are. State: a clock, `upsStatus` with its two time stamps, `upsConfirmed`,
the episode with its `matchSince` timers, the polling loop (a poll takes time and is
stamped before the UPS is asked), the watcher with its clock reading and its sample
of the UPS, the emergency it armed and whether a power-off is under way.

| actions | code |
|---|---|
| `BeginPoll`, `PollReturns` | the poll, `recordUPSSuccess`, `recordUPSError` |
| `endEpisodeOnLinePower`, `startEpisodeIfNeeded`, `EvaluateReading`, `EvaluateSilence` | `evaluateUPS` and `evaluateEpisodePolicies` |
| `SampleUPSStatus`, `evaluateLocalShutdown` | one tick of the watcher, up to the emergency |
| `beginLocalShutdownExecution`, `LocalShutdownFails` | the mark of a power-off, set and taken back |
| `Restart` | the episode is restored, its timers and the view are not |

The observer `history` keeps every poll of the process, which the code does not; the
properties are stated on it alone (`Holds`), in the words of the configuration: a
policy is due if every answer since at least its duration satisfied it. What
follows a decision is `Master`'s matter: here a local shutdown goes with its episode,
although one that is executing outlives it, and none of a manual command runs. In `SteppedSpec` the wall clock may also be
set back.

### UPSReader

One `ReadNUTStatus` (`Dial`, `ReadBegin`, `ReadVariable`, `ReadEnd`, `Deadline`) or one
`ReadSNMPStatus` (`GetAnswered`, `GetTimesOut`), and the decoding. A line of upsd is
classified by what the reader makes of it (begin, end, a variable, anything else);
numbers are in tenths, so that decimals exist. The SNMP agent returns any packet of
two or three variables of integer, TimeTicks or null type. The server may send any
line next, or none. `received` and `packet` keep what was said, and the properties
compare the reading with that.

### StatePersistence and DurableRegister

`StatePersistence` details the writers both programs share: a change and its
numbered snapshot under `commandMu`, then, under `persistMu`, the drop of a stale
snapshot or temporary file, rename and directory sync, any of which may fail.
`loadState` is a loss of power: a rename that was not synced may be undone. The
content is abstracted to a version. `DurableRegister` is the promise: a restart
never falls back behind an acknowledged version. The refinement mapping is
`latest <- latest, acked <- durable`.

### SlaveExecutor

| variable | code |
|---|---|
| `commandStates`, `executions`, `bound` | `c.commandStates`, `c.executions` (those bound to the current session) |
| `connected`, `handler` | the current session; the goroutine in `handleEnvelope` |
| `run` | the goroutines in `executeShutdown` |
| `disk`, `restarts` | the command states in the file; restarts of the slave |
| `heard`, `ran`, `restored` | observers: what the master heard last, commands that succeeded, commands found settled by `loadState` |

| actions | code |
|---|---|
| `Receive`, `AcceptCommand`, `RebindKnown`, `SendExisting`, `StartPrepared` | `handleEnvelope` |
| `ResumeShutdown`, `SendRecorded`, `BeginShutdown` | `resumeShutdown` |
| `Execute`, `RecordOutcome`, `ReportOutcome`, `finishShutdownExecution` | `executeShutdown` |
| `Connect`, `Disconnect`, `persistState`, `Restart` | `runOnce`, the state file, `loadState` |

The master may send any command at any time, which is more than `Master` does.
What is sent on a broken connection is lost and the sender may or may not notice.
Pruning drops the oldest states; only that the state just set is the newest is
tracked. Writes of the file succeed (`StatePersistence` has the failing ones), and
a slave without a `state_file` is not modelled. The number of goroutines is a
bound.

### Cluster and ConfirmedShutdown

`Cluster` composes `SlaveExecutor`, unchanged (by INSTANCE), with the master's side of
the exchange for one node: the commands of `ShutdownCommand` under every operation
of `Master` that changes them (`Issue`, `Replay`, `MarkTimedOut`,
`recordShutdownUpdate`, `persistState`, `MasterRestart`). Sending is a step of its own:
`Issue` and `Replay` decide under the lock (`decided`), and `SendDecided` hands the
command to the connection that is registered by then, after the lock was released
and the file written, whatever was recorded in between; `DropDecided` finds none. When and why the master does
each is `Master`'s matter; here it may at any time or never. (The product of the whole
of `Master` with `SlaveExecutor` is out of TLC's reach: already its smallest instance
has more than four million states.) A connection delivers in order until the slave
finds it gone; what reached the master before the slave reconnected is processed by
the old handler (`older`) next to the new one.

`ConfirmedShutdown` is the promise of the two together: the node runs only what it
was asked to run, and what the master believes executed was executed. The
mapping is `asked <- asked`, `ran <- sRan` (commands whose execution succeeded),
`confirmed <- Confirmed` (commands the master has recorded as executed by the node).

`BootedStaysUp` is about the commands that were confirmed when the node went down
and that the master had not already decided to send once more (`settled`). Without
that exception it fails: the code does not take such a send back, and a slave
whose file says `executing` then runs the command a second time
(`FindingStaleReplay.cfg`).

### Session

| variable | code |
|---|---|
| `slave`, `delay`, `interval`, `stopping` | the place of `Run`/`runOnce` with the timer of its read deadline or sleep and of the next ping; the backoff, `reconnect_interval`, the context |
| `handler`, `registry`, `lastSeen`, `up` | `handleConn` per connection, the registry and `LastSeen` of the node, whether the master runs |
| `link`, `toMaster`, `toSlave` | the connections and the messages on the way, with their age |
| `failures`, `deadFor`, `goneFor`, `stalled` | observers: attempts since the last registration, how long a link is dead or the host is down, and how long the handler was busy since the slave last heard from it |

| actions | code |
|---|---|
| `Dial`, `DialFails`, `Registered`, `RegisterFails`, `Pong`, `runPingLoop`, `Report`, `SessionEnds`, `Wakes` | the slave's `Run`, `runOnce` and ping loop |
| `Accept`, `Reject`, `Ping`, `ShutdownAck`, `HandlerEnds` | the master's handlers |
| `Cut`, `MasterCrash`, `MasterStart`, `SlaveDown`, `SlaveStart`, `Stop`, `Tick` | the environment and time |

Time is discrete. Timers are counters, and `Tick` waits for whatever is due, so a
deadline is met exactly; a message takes up to `Delay`. A link that is cut is
half-open: writes succeed, nothing arrives, neither end is told. An end of file is a
message. The backoff is computed in `Width`-bit integers that wrap, as
`time.Duration` does; jitter is a fifth more or less on the grid of ticks. A handler
that receives a `shutdown_ack` may be busy with the local shutdown command for up to
`MaxBusy`, in the run one tick more than the slave's read deadline: by default that
command may take two minutes, and the slave reads for 45 s. Such a command does end a
session on a link that works (`FindingBusyHandler.cfg`); `HealthyStaysUp` says that
nothing less does: the slave's deadline expires on a working link only when the
handler was busy for all the `Leeway` the deadline leaves after a ping interval and the
way there and back, and the master's never does. `LongGone`, after which a silence must have been
noticed, is the longer of `IdleDeadline` and `OfflineAfter`, and the time that the last
messages and all reports can take. A write of a message is one step: the buffered
writer and its deadline are not modelled.

### Enrollment

| variable | code |
|---|---|
| `enrollmentOpen`, `nodeToken`, `directory`, `registry`, `masterFile` | the setting, `s.nodeTokens`, `s.directory`, `s.registry` of one node, and the master's file |
| `conns` | the connections: the handler in `handleConn` (`pc`, the token presented, `tokenHash`, `issuedToken`), the answer under way to the slave, a `token_stored` under way to the master, and whether the connection is open |
| `admin`, `script` | the request in progress; an install script handed out and not yet run |
| `cfgToken`, `issuedToken`, `slave`, `slaveFile` | the slave's configuration, issued token, place in `runOnce` and state file |
| `minted`, `faults` | tokens generated; faults so far |
| `stored`, `revoked`, `deleted`, and `bound` in `conns` | observers: tokens stored by the slave, revoked, removed with a directory entry, bound by a handler |

| actions | code |
|---|---|
| `Dial`, `ReadRegisterAck`, `TokenWritten` / `TokenWriteFails`, `SendTokenStored`, `TokenCleared` / `ClearFails`, `ConnectionLost` | `runOnce`, `setIssuedToken` |
| `authenticateNode`, `registerIfTokenUnchanged`, `Observe`, `SendRegisterAck`, `ReadTokenStored`, `SaveConfirmed`, `ReadFails` | `handleConn` and `confirmIssuedToken` |
| `ExpectNode`, `RevokeToken`, `issueNodeToken`, `DeleteNode`, `removeNodeToken`, `AdminSaves`, `disconnectNode`, `AdminAnswers` | the admin API and the install script endpoint |
| `SaveCommandState`, `SaveState` | other writers of the two files |
| `Break`, `SlaveRestart`, `MasterRestart`, `RunInstallScript` | the environment |

An old handler may still be at work on a connection that the slave has left, and
read what was sent before. A token is its hash: both sides compare tokens for equality.
There is one node with one slave; another machine that presents the node's ID is
not modelled, nor are certificates and a slave without a `state_file`. The master's
writes succeed; the slave's may fail, before or after the new file is in place.
The check of the token and the registration, the change of a token and its write,
and the write and the disconnect are separate steps. The expected flag of a
directory entry decides nothing about tokens, so removing it is a `SaveState`.

### Configuration and ShutdownCheck

`Configuration` takes a file through the stages of `LoadMasterConfig` (secrets,
intervals, local shutdown, TLS, UPS source, `unreachable_after`, policies) or of
`LoadSlaveConfig`, each of which refuses it or completes it, and then does with the
result what the program does: it runs the self-check
(`runLocalShutdownSelfCheck`, `runShutdownSelfCheck`), builds the SNMP client, lets
peers in on its listener or dials. Where the code tells an absent key from a zero
value the key is a record `[set, value]`; strings are reduced to the cases the code
distinguishes. `MCConfiguration` starts from a good file and varies one block
at a time over all its combinations: blocks are validated one by one, except where one
depends on another (policies on the UPS source, `install_ca_file` on TLS,
`unreachable_after` on `max_wait`), and those are varied together.

All nine `tls.*` settings vary, on either side. `NothingSilentlyUnprotected` speaks of
the settings that the side reads. The others are accepted and have no effect: a slave
with nothing but `require_client_cert` or `bind_node_id_to_cert` dials in plaintext, and
a master with nothing but `server_name` or `insecure_skip_verify` serves in plaintext.

`ShutdownCheck` holds the check. `sudo` itself is external, after its manual: options
up to the first word that is none, the last of each counts, the rest is the target.
Sudoers allows one request, with or without a password, and may have another rule
with NOPASSWD: then, with the default `listpw=any`, `sudo -n -l` lists the request
although running it takes a password (`Lists` against `RunsUnasked`). The check cannot
see that, as `check.go:64` says, nor for whom a file has its x bit (`check.go:143` takes
any). `ReadyIfItRuns` leaves out these two blind spots (`Unseen`) and nothing else of a
usual command. A target that begins with a dash (`sudo -- -n`) is
outside the property (`Unusual`): the check would pass it to `sudo -l` as an option,
but it names no command. Certificates are reduced to: none, the
node's, another node's, or one that does not verify.

### ServerLifecycle

`Run` from `Start` to `Return`, with the accept loop and its retry delay, the handlers
(tracked, counted, reading or writing the state file), the polling loop, the watcher
and the admin server, requests in flight, and `Cancel` at any time. What a goroutine
does between two reads is one write. `late` records who writes after `Run` has
returned. `request` is a goroutine of `net/http` that no wait group counts.

## Runs

| run | instance | states | shows |
|---|---|---|---|
| `MasterCommands` | 2 nodes, one with a tag; policies for the tag and for all; manual commands for all and for one node; no local shutdown | 0.50 M | `NoNodeLeftOut`, `CommandsOnlyWiden` |
| `MasterOutage` | 1 node; 2 commands, 1 retained, drills for one node or for all by an operator and a real outage; or 1 command, a policy for a silent UPS, polls that fail and 1 restart, with no operator, or with a manual command after the restart | 0.87 M | `EpisodeCommandIsLive`, `LocalFollowsCommand`, `OneExecution`, `PowerOffIsRemembered`, `ConfirmedBeforeAction`, `RemoteCompleteIsReported`, `ReadingBeforeFallback` |
| `MasterLiveness` | 1 node; a drill and an outage, or an emergency with a restart after which the UPS may be silent, under fairness | 109 k | `EmergencyIsCarriedOut`, `WaitingEnds`, `NodeIsReached` |
| `UPSPolling` | 5 policies of every kind, 5 readings at and around their limits, clock up to 3, 4 polls, power-offs that fail, 1 restart | 1.23 M | `DuePoliciesFired`, `FiresOnlyWhenDue`, `EmergencyIsReal` |
| `UPSReader` | answers of up to 5 lines, 3 variables at most accepted; every packet of an SNMP agent in three units | 0.19 M | `ReadingIsTold`, `ThresholdsFireInTime`, `EveryPollEnds` |
| `StatePersistence` | 3 writers, 5 changes | 46 k | `ReturnedIsDurable`, `NothingForgotten`, `ImplementsRegister` |
| `SlaveExecutor` | a real and a simulated command, 2 goroutines, 1 state retained, 2 restarts | 80 k | `OneRunPerCommand`, `ReportedIsTrue`, `SettledIsNotRepeated` |
| `Cluster` | 1 command, 1 message each way in flight, sends delayed at will, a restart of each side | 2.25 M | `BootedStaysUp`, `ImplementsConfirmed` |
| `Session` | 3 connections, 2 faults, 3 reconnect intervals (negative, doubled, overflowing), a handler busy for up to 7 ticks against a read deadline of 6, under fairness | 0.52 M | `HealthyStaysUp`, `SilenceIsNoticed`, `RegisteredIsOnline`, `BackoffIsExact`, `ComesBack` |
| `Enrollment` | 2 tokens, 2 connections, enrollment open or closed, 1 fault while it is open and nothing was deleted, under fairness | 0.42 M | `RegisteredIsCurrent`, `RevokedIsGone`, `BoundWasStored`, `NodeComesBack` |
| `Configuration` | every combination of one block of a file; sudo command lines of up to 5 words on every host, of up to 3 where sudo asks a password | 0.73 M | `AcceptedConfigWorks`, `NothingSilentlyUnprotected`, `ReadyIfItRuns` |
| `ServerLifecycle` | 2 connections, 1 admin request, under fairness | 84 k | `HandlersAreDrained`, `RunEnds` |

Bounds. Command IDs are random in the code and never reused; the number of IDs
in `CmdId` bounds how many commands a behaviour creates. Two are needed for one
command to replace, supersede or evict another (`MasterOutage`); with one, an
operator's command and an automatic one exclude each other, which is enough where
the property is about one command and its nodes. Two nodes, one tagged, give a
target that selects one of them and is widened to both. One restart suffices for
what depends on the last restart only. `MaxRestarts` also bounds how long the
content of the file is kept: after the last restart nobody reads it. Three
writers let one overtake two others in either order. In `SlaveExecutor` two
commands and one retained state make every new command evict the other, and a
second restart meets what the first one left. In `Enrollment` two connections let
an old handler work on while the next one registers, two tokens let one replace
the other, and one fault (a broken connection, a restart or a failed write) at any
point is what the code is written to survive; its safety properties are proved
for any number. In `UPSPolling` four polls are a match, a gap, another match and its
evaluation, and the clock reaches beyond every duration. In `UPSReader` five lines are
a begin, two values of one variable, another variable and an end, or one variable
more than is accepted. In `Session` the deadlines keep the order they have in the code
(`IdleDeadline` of the master and the slave's `readIdleTimeout` of three ping
intervals are twice and more what a ping needs); three connections are an old one
that one side still holds, its successor, and the next; the second fault is taken
with one interval and no report, and a report with one interval, since backoff arithmetic
and busy handlers do not depend on each other. In `Cluster` one message in flight each
way still lets acks of an older connection meet those of the newer.

Three liveness runs state such bounds as an ACTION_CONSTRAINT (`LivenessBound` of
`MCMaster`, `Bound` of `MCSession` and of `MCEnrollment`). A constraint can hide a
violation of liveness if it removes the step that fairness asks for; these remove
only steps of the environment, of which fairness asks for none, or one outcome of a
step that keeps another.

A run has `CHECK_DEADLOCK FALSE` where the system ends: a bounded number of polls
(`UPSPolling`), a poll that is over, a configuration that was refused or put to use,
a stopped slave, a server that returned. In the other runs something can always
happen. Symmetry (command IDs and handlers are interchangeable) is used in the two
safety runs of `Master` only. `Cluster` has a VIEW without `sHeard`, which no action
reads.

Fairness. In `Master`: weak fairness of the polling loop and of the
watcher (tickers), of an execution (bounded by `command_timeout`) and of the
state-file write it waits for, and of a handler that has sent its register ack.
Strong fairness of the three steps that also need an interval to have elapsed (the
retry of nodes, the retry of a failed local shutdown, the expiry of `max_wait`):
the tick that finds it elapsed comes again and again, but another goroutine may
disable the step between ticks. Nothing is assumed of the UPS, the slaves, operators
or restarts. In `SlaveExecutor`: weak fairness of the handler, of an execution
(bounded by its timeout) and of a write that somebody waits for; nothing is assumed
of the connection or the master. In `Enrollment`: weak fairness of each handler
(reads have deadlines), of the slave's loop (it reconnects for ever), of a request
that was begun and of an install script that was handed out; none of new requests
or faults. In `UPSReader`: weak fairness of the dial (it has a timeout), of the
deadline of the conversation and of the timeout of a GET; the server owes nothing.
In `Session`: goroutines run, time passes, and a host that went down is started
again; faults are finitely many. In `ServerLifecycle`: weak fairness of `Run`, of a
handler that has something to write or a closed connection, and of the work of a tick;
strong fairness of a loop's exit once the context is cancelled, because a `select`
with a ready ticker may take that branch first, but `ctx.Done` stays ready. Peers and
requests are not fair, and slaves may talk for ever.

### Disagreements with the documentation

Twelve configurations state what a comment, a test or the documentation says, and TLC
finds a counterexample that the code can follow. They are not among the runs, which
all pass; `tlc -config FindingX.cfg <module>` shows each.

| configuration | module | the code | the claim |
|---|---|---|---|
| `FindingEmergency` | `MCMaster` | the waiting branch does not ask for an episode: a manual command for all nodes, on line power, becomes an immediate power-off of the master when the UPS stops answering | `local_shutdown.go:35`: "Callers only act on it during an episode, so a silent UPS on line power never powers off the master." |
| `FindingLateAck` | `MCMaster` | a node that failed or timed out and then acks `accepted` leaves the command marked completed, so it neither times out nor is retried | `episode.go:357`: "A retried node that only acks accepted must be able to time out again." |
| `FindingNeverRun` | `SlaveExecutor` | a command is entered in `executions` and then its status is sent; when that fails no goroutine is started and the entry stays, so later replays rebind it and it never runs | `client.go:364`: retried "so a transient failure does not leave the node powered on" |
| `FindingRerun` | `SlaveExecutor` | a replay that reads `executing` just before the execution ends finds no entry and starts the command a second time (`client.go:354`) | `client_test.go:72`: "expected duplicate shutdown not to re-run executor" |
| `FindingLockedOut` | `Enrollment` | a `token_stored` is on its way when the slave restarts; it reconnects with the stored token, is rejected and clears it; then the old handler binds the node to a token nobody holds (`NodeComesBack` allows `LockedOut` for this) | `client.go:276`: the master "must never bind a token we could lose" |
| `FindingClockStep` | `MCUPSPolling` | `time.Now().UTC()` has no monotonic reading: when the clock is set back, the error of a failed poll is not after the last success and counts as no silence (`ups.go:88`) | `ups.go:77`: "how long the UPS has not answered when the latest poll failed" |
| `FindingBusyHandler` | `MCSession` | the handler whose ack completes a command runs the local shutdown command, by default for up to two minutes, and answers no ping meanwhile, so the slave ends a working connection (`shutdown.go:289`) | `slave/client.go:32`: "the master pongs every ping, so missing reads for longer than this means the link is dead" |
| `FindingStaleReplay` | `MCCluster` | a retry or an emergency replay that was decided before the node's `executed` was recorded is sent after it (`local_shutdown.go:197`, `episode.go:365`); a node that has booted may run it again | `docs/troubleshooting.md:157`: a node that reconnects is sent a replay "除非已 `executed`" (unless it is executed already) |
| `FindingTLSDisabled` | `MCConfiguration` | a slave with `tls.disabled` and `require_client_cert` or `bind_node_id_to_cert`, and a master with `tls.disabled` and `server_name` or `insecure_skip_verify`, are accepted | `config.go:229`, `:254`: "tls.disabled cannot be combined with other tls.* settings" |
| `FindingReadyFile` | `MCConfiguration` | a file whose only x bit is for another user passes the self-check (`check.go:143`) and does not run | `check.go:45`: "Check verifies argv can be executed as the shutdown command without running it" |
| `FindingLateWrite` | `ServerLifecycle` | nobody waits for handlers of the admin server: a request in flight may write the state file after `Run` has returned | `server.go:192`: "wait for any pending state writes to flush before returning" |
| `FindingReadyz` | `ServerLifecycle` | readiness is withdrawn when `Run` returns, after listener and handlers are gone (`server.go:169`) | `admin_http.go:83`: "503 before startup or during shutdown" |

Further behaviours met while modelling, which no configuration checks: a local shutdown
that is executing when line power returns and then fails is retried outside the episode;
a power-off that failed is retried as `remote_complete` although a target has acked
`accepted` since, or was adopted, so that the retry does not wait for it (`ResumeLocal`;
`RemoteCompleteIsReported` speaks of the decision, not of its retries: an attempt to
prove it of both failed, and no run is large enough to reach the difference);
a node that registers between the deciding ack and the start of the master's
power-off is adopted but not waited for; a slave that restarts between the success
of its shutdown command and the recording of it runs the command again on a replay;
a silence that was found to vouch for a restored episode confirms it although an ack
of a manual command has begun a power-off in between (`episode.go:158`-`163`:
`ReadingBeforeFallback` therefore speaks of the mark that the file brought, which is
what keeps a slow UPS card from powering the master off again after it boots);
a power-off of a manual command that fails takes back the mark that the file brought
for the episode (`local_shutdown.go:240`), so that silence counts again;
and a replay that arrives between the recording of a failure and the end of the
execution is taken for a duplicate and waits for the next replay.

## Proofs

Assumptions: only the named ones in the modules (`TagsOfAssumption`,
`MasterAssumption`, `PersistenceAssumption`, `SlaveAssumption`, `OneNode`,
`ClusterAssumption`, `SessionAssumption`, `DeadlineAssumption`, `EnrollmentAssumption`,
`PollingAssumption`, `ReaderAssumption`, `LifecycleAssumption`). They say what the
constants are; two also order them: a message takes less time than the deadlines of a
registration (`SessionAssumption`), and no read deadline is longer than the master's
(`DeadlineAssumption`; in the code 10 s, 5 s and three times 15 s against 45 s).
No finiteness is assumed. One theorem, `HealthyUp`, has a hypothesis of its own.

* `MasterProofs!TypeCorrect`: `Spec => []TypeOK`. One lemma per goroutine; the
  lemmas about `ShutdownCommand` say that every way of changing a command yields
  a command. `TypeOK` is inductive.
* `MasterProofs!EpisodeCommand`: `Spec => []EpisodeCommandIsLive`. Pruning
  spares the active command; the episode's command survives because it *is* the
  active one as long as it is not disabled. That link, and that no other
  automatic command is live, is what `LiveAuto` states, for the memory and for the
  file alike, and with the types it is inductive: a manual command is refused
  while one is active, an automatic one supersedes a manual one, and an ack or a
  timeout releases only manual commands.
* `MasterProofs!ExecutionExclusive`: `Spec => []OneExecution`, for any number
  of handlers. Strengthened by `WatcherSequential` (the watcher does not tick
  while it executes), without which the watcher could drop an execution of its own.
* `MasterProofs!CommandsWiden` (`Spec => CommandsOnlyWiden`). `Evolves` says what
  may become of one command in one step, and is closed under composition, since an
  action may merge, adopt and send in one step; `TableEvolves` says it of all of
  them. An ID could otherwise be used again for a new command that is narrower:
  `IssuedInv` (whatever is known, in the file or sent was issued) excludes that.
* `MasterProofs!LocalFollows` (`Spec => []LocalFollowsCommand`) and
  `RemoteCompleteReported` (`Spec => RemoteCompleteIsReported`). `FollowInv` adds
  which phases have a command (`LocalShape`) and that a job carries the trigger the
  phase had when it was begun (`Justified`), so that an execution that ends late, or
  fails and is retried, still belongs to a command that may power off the master.
  A command it follows may widen but not narrow, which is `TableEvolves`.
* `MasterProofs!ConfirmedFirst` (`Spec => []ConfirmedBeforeAction`). Acks start
  an execution without asking whether the UPS is confirmed, and policies are applied
  without asking again. What protects them: a node acks only what was sent, the
  policies to apply were found on a confirmed UPS (`ApplyInv`), and a local shutdown
  that is restored for an automatic command belongs to the restored episode
  (`RestoredInv`), which the watcher does not act on before it is confirmed.
* `MasterProofs!PowerOffRemembered` (`Spec => []PowerOffIsRemembered`) with
  `MarkInv`: the mark in memory is there as long as the episode that got it.
* `MasterProofs!ReadingFirst` (`Spec => ReadingBeforeFallback`) with `ReadInv`: where in
  the poll loop the last result is a reading; and `BootInv`: while the mark that the
  file brought stands, the episode has it (`MarkStands`), and the poll loop is not about
  to vouch for an unconfirmed episode, because it decided so without the mark and only
  a restart brings one. A power-off of this process sets the episode's mark, not this one.
* `MasterProofs!NobodyLeftOut` (`Spec => []NoNodeLeftOut`). `NodeInv` adds that
  before the first restart an episode with a command is confirmed: otherwise a
  registration would skip the adoption.
* `StatePersistenceProofs!ReturnedDurable` and `Refinement`: for any number of
  writers. The invariant ties the order of sequence numbers to the order of
  versions (`latest = base + persistSeq`, and a snapshot numbered `s` holds
  version `base + s`), the mutex to the one writer inside `WriteFile`, and
  `persistedSeq` to the version in the file. `RegisterStep` states, action by action,
  which step of the register each step of a writer is.
* `StatePersistenceProofs!LastIsWritten` (`Spec => []NothingForgotten`) adds
  `LastIsUnderWay`: unless something failed, the snapshot with the highest number is
  still held by a goroutine inside `persistState`, or is covered by `persistedSeq`.
* `SlaveExecutorProofs!TypeCorrect` and `RunExclusive` (`Spec => []OneRunPerCommand`),
  for any commands and goroutines. The check of `executions` and the start of the
  goroutine are separate steps, and a handler may hold a prepared start while
  executions end and others are pruned; the invariant adds that every running
  command, and the one whose start is prepared, has an entry, and that the prepared
  one does not run yet.
* `SlaveExecutorProofs!ReportsAreTrue` (`Spec => []ReportedIsTrue`). A status reaches
  the master by way of the memory, the file, the message the handler has in hand or
  an execution: `TruthInv` says that each of these is true, and a success is never
  undone.
* `SlaveExecutorProofs!SettledStays` (`Spec => []SettledIsNotRepeated`). `SettledInv`
  adds that the handler of a settled command can only repeat its status, and that no
  execution is about one.
* `ClusterProofs!SlaveIsExecutor` (`Spec => S!Spec`): every step of the composition is a
  step of `SlaveExecutor` or leaves the slave alone (for which the messages on the way
  to it must be commands, `Addressed`). The theorems about the slave then hold of the
  composition; the two below use its types and `TruthInv`.
* `ClusterProofs!ClusterRefines` (`Spec => ImplementsConfirmed`). `RecordInv`: every ack
  on its way, on the present connection or a replaced one, is true; so is what the
  master has on record; and what the file has as executed is executed in memory,
  because nothing replaces that status, so a restart of the master only forgets.
  `WantedInv`: what the slave is busy with was asked of it. `AbstractNext` then names,
  action by action, the step of `ConfirmedShutdown`.
* `ClusterProofs!BootedStays` (`Spec => []BootedStaysUp`), from the same `WantedInv`: the
  slave is not busy with a command that was confirmed, and not decided on, when it went
  down. What was on the way is lost, and while the master has it as executed no goroutine
  is given it to send (`decided` and `settled` are disjoint).
* `SessionProofs!RegisteredOnline` (`Spec => []RegisteredIsOnline`). `ServedIsRegistered`:
  a handler that serves is the one in the registry, because the one replaced is closed
  in the same step and `RemoveIfMatch` removes no entry of another. The rest of the
  invariant is the shape of the records (`ShapeOK`); no timing is needed.
* `SessionProofs!SilenceNoticed` (`Spec => []SilenceIsNoticed`) and `HealthyUp`
  (`LinkIsFast` implies `Spec => []HealthyStaysUp`), for any deadlines, connections,
  cuts and crashes and handlers busy for any time, both from `TimeCorrect` (`Spec => []TimeInv`). Neither property
  survives a `Tick` on its own: what bounds a timer is when the last message came, and
  that is no variable. `TimeInv` recovers it from what is on the wire. Queues are
  ordered by age, and on a dead link every message is at least as old as the silence,
  or as old as one gets (`LinkOK`). So the silence exceeds an end's timer by `Delay` at
  most (`SlaveClock`), and at the handler also by what reports have cost it
  (`HandlerClock`; `Spent` counts the reports that were read, so a handler that is busy
  uses up a budget and not only time). On a link that works, a timer that has run for
  longer than a ping interval is accounted for by a message under way: a ping, whose age
  grows with the timer, or its pong (`HandlerHears`, `SlaveHears`), the slave's with
  `stalled`, the time the handler was busy, on top. `LinkIsFast` only asks that a ping
  and its answer fit into the read deadline (in the code 15 s and twice the delay
  against 45 s); it bounds no handler. `DownClock` relates
  the age of `LastSeen` to the time the host is down. There is one lemma per action
  (`DialClocks`, ..., `TickClocks`), on lemmas about queues and the number of reports in
  them. TLC has checked `TimeInv` on the instance of the run.
* `EnrollmentProofs!TypeCorrect`.
* `EnrollmentProofs!RevokedGone` (`Spec => []RevokedIsGone`). A revoked token could
  come back from a handler that issued it and has not confirmed it, or from the
  file. `GoneInv` adds that a pending token is known to its handler alone
  (`PendingIsNew`: issued tokens are new, and confirming is refused when the node
  has a token), and that what a request takes away is gone from memory at once and
  from the file before the answer (`Taken`).
* `EnrollmentProofs!BoundStored` (`Spec => []BoundWasStored`). `HandshakeInv` follows
  the token through the conversation: nothing is confirmed before the ack, the slave
  stores the token of the connection it is at, and a `token_stored` under way is about
  a token that was stored, also after the slave has gone.
* `EnrollmentProofs!RegisteredCurrent` (`Spec => []RegisteredIsCurrent`).
  `RegistryInv` adds that a registered connection has passed
  `registerIfTokenUnchanged`, and that a request which changes the token is the only
  one that still has to disconnect; from `HandshakeInv` it takes that a connection
  which registers has bound nothing yet.

* `UPSProofs!DueFired` (`Spec => []DuePoliciesFired`), `FiresWhenDue`
  (`Spec => FiresOnlyWhenDue`) and `EmergencyReal` (`Spec => EmergencyIsReal`), for any
  policies, readings and number of polls. The properties speak of the whole history, the
  code keeps one reading, two time stamps and a timer per policy. `PollingInv` says why
  that is enough: the view is the last answer and remembers a failure only since then
  (`ViewIsLastAnswer`), and the timer of a policy that has not fired started with the
  first of the answers that satisfied it without a break, and is not over once a poll is
  evaluated (`TimersRun`). Between the record of an answer and its evaluation the timers
  lag one answer behind, which `Evaluated` accounts for.
* `UPSProofs!ReadingTold` (`PollSpec => []ReadingIsTold`) and `ThresholdsInTime`
  (`PollSpec => []ThresholdsFireInTime`), for answers of any length and any numbers.
  `ReaderInv`: what is collected is the last value of every variable that was told
  (`CollectedIsTold`), and a reading is decoded from that, after the end of the list, or
  from the packet. The second is arithmetic on top of it: a value is cut to a number of
  limited size and rounded down, once or twice.
* `UPSProofs!ReadingFits` (`PollSpec => []ReadingIsUsable`) joins the two modules: what a
  poll returns is a `Reading`, and an SNMP agent never reports low battery, which is
  what `PollingAssumption` asks of `Readings`.
* `ServerProofs!AcceptedWorks` and `NothingUnprotected`: `AcceptedConfigWorks` and
  `NothingSilentlyUnprotected`, for every file. `Files` has every string, number and
  list of policies, and all blocks vary at once, which the run cannot do: it varies one
  block at a time. `ConfigInv` says of each stage that was passed what it has
  established, and that a stage completes its own block only.
* `ServerProofs!RunDrainsHandlers` (`Spec => []HandlersAreDrained`): a handler
  at work is counted before its goroutine starts, and once `Run` waits, no handler and
  no loop is started; `Drained` says so for every place of `Run`.

The `TypeCorrect` theorems are not repeated as invariants of the runs.

Model-checked only: liveness (`EmergencyIsCarriedOut`, `WaitingEnds`,
`NodeIsReached`, `NodeComesBack`, `EveryPollEnds`, `ComesBack`, `RunEnds`), which is out
of the prover's reach. `BackoffIsExact`: it needs laws of `2^n` by induction, and holds
only when `MaxFailures` failures reach the limit of the backoff. `ReadyIfItRuns`: what
the self-check makes of a command line of any length is a recursion over its words,
which takes induction as well.

## Not modelled

* Framing of messages (JSON lines with a length limit), the buffered writer of a
  connection and its write deadline: a connection delivers whole messages in order,
  or breaks.
* YAML syntax, removed keys, default addresses and the contents of certificate
  files; the TLS handshake beyond who is let in; admin TLS.
* Metrics, logs, the status report beyond the state of a node, the HTTP layer (routing,
  body validation), rendering and validation of install scripts: nothing is decided
  on them, or they are pure text.
* Corrupt state files, and configurations without a state file.
* A write of the master's state file that fails just before its power-off: the code
  logs it and goes on, and the next boot then does not know of the power-off.
* The programs' start-up and flags.

`PROJECT.json` ("components") gives the reason for each part.

## Plan

To be modelled: the framing of messages with the write deadline and the length
limit, as a module of its own between `Session` and the connection; and the state
file of `Enrollment` refined by `StatePersistence`.
