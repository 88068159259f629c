------------------------------- MODULE Master -------------------------------
(***************************************************************************)
(* The shutdown logic of nut-master (internal/master): the on-battery      *)
(* episode, the shutdown commands, the "wait for the remotes, then power   *)
(* off the master" state machine, and what survives a restart.             *)
(*                                                                         *)
(* Every action is one critical section of commandMu (or one read or write *)
(* of the UPS view) of one goroutine: the UPS polling loop, the one-second *)
(* command watcher, the connection handlers, the admin API.  A goroutine   *)
(* that gives up the lock in the middle of an operation has a program      *)
(* counter, so that the others can run in between.                         *)
(*                                                                         *)
(* Time is not modelled: a deadline or an interval may be found elapsed    *)
(* whenever the code compares it with the clock.                           *)
(***************************************************************************)
EXTENDS ShutdownCommand, FiniteSets, Integers

CONSTANTS
  CmdId, NoCmd,         \* command IDs, and the empty command ID
  Policy,               \* the names of the configured shutdown policies
  PolicyTarget,         \* PolicyTarget[p]: the target of policy p
  UnreachablePolicy,    \* the policies with a ups_unreachable_for condition
  ManualTarget,         \* the targets an operator may request
  ManualDryRun,         \* the dry_run values an operator may request
  DryRun,               \* cfg.DryRun
  LocalEnabled,         \* cfg.LocalShutdown.Enabled
  Handler,              \* goroutines that process messages of slaves
  UPSResult,            \* what a poll of the UPS may return
  AckStatus,            \* the statuses slaves report
  MaxRetained,          \* maxRetainedCompletedCommands
  MaxRestarts           \* bound: restarts of the master

ASSUME MasterAssumption ==
  /\ NoCmd \notin CmdId
  /\ PolicyTarget \in [Policy -> Target]
  /\ UnreachablePolicy \subseteq Policy
  /\ ManualTarget \subseteq Target
  /\ ManualDryRun \subseteq BOOLEAN
  /\ DryRun \in BOOLEAN
  /\ LocalEnabled \in BOOLEAN
  /\ UPSResult \subseteq {"line", "battery", "critical", "error"}
  /\ AckStatus \subseteq Status
  /\ MaxRetained \in Nat
  /\ MaxRestarts \in Nat
  /\ "watcher" \notin Handler

(***************************************************************************)
(* The shared state.                                                       *)
(***************************************************************************)
VARIABLES
  commands,       \* the known commands, by ID (s.commands)
  active,         \* s.activeCommand
  episode,        \* s.episode
  local,          \* s.localShutdown
  issued,         \* every command ID ever handed out by newCommandID
  upsConfirmed,   \* s.upsConfirmed
  ups,            \* the UPS view: no poll yet, the last reading, or an error
  connected,      \* s.registry: nodes with a registered connection
  greeting,       \* nodes registered, whose pending shutdown is not replayed yet
  sent            \* <<node, command>> handed to a connection of this process

(***************************************************************************)
(* The goroutines, the state file, and what is only observed.              *)
(***************************************************************************)
VARIABLES
  poll,           \* the UPS polling loop
  watch,          \* the command watcher
  job,            \* local shutdown executions, by the goroutine that runs them
  request,        \* the manual shutdown request being served
  disk,           \* the content of the state file
  restarts,       \* how many of MaxRestarts restarts are used up, or will not come
  markedHere,     \* observer: the running local shutdown was started in this episode
  bootMark        \* observer: the file this process loaded said that the master powered
                  \* off in this episode, and nothing has taken that back

core    == <<commands, active, episode, local>>
ids     == <<issued>>
upsVars == <<upsConfirmed, ups>>
net     == <<connected, greeting, sent>>
file    == <<disk, restarts, bootMark>>
vars    == <<core, ids, upsVars, net, poll, watch, job, request, file, markedHere>>

NoTrigger    == "none"
Trigger      == {"remote_complete", "wait_expired", "emergency", "ups_unreachable"}
Phase        == {"waiting_remote", "wait_expired", "emergency", "executing",
                 "completed", "failed"}
PendingPhase == {"waiting_remote", "wait_expired", "emergency", "failed"}

Reading == {"line", "battery", "critical"}   \* critical: on battery, and runtime or LB is

NoEpisode == [on |-> FALSE, cmd |-> NoCmd, fired |-> {}, poweredOff |-> FALSE]
NoLocal   == [phase |-> "idle", cmd |-> NoCmd, trigger |-> NoTrigger, dry |-> FALSE]
NoJob     == [pc |-> "idle", cmd |-> NoCmd, trigger |-> NoTrigger]
NoRequest == [pc |-> "idle", target |-> AllNodes, dry |-> FALSE, nodes |-> {}]

PollIdle  == [pc |-> "idle", due |-> {}]
WatchIdle == [pc |-> "timeouts", sample |-> "none"]

Worker == Handler \cup {"watcher"}

Known(c)       == c \in DOMAIN commands
Put(f, c, v)   == [k \in DOMAIN f \cup {c} |-> IF k = c THEN v ELSE f[k]]
Busy(w)        == job[w].pc # "idle"

(***************************************************************************)
(* Predicates on the shared state.                                         *)
(***************************************************************************)
LocalPresent == local.phase # "idle"

localShutdownTerminal_Bug(phase) == phase = "completed"

localShutdownTerminal(phase) == phase \in {"executing", "completed"}

localShutdownBelongsToEpisode ==
  /\ episode.on
  /\ LocalPresent
  /\ local.cmd \in {episode.cmd, NoCmd}

awaitingReadingAfterPowerOff_Bug == FALSE

awaitingReadingAfterPowerOff ==
  episode.on /\ episode.poweredOff /\ ~upsConfirmed

\* Whether the UPS has been silent for long enough may go either way while the
\* last poll failed.
upsSilentFor == IF ups = "error" THEN BOOLEAN ELSE {FALSE}

\* latestSuccessfulUPSStatus: the last reading, unless a later poll failed.
latestSuccessfulUPSStatus == IF ups \in Reading THEN ups ELSE "none"

(***************************************************************************)
(* Helpers on the shared state.                                            *)
(***************************************************************************)
armLocalShutdown_Bug(cur, c, command, episodeOn) ==
  IF ~LocalEnabled \/ cur.phase = "executing" \/ (cur.phase # "idle" /\ cur.cmd = c)
  THEN cur
  ELSE [phase |-> "waiting_remote", cmd |-> c, trigger |-> NoTrigger, dry |-> command.dry]

\* What armLocalShutdownLocked leaves in s.localShutdown for command c, from
\* the local shutdown cur, when the current episode is (or is not) on.
armLocalShutdown(cur, c, command, episodeOn) ==
  IF \/ ~LocalEnabled
     \/ ~command.target.all
     \/ /\ cur.phase # "idle"
        /\ \/ cur.phase = "executing"
           \/ cur.cmd = c
           \/ cur.cmd = NoCmd /\ episodeOn
  THEN cur
  ELSE [phase |-> "waiting_remote", cmd |-> c, trigger |-> NoTrigger, dry |-> command.dry]

\* The target of the policies ps: PolicyMatch.Target().
PoliciesTarget(ps) ==
  IF \E p \in ps : PolicyTarget[p].all
  THEN AllNodes
  ELSE [all   |-> FALSE,
        nodes |-> UNION {PolicyTarget[p].nodes : p \in ps},
        tags  |-> UNION {PolicyTarget[p].tags : p \in ps}]

Prunable_Bug(cmds, act) ==
  {c \in DOMAIN cmds : cmds[c].done /\ ~(LocalPresent /\ local.cmd = c)}

\* The commands pruneCompletedCommandsLocked may evict, and how many it does.
Prunable(cmds, act) ==
  {c \in DOMAIN cmds : cmds[c].done /\ c # act /\ ~(LocalPresent /\ local.cmd = c)}

\* Command IDs are random: a new one was never used before.
Fresh == CmdId \ issued

Send(nodes, c) == sent' = sent \cup (nodes \X {c})

persistedLocalShutdownState(l) == IF l.phase \in PendingPhase THEN l ELSE NoLocal

NoCommands == [c \in {} |-> NewCommand(FALSE, FALSE, AllNodes, {})]

EmptyFile ==
  [commands |-> NoCommands, active |-> NoCmd, episode |-> NoEpisode, local |-> NoLocal]

Snapshot ==
  [commands |-> commands, active |-> active, episode |-> episode,
   local |-> persistedLocalShutdownState(local)]

----------------------------------------------------------------------------
Init ==
  /\ commands = NoCommands
  /\ active = NoCmd
  /\ episode = NoEpisode
  /\ local = NoLocal
  /\ issued = {}
  /\ upsConfirmed = FALSE
  /\ ups = "none"
  /\ connected = {}
  /\ greeting = {}
  /\ sent = {}
  /\ poll = PollIdle
  /\ watch = WatchIdle
  /\ job = [w \in Worker |-> NoJob]
  /\ request = NoRequest
  /\ disk = EmptyFile
  /\ restarts \in 0..MaxRestarts
  /\ markedHere = FALSE
  /\ bootMark = FALSE

(***************************************************************************)
(* The UPS polling loop: evaluateUPS.                                      *)
(***************************************************************************)

\* A poll returns: the reading (or the error) is recorded in the UPS view.
PollUPS ==
  /\ poll.pc = "idle"
  /\ \E r \in UPSResult :
       /\ ups' = r
       /\ poll' = [poll EXCEPT !.pc = CASE r = "line"  -> "line"
                                        [] r = "error" -> "evaluate"
                                        [] OTHER       -> "battery"]
  /\ UNCHANGED <<core, ids, upsConfirmed, net, watch, job, request, file, markedHere>>

\* Line power closes the episode: its command is not replayed any more, its
\* local shutdown is dropped unless it is running, and a manual command that
\* is complete but still pinned by a timeout is released.
endEpisodeOnLinePower ==
  /\ poll.pc = "line"
  /\ LET c       == episode.cmd
         cmds    == IF Known(c) THEN [commands EXCEPT ![c] = Disable(@)] ELSE commands
         act     == IF Known(c) /\ active = c THEN NoCmd ELSE active
         release == act \in DOMAIN cmds /\ ~cmds[act].auto /\ commandComplete(cmds[act])
     IN  /\ commands' = cmds
         /\ active' = IF release THEN NoCmd ELSE act
  /\ local' = IF localShutdownBelongsToEpisode /\ local.phase # "executing"
              THEN NoLocal ELSE local
  /\ episode' = NoEpisode
  /\ markedHere' = FALSE
  /\ poll' = IF upsConfirmed THEN PollIdle ELSE [poll EXCEPT !.pc = "confirm"]
  /\ bootMark' = FALSE
  /\ UNCHANGED <<ids, upsVars, net, watch, job, request, disk, restarts>>

startEpisodeIfNeeded ==
  /\ poll.pc = "battery"
  /\ episode' = IF episode.on THEN episode ELSE [NoEpisode EXCEPT !.on = TRUE]
  /\ poll' = [poll EXCEPT !.pc = IF upsConfirmed THEN "evaluate" ELSE "confirm"]
  /\ UNCHANGED <<commands, active, local, ids, upsVars, net, watch, job, request, file,
                 markedHere>>

\* The reading is confirmed only after a restored episode was ended or kept.
ConfirmReading ==
  /\ poll.pc = "confirm"
  /\ upsConfirmed' = TRUE
  /\ poll' = IF ups = "line" THEN PollIdle ELSE [poll EXCEPT !.pc = "evaluate"]
  /\ UNCHANGED <<core, ids, ups, net, watch, job, request, file, markedHere>>

\* The policies that match this poll: on a reading those without a
\* ups_unreachable_for condition (conditions and debounce may hold for any of
\* them), on a failed poll those with one (the silence may be long enough for
\* any of them).
evaluateEpisodePolicies ==
  /\ poll.pc = "evaluate"
  /\ LET silent == ups = "error"
     IN  IF ~episode.on \/ (silent /\ awaitingReadingAfterPowerOff)
         THEN poll' = PollIdle
         ELSE \E matching \in SUBSET (IF silent THEN UnreachablePolicy
                                                ELSE Policy \ UnreachablePolicy) :
                LET due == matching \ episode.fired
                IN  poll' = IF silent /\ matching # {} /\ ~upsConfirmed
                            THEN [pc |-> "vouch", due |-> due]
                            ELSE IF due = {} THEN PollIdle ELSE [pc |-> "apply", due |-> due]
  /\ UNCHANGED <<core, ids, upsVars, net, watch, job, request, file, markedHere>>

\* A policy about the silence vouches for the episode: it is acted on without a
\* reading.  That was decided under the lock, which is released by now.
VouchForEpisode ==
  /\ poll.pc = "vouch"
  /\ upsConfirmed' = TRUE
  /\ poll' = IF poll.due = {} THEN PollIdle ELSE [poll EXCEPT !.pc = "apply"]
  /\ UNCHANGED <<core, ids, ups, net, watch, job, request, file, markedHere>>

\* The episode already has a command: it is widened and its new targets adopted.
WidenEpisodeCommand(fired) ==
  LET c       == episode.cmd
      merged  == [commands[c] EXCEPT
                    !.target = mergeShutdownTargets(@, PoliciesTarget(poll.due))]
      command == adoptMatchingClients(merged, connected)
  IN  /\ commands' = [commands EXCEPT ![c] = command]
      /\ local' = IF ~commands[c].target.all /\ command.target.all
                  THEN armLocalShutdown(local, c, command, TRUE) ELSE local
      /\ episode' = [episode EXCEPT !.fired = @ \cup fired]
      /\ Send(Adoptable(merged, connected), c)
      /\ UNCHANGED <<active, issued>>

\* The first policies of the episode create its command.  An active manual
\* command is superseded, with its local shutdown unless that is running or done.
CreateEpisodeCommand(fired) ==
  \E c \in Fresh :
    LET target     == PoliciesTarget(poll.due)
        nodes      == selectTargets(connected, target)
        command    == NewCommand(TRUE, DryRun, target, nodes)
        supersedes == Known(active) /\ ~commands[active].auto
        cmds       == IF supersedes THEN [commands EXCEPT ![active] = Disable(@)] ELSE commands
        kept       == IF /\ supersedes
                         /\ LocalPresent /\ local.cmd = active
                         /\ ~localShutdownTerminal(local.phase)
                      THEN NoLocal ELSE local
    IN  /\ commands' = Put(cmds, c, command)
        /\ active' = c
        /\ issued' = issued \cup {c}
        /\ local' = armLocalShutdown(kept, c, command, TRUE)
        /\ episode' = [episode EXCEPT !.cmd = c, !.fired = @ \cup fired]
        /\ Send(nodes, c)

applyPolicyMatch ==
  /\ poll.pc = "apply"
  /\ LET fired == poll.due \ episode.fired
     IN  IF ~episode.on \/ fired = {}
         THEN UNCHANGED <<core, issued, sent>>
         ELSE IF Known(episode.cmd) THEN WidenEpisodeCommand(fired)
                                    ELSE CreateEpisodeCommand(fired)
  /\ poll' = PollIdle
  /\ UNCHANGED <<upsVars, connected, greeting, watch, job, request, file, markedHere>>

(***************************************************************************)
(* The command watcher: one tick is markTimedOutCommands, then             *)
(* retryEpisodeShutdown, then evaluateLocalShutdown on the UPS status read *)
(* before the lock is taken.                                               *)
(***************************************************************************)

\* Any command that is not completed may be past its timeout; then completed
\* commands beyond MaxRetained are pruned.  Which of them are the oldest is
\* not tracked: any of them may be.
MarkTimedOutCommands ==
  /\ watch.pc = "timeouts"
  /\ ~Busy("watcher")
  /\ \E expired \in SUBSET {c \in DOMAIN commands : ~commands[c].done} :
       LET cmds   == [c \in DOMAIN commands |->
                        IF c \in expired THEN TimeOut(commands[c]) ELSE commands[c]]
           act    == IF /\ active \in expired
                        /\ cmds[active].done
                        /\ ~cmds[active].auto
                        /\ ~commandHasRepairableTimeout(cmds[active])
                     THEN NoCmd ELSE active
           excess == Cardinality(DOMAIN cmds) - MaxRetained
       IN  /\ active' = act
           /\ \E evicted \in SUBSET Prunable(cmds, act) :
                /\ \/ excess <= 0 /\ evicted = {}
                   \/ /\ excess > 0
                      /\ \/ Cardinality(evicted) = excess
                         \/ /\ Cardinality(evicted) < excess
                            /\ evicted = Prunable(cmds, act)
                /\ commands' = [c \in DOMAIN cmds \ evicted |-> cmds[c]]
  /\ watch' = [watch EXCEPT !.pc = "retry"]
  /\ UNCHANGED <<episode, local, ids, upsVars, net, poll, job, request, file, markedHere>>

\* Nodes of the episode command whose last status is failed or timeout get the
\* command again, and connected nodes it does not track yet are adopted.
retryEpisodeShutdown ==
  /\ watch.pc = "retry"
  /\ episode.on /\ upsConfirmed
  /\ Known(episode.cmd) /\ ~commands[episode.cmd].replayDisabled
  /\ LET c       == episode.cmd
         command == commands[c]
         retried == {n \in command.nodes : command.upd[n] \in {"failed", "timeout"}}
         adopted == Adoptable(command, connected)
     IN  /\ retried \cup adopted # {}
         /\ commands' = [commands EXCEPT ![c] = Reopen(command, adopted)]
         /\ Send((retried \cup adopted) \cap connected, c)
  /\ watch' = [watch EXCEPT !.pc = "sample"]
  /\ UNCHANGED <<active, episode, local, ids, upsVars, connected, greeting, poll, job,
                 request, file, markedHere>>

\* Nothing to retry, or the retry interval has not elapsed.
SkipRetry ==
  /\ watch.pc = "retry"
  /\ watch' = [watch EXCEPT !.pc = "sample"]
  /\ UNCHANGED <<core, ids, upsVars, net, poll, job, request, file, markedHere>>

SampleUPSStatus ==
  /\ watch.pc = "sample"
  /\ watch' = [pc |-> "evaluate", sample |-> latestSuccessfulUPSStatus]
  /\ UNCHANGED <<core, ids, upsVars, net, poll, job, request, file, markedHere>>

\* Why the master must power off right away.  silent: the UPS has not answered
\* for unreachable_after, read under the lock, after the sample was taken.
emergencyTrigger(silent) ==
  CASE watch.sample = "critical"             -> "emergency"
    [] watch.sample # "critical" /\ silent   -> "ups_unreachable"
    [] OTHER                                 -> NoTrigger

\* The watcher goes on to beginLocalShutdownExecution(c, trigger).
WatcherBegins(c, trigger) ==
  job' = [job EXCEPT !["watcher"] = [pc |-> "begin", cmd |-> c, trigger |-> trigger]]

LeftByAnother_Bug(emergency, trusted) == FALSE

\* A local shutdown that another command left must not stand in for an
\* emergency of this episode.
LeftByAnother(emergency, trusted) ==
  /\ LocalPresent /\ episode.on /\ trusted /\ emergency # NoTrigger
  /\ local.phase # "executing"
  /\ ~localShutdownBelongsToEpisode

\* During an episode the emergency powers the master off whether or not a
\* command targets every node.
ArmEmergency(emergency, trusted) ==
  /\ ~LocalPresent \/ LeftByAnother(emergency, trusted)
  /\ episode.on /\ trusted /\ emergency # NoTrigger
  /\ local' = [phase |-> "emergency", cmd |-> episode.cmd, trigger |-> emergency,
               dry |-> IF Known(episode.cmd) THEN commands[episode.cmd].dry ELSE DryRun]
  /\ IF Known(episode.cmd)
     THEN Send(replayableNodeIDs(commands[episode.cmd]) \cap connected, episode.cmd)
     ELSE UNCHANGED sent
  /\ WatcherBegins(episode.cmd, emergency)

Followed_Bug(emergency, trusted) ==
  LocalPresent /\ ~LeftByAnother(emergency, trusted)

\* What the watcher follows up: a local shutdown that is not left by another
\* command and, when an episode armed it, is backed by a UPS reading.
Followed(emergency, trusted) ==
  /\ LocalPresent
  /\ ~LeftByAnother(emergency, trusted)
  /\ trusted \/ (Known(local.cmd) /\ ~commands[local.cmd].auto)

Cancelled == ~Known(local.cmd) \/ commands[local.cmd].replayDisabled

CancelWaiting(emergency, trusted) ==
  /\ Followed(emergency, trusted)
  /\ local.phase = "waiting_remote" /\ Cancelled
  /\ local' = NoLocal
  /\ UNCHANGED <<sent, job>>

\* Backstop for the gap between an ack and the start of the local shutdown.
FinishWaiting(emergency, trusted) ==
  /\ Followed(emergency, trusted)
  /\ local.phase = "waiting_remote" /\ ~Cancelled
  /\ remoteShutdownFinished(commands[local.cmd])
  /\ local' = [local EXCEPT !.trigger = "remote_complete"]
  /\ WatcherBegins(local.cmd, "remote_complete")
  /\ UNCHANGED sent

EscalateWaiting(emergency, trusted) ==
  /\ Followed(emergency, trusted)
  /\ local.phase = "waiting_remote" /\ ~Cancelled
  /\ ~remoteShutdownFinished(commands[local.cmd])
  /\ emergency # NoTrigger
  /\ local' = [local EXCEPT !.phase = "emergency", !.trigger = emergency]
  /\ Send(replayableNodeIDs(commands[local.cmd]) \cap connected, local.cmd)
  /\ WatcherBegins(local.cmd, emergency)

\* Bug: a command whose remotes timed out is taken for settled.
ExpireWaiting_Bug(emergency, trusted) ==
  /\ Followed(emergency, trusted)
  /\ local.phase = "waiting_remote" /\ ~Cancelled
  /\ ~commandComplete(commands[local.cmd])
  /\ emergency = NoTrigger
  /\ local' = [local EXCEPT !.phase = "wait_expired", !.trigger = "wait_expired"]
  /\ WatcherBegins(local.cmd, "wait_expired")
  /\ UNCHANGED sent

\* max_wait is over.
ExpireWaiting(emergency, trusted) ==
  /\ Followed(emergency, trusted)
  /\ local.phase = "waiting_remote" /\ ~Cancelled
  /\ ~remoteShutdownFinished(commands[local.cmd])
  /\ emergency = NoTrigger
  /\ local' = [local EXCEPT !.phase = "wait_expired", !.trigger = "wait_expired"]
  /\ WatcherBegins(local.cmd, "wait_expired")
  /\ UNCHANGED sent

\* A decision that was taken but not carried out, or failed: try again.
ResumeLocal(emergency, trusted) ==
  /\ Followed(emergency, trusted)
  /\ local.phase \in {"wait_expired", "emergency", "failed"}
  /\ WatcherBegins(local.cmd, IF local.phase = "wait_expired" THEN "wait_expired"
                                                              ELSE local.trigger)
  /\ UNCHANGED <<local, sent>>

\* Nothing to do: no emergency to act on, still waiting, the retry interval of
\* a failed attempt has not elapsed, or the local shutdown is running or done.
LeaveLocal(emergency, trusted) ==
  /\ \/ ~LocalPresent /\ ~(episode.on /\ trusted /\ emergency # NoTrigger)
     \/ LocalPresent /\ ~LeftByAnother(emergency, trusted) /\ ~Followed(emergency, trusted)
     \/ /\ Followed(emergency, trusted)
        /\ \/ localShutdownTerminal(local.phase) \/ local.phase = "failed"
           \/ /\ local.phase = "waiting_remote" /\ ~Cancelled
              /\ ~remoteShutdownFinished(commands[local.cmd])
              /\ emergency = NoTrigger
  /\ UNCHANGED <<local, sent, job>>

\* The emergency of this tick: an unreachable UPS does not count while the
\* master waits for a reading after it powered itself off.
Emergency(silent) ==
  IF emergencyTrigger(silent) = "ups_unreachable" /\ awaitingReadingAfterPowerOff
  THEN NoTrigger ELSE emergencyTrigger(silent)

evaluateLocalShutdown ==
  /\ watch.pc = "evaluate"
  /\ LocalEnabled
  /\ \E silent \in upsSilentFor :
       LET emergency   == Emergency(silent)
           unreachable == emergency = "ups_unreachable"
           trusted     == upsConfirmed \/ unreachable
       IN  /\ upsConfirmed' = (upsConfirmed \/ (unreachable /\ episode.on))
           /\ \/ ArmEmergency(emergency, trusted)
              \/ CancelWaiting(emergency, trusted)
              \/ FinishWaiting(emergency, trusted)
              \/ EscalateWaiting(emergency, trusted)
              \/ ExpireWaiting(emergency, trusted)
              \/ ResumeLocal(emergency, trusted)
              \/ LeaveLocal(emergency, trusted)
  /\ watch' = WatchIdle
  /\ UNCHANGED <<commands, active, episode, ids, ups, connected, greeting, poll, request,
                 file, markedHere>>

SkipLocalShutdown ==
  /\ watch.pc = "evaluate"
  /\ ~LocalEnabled
  /\ watch' = WatchIdle
  /\ UNCHANGED <<core, ids, upsVars, net, poll, job, request, file, markedHere>>

(***************************************************************************)
(* beginLocalShutdownExecution, by the watcher or by the handler of the    *)
(* ack that completed a command: take the lock and mark the execution,     *)
(* write the state file, run the command, take the lock and record the     *)
(* outcome.                                                                *)
(***************************************************************************)
BeginRefused(w) ==
  \/ ~LocalPresent
  \/ local.cmd # job[w].cmd
  \/ localShutdownTerminal(local.phase)

DropExecution(w) ==
  /\ job[w].pc = "begin"
  /\ BeginRefused(w)
  /\ job' = [job EXCEPT ![w] = NoJob]
  /\ UNCHANGED <<core, ids, upsVars, net, poll, watch, request, file, markedHere>>

\* Bug: the command is run before the state file is written.
beginLocalShutdownExecution_Bug(w) ==
  /\ job[w].pc = "begin"
  /\ ~BeginRefused(w)
  /\ local' = [local EXCEPT !.phase = "executing", !.trigger = job[w].trigger]
  /\ episode' = IF ~local.dry /\ episode.on
                THEN [episode EXCEPT !.poweredOff = TRUE] ELSE episode
  /\ markedHere' = (~local.dry /\ episode.on)
  /\ job' = [job EXCEPT ![w].pc = "run"]
  /\ UNCHANGED <<commands, active, ids, upsVars, net, poll, watch, request, file>>

beginLocalShutdownExecution(w) ==
  /\ job[w].pc = "begin"
  /\ ~BeginRefused(w)
  /\ local' = [local EXCEPT !.phase = "executing", !.trigger = job[w].trigger]
  /\ episode' = IF ~local.dry /\ episode.on
                THEN [episode EXCEPT !.poweredOff = TRUE] ELSE episode
  /\ markedHere' = (~local.dry /\ episode.on)
  /\ job' = [job EXCEPT ![w].pc = "persist"]
  /\ UNCHANGED <<commands, active, ids, upsVars, net, poll, watch, request, file>>

\* The shutdown command returned, or its timeout killed it.  A dry run only logs.
finishLocalShutdownExecution(w) ==
  /\ job[w].pc = "run"
  /\ \E ok \in (IF local.dry THEN {TRUE} ELSE BOOLEAN) :
       IF ~LocalPresent \/ local.cmd # job[w].cmd
       THEN UNCHANGED <<local, episode>>
       ELSE /\ local' = [local EXCEPT !.phase = IF ok THEN "completed" ELSE "failed"]
            /\ episode' = IF ~ok /\ episode.on
                          THEN [episode EXCEPT !.poweredOff = FALSE] ELSE episode
  /\ bootMark' = (bootMark /\ episode'.poweredOff)
  /\ job' = [job EXCEPT ![w] = NoJob]
  /\ markedHere' = FALSE
  /\ UNCHANGED <<commands, active, ids, upsVars, net, poll, watch, request, disk, restarts>>

(***************************************************************************)
(* Connections and the messages of slaves.                                 *)
(***************************************************************************)

\* A node registers: from now on it is in the registry.  A newer connection of
\* the same node replaces the older one.
Register(n) ==
  /\ connected' = connected \cup {n}
  /\ greeting' = greeting \cup {n}
  /\ UNCHANGED <<core, ids, upsVars, sent, poll, watch, job, request, file, markedHere>>

\* After the register ack the pending shutdown is replayed: the active command,
\* unless it is an automatic one and the UPS was not read yet.  A node it
\* matches is adopted first.
replayPendingShutdown(n) ==
  /\ n \in greeting
  /\ greeting' = greeting \ {n}
  /\ IF Known(active) /\ (~commands[active].auto \/ upsConfirmed)
     THEN LET old     == commands[active]
              adopts  == /\ ~old.replayDisabled
                         /\ targetMatchesNode(old.target, n)
                         /\ n \notin old.nodes
              command == IF adopts THEN Reopen(old, {n}) ELSE old
          IN  /\ commands' = [commands EXCEPT ![active] = command]
              /\ IF shouldReplayShutdownForNode(command, n)
                 THEN Send({n}, active) ELSE UNCHANGED sent
     ELSE UNCHANGED <<commands, sent>>
  /\ UNCHANGED <<active, episode, local, ids, upsVars, connected, poll, watch, job,
                 request, file, markedHere>>

Disconnect(n) ==
  /\ n \in connected
  /\ connected' = connected \ {n}
  /\ greeting' = greeting \ {n}
  /\ UNCHANGED <<core, ids, upsVars, sent, poll, watch, job, request, file, markedHere>>

\* A shutdown_ack of node n for command c.  A slave only reports on commands it
\* received on a connection to this process (slave: executeShutdown and
\* handleEnvelope), possibly late, twice, or with an older status.
recordShutdownUpdate(h, n, c, status) ==
  /\ ~Busy(h)
  /\ <<n, c>> \in sent
  /\ isReportableShutdownStatus(status)
  /\ Known(c)
  /\ n \in commands[c].nodes
  /\ shouldReplaceShutdownUpdate(commands[c].upd[n])
  /\ LET command == Report(commands[c], n, status)
         starts  == /\ remoteShutdownFinished(command)
                    /\ local.phase = "waiting_remote" /\ local.cmd = c
     IN  /\ commands' = [commands EXCEPT ![c] = command]
         /\ active' = IF /\ active = c
                         /\ commandComplete(command)
                         /\ ~command.auto
                         /\ ~commandHasRepairableTimeout(command)
                      THEN NoCmd ELSE active
         /\ IF starts
            THEN /\ local' = [local EXCEPT !.trigger = "remote_complete"]
                 /\ job' = [job EXCEPT ![h] = [pc |-> "begin", cmd |-> c,
                                               trigger |-> "remote_complete"]]
            ELSE UNCHANGED <<local, job>>
  /\ UNCHANGED <<episode, ids, upsVars, net, poll, watch, request, file, markedHere>>

(***************************************************************************)
(* The admin API.                                                          *)
(***************************************************************************)

\* TriggerShutdown picks the connected targets before it takes the lock.
SelectManualTargets ==
  /\ request.pc = "idle"
  /\ \E target \in ManualTarget, dry \in ManualDryRun :
       LET nodes == selectTargets(connected, target)
       IN  /\ nodes # {}
           /\ request' = [pc |-> "selected", target |-> target, dry |-> dry, nodes |-> nodes]
  /\ UNCHANGED <<core, ids, upsVars, net, poll, watch, job, file, markedHere>>

TriggerShutdown ==
  /\ request.pc = "selected"
  /\ active = NoCmd
  /\ \E c \in Fresh :
       LET command == NewCommand(FALSE, request.dry, request.target, request.nodes)
       IN  /\ commands' = Put(commands, c, command)
           /\ active' = c
           /\ issued' = issued \cup {c}
           /\ local' = armLocalShutdown(local, c, command, episode.on)
           /\ Send(request.nodes, c)
  /\ request' = NoRequest
  /\ UNCHANGED <<episode, upsVars, connected, greeting, poll, watch, job, file, markedHere>>

\* errShutdownAlreadyActive
RejectManualShutdown ==
  /\ request.pc = "selected"
  /\ active # NoCmd
  /\ request' = NoRequest
  /\ UNCHANGED <<core, ids, upsVars, net, poll, watch, job, file, markedHere>>

ResetActiveCommand ==
  /\ commands' = [c \in DOMAIN commands |->
                    IF c \in {active, episode.cmd} THEN Disable(commands[c]) ELSE commands[c]]
  /\ episode' = [episode EXCEPT !.cmd = NoCmd]
  /\ local' = IF local.phase # "executing" THEN NoLocal ELSE local
  /\ active' = NoCmd
  /\ UNCHANGED <<ids, upsVars, net, poll, watch, job, request, file, markedHere>>

(***************************************************************************)
(* The state file.  Every change takes a snapshot under the lock, which is *)
(* written after the unlock, and never over a newer one: at any time the   *)
(* file holds the snapshot of some earlier state.  A goroutine that waits  *)
(* for its write to return before it runs the shutdown command does so     *)
(* when its snapshot, or a newer one, is in the file.  (Module             *)
(* StatePersistence models the writers themselves.)  No restart reads the  *)
(* file once MaxRestarts is reached: its content is then not kept.         *)
(***************************************************************************)
WillRestart == restarts < MaxRestarts

persistState ==
  /\ WillRestart \/ \E w \in Worker : job[w].pc = "persist"
  /\ disk' = IF WillRestart THEN Snapshot ELSE disk
  /\ job' = [w \in Worker |-> IF job[w].pc = "persist" THEN [job[w] EXCEPT !.pc = "run"]
                                                       ELSE job[w]]
  /\ UNCHANGED <<core, ids, upsVars, net, poll, watch, request, restarts, bootMark, markedHere>>

\* What loadState keeps of the local shutdown found in the file.
normalizeLoadedLocalShutdown(d) ==
  LET l    == d.local
      kept == IF l.cmd = NoCmd
              THEN d.episode.on /\ d.episode.cmd = NoCmd
              ELSE l.cmd \in DOMAIN d.commands /\ ~d.commands[l.cmd].replayDisabled
  IN  IF LocalEnabled /\ l.phase \in PendingPhase /\ kept THEN l ELSE NoLocal

\* The master dies (a crash, or the power-off it asked for) and starts again.
Restart ==
  /\ WillRestart
  /\ restarts' = restarts + 1
  /\ commands' = disk.commands
  /\ active' = disk.active
  /\ episode' = disk.episode
  /\ local' = normalizeLoadedLocalShutdown(disk)
  /\ upsConfirmed' = FALSE
  /\ ups' = "none"
  /\ connected' = {}
  /\ greeting' = {}
  /\ sent' = {}
  /\ poll' = PollIdle
  /\ watch' = WatchIdle
  /\ job' = [w \in Worker |-> NoJob]
  /\ request' = NoRequest
  /\ markedHere' = FALSE
  /\ bootMark' = (disk.episode.on /\ disk.episode.poweredOff)
  /\ disk' = IF restarts + 1 < MaxRestarts THEN disk ELSE EmptyFile
  /\ issued' = issued

----------------------------------------------------------------------------
PollStep ==
  \/ PollUPS
  \/ endEpisodeOnLinePower
  \/ startEpisodeIfNeeded
  \/ ConfirmReading
  \/ evaluateEpisodePolicies
  \/ VouchForEpisode
  \/ applyPolicyMatch

WatchStep ==
  \/ MarkTimedOutCommands
  \/ retryEpisodeShutdown
  \/ SkipRetry
  \/ SampleUPSStatus
  \/ evaluateLocalShutdown
  \/ SkipLocalShutdown

ExecutionStep(w) ==
  \/ DropExecution(w)
  \/ beginLocalShutdownExecution(w)
  \/ finishLocalShutdownExecution(w)

ConnStep ==
  \/ \E n \in Node : Register(n) \/ replayPendingShutdown(n) \/ Disconnect(n)
  \/ \E h \in Handler, n \in Node, c \in CmdId, status \in AckStatus :
       recordShutdownUpdate(h, n, c, status)

AdminStep ==
  \/ SelectManualTargets
  \/ TriggerShutdown
  \/ RejectManualShutdown
  \/ ResetActiveCommand

Next ==
  \/ PollStep
  \/ WatchStep
  \/ \E w \in Worker : ExecutionStep(w)
  \/ ConnStep
  \/ AdminStep
  \/ persistState
  \/ Restart

Spec == Init /\ [][Next]_vars

(***************************************************************************)
(* Fairness.  The polling loop and the watcher are driven by tickers, an   *)
(* execution is bounded by local_shutdown.command_timeout and by one write *)
(* of the state file, and a handler goes on after the register ack.  The   *)
(* watcher ticks for ever, so an interval it waits for (the retry interval *)
(* and max_wait) is found elapsed again and again until it acts.  Nothing  *)
(* is assumed of slaves, operators, the UPS or restarts.                   *)
(***************************************************************************)
WaitExpires == evaluateLocalShutdown /\ local'.phase = "wait_expired"

RetryLocal ==
  evaluateLocalShutdown /\ local.phase = "failed" /\ job'["watcher"].pc = "begin"

Fairness ==
  /\ WF_vars(PollStep)
  /\ WF_vars(WatchStep)
  /\ \A w \in Worker : WF_vars(ExecutionStep(w))
  /\ WF_vars(persistState /\ \E w \in Worker : job[w].pc = "persist")
  /\ \A n \in Node : WF_vars(replayPendingShutdown(n))
  /\ SF_vars(retryEpisodeShutdown)
  /\ SF_vars(WaitExpires)
  /\ SF_vars(RetryLocal)

FairSpec == Spec /\ Fairness

----------------------------------------------------------------------------
(***************************************************************************)
(* Types.                                                                  *)
(***************************************************************************)
CmdOrNone == CmdId \cup {NoCmd}

EpisodeType == [on : BOOLEAN, cmd : CmdOrNone, fired : SUBSET Policy, poweredOff : BOOLEAN]
LocalType   == [phase : Phase \cup {"idle"}, cmd : CmdOrNone,
                trigger : Trigger \cup {NoTrigger}, dry : BOOLEAN]
JobType     == [pc : {"idle", "begin", "persist", "run"}, cmd : CmdOrNone,
                trigger : Trigger \cup {NoTrigger}]
RequestType == [pc : {"idle", "selected"}, target : Target, dry : BOOLEAN,
                nodes : SUBSET Node]
PollType    == [pc : {"idle", "line", "confirm", "battery", "evaluate", "vouch", "apply"},
                due : SUBSET Policy]
WatchType   == [pc : {"timeouts", "retry", "sample", "evaluate"},
                sample : Reading \cup {"none"}]

\* A table of commands: a function from some of the IDs.
IsCommands(f) ==
  /\ DOMAIN f \subseteq CmdId
  /\ f \in [DOMAIN f -> Command]

\* The persisted part of the state has its type.
CoreTypeOK(cmds, act, ep, loc) ==
  /\ IsCommands(cmds)
  /\ act \in CmdOrNone
  /\ ep \in EpisodeType
  /\ loc \in LocalType

\* The variables hold values of their types; the state file holds a snapshot.
TypeOK ==
  /\ CoreTypeOK(commands, active, episode, local)
  /\ DOMAIN disk = {"commands", "active", "episode", "local"}
  /\ CoreTypeOK(disk.commands, disk.active, disk.episode, disk.local)
  /\ issued \subseteq CmdId
  /\ upsConfirmed \in BOOLEAN
  /\ ups \in Reading \cup {"none", "error"}
  /\ connected \subseteq Node
  /\ greeting \subseteq connected
  /\ sent \subseteq Node \X CmdId
  /\ poll \in PollType
  /\ watch \in WatchType
  /\ job \in [Worker -> JobType]
  /\ request \in RequestType
  /\ restarts \in 0..MaxRestarts
  /\ markedHere \in BOOLEAN
  /\ bootMark \in BOOLEAN

(***************************************************************************)
(* Safety.                                                                 *)
(***************************************************************************)

\* The state (live or in the file) knows one live automatic command at most:
\* that of the episode, which is on, active and known.
LiveAuto(cmds, act, ep) ==
  /\ ep.cmd # NoCmd => ep.on /\ act = ep.cmd /\ ep.cmd \in DOMAIN cmds
  /\ \A c \in DOMAIN cmds : cmds[c].auto /\ ~cmds[c].replayDisabled <=> c = ep.cmd
  /\ act # NoCmd => act \in DOMAIN cmds /\ ~cmds[act].replayDisabled

\* The episode command stays known, active and replayable until line power or
\* a reset ends it, whatever manual requests, acks, timeouts and pruning do in
\* between (pruneCompletedCommandsLocked does not exempt it by name), and no
\* automatic command outlives its episode; both in memory and in the file a
\* restart loads.
EpisodeCommandIsLive ==
  /\ LiveAuto(commands, active, episode)
  /\ LiveAuto(disk.commands, disk.active, disk.episode)

\* The local shutdown (live or in the file) follows its command: the command
\* is known, its dry_run is the one that counts, and a shutdown that waits or
\* waited for remotes was asked for by a command for all nodes.
FollowsCommand(cmds, loc) ==
  /\ loc.phase # "idle" /\ loc.cmd # NoCmd =>
       loc.cmd \in DOMAIN cmds /\ loc.dry = cmds[loc.cmd].dry
  /\ loc.phase = "waiting_remote" \/ loc.trigger \in {"remote_complete", "wait_expired"} =>
       loc.cmd \in DOMAIN cmds /\ cmds[loc.cmd].target.all
  /\ loc.phase \in {"wait_expired", "emergency", "executing", "completed", "failed"} =>
       loc.trigger # NoTrigger

\* Commands scoped to tags or node_ids never power off the master, and a
\* dry-run command never really does (armLocalShutdownLocked), also after
\* widening, pruning, replacement by another command, or a restart.
LocalFollowsCommand ==
  /\ FollowsCommand(commands, local)
  /\ FollowsCommand(disk.commands, disk.local)

\* At most one goroutine executes the local shutdown, exactly while its phase
\* says so and for the command it names: the power-off command never runs
\* twice at a time, its outcome is always recorded, and the phase never stays
\* "executing" with nobody to end it (beginLocalShutdownExecution).
OneExecution ==
  /\ \A v, w \in Worker :
       job[v].pc \in {"persist", "run"} /\ job[w].pc \in {"persist", "run"} => v = w
  /\ \A w \in Worker : job[w].pc \in {"persist", "run"} =>
       local.phase = "executing" /\ local.cmd = job[w].cmd
  /\ local.phase = "executing" => \E w \in Worker : job[w].pc \in {"persist", "run"}

\* Whether c is automatic: the episode's command, or no command at all (an
\* emergency before any policy fired).
Automatic(c) == c = NoCmd \/ (Known(c) /\ commands[c].auto)

\* A restored episode is not acted on before this process has read the UPS or
\* an unreachable fallback vouches for it: no automatic command goes out to a
\* node and no local shutdown of an episode is started (server.go,
\* upsConfirmed), although acks start one without looking at upsConfirmed.
ConfirmedBeforeAction ==
  ~upsConfirmed =>
    /\ \A m \in sent : ~Automatic(m[2])
    /\ \A w \in Worker : Busy(w) => ~Automatic(job[w].cmd)

\* While the real shutdown command runs in the episode that started it, the
\* file already says so: a power-off that cuts the write short is impossible,
\* and the next boot waits for a UPS reading.
PowerOffIsRemembered ==
  WillRestart /\ markedHere /\ (\E w \in Worker : job[w].pc = "run") =>
    disk.episode.on /\ disk.episode.poweredOff

(***************************************************************************)
(* What a step may never do.                                               *)
(***************************************************************************)
Lives == restarts' = restarts   \* the step is not a restart

\* A process that found in its state file that the master powered off in this
\* episode acts on the episode only after a UPS reading: silence never confirms
\* it, in whatever order the polling loop, the watcher, acks and manual commands
\* run (awaitingReadingAfterPowerOffLocked; the polling loop decides under the
\* lock and confirms after it).  The mark stands until line power ends the
\* episode or a power-off command of this process fails.
ReadingBeforeFallback ==
  [][~upsConfirmed /\ upsConfirmed' /\ bootMark => ups \in Reading]_vars

\* A local shutdown is decided as remote_complete only when every target
\* reported an outcome itself: a timeout, the master's own guess, never counts.
\* (A power-off that failed is tried again on the strength of that decision,
\* whatever its targets have reported since.)
RemoteCompleteIsReported ==
  [][\A w \in Worker :
       /\ job[w].pc = "idle" /\ job'[w].pc = "begin" /\ job'[w].trigger = "remote_complete"
       /\ local.phase # "failed"
       => /\ commands'[job'[w].cmd].nodes # {}
          /\ \A n \in commands'[job'[w].cmd].nodes :
               commands'[job'[w].cmd].upd[n] \in {"executed", "simulated", "failed"}]_vars

\* While the master lives a command only widens: it keeps its nodes, it keeps
\* a confirmed outcome of each of them, and once disabled it stays disabled.
CommandsOnlyWiden ==
  [][Lives => \A c \in DOMAIN commands \cap DOMAIN commands' :
       /\ commands[c].nodes \subseteq commands'[c].nodes
       /\ selectTargets(Node, commands[c].target) \subseteq selectTargets(Node, commands'[c].target)
       /\ commands[c].replayDisabled => commands'[c].replayDisabled
       /\ \A n \in Node : isReplayDoneStatus(commands[c].upd[n])
            => commands'[c].upd[n] = commands[c].upd[n]]_vars

\* While the master has not restarted, every connected node that the episode
\* command matches is tracked by it (and so retried, timed out and waited for):
\* no order of registrations, policies and widenings leaves one out.
NoNodeLeftOut ==
  restarts = 0 /\ Known(episode.cmd) =>
    \A n \in connected \ greeting :
      targetMatchesNode(commands[episode.cmd].target, n) => n \in commands[episode.cmd].nodes

(***************************************************************************)
(* Liveness, under FairSpec.                                               *)
(***************************************************************************)

\* If the battery stays critical and operators stop resetting, the master is
\* powering off again and again, or did: nothing left by earlier commands,
\* episodes or restarts, and no lost race for the lock, disables the emergency.
EmergencyIsCarriedOut ==
  <>[](ups = "critical") /\ <>[][~ResetActiveCommand]_vars
    => []<>(/\ local.phase \in {"executing", "completed"}
            /\ local.cmd \in {episode.cmd, NoCmd})

\* The master does not wait for its remotes for ever.  A restart may end the wait
\* unfinished: what it restores waits for a reading, or for a policy that takes the
\* silence of the UPS for one, and from then on ends as well.
WaitingEnds ==
  local.phase = "waiting_remote" /\ upsConfirmed
    ~> local.phase # "waiting_remote" \/ ~upsConfirmed

\* A node that reconnected before the first UPS reading after a restart, and
\* got no replay then, is adopted by the restored command.
NodeIsReached ==
  \A n \in Node :
    /\ upsConfirmed /\ Known(episode.cmd) /\ n \in connected
    /\ targetMatchesNode(commands[episode.cmd].target, n)
    ~> \/ n \notin connected \/ ~Known(episode.cmd)
       \/ n \in commands[episode.cmd].nodes

(***************************************************************************)
(* What the documentation says and the code does not keep.                 *)
(***************************************************************************)

\* emergencyTrigger: "Callers only act on it during an episode".
EmergencyOnlyInEpisode ==
  [][local.phase # "emergency" /\ local'.phase = "emergency" /\ Lives => episode.on]_vars

\* retryEpisodeShutdown: "A retried node that only acks accepted must be able
\* to time out again": a completed command has no outstanding target.
CompletedMeansComplete ==
  \A c \in DOMAIN commands : commands[c].done => commandComplete(commands[c])
=============================================================================
