---------------------------- MODULE MasterProofs ----------------------------
(***************************************************************************)
(* What holds of Master for every set of nodes, policies, commands and     *)
(* handlers and any number of restarts, checked by TLAPS.  First type      *)
(* correctness, and what rests on it alone: the life of the episode        *)
(* command and the exclusion between executions of the local shutdown.     *)
(* Then what becomes of a command while the master lives, that the local   *)
(* shutdown follows a command, that it needs a confirmed command or        *)
(* reading, that it is not forgotten, and that no registered node is left  *)
(* out of a command.                                                       *)
(***************************************************************************)
EXTENDS Master, TLAPS

USE DEF CmdOrNone

(***************************************************************************)
(* The operators on commands return commands.                              *)
(***************************************************************************)

\* A disabled command is a command.
LEMMA DisableType == \A x \in Command : Disable(x) \in Command
  BY DEF Disable, Command

\* A command that tracks more nodes is a command.
LEMMA ReopenType == \A x \in Command, S \in SUBSET Node : Reopen(x, S) \in Command
  BY DEF Reopen, Command

\* selectTargets returns nodes among the clients.
LEMMA SelectType ==
  ASSUME NEW S \in SUBSET Node, NEW t PROVE selectTargets(S, t) \in SUBSET S
  BY DEF selectTargets

\* Adoptable returns nodes among the clients.
LEMMA AdoptableType ==
  ASSUME NEW S \in SUBSET Node, NEW x PROVE Adoptable(x, S) \in SUBSET S
  BY SelectType DEF Adoptable

\* Adopting connected clients yields a command.
LEMMA AdoptType ==
  ASSUME NEW x \in Command, NEW S \in SUBSET Node
  PROVE  adoptMatchingClients(x, S) \in Command
  <1>1. Adoptable(x, S) \in SUBSET Node
    BY AdoptableType
  <1>2. QED
    BY <1>1, ReopenType DEF adoptMatchingClients

\* Statuses assigned by the master and reported by slaves are statuses.
LEMMA TimeOutType == \A x \in Command : TimeOut(x) \in Command
  <1> SUFFICES ASSUME NEW x \in Command PROVE TimeOut(x) \in Command
    OBVIOUS
  <1> DEFINE upd == [n \in Node |-> IF n \in x.nodes /\ ~isCompleteShutdownStatus(x.upd[n])
                                    THEN "timeout" ELSE x.upd[n]]
             marked == [x EXCEPT !.upd = upd]
  <1>1. upd \in [Node -> Update]
    BY DEF Command, Update, Status
  <1>2. marked \in Command
    BY <1>1 DEF Command
  <1>3. commandComplete(marked) \in BOOLEAN
    BY DEF commandComplete
  <1>4. [marked EXCEPT !.done = commandComplete(marked)] \in Command
    BY <1>2, <1>3 DEF Command
  <1>5. QED
    BY <1>4 DEF TimeOut

\* A reported status leaves a command.
LEMMA ReportType ==
  ASSUME NEW x \in Command, NEW n \in Node, NEW st \in Status
  PROVE  Report(x, n, st) \in Command
  <1> DEFINE reported == [x EXCEPT !.upd[n] = st]
  <1>1. reported \in Command
    BY DEF Command, Update
  <1>2. (reported.done \/ commandComplete(reported)) \in BOOLEAN
    BY <1>1 DEF Command, commandComplete
  <1>3. [reported EXCEPT !.done = @ \/ commandComplete(reported)] \in Command
    BY <1>1, <1>2 DEF Command
  <1>4. QED
    BY <1>3 DEF Report

\* A new command is a command.
LEMMA NewCommandType ==
  ASSUME NEW a \in BOOLEAN, NEW d \in BOOLEAN, NEW t \in Target, NEW S \in SUBSET Node
  PROVE  NewCommand(a, d, t, S) \in Command
  BY DEF NewCommand, Command, Update

\* Targets merge to targets.
LEMMA MergeType ==
  ASSUME NEW a \in Target, NEW b \in Target PROVE mergeShutdownTargets(a, b) \in Target
  BY DEF mergeShutdownTargets, Target, AllNodes

\* The policies that fire have a target.
LEMMA PoliciesTargetType ==
  ASSUME NEW ps \in SUBSET Policy PROVE PoliciesTarget(ps) \in Target
  BY MasterAssumption DEF PoliciesTarget, Target, AllNodes

(***************************************************************************)
(* Tables of commands.                                                     *)
(***************************************************************************)

\* Changing an entry of a table of commands.
LEMMA ExceptCommands ==
  ASSUME NEW f, IsCommands(f), NEW c \in DOMAIN f, NEW x \in Command
  PROVE  /\ IsCommands([f EXCEPT ![c] = x])
         /\ DOMAIN [f EXCEPT ![c] = x] = DOMAIN f
  BY DEF IsCommands

\* Adding an entry to a table of commands.
LEMMA PutCommands ==
  ASSUME NEW f, IsCommands(f), NEW c \in CmdId, NEW x \in Command
  PROVE  IsCommands(Put(f, c, x))
  BY DEF IsCommands, Put

\* The command found under an ID.
LEMMA LookupCommands ==
  ASSUME NEW f, IsCommands(f), NEW c \in DOMAIN f
  PROVE  f[c] \in Command /\ c \in CmdId
  BY DEF IsCommands

(***************************************************************************)
(* Type correctness.                                                       *)
(***************************************************************************)

\* The constant values of the variables have their types.
LEMMA IdleTypes ==
  /\ NoEpisode \in EpisodeType
  /\ NoLocal \in LocalType
  /\ NoJob \in JobType
  /\ NoRequest \in RequestType
  /\ PollIdle \in PollType
  /\ WatchIdle \in WatchType
  /\ IsCommands(NoCommands)
  BY MasterAssumption
  DEF NoEpisode, EpisodeType, NoLocal, LocalType, NoJob, JobType, NoRequest, RequestType,
      PollIdle, PollType, WatchIdle, WatchType, NoCommands, IsCommands, AllNodes, Target,
      Phase, Trigger, NoTrigger, Reading

\* A local shutdown is armed for a known command.
LEMMA ArmType ==
  ASSUME NEW cur \in LocalType, NEW c \in CmdId, NEW x \in Command, NEW on
  PROVE  armLocalShutdown(cur, c, x, on) \in LocalType
  BY DEF armLocalShutdown, LocalType, Command, Phase, NoTrigger

\* Sending adds pairs of a node and a command.
LEMMA SendType ==
  ASSUME sent \subseteq Node \X CmdId, NEW S \in SUBSET Node, NEW c \in CmdId, Send(S, c)
  PROVE  sent' \subseteq Node \X CmdId
  BY DEF Send

\* The steps of the polling loop preserve TypeOK.
LEMMA PollType_Step == TypeOK /\ PollStep => TypeOK'
  <1> SUFFICES ASSUME TypeOK, PollStep PROVE TypeOK'
    OBVIOUS
  <1> USE DEF core, ids, upsVars, net, file
  <1>1. CASE PollUPS
    BY <1>1, MasterAssumption DEF PollUPS, TypeOK, PollType, Reading
  <1>2. CASE endEpisodeOnLinePower
    <2> DEFINE c == episode.cmd
               cmds == IF Known(c) THEN [commands EXCEPT ![c] = Disable(@)] ELSE commands
    <2>1. IsCommands(cmds)
      <3>1. CASE Known(c)
        <4>1. Disable(commands[c]) \in Command
          BY <3>1, LookupCommands, DisableType DEF TypeOK, CoreTypeOK, Known
        <4>2. QED
          BY <3>1, <4>1, ExceptCommands DEF TypeOK, CoreTypeOK, Known
      <3>2. CASE ~Known(c)
        BY <3>2 DEF TypeOK, CoreTypeOK
      <3>3. QED
        BY <3>1, <3>2
    <2>2. commands' = cmds /\ active' \in {active, NoCmd}
      BY <1>2 DEF endEpisodeOnLinePower
    <2>3. episode' \in EpisodeType /\ local' \in LocalType
      BY <1>2, IdleTypes DEF endEpisodeOnLinePower, TypeOK, CoreTypeOK
    <2>4. poll' \in PollType
      BY <1>2, IdleTypes DEF endEpisodeOnLinePower, TypeOK, PollType
    <2>5. QED
      BY <1>2, <2>1, <2>2, <2>3, <2>4 DEF endEpisodeOnLinePower, TypeOK, CoreTypeOK
  <1>3. CASE ConfirmReading \/ VouchForEpisode
    <2>1. poll' \in PollType
      BY <1>3, IdleTypes DEF ConfirmReading, VouchForEpisode, TypeOK, PollType
    <2>2. QED
      BY <1>3, <2>1 DEF ConfirmReading, VouchForEpisode, TypeOK
  <1>4. CASE startEpisodeIfNeeded
    <2>1. episode' \in EpisodeType
      BY <1>4, IdleTypes DEF startEpisodeIfNeeded, TypeOK, CoreTypeOK, EpisodeType
    <2>2. poll' \in PollType
      BY <1>4 DEF startEpisodeIfNeeded, TypeOK, PollType
    <2>3. QED
      BY <1>4, <2>1, <2>2 DEF startEpisodeIfNeeded, TypeOK, CoreTypeOK
  <1>5. CASE evaluateEpisodePolicies
    <2>1. PICK D \in SUBSET Policy :
            \/ poll' = PollIdle
            \/ poll' = [pc |-> "vouch", due |-> D]
            \/ poll' = [pc |-> "apply", due |-> D]
      <3>1. ASSUME NEW M \in SUBSET Policy PROVE M \ episode.fired \in SUBSET Policy
        OBVIOUS
      <3>2. poll' = PollIdle \/ \E M \in SUBSET Policy :
                                  \/ poll' = [pc |-> "vouch", due |-> M \ episode.fired]
                                  \/ poll' = [pc |-> "apply", due |-> M \ episode.fired]
        BY <1>5, MasterAssumption DEF evaluateEpisodePolicies
      <3>3. QED
        BY <3>1, <3>2
    <2>2. poll' \in PollType
      BY <2>1, IdleTypes DEF PollType
    <2>3. QED
      BY <1>5, <2>2 DEF evaluateEpisodePolicies, TypeOK, CoreTypeOK
  <1>6. CASE applyPolicyMatch
    <2> DEFINE fired == poll.due \ episode.fired
    <2>1. fired \in SUBSET Policy
      BY DEF TypeOK, PollType
    <2>2. poll' \in PollType
      BY <1>6, IdleTypes DEF applyPolicyMatch
    <2>3. PoliciesTarget(poll.due) \in Target
      BY PoliciesTargetType DEF TypeOK, PollType
    <2>4. CASE UNCHANGED <<core, issued, sent>>
      BY <1>6, <2>2, <2>4 DEF applyPolicyMatch, TypeOK, CoreTypeOK
    <2>5. CASE Known(episode.cmd) /\ WidenEpisodeCommand(fired)
      <3> DEFINE c == episode.cmd
                 merged == [commands[c] EXCEPT
                              !.target = mergeShutdownTargets(@, PoliciesTarget(poll.due))]
                 command == adoptMatchingClients(merged, connected)
      <3>1. commands[c] \in Command /\ c \in CmdId
        BY <2>5, LookupCommands DEF TypeOK, CoreTypeOK, Known
      <3>2. mergeShutdownTargets(commands[c].target, PoliciesTarget(poll.due)) \in Target
        BY <3>1, <2>3, MergeType DEF Command
      <3>3. merged \in Command
        BY <3>1, <3>2 DEF Command
      <3>4. command \in Command
        BY <3>3, AdoptType DEF TypeOK
      <3>5. IsCommands(commands')
        BY <2>5, <3>4, ExceptCommands DEF WidenEpisodeCommand, TypeOK, CoreTypeOK, Known
      <3>6. local' \in LocalType
        <4>1. armLocalShutdown(local, c, command, TRUE) \in LocalType
          BY <3>1, <3>4, ArmType DEF TypeOK, CoreTypeOK
        <4>2. QED
          BY <4>1, <2>5 DEF WidenEpisodeCommand, TypeOK, CoreTypeOK
      <3>7. episode' \in EpisodeType
        BY <2>5, <2>1 DEF WidenEpisodeCommand, TypeOK, CoreTypeOK, EpisodeType
      <3>8. sent' \subseteq Node \X CmdId
        <4>1. Adoptable(merged, connected) \in SUBSET Node
          BY AdoptableType DEF TypeOK
        <4>2. Send(Adoptable(merged, connected), c)
          BY <2>5 DEF WidenEpisodeCommand
        <4>3. QED
          BY <3>1, <4>1, <4>2, SendType DEF TypeOK
      <3>9. QED
        BY <1>6, <2>2, <2>5, <3>5, <3>6, <3>7, <3>8
        DEF applyPolicyMatch, WidenEpisodeCommand, TypeOK, CoreTypeOK
    <2>6. CASE CreateEpisodeCommand(fired)
      <3>1. PICK c \in Fresh :
              LET target     == PoliciesTarget(poll.due)
                  nodes      == selectTargets(connected, target)
                  command    == NewCommand(TRUE, DryRun, target, nodes)
                  supersedes == Known(active) /\ ~commands[active].auto
                  cmds       == IF supersedes THEN [commands EXCEPT ![active] = Disable(@)]
                                              ELSE commands
                  kept       == IF /\ supersedes
                                   /\ LocalPresent /\ local.cmd = active
                                   /\ ~localShutdownTerminal(local.phase)
                                THEN NoLocal ELSE local
              IN  /\ commands' = Put(cmds, c, command)
                  /\ active' = c
                  /\ issued' = issued \cup {c}
                  /\ local' = armLocalShutdown(kept, c, command, TRUE)
                  /\ episode' = [episode EXCEPT !.cmd = c, !.fired = @ \cup fired]
                  /\ Send(nodes, c)
        BY <2>6 DEF CreateEpisodeCommand
      <3> DEFINE nodes == selectTargets(connected, PoliciesTarget(poll.due))
                 command == NewCommand(TRUE, DryRun, PoliciesTarget(poll.due), nodes)
                 supersedes == Known(active) /\ ~commands[active].auto
                 cmds == IF supersedes THEN [commands EXCEPT ![active] = Disable(@)]
                                       ELSE commands
      <3>2. c \in CmdId
        BY DEF Fresh
      <3>3. nodes \in SUBSET Node
        BY SelectType DEF TypeOK
      <3>4. command \in Command
        BY <2>3, <3>3, NewCommandType, MasterAssumption
      <3>5. IsCommands(cmds)
        <4>1. CASE supersedes
          <5>1. Disable(commands[active]) \in Command
            BY <4>1, LookupCommands, DisableType DEF TypeOK, CoreTypeOK, Known
          <5>2. QED
            BY <4>1, <5>1, ExceptCommands DEF TypeOK, CoreTypeOK, Known
        <4>2. CASE ~supersedes
          BY <4>2 DEF TypeOK, CoreTypeOK
        <4>3. QED
          BY <4>1, <4>2
      <3>6. IsCommands(commands')
        BY <3>1, <3>2, <3>4, <3>5, PutCommands
      <3>7. local' \in LocalType
        <4>1. \A k \in LocalType : armLocalShutdown(k, c, command, TRUE) \in LocalType
          BY <3>2, <3>4, ArmType
        <4>2. QED
          BY <3>1, <4>1, IdleTypes DEF TypeOK, CoreTypeOK
      <3>8. episode' \in EpisodeType
        BY <3>1, <3>2, <2>1 DEF TypeOK, CoreTypeOK, EpisodeType
      <3>9. sent' \subseteq Node \X CmdId
        BY <3>1, <3>2, <3>3, SendType DEF TypeOK
      <3>10. QED
        BY <1>6, <2>2, <3>1, <3>2, <3>6, <3>7, <3>8, <3>9
        DEF applyPolicyMatch, TypeOK, CoreTypeOK
    <2>7. QED
      BY <1>6, <2>4, <2>5, <2>6 DEF applyPolicyMatch
  <1>7. QED
    BY <1>1, <1>2, <1>3, <1>4, <1>5, <1>6 DEF PollStep

\* What a tick calls an emergency is a trigger, or none.
LEMMA EmergencyType ==
  ASSUME NEW silent \in BOOLEAN PROVE Emergency(silent) \in Trigger \cup {NoTrigger}
  BY DEF Emergency, emergencyTrigger, Trigger

\* The steps of the watcher preserve TypeOK.
LEMMA WatchType_Step == TypeOK /\ WatchStep => TypeOK'
  <1> SUFFICES ASSUME TypeOK, WatchStep PROVE TypeOK'
    OBVIOUS
  <1> USE DEF core, ids, upsVars, net, file
  <1>1. CASE MarkTimedOutCommands
    <2>1. PICK expired \in SUBSET {c \in DOMAIN commands : ~commands[c].done} :
            LET cmds   == [c \in DOMAIN commands |->
                             IF c \in expired THEN TimeOut(commands[c]) ELSE commands[c]]
                act    == IF /\ active \in expired
                             /\ cmds[active].done
                             /\ ~cmds[active].auto
                             /\ ~commandHasRepairableTimeout(cmds[active])
                          THEN NoCmd ELSE active
            IN  /\ active' = act
                /\ \E evicted \in SUBSET Prunable(cmds, act) :
                     commands' = [c \in DOMAIN cmds \ evicted |-> cmds[c]]
      BY <1>1 DEF MarkTimedOutCommands
    <2> DEFINE cmds == [c \in DOMAIN commands |->
                          IF c \in expired THEN TimeOut(commands[c]) ELSE commands[c]]
    <2>2. \A c \in DOMAIN commands : cmds[c] \in Command
      BY LookupCommands, TimeOutType DEF TypeOK, CoreTypeOK
    <2>3. PICK evicted : commands' = [c \in DOMAIN cmds \ evicted |-> cmds[c]]
      BY <2>1
    <2>4. IsCommands(commands')
      <3> DEFINE g == [c \in DOMAIN cmds \ evicted |-> cmds[c]]
      <3>1. DOMAIN g \subseteq DOMAIN commands /\ \A c \in DOMAIN g : g[c] \in Command
        BY <2>2
      <3>2. DOMAIN commands \subseteq CmdId
        BY DEF TypeOK, CoreTypeOK, IsCommands
      <3>3. g \in [DOMAIN g -> Command]
        BY <3>1
      <3>4. QED
        BY <2>3, <3>1, <3>2, <3>3 DEF IsCommands
    <2>5. active' \in {active, NoCmd}
      BY <2>1
    <2>6. watch' \in WatchType
      BY <1>1 DEF MarkTimedOutCommands, TypeOK, WatchType
    <2>7. QED
      BY <1>1, <2>4, <2>5, <2>6 DEF MarkTimedOutCommands, TypeOK, CoreTypeOK
  <1>2. CASE retryEpisodeShutdown
    <2> DEFINE c == episode.cmd
               adopted == Adoptable(commands[c], connected)
               retried == {n \in commands[c].nodes :
                             commands[c].upd[n] \in {"failed", "timeout"}}
    <2>1. commands[c] \in Command /\ c \in CmdId /\ c \in DOMAIN commands
      BY <1>2, LookupCommands DEF retryEpisodeShutdown, Known, TypeOK, CoreTypeOK
    <2>2. adopted \in SUBSET Node /\ (retried \cup adopted) \cap connected \in SUBSET Node
      BY AdoptableType DEF TypeOK
    <2>3. Reopen(commands[c], adopted) \in Command
      BY <2>1, <2>2, ReopenType
    <2>4. IsCommands(commands')
      BY <1>2, <2>1, <2>3, ExceptCommands DEF retryEpisodeShutdown, TypeOK, CoreTypeOK
    <2>5. sent' \subseteq Node \X CmdId
      BY <1>2, <2>1, <2>2, SendType DEF retryEpisodeShutdown, TypeOK
    <2>6. watch' \in WatchType
      BY <1>2 DEF retryEpisodeShutdown, TypeOK, WatchType
    <2>7. QED
      BY <1>2, <2>4, <2>5, <2>6 DEF retryEpisodeShutdown, TypeOK, CoreTypeOK
  <1>3. CASE SkipRetry
    <2>1. watch' \in WatchType
      BY <1>3 DEF SkipRetry, TypeOK, WatchType
    <2>2. QED
      BY <1>3, <2>1 DEF SkipRetry, TypeOK, CoreTypeOK
  <1>4. CASE SampleUPSStatus
    <2>1. watch' \in WatchType
      BY <1>4 DEF SampleUPSStatus, TypeOK, WatchType, latestSuccessfulUPSStatus
    <2>2. QED
      BY <1>4, <2>1 DEF SampleUPSStatus, TypeOK, CoreTypeOK
  <1>5. CASE evaluateLocalShutdown
    <2>1. PICK silent \in BOOLEAN :
            LET emergency   == Emergency(silent)
                unreachable == emergency = "ups_unreachable"
                trusted     == upsConfirmed \/ unreachable
            IN  /\ upsConfirmed' = (upsConfirmed \/ (unreachable /\ episode.on))
                /\ \/ ArmEmergency(emergency, trusted)
                   \/ CancelWaiting(emergency, trusted)
                   \/ FinishWaiting(emergency, trusted)
                   \/ EscalateWaiting(emergency, trusted)
                   \/ ExpireWaiting(emergency, trusted)
                   \/ ResumeLocal(emergency, trusted)
                   \/ LeaveLocal(emergency, trusted)
      BY <1>5 DEF evaluateLocalShutdown, upsSilentFor
    <2> DEFINE em == Emergency(silent)
               trusted == upsConfirmed \/ em = "ups_unreachable"
    <2>2. em \in Trigger \cup {NoTrigger}
      BY EmergencyType
    <2>3. upsConfirmed' \in BOOLEAN
      BY <2>1
    <2>4. \A c \in CmdOrNone, t \in Trigger \cup {NoTrigger} :
            WatcherBegins(c, t) => job' \in [Worker -> JobType]
      BY DEF WatcherBegins, TypeOK, JobType, Worker
    <2>5. \A c \in DOMAIN commands :
            /\ c \in CmdId
            /\ replayableNodeIDs(commands[c]) \cap connected \in SUBSET Node
      BY LookupCommands DEF TypeOK, CoreTypeOK
    <2>6. episode.cmd \in CmdOrNone /\ local.cmd \in CmdOrNone
          /\ local.trigger \in Trigger \cup {NoTrigger}
      BY DEF TypeOK, CoreTypeOK, EpisodeType, LocalType
    <2>7. /\ local' \in LocalType
          /\ job' \in [Worker -> JobType]
          /\ sent' \subseteq Node \X CmdId
      <3>1. CASE ArmEmergency(em, trusted)
        <4>1. local' \in LocalType
          <5>1. (IF Known(episode.cmd) THEN commands[episode.cmd].dry ELSE DryRun) \in BOOLEAN
            BY LookupCommands, MasterAssumption DEF TypeOK, CoreTypeOK, Known, Command
          <5>2. QED
            BY <3>1, <5>1, <2>2, <2>6 DEF ArmEmergency, LocalType, Phase
        <4>2. job' \in [Worker -> JobType]
          BY <3>1, <2>2, <2>4, <2>6 DEF ArmEmergency
        <4>3. sent' \subseteq Node \X CmdId
          <5>1. CASE Known(episode.cmd)
            BY <3>1, <5>1, <2>5, SendType DEF ArmEmergency, TypeOK, Known
          <5>2. CASE ~Known(episode.cmd)
            BY <3>1, <5>2 DEF ArmEmergency, TypeOK
          <5>3. QED
            BY <5>1, <5>2
        <4>4. QED
          BY <4>1, <4>2, <4>3
      <3>2. CASE CancelWaiting(em, trusted)
        BY <3>2, IdleTypes DEF CancelWaiting, TypeOK
      <3>3. CASE FinishWaiting(em, trusted)
        <4>1. local' \in LocalType
          BY <3>3 DEF FinishWaiting, TypeOK, CoreTypeOK, LocalType, Trigger
        <4>2. job' \in [Worker -> JobType]
          BY <3>3, <2>4, <2>6 DEF FinishWaiting, Trigger
        <4>3. QED
          BY <3>3, <4>1, <4>2 DEF FinishWaiting, TypeOK
      <3>4. CASE EscalateWaiting(em, trusted)
        <4>1. local' \in LocalType
          BY <3>4, <2>2 DEF EscalateWaiting, TypeOK, CoreTypeOK, LocalType, Phase
        <4>2. job' \in [Worker -> JobType]
          BY <3>4, <2>2, <2>4, <2>6 DEF EscalateWaiting
        <4>3. sent' \subseteq Node \X CmdId
          BY <3>4, <2>5, SendType DEF EscalateWaiting, TypeOK, Cancelled, Known
        <4>4. QED
          BY <4>1, <4>2, <4>3
      <3>5. CASE ExpireWaiting(em, trusted)
        <4>1. local' \in LocalType
          BY <3>5 DEF ExpireWaiting, TypeOK, CoreTypeOK, LocalType, Phase, Trigger
        <4>2. job' \in [Worker -> JobType]
          BY <3>5, <2>4, <2>6 DEF ExpireWaiting, Trigger
        <4>3. QED
          BY <3>5, <4>1, <4>2 DEF ExpireWaiting, TypeOK
      <3>6. CASE ResumeLocal(em, trusted)
        <4>1. job' \in [Worker -> JobType]
          BY <3>6, <2>4, <2>6 DEF ResumeLocal, Trigger
        <4>2. QED
          BY <3>6, <4>1 DEF ResumeLocal, TypeOK, CoreTypeOK
      <3>7. CASE LeaveLocal(em, trusted)
        BY <3>7 DEF LeaveLocal, TypeOK, CoreTypeOK
      <3>8. QED
        BY <2>1, <3>1, <3>2, <3>3, <3>4, <3>5, <3>6, <3>7
    <2>8. watch' \in WatchType
      BY <1>5, IdleTypes DEF evaluateLocalShutdown
    <2>9. QED
      BY <1>5, <2>3, <2>7, <2>8 DEF evaluateLocalShutdown, TypeOK, CoreTypeOK
  <1>6. CASE SkipLocalShutdown
    BY <1>6, IdleTypes DEF SkipLocalShutdown, TypeOK, CoreTypeOK
  <1>7. QED
    BY <1>1, <1>2, <1>3, <1>4, <1>5, <1>6 DEF WatchStep

\* The steps of a local shutdown execution preserve TypeOK.
LEMMA ExecutionType_Step ==
  ASSUME TypeOK, NEW w \in Worker, ExecutionStep(w) PROVE TypeOK'
  <1> USE DEF core, ids, upsVars, net, file
  <1>1. CASE DropExecution(w)
    <2>1. job' \in [Worker -> JobType]
      BY <1>1, IdleTypes DEF DropExecution, TypeOK
    <2>2. QED
      BY <1>1, <2>1 DEF DropExecution, TypeOK, CoreTypeOK
  <1>2. CASE beginLocalShutdownExecution(w)
    <2>1. job' \in [Worker -> JobType]
      BY <1>2 DEF beginLocalShutdownExecution, TypeOK, JobType
    <2>2. local' \in LocalType
      BY <1>2 DEF beginLocalShutdownExecution, TypeOK, CoreTypeOK, JobType, LocalType, Phase
    <2>3. episode' \in EpisodeType
      BY <1>2 DEF beginLocalShutdownExecution, TypeOK, CoreTypeOK, EpisodeType
    <2>4. markedHere' \in BOOLEAN
      BY <1>2 DEF beginLocalShutdownExecution
    <2>5. QED
      BY <1>2, <2>1, <2>2, <2>3, <2>4 DEF beginLocalShutdownExecution, TypeOK, CoreTypeOK
  <1>3. CASE finishLocalShutdownExecution(w)
    <2>1. job' \in [Worker -> JobType]
      BY <1>3, IdleTypes DEF finishLocalShutdownExecution, TypeOK
    <2>2. local' \in LocalType
      BY <1>3 DEF finishLocalShutdownExecution, TypeOK, CoreTypeOK, LocalType, Phase
    <2>3. episode' \in EpisodeType
      BY <1>3 DEF finishLocalShutdownExecution, TypeOK, CoreTypeOK, EpisodeType
    <2>4. QED
      BY <1>3, <2>1, <2>2, <2>3 DEF finishLocalShutdownExecution, TypeOK, CoreTypeOK
  <1>4. QED
    BY <1>1, <1>2, <1>3 DEF ExecutionStep

\* Connections and acks preserve TypeOK.
LEMMA ConnType_Step == TypeOK /\ ConnStep => TypeOK'
  <1> SUFFICES ASSUME TypeOK, ConnStep PROVE TypeOK'
    OBVIOUS
  <1> USE DEF core, ids, upsVars, net, file
  <1>1. ASSUME NEW n \in Node, Register(n) PROVE TypeOK'
    BY <1>1 DEF Register, TypeOK, CoreTypeOK
  <1>2. ASSUME NEW n \in Node, Disconnect(n) PROVE TypeOK'
    BY <1>2 DEF Disconnect, TypeOK, CoreTypeOK
  <1>3. ASSUME NEW n \in Node, replayPendingShutdown(n) PROVE TypeOK'
    <2> DEFINE old == commands[active]
               adopts == /\ ~old.replayDisabled
                         /\ targetMatchesNode(old.target, n)
                         /\ n \notin old.nodes
               command == IF adopts THEN Reopen(old, {n}) ELSE old
    <2>1. CASE Known(active) /\ (~commands[active].auto \/ upsConfirmed)
      <3>1. old \in Command /\ active \in CmdId
        BY <2>1, LookupCommands DEF TypeOK, CoreTypeOK, Known
      <3>2. command \in Command
        BY <3>1, ReopenType
      <3>3. IsCommands(commands')
        BY <1>3, <2>1, <3>2, ExceptCommands
        DEF replayPendingShutdown, TypeOK, CoreTypeOK, Known
      <3>4. sent' \subseteq Node \X CmdId
        <4>1. Send({n}, active) \/ UNCHANGED sent
          BY <1>3, <2>1 DEF replayPendingShutdown
        <4>2. QED
          BY <3>1, <4>1, SendType DEF TypeOK
      <3>5. QED
        BY <1>3, <3>3, <3>4 DEF replayPendingShutdown, TypeOK, CoreTypeOK
    <2>2. CASE ~(Known(active) /\ (~commands[active].auto \/ upsConfirmed))
      BY <1>3, <2>2 DEF replayPendingShutdown, TypeOK, CoreTypeOK
    <2>3. QED
      BY <2>1, <2>2
  <1>4. ASSUME NEW h \in Handler, NEW n \in Node, NEW c \in CmdId, NEW st \in AckStatus,
               recordShutdownUpdate(h, n, c, st)
        PROVE  TypeOK'
    <2> DEFINE command == Report(commands[c], n, st)
    <2>1. command \in Command
      BY <1>4, LookupCommands, ReportType, MasterAssumption
      DEF recordShutdownUpdate, TypeOK, CoreTypeOK, Known
    <2>2. IsCommands(commands')
      BY <1>4, <2>1, ExceptCommands DEF recordShutdownUpdate, TypeOK, CoreTypeOK, Known
    <2>3. active' \in {active, NoCmd}
      BY <1>4 DEF recordShutdownUpdate
    <2>4. local' \in LocalType
      BY <1>4 DEF recordShutdownUpdate, TypeOK, CoreTypeOK, LocalType, Trigger
    <2>5. job' \in [Worker -> JobType]
      BY <1>4 DEF recordShutdownUpdate, TypeOK, JobType, Trigger
    <2>6. QED
      BY <1>4, <2>2, <2>3, <2>4, <2>5 DEF recordShutdownUpdate, TypeOK, CoreTypeOK
  <1>5. QED
    BY <1>1, <1>2, <1>3, <1>4 DEF ConnStep

\* The admin API preserves TypeOK.
LEMMA AdminType_Step == TypeOK /\ AdminStep => TypeOK'
  <1> SUFFICES ASSUME TypeOK, AdminStep PROVE TypeOK'
    OBVIOUS
  <1> USE DEF core, ids, upsVars, net, file
  <1>1. CASE SelectManualTargets
    <2>1. PICK target \in ManualTarget, dry \in ManualDryRun :
            request' = [pc |-> "selected", target |-> target, dry |-> dry,
                        nodes |-> selectTargets(connected, target)]
      BY <1>1 DEF SelectManualTargets
    <2>2. selectTargets(connected, target) \in SUBSET Node
      BY SelectType DEF TypeOK
    <2>3. request' \in RequestType
      BY <2>1, <2>2, MasterAssumption DEF RequestType
    <2>4. QED
      BY <1>1, <2>3 DEF SelectManualTargets, TypeOK, CoreTypeOK
  <1>2. CASE TriggerShutdown
    <2>1. PICK c \in Fresh :
            LET command == NewCommand(FALSE, request.dry, request.target, request.nodes)
            IN  /\ commands' = Put(commands, c, command)
                /\ active' = c
                /\ issued' = issued \cup {c}
                /\ local' = armLocalShutdown(local, c, command, episode.on)
                /\ Send(request.nodes, c)
      BY <1>2 DEF TriggerShutdown
    <2> DEFINE command == NewCommand(FALSE, request.dry, request.target, request.nodes)
    <2>2. c \in CmdId
      BY DEF Fresh
    <2>3. command \in Command /\ request.nodes \in SUBSET Node
      BY NewCommandType DEF TypeOK, RequestType
    <2>4. IsCommands(commands')
      BY <2>1, <2>2, <2>3, PutCommands DEF TypeOK, CoreTypeOK
    <2>5. local' \in LocalType
      BY <2>1, <2>2, <2>3, ArmType DEF TypeOK, CoreTypeOK
    <2>6. sent' \subseteq Node \X CmdId
      BY <2>1, <2>2, <2>3, SendType DEF TypeOK
    <2>7. QED
      BY <1>2, <2>1, <2>2, <2>4, <2>5, <2>6, IdleTypes DEF TriggerShutdown, TypeOK, CoreTypeOK
  <1>3. CASE RejectManualShutdown
    BY <1>3, IdleTypes DEF RejectManualShutdown, TypeOK, CoreTypeOK
  <1>4. CASE ResetActiveCommand
    <2>1. \A c \in DOMAIN commands : commands[c] \in Command /\ Disable(commands[c]) \in Command
      BY LookupCommands, DisableType DEF TypeOK, CoreTypeOK
    <2>2. IsCommands(commands')
      BY <1>4, <2>1 DEF ResetActiveCommand, TypeOK, CoreTypeOK, IsCommands
    <2>3. episode' \in EpisodeType /\ local' \in LocalType
      BY <1>4, IdleTypes DEF ResetActiveCommand, TypeOK, CoreTypeOK, EpisodeType
    <2>4. QED
      BY <1>4, <2>2, <2>3 DEF ResetActiveCommand, TypeOK, CoreTypeOK
  <1>5. QED
    BY <1>1, <1>2, <1>3, <1>4 DEF AdminStep

\* Writing and loading the state file preserve TypeOK.
LEMMA FileType_Step == TypeOK /\ (persistState \/ Restart) => TypeOK'
  <1> SUFFICES ASSUME TypeOK, persistState \/ Restart PROVE TypeOK'
    OBVIOUS
  <1> USE DEF core, ids, upsVars, net, file
  <1>1. CASE persistState
    <2>1. persistedLocalShutdownState(local) \in LocalType
      BY IdleTypes DEF persistedLocalShutdownState, TypeOK, CoreTypeOK
    <2>2. /\ DOMAIN Snapshot = {"commands", "active", "episode", "local"}
          /\ CoreTypeOK(Snapshot.commands, Snapshot.active, Snapshot.episode, Snapshot.local)
      BY <2>1 DEF Snapshot, TypeOK, CoreTypeOK
    <2>3. job' \in [Worker -> JobType]
      BY <1>1 DEF persistState, TypeOK, JobType
    <2>4. disk' = Snapshot \/ disk' = disk
      BY <1>1 DEF persistState
    <2>5. QED
      BY <1>1, <2>2, <2>3, <2>4 DEF persistState, TypeOK, CoreTypeOK
  <1>2. CASE Restart
    <2>1. local' \in LocalType
      BY <1>2, IdleTypes DEF Restart, normalizeLoadedLocalShutdown, TypeOK, CoreTypeOK
    <2>2. /\ DOMAIN EmptyFile = {"commands", "active", "episode", "local"}
          /\ CoreTypeOK(EmptyFile.commands, EmptyFile.active, EmptyFile.episode,
                        EmptyFile.local)
      BY IdleTypes DEF EmptyFile, CoreTypeOK
    <2>3. disk' = EmptyFile \/ disk' = disk
      BY <1>2 DEF Restart
    <2>4. restarts' \in 0..MaxRestarts
      BY <1>2, MasterAssumption DEF Restart, WillRestart, TypeOK
    <2>5. job' \in [Worker -> JobType]
      BY <1>2, IdleTypes DEF Restart
    <2>6. QED
      BY <1>2, <2>1, <2>2, <2>3, <2>4, <2>5, IdleTypes DEF Restart, TypeOK, CoreTypeOK
  <1>3. QED
    BY <1>1, <1>2

\* Every variable of the master, and the content of its state file, has its
\* type in every reachable state.
THEOREM TypeCorrect == Spec => []TypeOK
  <1>1. Init => TypeOK
    <2> SUFFICES ASSUME Init PROVE TypeOK
      OBVIOUS
    <2>1. CoreTypeOK(commands, active, episode, local)
      BY IdleTypes DEF Init, CoreTypeOK
    <2>2. /\ DOMAIN disk = {"commands", "active", "episode", "local"}
          /\ CoreTypeOK(disk.commands, disk.active, disk.episode, disk.local)
      BY IdleTypes DEF Init, EmptyFile, CoreTypeOK
    <2>3. job \in [Worker -> JobType]
      BY IdleTypes DEF Init
    <2>4. restarts \in 0..MaxRestarts
      BY MasterAssumption DEF Init
    <2>5. QED
      BY <2>1, <2>2, <2>3, <2>4, IdleTypes DEF Init, TypeOK
  <1>2. TypeOK /\ [Next]_vars => TypeOK'
    <2> SUFFICES ASSUME TypeOK, [Next]_vars PROVE TypeOK'
      OBVIOUS
    <2>1. CASE Next
      BY <2>1, PollType_Step, WatchType_Step, ExecutionType_Step, ConnType_Step,
         AdminType_Step, FileType_Step DEF Next
    <2>2. CASE UNCHANGED vars
      BY <2>2 DEF vars, core, ids, upsVars, net, file, TypeOK, CoreTypeOK
    <2>3. QED
      BY <2>1, <2>2
  <1>3. QED
    BY <1>1, <1>2, PTL DEF Spec


(***************************************************************************)
(* EpisodeCommandIsLive.  LiveAuto reads two flags of a command, which     *)
(* adopting, timing out, reporting and widening leave alone.               *)
(***************************************************************************)
SameFlags(x, y) == x.auto = y.auto /\ x.replayDisabled = y.replayDisabled

\* The operators on commands leave both flags alone.
LEMMA FlagsKept ==
  ASSUME NEW x \in Command
  PROVE  /\ SameFlags(TimeOut(x), x)
         /\ \A S \in SUBSET Node : SameFlags(Reopen(x, S), x)
         /\ \A S \in SUBSET Node : SameFlags(adoptMatchingClients(x, S), x)
         /\ \A n \in Node, st \in Status : SameFlags(Report(x, n, st), x)
         /\ \A t \in Target : SameFlags([x EXCEPT !.target = t], x)
  <1>1. SameFlags(TimeOut(x), x)
    BY DEF TimeOut, Command, SameFlags
  <1>2. \A S \in SUBSET Node : SameFlags(Reopen(x, S), x)
    BY DEF Reopen, Command, SameFlags
  <1>3. \A S \in SUBSET Node : SameFlags(adoptMatchingClients(x, S), x)
    BY DEF adoptMatchingClients, Reopen, Command, SameFlags
  <1>4. \A n \in Node, st \in Status : SameFlags(Report(x, n, st), x)
    BY DEF Report, Command, SameFlags
  <1>5. \A t \in Target : SameFlags([x EXCEPT !.target = t], x)
    BY DEF Command, SameFlags
  <1>6. QED
    BY <1>1, <1>2, <1>3, <1>4, <1>5

\* A table of commands with the same flags satisfies LiveAuto as well.
LEMMA LiveAutoFlags ==
  ASSUME NEW f, NEW g, NEW a, NEW e,
         DOMAIN g = DOMAIN f, \A k \in DOMAIN f : SameFlags(g[k], f[k]),
         LiveAuto(f, a, e)
  PROVE  LiveAuto(g, a, e)
  BY DEF LiveAuto, SameFlags

\* Changing one command without touching its flags preserves LiveAuto.
LEMMA LiveAutoExcept ==
  ASSUME NEW f, IsCommands(f), NEW a, NEW e, NEW c \in DOMAIN f, NEW x,
         SameFlags(x, f[c]), LiveAuto(f, a, e)
  PROVE  LiveAuto([f EXCEPT ![c] = x], a, e)
  <1> DEFINE g == [f EXCEPT ![c] = x]
  <1>1. DOMAIN g = DOMAIN f /\ \A k \in DOMAIN f : SameFlags(g[k], f[k])
    BY DEF SameFlags, IsCommands
  <1> HIDE DEF g
  <1>2. LiveAuto(g, a, e)
    BY <1>1, LiveAutoFlags
  <1>3. QED
    BY <1>2 DEF g

\* No command is stored under the empty ID.
LEMMA NoCmdUnknown ==
  ASSUME NEW f, IsCommands(f) PROVE NoCmd \notin DOMAIN f
  BY MasterAssumption DEF IsCommands

\* A disabled command keeps its kind.
LEMMA DisableFlags ==
  ASSUME NEW x \in Command
  PROVE  Disable(x).auto = x.auto /\ Disable(x).replayDisabled
  BY DEF Disable, Command

Live == LiveAuto(commands, active, episode)

\* Line power disables the command of the episode it ends.
LEMMA LiveEndEpisode == TypeOK /\ Live /\ endEpisodeOnLinePower => Live'
  <1> SUFFICES ASSUME TypeOK, Live, endEpisodeOnLinePower PROVE Live'
    OBVIOUS
  <1> DEFINE c    == episode.cmd
             cmds == IF Known(c) THEN [commands EXCEPT ![c] = Disable(@)] ELSE commands
             act  == IF Known(c) /\ active = c THEN NoCmd ELSE active
  <1>1. commands' = cmds /\ active' \in {act, NoCmd} /\ episode'.cmd = NoCmd
    BY DEF endEpisodeOnLinePower, NoEpisode
  <1>2. NoCmd \notin DOMAIN cmds
    BY NoCmdUnknown DEF TypeOK, CoreTypeOK
  <1>3. CASE Known(c)
    <2>1. commands[c] \in Command
      BY <1>3, LookupCommands DEF Known, TypeOK, CoreTypeOK
    <2>2. Disable(commands[c]).auto = commands[c].auto /\ Disable(commands[c]).replayDisabled
      BY <2>1, DisableFlags
    <2>3. c # NoCmd /\ act = NoCmd
      BY <1>3, <1>2 DEF Live, LiveAuto, Known
    <2>4. DOMAIN cmds = DOMAIN commands /\ cmds[c] = Disable(commands[c])
          /\ \A k \in DOMAIN commands \ {c} : cmds[k] = commands[k]
      BY <1>3 DEF Known, TypeOK, CoreTypeOK, IsCommands
    <2>5. \A k \in DOMAIN cmds : ~(cmds[k].auto /\ ~cmds[k].replayDisabled)
      BY <2>2, <2>4 DEF Live, LiveAuto
    <2> HIDE DEF cmds
    <2>6. QED
      BY <1>1, <1>2, <2>3, <2>5 DEF Live, LiveAuto
  <1>4. CASE ~Known(c)
    BY <1>1, <1>2, <1>4 DEF Live, LiveAuto, Known
  <1>5. QED
    BY <1>3, <1>4

\* Widening the episode command, or creating it, leaves it the live one.
LEMMA LiveApply == TypeOK /\ Live /\ applyPolicyMatch => Live'
  <1> SUFFICES ASSUME TypeOK, Live, applyPolicyMatch PROVE Live'
    OBVIOUS
  <1> DEFINE fired == poll.due \ episode.fired
  <1>0. IsCommands(commands) /\ NoCmd \notin DOMAIN commands /\ episode \in EpisodeType
    BY NoCmdUnknown DEF TypeOK, CoreTypeOK
  <1>1. CASE UNCHANGED <<core, issued, sent>>
    BY <1>1 DEF core, Live
  <1>2. CASE Known(episode.cmd) /\ WidenEpisodeCommand(fired)
    <2> DEFINE c == episode.cmd
               merged == [commands[c] EXCEPT
                            !.target = mergeShutdownTargets(@, PoliciesTarget(poll.due))]
               command == adoptMatchingClients(merged, connected)
    <2>1. commands[c] \in Command
      BY <1>0, <1>2, LookupCommands DEF Known
    <2>2. mergeShutdownTargets(commands[c].target, PoliciesTarget(poll.due)) \in Target
      BY <2>1, MergeType, PoliciesTargetType DEF Command, TypeOK, PollType
    <2>3. merged \in Command /\ SameFlags(merged, commands[c])
      BY <2>1, <2>2, FlagsKept DEF Command
    <2>4. SameFlags(command, merged)
      BY <2>3, FlagsKept DEF TypeOK
    <2>5. SameFlags(command, commands[c])
      BY <2>3, <2>4 DEF SameFlags
    <2>6. commands' = [commands EXCEPT ![c] = command] /\ active' = active
          /\ episode' = [episode EXCEPT !.fired = @ \cup fired]
      BY <1>2 DEF WidenEpisodeCommand
    <2>7. episode'.on = episode.on /\ episode'.cmd = episode.cmd
      BY <1>0, <2>6 DEF EpisodeType
    <2> HIDE DEF command
    <2>8. LiveAuto(commands', active, episode)
      BY <1>0, <1>2, <2>5, <2>6, LiveAutoExcept DEF Live, Known
    <2>9. QED
      BY <2>6, <2>7, <2>8 DEF Live, LiveAuto
  <1>3. CASE ~Known(episode.cmd) /\ episode.on /\ CreateEpisodeCommand(fired)
    <2> DEFINE nodes == selectTargets(connected, PoliciesTarget(poll.due))
               command == NewCommand(TRUE, DryRun, PoliciesTarget(poll.due), nodes)
               supersedes == Known(active) /\ ~commands[active].auto
               cmds == IF supersedes THEN [commands EXCEPT ![active] = Disable(@)]
                                     ELSE commands
    <2>1. PICK c \in Fresh : /\ commands' = Put(cmds, c, command)
                             /\ active' = c
                             /\ episode' = [episode EXCEPT !.cmd = c, !.fired = @ \cup fired]
      BY <1>3 DEF CreateEpisodeCommand
    <2>2. command.auto /\ ~command.replayDisabled
      BY DEF NewCommand
    <2>3. episode'.cmd = c /\ episode'.on /\ c # NoCmd
      BY <1>0, <1>3, <2>1, MasterAssumption DEF EpisodeType, Fresh
    <2>4. \A k \in DOMAIN commands : ~(commands[k].auto /\ ~commands[k].replayDisabled)
      BY <1>0, <1>3 DEF Live, LiveAuto, Known
    <2>5. DOMAIN cmds = DOMAIN commands
      BY <1>0 DEF IsCommands
    <2>6. \A k \in DOMAIN commands : cmds[k].auto = commands[k].auto
                                     /\ (commands[k].replayDisabled => cmds[k].replayDisabled)
      <3>1. CASE supersedes
        <4>1. Disable(commands[active]).auto = commands[active].auto
              /\ Disable(commands[active]).replayDisabled
          BY <1>0, <3>1, LookupCommands, DisableFlags DEF Known
        <4>2. QED
          BY <1>0, <3>1, <4>1 DEF IsCommands, Known
      <3>2. CASE ~supersedes
        BY <3>2
      <3>3. QED
        BY <3>1, <3>2
    <2> HIDE DEF cmds, command
    <2>7. DOMAIN commands' = DOMAIN commands \cup {c}
          /\ commands'[c] = command
          /\ \A k \in DOMAIN commands \ {c} : commands'[k] = cmds[k]
      BY <2>1, <2>5 DEF Put
    <2>8. QED
      BY <2>1, <2>2, <2>3, <2>4, <2>6, <2>7 DEF Live, LiveAuto
  <1>4. QED
    BY <1>1, <1>2, <1>3 DEF applyPolicyMatch

\* The steps of the polling loop.
LEMMA LivePoll == TypeOK /\ Live /\ PollStep => Live'
  <1> SUFFICES ASSUME TypeOK, Live, PollStep PROVE Live'
    OBVIOUS
  <1>1. CASE PollUPS \/ ConfirmReading \/ VouchForEpisode \/ evaluateEpisodePolicies
    BY <1>1 DEF PollUPS, ConfirmReading, VouchForEpisode, evaluateEpisodePolicies, core, Live
  <1>2. CASE startEpisodeIfNeeded
    <2>1. commands' = commands /\ active' = active
      BY <1>2 DEF startEpisodeIfNeeded
    <2>2. episode' = episode \/ (~episode.on /\ episode'.cmd = NoCmd)
      BY <1>2 DEF startEpisodeIfNeeded, NoEpisode
    <2>3. ~episode.on => episode.cmd = NoCmd
      BY DEF Live, LiveAuto
    <2>4. QED
      BY <2>1, <2>2, <2>3 DEF Live, LiveAuto
  <1>3. QED
    BY <1>1, <1>2, LiveEndEpisode, LiveApply DEF PollStep

\* Timing out marks no flag, and pruning never evicts the active command, which
\* is the command of the episode when there is one.
LEMMA LiveTimeouts == TypeOK /\ Live /\ MarkTimedOutCommands => Live'
  <1> SUFFICES ASSUME TypeOK, Live, MarkTimedOutCommands PROVE Live'
    OBVIOUS
  <1>1. PICK expired \in SUBSET {c \in DOMAIN commands : ~commands[c].done} :
          LET cmds   == [c \in DOMAIN commands |->
                           IF c \in expired THEN TimeOut(commands[c]) ELSE commands[c]]
              act    == IF /\ active \in expired
                           /\ cmds[active].done
                           /\ ~cmds[active].auto
                           /\ ~commandHasRepairableTimeout(cmds[active])
                        THEN NoCmd ELSE active
          IN  /\ active' = act
              /\ \E evicted \in SUBSET Prunable(cmds, act) :
                   commands' = [c \in DOMAIN cmds \ evicted |-> cmds[c]]
    BY DEF MarkTimedOutCommands
  <1> DEFINE cmds == [c \in DOMAIN commands |->
                        IF c \in expired THEN TimeOut(commands[c]) ELSE commands[c]]
  <1>2. IsCommands(commands) /\ NoCmd \notin DOMAIN commands
    BY NoCmdUnknown DEF TypeOK, CoreTypeOK
  <1>3. DOMAIN cmds = DOMAIN commands /\ \A k \in DOMAIN commands : SameFlags(cmds[k], commands[k])
    BY <1>2, LookupCommands, FlagsKept DEF SameFlags
  <1>4. active' = active \/ (active' = NoCmd /\ active \in DOMAIN cmds /\ ~cmds[active].auto)
    BY <1>1, <1>3
  <1>5. PICK evicted : /\ active' \notin evicted
                       /\ commands' = [c \in DOMAIN cmds \ evicted |-> cmds[c]]
    BY <1>1 DEF Prunable
  <1> HIDE DEF cmds
  <1>6. episode' = episode
    BY DEF MarkTimedOutCommands
  <1>7. LiveAuto(cmds, active, episode)
    BY <1>3, LiveAutoFlags DEF Live
  <1>8. LiveAuto(cmds, active', episode)
    <2>1. CASE active' = active
      BY <1>7, <2>1
    <2>2. CASE active' = NoCmd /\ active \in DOMAIN cmds /\ ~cmds[active].auto
      BY <1>7, <2>2 DEF LiveAuto
    <2>3. QED
      BY <1>4, <2>1, <2>2
  <1>9. QED
    BY <1>2, <1>3, <1>5, <1>6, <1>8 DEF Live, LiveAuto

\* The steps of the watcher.
LEMMA LiveWatch == TypeOK /\ Live /\ WatchStep => Live'
  <1> SUFFICES ASSUME TypeOK, Live, WatchStep PROVE Live'
    OBVIOUS
  <1>1. CASE retryEpisodeShutdown
    <2> DEFINE c == episode.cmd
               adopted == Adoptable(commands[c], connected)
    <2>1. c \in DOMAIN commands /\ UNCHANGED <<active, episode>>
          /\ commands' = [commands EXCEPT ![c] = Reopen(commands[c], adopted)]
      BY <1>1 DEF retryEpisodeShutdown, Known
    <2>2. IsCommands(commands) /\ commands[c] \in Command
      BY <2>1, LookupCommands DEF TypeOK, CoreTypeOK
    <2>3. SameFlags(Reopen(commands[c], adopted), commands[c])
      BY <2>2, FlagsKept, AdoptableType DEF TypeOK
    <2>4. LiveAuto(commands', active, episode)
      BY <2>1, <2>2, <2>3, LiveAutoExcept DEF Live
    <2>5. QED
      BY <2>1, <2>4 DEF Live
  <1>2. CASE SkipRetry \/ SampleUPSStatus \/ SkipLocalShutdown
    BY <1>2 DEF SkipRetry, SampleUPSStatus, SkipLocalShutdown, core, Live
  <1>3. CASE evaluateLocalShutdown
    BY <1>3 DEF evaluateLocalShutdown, Live
  <1>4. QED
    BY <1>1, <1>2, <1>3, LiveTimeouts DEF WatchStep

\* Executions only set or clear poweredOff of the episode.
LEMMA LiveExecution ==
  TypeOK /\ Live /\ (\E w \in Worker : ExecutionStep(w)) => Live'
  <1> SUFFICES ASSUME TypeOK, Live, NEW w \in Worker, ExecutionStep(w) PROVE Live'
    OBVIOUS
  <1>1. commands' = commands /\ active' = active
    BY DEF ExecutionStep, DropExecution, beginLocalShutdownExecution,
           finishLocalShutdownExecution, core
  <1>2. episode' = episode \/ \E b \in BOOLEAN : episode' = [episode EXCEPT !.poweredOff = b]
    BY DEF ExecutionStep, DropExecution, beginLocalShutdownExecution,
           finishLocalShutdownExecution, core
  <1>3. episode \in EpisodeType
    BY DEF TypeOK, CoreTypeOK
  <1>4. episode'.on = episode.on /\ episode'.cmd = episode.cmd
    BY <1>2, <1>3 DEF EpisodeType
  <1>5. QED
    BY <1>1, <1>4 DEF Live, LiveAuto

\* Registrations, replays and acks.
LEMMA LiveConn == TypeOK /\ Live /\ ConnStep => Live'
  <1> SUFFICES ASSUME TypeOK, Live, ConnStep PROVE Live'
    OBVIOUS
  <1>0. IsCommands(commands) /\ NoCmd \notin DOMAIN commands
    BY NoCmdUnknown DEF TypeOK, CoreTypeOK
  <1>1. ASSUME NEW n \in Node, Register(n) \/ Disconnect(n) PROVE Live'
    BY <1>1 DEF Register, Disconnect, core, Live
  <1>2. ASSUME NEW n \in Node, replayPendingShutdown(n) PROVE Live'
    <2>1. active' = active /\ episode' = episode
      BY <1>2 DEF replayPendingShutdown
    <2>2. CASE commands' = commands
      BY <2>1, <2>2 DEF Live
    <2>3. CASE /\ Known(active)
               /\ \/ commands' = [commands EXCEPT ![active] = commands[active]]
                  \/ commands' = [commands EXCEPT ![active] = Reopen(commands[active], {n})]
      <3>1. commands[active] \in Command
        BY <1>0, <2>3, LookupCommands DEF Known
      <3>2. SameFlags(Reopen(commands[active], {n}), commands[active])
            /\ SameFlags(commands[active], commands[active])
        BY <3>1, FlagsKept DEF SameFlags
      <3>3. LiveAuto(commands', active, episode)
        BY <1>0, <2>3, <3>2, LiveAutoExcept DEF Live, Known
      <3>4. QED
        BY <2>1, <3>3 DEF Live
    <2>4. QED
      BY <1>2, <2>2, <2>3 DEF replayPendingShutdown
  <1>3. ASSUME NEW h \in Handler, NEW n \in Node, NEW c \in CmdId, NEW status \in AckStatus,
               recordShutdownUpdate(h, n, c, status)
        PROVE  Live'
    <2> DEFINE command == Report(commands[c], n, status)
    <2>1. c \in DOMAIN commands /\ commands' = [commands EXCEPT ![c] = command]
          /\ episode' = episode
      BY <1>3 DEF recordShutdownUpdate, Known
    <2>2. commands[c] \in Command /\ status \in Status
      BY <1>0, <2>1, LookupCommands, MasterAssumption
    <2>3. SameFlags(command, commands[c])
      BY <2>2, FlagsKept
    <2>4. active' = active \/ (active' = NoCmd /\ active = c /\ ~command.auto)
      BY <1>3 DEF recordShutdownUpdate
    <2> HIDE DEF command
    <2>5. LiveAuto(commands', active, episode)
      BY <1>0, <2>1, <2>3, LiveAutoExcept DEF Live
    <2>6. commands'[c].auto = command.auto /\ c \in DOMAIN commands'
      BY <1>0, <2>1 DEF IsCommands
    <2>7. CASE active' = active
      BY <2>1, <2>5, <2>7 DEF Live
    <2>8. CASE active' = NoCmd /\ active = c /\ ~command.auto
      BY <2>1, <2>5, <2>6, <2>8 DEF Live, LiveAuto
    <2>9. QED
      BY <2>4, <2>7, <2>8
  <1>4. QED
    BY <1>1, <1>2, <1>3 DEF ConnStep

\* The admin API: a manual command is accepted only when none is active, and a
\* reset disables whatever is live.
LEMMA LiveAdmin == TypeOK /\ Live /\ AdminStep => Live'
  <1> SUFFICES ASSUME TypeOK, Live, AdminStep PROVE Live'
    OBVIOUS
  <1>0. IsCommands(commands) /\ NoCmd \notin DOMAIN commands /\ episode \in EpisodeType
    BY NoCmdUnknown DEF TypeOK, CoreTypeOK
  <1>1. CASE SelectManualTargets \/ RejectManualShutdown
    BY <1>1 DEF SelectManualTargets, RejectManualShutdown, core, Live
  <1>2. CASE TriggerShutdown
    <2> DEFINE command == NewCommand(FALSE, request.dry, request.target, request.nodes)
    <2>1. PICK c \in Fresh : commands' = Put(commands, c, command) /\ active' = c
      BY <1>2 DEF TriggerShutdown
    <2>2. ~command.auto /\ ~command.replayDisabled
      BY DEF NewCommand
    <2>3. episode' = episode /\ episode.cmd = NoCmd /\ c # NoCmd
      BY <1>2, MasterAssumption DEF TriggerShutdown, Live, LiveAuto, Fresh
    <2> HIDE DEF command
    <2>4. DOMAIN commands' = DOMAIN commands \cup {c}
          /\ commands'[c] = command
          /\ \A k \in DOMAIN commands \ {c} : commands'[k] = commands[k]
      BY <2>1 DEF Put
    <2>5. QED
      BY <2>1, <2>2, <2>3, <2>4 DEF Live, LiveAuto
  <1>3. CASE ResetActiveCommand
    <2>1. \A k \in DOMAIN commands : /\ Disable(commands[k]).auto = commands[k].auto
                                     /\ Disable(commands[k]).replayDisabled
      BY <1>0, LookupCommands, DisableFlags
    <2>2. episode'.cmd = NoCmd /\ active' = NoCmd
      BY <1>0, <1>3 DEF ResetActiveCommand, EpisodeType
    <2>3. DOMAIN commands' = DOMAIN commands
          /\ \A k \in DOMAIN commands :
               commands'[k] = IF k \in {active, episode.cmd} THEN Disable(commands[k])
                                                             ELSE commands[k]
      BY <1>3 DEF ResetActiveCommand
    <2>4. \A k \in DOMAIN commands' : ~(commands'[k].auto /\ ~commands'[k].replayDisabled)
      BY <2>1, <2>3 DEF Live, LiveAuto
    <2>5. QED
      BY <1>0, <2>2, <2>3, <2>4 DEF Live, LiveAuto
  <1>4. QED
    BY <1>1, <1>2, <1>3 DEF AdminStep

\* Only persistState and a restart touch the state file.
LEMMA FileUnchanged ==
  PollStep \/ WatchStep \/ (\E w \in Worker : ExecutionStep(w)) \/ ConnStep \/ AdminStep
    => disk' = disk /\ restarts' = restarts
  <1>1. PollStep => disk' = disk /\ restarts' = restarts
    BY DEF PollStep, PollUPS, endEpisodeOnLinePower, ConfirmReading, VouchForEpisode,
           startEpisodeIfNeeded, evaluateEpisodePolicies, applyPolicyMatch, file
  <1>2. WatchStep => disk' = disk /\ restarts' = restarts
    BY DEF WatchStep, MarkTimedOutCommands, retryEpisodeShutdown, SkipRetry,
           SampleUPSStatus, evaluateLocalShutdown, SkipLocalShutdown, file
  <1>3. \A w \in Worker : ExecutionStep(w) => disk' = disk /\ restarts' = restarts
    BY DEF ExecutionStep, DropExecution, beginLocalShutdownExecution,
           finishLocalShutdownExecution, file
  <1>4. ConnStep => disk' = disk /\ restarts' = restarts
    <2>1. \A n \in Node : Register(n) \/ Disconnect(n) => disk' = disk /\ restarts' = restarts
      BY DEF Register, Disconnect, file
    <2>2. \A n \in Node : replayPendingShutdown(n) => disk' = disk /\ restarts' = restarts
      BY DEF replayPendingShutdown, file
    <2>3. \A h \in Handler, n \in Node, c \in CmdId, status \in AckStatus :
            recordShutdownUpdate(h, n, c, status) => disk' = disk /\ restarts' = restarts
      BY DEF recordShutdownUpdate, file
    <2>4. QED
      BY <2>1, <2>2, <2>3 DEF ConnStep
  <1>5. AdminStep => disk' = disk /\ restarts' = restarts
    BY DEF AdminStep, SelectManualTargets, TriggerShutdown, RejectManualShutdown,
           ResetActiveCommand, file
  <1>6. QED
    BY <1>1, <1>2, <1>3, <1>4, <1>5

\* The episode command is known, active and replayable as long as its episode
\* lasts and nobody resets it, and it is the only live automatic command; in
\* memory and in the state file, through any number of restarts.
THEOREM EpisodeCommand == Spec => []EpisodeCommandIsLive
  <1>1. Init => EpisodeCommandIsLive
    BY DEF Init, EpisodeCommandIsLive, LiveAuto, EmptyFile, NoEpisode, NoCommands
  <1>2. TypeOK /\ EpisodeCommandIsLive /\ [Next]_vars => EpisodeCommandIsLive'
    <2> SUFFICES ASSUME TypeOK, EpisodeCommandIsLive, [Next]_vars PROVE EpisodeCommandIsLive'
      OBVIOUS
    <2> DEFINE Stored == LiveAuto(disk.commands, disk.active, disk.episode)
    <2>1. Live /\ Stored
      BY DEF EpisodeCommandIsLive, Live
    <2>2. CASE PollStep \/ WatchStep \/ (\E w \in Worker : ExecutionStep(w)) \/ ConnStep \/ AdminStep
      <3>1. Live'
        BY <2>1, <2>2, LivePoll, LiveWatch, LiveExecution, LiveConn, LiveAdmin
      <3>2. disk' = disk
        BY <2>2, FileUnchanged
      <3>3. QED
        BY <2>1, <3>1, <3>2 DEF EpisodeCommandIsLive, Live
    <2>3. CASE persistState
      <3>1. UNCHANGED <<commands, active, episode>> /\ (disk' = disk \/ disk' = Snapshot)
        BY <2>3 DEF persistState, core
      <3>2. LiveAuto(Snapshot.commands, Snapshot.active, Snapshot.episode)
        BY <2>1 DEF Snapshot, Live
      <3>3. QED
        BY <2>1, <3>1, <3>2 DEF EpisodeCommandIsLive, Live
    <2>4. CASE Restart
      <3>1. /\ commands' = disk.commands /\ active' = disk.active /\ episode' = disk.episode
            /\ disk' = disk \/ disk' = EmptyFile
        BY <2>4 DEF Restart
      <3>2. LiveAuto(EmptyFile.commands, EmptyFile.active, EmptyFile.episode)
        BY DEF LiveAuto, EmptyFile, NoEpisode, NoCommands
      <3>3. QED
        BY <2>1, <3>1, <3>2 DEF EpisodeCommandIsLive, Live
    <2>5. CASE UNCHANGED vars
      BY <2>5 DEF vars, core, file, EpisodeCommandIsLive
    <2>6. QED
      BY <2>2, <2>3, <2>4, <2>5 DEF Next
  <1>3. QED
    BY <1>1, <1>2, TypeCorrect, PTL DEF Spec

(***************************************************************************)
(* OneExecution.  A goroutine that runs an execution never takes up a      *)
(* second one: handlers are guarded by Busy, the watcher by its own        *)
(* sequence, which is the strengthening the induction needs.               *)
(***************************************************************************)
Executes(w) == job[w].pc \in {"persist", "run"}

WatcherSequential == watch.pc # "timeouts" => job["watcher"].pc = "idle"

ExecInv == OneExecution /\ WatcherSequential

\* ExecInv reads the execution jobs, the watcher's place and the local shutdown.
LEMMA ExecUnchanged ==
  ExecInv /\ UNCHANGED <<job, watch, local>> => ExecInv'
  BY DEF ExecInv, OneExecution, WatcherSequential

\* Dropping or replacing a local shutdown that is not executing.
LEMMA ExecLocalReplaced ==
  ASSUME ExecInv, UNCHANGED <<job, watch>>,
         local' = local \/ (local.phase # "executing" /\ local'.phase # "executing")
  PROVE  ExecInv'
  <1>1. CASE local' = local
    BY <1>1, ExecUnchanged
  <1>2. CASE local.phase # "executing" /\ local'.phase # "executing"
    BY <1>2 DEF ExecInv, OneExecution, WatcherSequential
  <1>3. QED
    BY <1>1, <1>2

\* armLocalShutdown leaves an executing local shutdown alone and starts none.
LEMMA ArmKeepsExecuting ==
  ASSUME NEW cur, NEW c, NEW x, NEW on
  PROVE  \/ armLocalShutdown(cur, c, x, on) = cur
         \/ /\ cur.phase # "executing"
            /\ armLocalShutdown(cur, c, x, on).phase # "executing"
  BY DEF armLocalShutdown

\* A goroutine that is not executing may be given something to begin.
LEMMA ExecBegins ==
  ASSUME TypeOK, ExecInv, NEW w \in Worker, ~Executes(w), NEW j, j.pc = "begin",
         job' = [job EXCEPT ![w] = j], watch'.pc = "timeouts" \/ w # "watcher",
         watch'.pc # "timeouts" => watch' = watch,
         local'.phase # "executing", local.phase # "executing"
  PROVE  ExecInv'
  <1>1. \A v \in Worker : ~Executes(v)
    BY DEF ExecInv, OneExecution, Executes
  <1>2. job'[w] = j /\ \A v \in Worker \ {w} : job'[v] = job[v]
    BY DEF TypeOK
  <1>3. \A v \in Worker : job'[v].pc \notin {"persist", "run"}
    BY <1>1, <1>2 DEF Executes
  <1>4. WatcherSequential'
    BY <1>2 DEF ExecInv, WatcherSequential, Worker
  <1>5. QED
    BY <1>3, <1>4 DEF ExecInv, OneExecution

\* The polling loop and the admin API.
LEMMA ExecPollAdmin == TypeOK /\ ExecInv /\ (PollStep \/ AdminStep) => ExecInv'
  <1> SUFFICES ASSUME TypeOK, ExecInv, PollStep \/ AdminStep PROVE ExecInv'
    OBVIOUS
  <1>1. CASE \/ PollUPS \/ ConfirmReading \/ VouchForEpisode \/ startEpisodeIfNeeded \/ evaluateEpisodePolicies
             \/ SelectManualTargets \/ RejectManualShutdown
    BY <1>1, ExecUnchanged
    DEF PollUPS, ConfirmReading, VouchForEpisode, startEpisodeIfNeeded, evaluateEpisodePolicies,
        SelectManualTargets, RejectManualShutdown, core
  <1>2. CASE endEpisodeOnLinePower
    BY <1>2, ExecLocalReplaced DEF endEpisodeOnLinePower, NoLocal
  <1>3. CASE applyPolicyMatch
    <2> DEFINE fired == poll.due \ episode.fired
    <2>1. UNCHANGED <<job, watch>>
      BY <1>3 DEF applyPolicyMatch
    <2>2. CASE UNCHANGED <<core, issued, sent>>
      BY <2>1, <2>2, ExecUnchanged DEF core
    <2>3. CASE WidenEpisodeCommand(fired)
      BY <2>1, <2>3, ExecLocalReplaced, ArmKeepsExecuting DEF WidenEpisodeCommand
    <2>4. CASE CreateEpisodeCommand(fired)
      <3> DEFINE kept == IF /\ Known(active) /\ ~commands[active].auto
                            /\ LocalPresent /\ local.cmd = active
                            /\ ~localShutdownTerminal(local.phase)
                         THEN NoLocal ELSE local
      <3>1. \E c, x : local' = armLocalShutdown(kept, c, x, TRUE)
        BY <2>4 DEF CreateEpisodeCommand
      <3>2. kept = local \/ (local.phase # "executing" /\ kept.phase # "executing")
        BY DEF localShutdownTerminal, NoLocal
      <3>3. local' = kept \/ (kept.phase # "executing" /\ local'.phase # "executing")
        BY <3>1, ArmKeepsExecuting
      <3> HIDE DEF kept
      <3>4. QED
        BY <2>1, <3>2, <3>3, ExecLocalReplaced
    <2>5. QED
      BY <1>3, <2>2, <2>3, <2>4 DEF applyPolicyMatch
  <1>4. CASE TriggerShutdown
    <2>1. \E c, x : local' = armLocalShutdown(local, c, x, episode.on)
      BY <1>4 DEF TriggerShutdown
    <2>2. UNCHANGED <<job, watch>>
      BY <1>4 DEF TriggerShutdown
    <2>3. QED
      BY <2>1, <2>2, ArmKeepsExecuting, ExecLocalReplaced
  <1>5. CASE ResetActiveCommand
    BY <1>5, ExecLocalReplaced DEF ResetActiveCommand, NoLocal
  <1>6. QED
    BY <1>1, <1>2, <1>3, <1>4, <1>5 DEF PollStep, AdminStep

\* The watcher takes up an execution only when nobody executes.
LEMMA ExecWatch == TypeOK /\ ExecInv /\ WatchStep => ExecInv'
  <1> SUFFICES ASSUME TypeOK, ExecInv, WatchStep PROVE ExecInv'
    OBVIOUS
  <1>0. watch \in WatchType /\ local \in LocalType
    BY DEF TypeOK, CoreTypeOK
  <1>1. CASE MarkTimedOutCommands
    <2>1. job["watcher"].pc = "idle" /\ UNCHANGED <<job, local>>
      BY <1>1 DEF MarkTimedOutCommands, Busy
    <2>2. QED
      BY <2>1 DEF ExecInv, OneExecution, WatcherSequential
  <1>2. CASE retryEpisodeShutdown \/ SkipRetry \/ SampleUPSStatus
    <2>1. watch.pc # "timeouts" /\ UNCHANGED <<job, local>>
      BY <1>2 DEF retryEpisodeShutdown, SkipRetry, SampleUPSStatus, core
    <2>2. QED
      BY <2>1 DEF ExecInv, OneExecution, WatcherSequential
  <1>3. CASE SkipLocalShutdown
    <2>1. watch.pc # "timeouts" /\ UNCHANGED <<job, local>>
      BY <1>3 DEF SkipLocalShutdown, core
    <2>2. QED
      BY <2>1 DEF ExecInv, OneExecution, WatcherSequential
  <1>4. CASE evaluateLocalShutdown
    <2>1. watch.pc = "evaluate" /\ watch'.pc = "timeouts"
      BY <1>4 DEF evaluateLocalShutdown, WatchIdle
    <2>2. "watcher" \in Worker /\ ~Executes("watcher")
      BY <2>1 DEF ExecInv, WatcherSequential, Worker, Executes
    <2>3. PICK e, t : \/ ArmEmergency(e, t)
                      \/ CancelWaiting(e, t)
                      \/ FinishWaiting(e, t)
                      \/ EscalateWaiting(e, t)
                      \/ ExpireWaiting(e, t)
                      \/ ResumeLocal(e, t)
                      \/ LeaveLocal(e, t)
      BY <1>4 DEF evaluateLocalShutdown
    <2>4. CASE LeaveLocal(e, t)
      BY <2>1, <2>4 DEF LeaveLocal, ExecInv, OneExecution, WatcherSequential
    <2>5. CASE CancelWaiting(e, t)
      BY <2>1, <2>5 DEF CancelWaiting, NoLocal, ExecInv, OneExecution, WatcherSequential
    <2>6. CASE ~LeaveLocal(e, t) /\ ~CancelWaiting(e, t)
      <3>1. \E c, tr : job' = [job EXCEPT !["watcher"] = [pc |-> "begin", cmd |-> c, trigger |-> tr]]
        BY <2>3, <2>6 DEF ArmEmergency, FinishWaiting, EscalateWaiting, ExpireWaiting,
                          ResumeLocal, WatcherBegins
      <3>2. local.phase # "executing"
        BY <2>3, <2>6 DEF ArmEmergency, FinishWaiting, EscalateWaiting, ExpireWaiting,
                          ResumeLocal, LeftByAnother, LocalPresent
      <3>3. local'.phase # "executing"
        <4>1. CASE ArmEmergency(e, t)
          BY <4>1 DEF ArmEmergency
        <4>2. CASE FinishWaiting(e, t) \/ ResumeLocal(e, t)
          BY <1>0, <3>2, <4>2 DEF FinishWaiting, ResumeLocal, LocalType
        <4>3. CASE EscalateWaiting(e, t) \/ ExpireWaiting(e, t)
          BY <1>0, <4>3 DEF EscalateWaiting, ExpireWaiting, LocalType
        <4>4. QED
          BY <2>3, <2>6, <4>1, <4>2, <4>3
      <3>4. QED
        BY <2>1, <2>2, <3>1, <3>2, <3>3, ExecBegins
    <2>7. QED
      BY <2>4, <2>5, <2>6
  <1>5. QED
    BY <1>1, <1>2, <1>3, <1>4 DEF WatchStep

\* beginLocalShutdownExecution is the only way into the executing phase, and
\* the goroutine that took it is the one that leaves it.
LEMMA ExecExecution ==
  TypeOK /\ ExecInv /\ (\E w \in Worker : ExecutionStep(w)) => ExecInv'
  <1> SUFFICES ASSUME TypeOK, ExecInv, NEW w \in Worker, ExecutionStep(w) PROVE ExecInv'
    OBVIOUS
  <1>0. /\ local \in LocalType
        /\ \A j : \A v \in Worker : [job EXCEPT ![w] = j][v] = IF v = w THEN j ELSE job[v]
    BY DEF TypeOK, CoreTypeOK
  <1>00. job[w] \in JobType
    BY DEF TypeOK
  <1>1. CASE DropExecution(w)
    <2>1. job[w].pc = "begin" /\ job' = [job EXCEPT ![w] = NoJob] /\ UNCHANGED <<local, watch>>
      BY <1>1 DEF DropExecution, core
    <2>2. \A v \in Worker : job'[v] = IF v = w THEN NoJob ELSE job[v]
      BY <1>0, <2>1
    <2>3. QED
      BY <2>1, <2>2 DEF ExecInv, OneExecution, WatcherSequential, NoJob, Worker
  <1>2. CASE beginLocalShutdownExecution(w)
    <2>1. job[w].pc = "begin" /\ watch' = watch /\ local.cmd = job[w].cmd
          /\ local.phase # "executing" /\ local'.phase = "executing" /\ local'.cmd = local.cmd
      BY <1>0, <1>2 DEF beginLocalShutdownExecution, BeginRefused, localShutdownTerminal, LocalType
    <2>2. job' = [job EXCEPT ![w] = [@ EXCEPT !.pc = "persist"]]
      BY <1>2 DEF beginLocalShutdownExecution
    <2>3. job'[w] = [job[w] EXCEPT !.pc = "persist"] /\ \A v \in Worker \ {w} : job'[v] = job[v]
      BY <2>2 DEF TypeOK
    <2>4. job'[w].pc = "persist" /\ job'[w].cmd = job[w].cmd
      BY <1>00, <2>3 DEF JobType
    <2>5. \A v \in Worker : ~Executes(v)
      BY <2>1 DEF ExecInv, OneExecution, Executes
    <2>6. \A v \in Worker : job'[v].pc \in {"persist", "run"} => v = w
      BY <2>3, <2>5 DEF Executes
    <2>7. WatcherSequential'
      BY <2>1, <2>3 DEF ExecInv, WatcherSequential, Worker
    <2>8. QED
      BY <2>1, <2>4, <2>6, <2>7 DEF ExecInv, OneExecution
  <1>3. CASE finishLocalShutdownExecution(w)
    <2>1. job[w].pc = "run" /\ job' = [job EXCEPT ![w] = NoJob] /\ watch' = watch
      BY <1>3 DEF finishLocalShutdownExecution
    <2>2. local.phase = "executing" /\ local.cmd = job[w].cmd
      BY <2>1 DEF ExecInv, OneExecution
    <2>3. local'.phase # "executing"
      BY <1>0, <1>3, <2>2 DEF finishLocalShutdownExecution, LocalPresent, LocalType
    <2>4. \A v \in Worker : job'[v] = IF v = w THEN NoJob ELSE job[v]
      BY <1>0, <2>1
    <2>5. \A v \in Worker : job'[v].pc \notin {"persist", "run"}
      BY <2>1, <2>4 DEF ExecInv, OneExecution, NoJob
    <2>6. WatcherSequential'
      BY <2>1, <2>4 DEF ExecInv, WatcherSequential, Worker, NoJob
    <2>7. QED
      BY <2>3, <2>5, <2>6 DEF ExecInv, OneExecution
  <1>4. QED
    BY <1>1, <1>2, <1>3 DEF ExecutionStep

\* The handler of the ack that completes a command goes on to begin.
LEMMA ExecConn == TypeOK /\ ExecInv /\ ConnStep => ExecInv'
  <1> SUFFICES ASSUME TypeOK, ExecInv, ConnStep PROVE ExecInv'
    OBVIOUS
  <1>1. ASSUME NEW n \in Node, Register(n) \/ Disconnect(n) PROVE ExecInv'
    BY <1>1, ExecUnchanged DEF Register, Disconnect, core
  <1>2. ASSUME NEW n \in Node, replayPendingShutdown(n) PROVE ExecInv'
    BY <1>2, ExecUnchanged DEF replayPendingShutdown
  <1>3. ASSUME NEW h \in Handler, NEW n \in Node, NEW c \in CmdId, NEW status \in AckStatus,
               recordShutdownUpdate(h, n, c, status)
        PROVE  ExecInv'
    <2>1. watch' = watch /\ h \in Worker /\ h # "watcher" /\ ~Executes(h)
      BY <1>3, MasterAssumption DEF recordShutdownUpdate, Worker, Busy, Executes
    <2>2. CASE UNCHANGED <<local, job>>
      BY <2>1, <2>2, ExecUnchanged
    <2>3. CASE /\ local.phase = "waiting_remote"
               /\ local' = [local EXCEPT !.trigger = "remote_complete"]
               /\ job' = [job EXCEPT ![h] = [pc |-> "begin", cmd |-> c,
                                             trigger |-> "remote_complete"]]
      <3>1. local'.phase = "waiting_remote"
        BY <2>3 DEF TypeOK, CoreTypeOK, LocalType
      <3>2. QED
        BY <2>1, <2>3, <3>1, ExecBegins
    <2>4. QED
      BY <1>3, <2>2, <2>3 DEF recordShutdownUpdate
  <1>4. QED
    BY <1>1, <1>2, <1>3 DEF ConnStep

\* A write ends the wait of the one goroutine that executes; a restart leaves
\* no execution and loads no executing phase.
LEMMA ExecFile == TypeOK /\ ExecInv /\ (persistState \/ Restart) => ExecInv'
  <1> SUFFICES ASSUME TypeOK, ExecInv, persistState \/ Restart PROVE ExecInv'
    OBVIOUS
  <1>1. CASE persistState
    <2>1. UNCHANGED <<local, watch>>
      BY <1>1 DEF persistState, core
    <2>2. \A v \in Worker : job'[v] = IF job[v].pc = "persist" THEN [job[v] EXCEPT !.pc = "run"]
                                                               ELSE job[v]
      BY <1>1 DEF persistState
    <2>3. \A v \in Worker : /\ job'[v].cmd = job[v].cmd
                            /\ job'[v].pc \in {"persist", "run"} <=> Executes(v)
                            /\ job'[v].pc = "idle" <=> job[v].pc = "idle"
      <3>1. ASSUME NEW v \in Worker
            PROVE  /\ job'[v].cmd = job[v].cmd
                   /\ job'[v].pc \in {"persist", "run"} <=> Executes(v)
                   /\ job'[v].pc = "idle" <=> job[v].pc = "idle"
        <4>1. job[v] \in JobType
          BY DEF TypeOK
        <4>2. QED
          BY <2>2, <4>1 DEF JobType, Executes
      <3>2. QED
        BY <3>1
    <2>4. QED
      BY <2>1, <2>3 DEF ExecInv, OneExecution, WatcherSequential, Executes, Worker
  <1>2. CASE Restart
    <2>1. local'.phase # "executing"
      BY <1>2 DEF Restart, normalizeLoadedLocalShutdown, NoLocal, PendingPhase
    <2>2. \A v \in Worker : job'[v].pc = "idle"
      BY <1>2 DEF Restart, NoJob
    <2>3. QED
      BY <2>1, <2>2 DEF ExecInv, OneExecution, WatcherSequential, Worker
  <1>3. QED
    BY <1>1, <1>2

\* The strengthened invariant is inductive.
LEMMA ExecCorrect == Spec => []ExecInv
  <1>1. Init => ExecInv
    BY DEF Init, ExecInv, OneExecution, WatcherSequential, NoLocal, NoJob, WatchIdle
  <1>2. TypeOK /\ ExecInv /\ [Next]_vars => ExecInv'
    <2> SUFFICES ASSUME TypeOK, ExecInv, [Next]_vars PROVE ExecInv'
      OBVIOUS
    <2>1. CASE Next
      BY <2>1, ExecPollAdmin, ExecWatch, ExecExecution, ExecConn, ExecFile DEF Next
    <2>2. CASE UNCHANGED vars
      BY <2>2, ExecUnchanged DEF vars, core
    <2>3. QED
      BY <2>1, <2>2
  <1>3. QED
    BY <1>1, <1>2, TypeCorrect, PTL DEF Spec

\* The power-off command never runs twice at a time, and the phase "executing"
\* always has exactly one goroutine that will record the outcome.
THEOREM ExecutionExclusive == Spec => []OneExecution
  <1>1. ExecInv => OneExecution
    BY DEF ExecInv
  <1>2. QED
    BY <1>1, ExecCorrect, PTL


(***************************************************************************)
(* How commands change while the master lives.                             *)
(***************************************************************************)

\* The command y may be what became of x: its kind and dry_run are those of x,
\* it widened, and it keeps what was settled.
Evolves(x, y) ==
  /\ y.auto = x.auto /\ y.dry = x.dry
  /\ x.nodes \subseteq y.nodes
  /\ x.target.all => y.target.all
  /\ selectTargets(Node, x.target) \subseteq selectTargets(Node, y.target)
  /\ x.replayDisabled => y.replayDisabled
  /\ \A n \in Node : isReplayDoneStatus(x.upd[n]) => y.upd[n] = x.upd[n]

\* A command that is left alone.
LEMMA EvolvesReflexive == ASSUME NEW x PROVE Evolves(x, x)
  BY DEF Evolves

\* One change after another.
LEMMA EvolvesTransitive ==
  ASSUME NEW x, NEW y, NEW z, Evolves(x, y), Evolves(y, z) PROVE Evolves(x, z)
  BY DEF Evolves

\* Merging targets widens.
LEMMA MergeWidens ==
  ASSUME NEW a \in Target, NEW b \in Target
  PROVE  /\ a.all => mergeShutdownTargets(a, b).all
         /\ selectTargets(Node, a) \subseteq selectTargets(Node, mergeShutdownTargets(a, b))
  BY DEF mergeShutdownTargets, selectTargets, targetMatchesNode, AllNodes, Target

\* Every operator on commands only lets them evolve; a report does where
\* shouldReplaceShutdownUpdate lets it through.
LEMMA OperatorsEvolve ==
  ASSUME NEW x \in Command
  PROVE  /\ Evolves(x, Disable(x))
         /\ Evolves(x, TimeOut(x))
         /\ \A S \in SUBSET Node : Evolves(x, Reopen(x, S))
         /\ \A S \in SUBSET Node : Evolves(x, adoptMatchingClients(x, S))
         /\ \A n \in Node, st \in Status :
              shouldReplaceShutdownUpdate(x.upd[n]) => Evolves(x, Report(x, n, st))
         /\ \A t \in Target : Evolves(x, [x EXCEPT !.target = mergeShutdownTargets(@, t)])
  <1>1. Evolves(x, Disable(x))
    BY DEF Evolves, Disable, Command
  <1>2. Evolves(x, TimeOut(x))
    <2>1. \A n \in Node : isReplayDoneStatus(x.upd[n]) => isCompleteShutdownStatus(x.upd[n])
      BY DEF isReplayDoneStatus, isCompleteShutdownStatus
    <2>2. QED
      BY <2>1 DEF Evolves, TimeOut, Command
  <1>3. \A S \in SUBSET Node : Evolves(x, Reopen(x, S))
    BY DEF Evolves, Reopen, Command
  <1>4. \A S \in SUBSET Node : Evolves(x, adoptMatchingClients(x, S))
    BY <1>3, AdoptableType, EvolvesReflexive DEF adoptMatchingClients
  <1>5. ASSUME NEW n \in Node, NEW st \in Status, shouldReplaceShutdownUpdate(x.upd[n])
        PROVE  Evolves(x, Report(x, n, st))
    BY <1>5 DEF Evolves, Report, Command, shouldReplaceShutdownUpdate
  <1>6. ASSUME NEW t \in Target
        PROVE  Evolves(x, [x EXCEPT !.target = mergeShutdownTargets(@, t)])
    <2>1. x.target \in Target
      BY DEF Command
    <2>2. QED
      BY <2>1, MergeWidens DEF Evolves, Command
  <1>7. QED
    BY <1>1, <1>2, <1>3, <1>4, <1>5, <1>6

\* What a step of a living master does to the table of commands: known ones
\* evolve, new ones have IDs never issued before, and the command of a local
\* shutdown is not forgotten.
TableEvolves ==
  /\ \A c \in DOMAIN commands \cap DOMAIN commands' : Evolves(commands[c], commands'[c])
  /\ \A c \in DOMAIN commands' \ DOMAIN commands : c \in issued' /\ c \notin issued
  /\ issued \subseteq issued'
  /\ LocalPresent /\ Known(local.cmd) => local.cmd \in DOMAIN commands'

\* A step that leaves the commands alone.
LEMMA TableUnchanged == UNCHANGED <<commands, issued>> => TableEvolves
  BY EvolvesReflexive DEF TableEvolves, Known

\* A step that changes one command.
LEMMA TableExcept ==
  ASSUME IsCommands(commands), issued' = issued, NEW c \in DOMAIN commands, NEW x,
         Evolves(commands[c], x), commands' = [commands EXCEPT ![c] = x]
  PROVE  TableEvolves
  <1>1. /\ DOMAIN commands' = DOMAIN commands
        /\ \A k \in DOMAIN commands : commands'[k] = IF k = c THEN x ELSE commands[k]
    BY DEF IsCommands
  <1>2. QED
    BY <1>1, EvolvesReflexive DEF TableEvolves, Known

\* A step that adds a command, to a table in which known ones evolved.
LEMMA TablePut ==
  ASSUME NEW f, DOMAIN f = DOMAIN commands, \A k \in DOMAIN f : Evolves(commands[k], f[k]),
         NEW c, c \notin issued, DOMAIN commands \subseteq issued, NEW x,
         commands' = Put(f, c, x), issued' = issued \cup {c}
  PROVE  TableEvolves
  <1>1. /\ DOMAIN commands' = DOMAIN commands \cup {c}
        /\ \A k \in DOMAIN commands : commands'[k] = f[k]
    BY DEF Put
  <1>2. QED
    BY <1>1 DEF TableEvolves, Known

\* The polling loop: line power disables the episode command, policies widen
\* it or add it.
LEMMA EvolvePoll ==
  ASSUME TypeOK, DOMAIN commands \subseteq issued, PollStep PROVE TableEvolves
  <1>0. IsCommands(commands)
    BY DEF TypeOK, CoreTypeOK
  <1>1. CASE PollUPS \/ ConfirmReading \/ VouchForEpisode \/ startEpisodeIfNeeded \/ evaluateEpisodePolicies
    BY <1>1, TableUnchanged DEF PollUPS, ConfirmReading, VouchForEpisode, startEpisodeIfNeeded,
                                evaluateEpisodePolicies, core, ids
  <1>2. CASE endEpisodeOnLinePower
    <2> DEFINE c == episode.cmd
    <2>1. CASE Known(c)
      <3>1. commands' = [commands EXCEPT ![c] = Disable(commands[c])] /\ issued' = issued
        BY <1>2, <2>1 DEF endEpisodeOnLinePower, ids
      <3>2. commands[c] \in Command
        BY <1>0, <2>1, LookupCommands DEF Known
      <3>3. QED
        BY <1>0, <2>1, <3>1, <3>2, OperatorsEvolve, TableExcept DEF Known
    <2>2. CASE ~Known(c)
      BY <1>2, <2>2, TableUnchanged DEF endEpisodeOnLinePower, ids
    <2>3. QED
      BY <2>1, <2>2
  <1>3. CASE applyPolicyMatch
    <2> DEFINE fired == poll.due \ episode.fired
    <2>1. CASE UNCHANGED <<core, issued, sent>>
      BY <2>1, TableUnchanged DEF core
    <2>2. CASE Known(episode.cmd) /\ WidenEpisodeCommand(fired)
      <3> DEFINE c == episode.cmd
                 merged == [commands[c] EXCEPT
                              !.target = mergeShutdownTargets(@, PoliciesTarget(poll.due))]
                 command == adoptMatchingClients(merged, connected)
      <3>1. commands[c] \in Command /\ PoliciesTarget(poll.due) \in Target
        BY <1>0, <2>2, LookupCommands, PoliciesTargetType DEF Known, TypeOK, PollType
      <3>2. merged \in Command
        BY <3>1, MergeType DEF Command
      <3>3. Evolves(commands[c], merged)
        BY <3>1, OperatorsEvolve
      <3>4. Evolves(merged, command)
        BY <3>2, OperatorsEvolve DEF TypeOK
      <3>5. Evolves(commands[c], command)
        BY <3>3, <3>4, EvolvesTransitive
      <3>6. commands' = [commands EXCEPT ![c] = command] /\ issued' = issued
        BY <2>2 DEF WidenEpisodeCommand
      <3> HIDE DEF command
      <3>7. QED
        BY <1>0, <2>2, <3>5, <3>6, TableExcept DEF Known
    <2>3. CASE CreateEpisodeCommand(fired)
      <3> DEFINE supersedes == Known(active) /\ ~commands[active].auto
                 cmds == IF supersedes THEN [commands EXCEPT ![active] = Disable(@)]
                                       ELSE commands
      <3>1. PICK c, x : /\ c \in Fresh
                        /\ commands' = Put(cmds, c, x) /\ issued' = issued \cup {c}
        BY <2>3 DEF CreateEpisodeCommand
      <3>2. DOMAIN cmds = DOMAIN commands
        BY <1>0 DEF IsCommands
      <3>3. \A k \in DOMAIN cmds : Evolves(commands[k], cmds[k])
        <4>1. CASE supersedes
          <5>1. Evolves(commands[active], Disable(commands[active]))
            BY <1>0, <4>1, LookupCommands, OperatorsEvolve DEF Known
          <5>2. QED
            BY <1>0, <4>1, <5>1, EvolvesReflexive DEF IsCommands, Known
        <4>2. CASE ~supersedes
          BY <4>2, EvolvesReflexive
        <4>3. QED
          BY <4>1, <4>2
      <3> HIDE DEF cmds
      <3>4. QED
        BY <3>1, <3>2, <3>3, TablePut DEF Fresh
    <2>4. QED
      BY <1>3, <2>1, <2>2, <2>3 DEF applyPolicyMatch
  <1>4. QED
    BY <1>1, <1>2, <1>3 DEF PollStep

\* The watcher: timeouts, pruning and retries.
LEMMA EvolveWatch ==
  ASSUME TypeOK, WatchStep PROVE TableEvolves
  <1>0. IsCommands(commands)
    BY DEF TypeOK, CoreTypeOK
  <1>1. CASE MarkTimedOutCommands
    <2>1. PICK expired \in SUBSET {c \in DOMAIN commands : ~commands[c].done} :
            LET cmds == [c \in DOMAIN commands |->
                           IF c \in expired THEN TimeOut(commands[c]) ELSE commands[c]]
            IN  \E a : \E evicted \in SUBSET Prunable(cmds, a) :
                  commands' = [c \in DOMAIN cmds \ evicted |-> cmds[c]]
      BY <1>1 DEF MarkTimedOutCommands
    <2> DEFINE cmds == [c \in DOMAIN commands |->
                          IF c \in expired THEN TimeOut(commands[c]) ELSE commands[c]]
    <2>2. PICK evicted : /\ LocalPresent => local.cmd \notin evicted
                         /\ commands' = [c \in DOMAIN cmds \ evicted |-> cmds[c]]
      BY <2>1 DEF Prunable
    <2>3. \A c \in DOMAIN commands : Evolves(commands[c], cmds[c])
      BY <1>0, LookupCommands, OperatorsEvolve, EvolvesReflexive
    <2>4. issued' = issued
      BY <1>1 DEF MarkTimedOutCommands, ids
    <2>5. DOMAIN cmds = DOMAIN commands
      OBVIOUS
    <2> HIDE DEF cmds
    <2>6. QED
      BY <2>2, <2>3, <2>4, <2>5 DEF TableEvolves, Known
  <1>2. CASE retryEpisodeShutdown
    <2> DEFINE c == episode.cmd
               adopted == Adoptable(commands[c], connected)
    <2>1. c \in DOMAIN commands /\ issued' = issued
          /\ commands' = [commands EXCEPT ![c] = Reopen(commands[c], adopted)]
      BY <1>2 DEF retryEpisodeShutdown, Known, ids
    <2>2. Evolves(commands[c], Reopen(commands[c], adopted))
      BY <1>0, <2>1, LookupCommands, OperatorsEvolve, AdoptableType DEF TypeOK
    <2>3. QED
      BY <1>0, <2>1, <2>2, TableExcept
  <1>3. CASE SkipRetry \/ SampleUPSStatus \/ SkipLocalShutdown \/ evaluateLocalShutdown
    BY <1>3, TableUnchanged
    DEF SkipRetry, SampleUPSStatus, SkipLocalShutdown, evaluateLocalShutdown, core, ids
  <1>4. QED
    BY <1>1, <1>2, <1>3 DEF WatchStep

\* Connections and acks.
LEMMA EvolveConn ==
  ASSUME TypeOK, ConnStep PROVE TableEvolves
  <1>0. IsCommands(commands)
    BY DEF TypeOK, CoreTypeOK
  <1>1. ASSUME NEW n \in Node, Register(n) \/ Disconnect(n) PROVE TableEvolves
    BY <1>1, TableUnchanged DEF Register, Disconnect, core, ids
  <1>2. ASSUME NEW n \in Node, replayPendingShutdown(n) PROVE TableEvolves
    <2>1. issued' = issued
      BY <1>2 DEF replayPendingShutdown, ids
    <2>2. CASE commands' = commands
      BY <2>1, <2>2, TableUnchanged
    <2>3. CASE /\ Known(active)
               /\ \/ commands' = [commands EXCEPT ![active] = commands[active]]
                  \/ commands' = [commands EXCEPT ![active] = Reopen(commands[active], {n})]
      <3>1. commands[active] \in Command
        BY <1>0, <2>3, LookupCommands DEF Known
      <3>2. Evolves(commands[active], Reopen(commands[active], {n}))
            /\ Evolves(commands[active], commands[active])
        BY <3>1, OperatorsEvolve, EvolvesReflexive
      <3>3. QED
        BY <1>0, <2>1, <2>3, <3>2, TableExcept DEF Known
    <2>4. QED
      BY <1>2, <2>2, <2>3 DEF replayPendingShutdown
  <1>3. ASSUME NEW h \in Handler, NEW n \in Node, NEW c \in CmdId, NEW status \in AckStatus,
               recordShutdownUpdate(h, n, c, status)
        PROVE  TableEvolves
    <2> DEFINE command == Report(commands[c], n, status)
    <2>1. /\ c \in DOMAIN commands /\ commands' = [commands EXCEPT ![c] = command]
          /\ issued' = issued /\ shouldReplaceShutdownUpdate(commands[c].upd[n])
      BY <1>3 DEF recordShutdownUpdate, Known, ids
    <2>2. commands[c] \in Command /\ status \in Status
      BY <1>0, <2>1, LookupCommands, MasterAssumption
    <2>3. Evolves(commands[c], command)
      BY <2>1, <2>2, OperatorsEvolve
    <2> HIDE DEF command
    <2>4. QED
      BY <1>0, <2>1, <2>3, TableExcept
  <1>4. QED
    BY <1>1, <1>2, <1>3 DEF ConnStep

\* The admin API.
LEMMA EvolveAdmin ==
  ASSUME TypeOK, DOMAIN commands \subseteq issued, AdminStep PROVE TableEvolves
  <1>0. IsCommands(commands)
    BY DEF TypeOK, CoreTypeOK
  <1>1. CASE SelectManualTargets \/ RejectManualShutdown
    BY <1>1, TableUnchanged DEF SelectManualTargets, RejectManualShutdown, core, ids
  <1>2. CASE TriggerShutdown
    <2>1. PICK c, x : /\ c \in Fresh
                      /\ commands' = Put(commands, c, x) /\ issued' = issued \cup {c}
      BY <1>2 DEF TriggerShutdown
    <2>2. QED
      BY <2>1, EvolvesReflexive, TablePut DEF Fresh
  <1>3. CASE ResetActiveCommand
    <2>1. \A c \in DOMAIN commands : Evolves(commands[c], Disable(commands[c]))
      BY <1>0, LookupCommands, OperatorsEvolve
    <2>2. /\ DOMAIN commands' = DOMAIN commands
          /\ \A c \in DOMAIN commands : commands'[c] \in {commands[c], Disable(commands[c])}
      BY <1>3 DEF ResetActiveCommand
    <2>3. issued' = issued
      BY <1>3 DEF ResetActiveCommand, ids
    <2>4. QED
      BY <2>1, <2>2, <2>3, EvolvesReflexive DEF TableEvolves, Known
  <1>4. QED
    BY <1>1, <1>2, <1>3 DEF AdminStep

\* Every step that is not a restart.
LEMMA CommandsEvolve ==
  ASSUME TypeOK, DOMAIN commands \subseteq issued, [Next]_vars, ~Restart
  PROVE  TableEvolves
  <1>1. \A w \in Worker : ExecutionStep(w) => TableEvolves
    BY TableUnchanged DEF ExecutionStep, DropExecution, beginLocalShutdownExecution,
                          finishLocalShutdownExecution, core, ids
  <1>2. CASE persistState \/ UNCHANGED vars
    BY <1>2, TableUnchanged DEF persistState, vars, core, ids
  <1>3. QED
    BY <1>1, <1>2, EvolvePoll, EvolveWatch, EvolveConn, EvolveAdmin DEF Next

\* Only known commands are handed to connections.
LEMMA SentIsKnown ==
  ASSUME TypeOK, [Next]_vars, ~Restart
  PROVE  \A m \in sent' : m \in sent \/ m[2] \in DOMAIN commands'
  <1> DEFINE Goal == \A m \in sent' : m \in sent \/ m[2] \in DOMAIN commands'
  <1>0. ASSUME sent' = sent PROVE Goal
    BY <1>0
  <1>1. ASSUME NEW S, NEW c, Send(S, c), c \in DOMAIN commands' PROVE Goal
    BY <1>1 DEF Send
  <1>2. CASE applyPolicyMatch
    <2> DEFINE fired == poll.due \ episode.fired
    <2>1. CASE sent' = sent
      BY <1>0, <2>1
    <2>2. CASE Known(episode.cmd) /\ WidenEpisodeCommand(fired)
      <3>1. episode.cmd \in DOMAIN commands' /\ \E S : Send(S, episode.cmd)
        BY <2>2 DEF WidenEpisodeCommand, Known
      <3>2. QED
        BY <1>1, <3>1
    <2>3. CASE CreateEpisodeCommand(fired)
      <3>1. PICK c, f, x, S : commands' = Put(f, c, x) /\ Send(S, c)
        BY <2>3 DEF CreateEpisodeCommand
      <3>2. QED
        BY <1>1, <3>1 DEF Put
    <2>4. QED
      BY <1>2, <2>1, <2>2, <2>3 DEF applyPolicyMatch
  <1>3. CASE PollStep /\ ~applyPolicyMatch
    BY <1>0, <1>3 DEF PollStep, PollUPS, endEpisodeOnLinePower, ConfirmReading, VouchForEpisode,
                      startEpisodeIfNeeded, evaluateEpisodePolicies, net
  <1>4. CASE retryEpisodeShutdown
    <2>1. episode.cmd \in DOMAIN commands' /\ \E S : Send(S, episode.cmd)
      BY <1>4 DEF retryEpisodeShutdown, Known
    <2>2. QED
      BY <1>1, <2>1
  <1>5. CASE evaluateLocalShutdown
    <2>1. commands' = commands
      BY <1>5 DEF evaluateLocalShutdown
    <2>2. PICK e, t : \/ ArmEmergency(e, t)
                      \/ CancelWaiting(e, t)
                      \/ FinishWaiting(e, t)
                      \/ EscalateWaiting(e, t)
                      \/ ExpireWaiting(e, t)
                      \/ ResumeLocal(e, t)
                      \/ LeaveLocal(e, t)
      BY <1>5 DEF evaluateLocalShutdown
    <2>3. CASE ArmEmergency(e, t)
      BY <1>0, <1>1, <2>1, <2>3 DEF ArmEmergency, Known
    <2>4. CASE EscalateWaiting(e, t)
      BY <1>1, <2>1, <2>4 DEF EscalateWaiting, Cancelled, Known
    <2>5. CASE ~ArmEmergency(e, t) /\ ~EscalateWaiting(e, t)
      BY <1>0, <2>2, <2>5 DEF CancelWaiting, FinishWaiting, ExpireWaiting, ResumeLocal, LeaveLocal
    <2>6. QED
      BY <2>3, <2>4, <2>5
  <1>6. CASE MarkTimedOutCommands \/ SkipRetry \/ SampleUPSStatus \/ SkipLocalShutdown
    BY <1>0, <1>6 DEF MarkTimedOutCommands, SkipRetry, SampleUPSStatus, SkipLocalShutdown, net
  <1>7. ASSUME NEW w \in Worker, ExecutionStep(w) PROVE Goal
    BY <1>0, <1>7 DEF ExecutionStep, DropExecution, beginLocalShutdownExecution,
                      finishLocalShutdownExecution, net
  <1>8. CASE ConnStep
    <2>1. ASSUME NEW n \in Node, Register(n) \/ Disconnect(n) PROVE Goal
      BY <1>0, <2>1 DEF Register, Disconnect
    <2>2. ASSUME NEW n \in Node, replayPendingShutdown(n) PROVE Goal
      <3>1. CASE sent' = sent
        BY <1>0, <3>1
      <3>2. CASE Send({n}, active) /\ active \in DOMAIN commands'
        BY <1>1, <3>2
      <3>3. sent' = sent \/ (Send({n}, active) /\ active \in DOMAIN commands')
        BY <2>2 DEF replayPendingShutdown, Known
      <3>4. QED
        BY <3>1, <3>2, <3>3
    <2>3. ASSUME NEW h \in Handler, NEW n \in Node, NEW c \in CmdId, NEW status \in AckStatus,
                 recordShutdownUpdate(h, n, c, status)
          PROVE  Goal
      BY <1>0, <2>3 DEF recordShutdownUpdate, net
    <2>4. QED
      BY <1>8, <2>1, <2>2, <2>3 DEF ConnStep
  <1>9. CASE TriggerShutdown
    <2>1. PICK c, x, S : commands' = Put(commands, c, x) /\ Send(S, c)
      BY <1>9 DEF TriggerShutdown
    <2>2. QED
      BY <1>1, <2>1 DEF Put
  <1>10. CASE SelectManualTargets \/ RejectManualShutdown \/ ResetActiveCommand
    BY <1>0, <1>10 DEF SelectManualTargets, RejectManualShutdown, ResetActiveCommand, net
  <1>11. CASE persistState \/ UNCHANGED vars
    BY <1>0, <1>11 DEF persistState, vars, net
  <1>12. QED
    BY <1>2, <1>3, <1>4, <1>5, <1>6, <1>7, <1>8, <1>9, <1>10, <1>11
    DEF Next, WatchStep, AdminStep

\* Every command in memory, in the state file or on its way to a node has an ID
\* that was issued: a new ID is one that nothing refers to.
IssuedInv ==
  /\ DOMAIN commands \subseteq issued
  /\ DOMAIN disk.commands \subseteq issued
  /\ \A m \in sent : m[2] \in issued

\* IssuedInv is inductive.
LEMMA IssuedCorrect == Spec => []IssuedInv
  <1>1. Init => IssuedInv
    BY DEF Init, IssuedInv, NoCommands, EmptyFile
  <1>2. TypeOK /\ IssuedInv /\ [Next]_vars => IssuedInv'
    <2> SUFFICES ASSUME TypeOK, IssuedInv, [Next]_vars PROVE IssuedInv'
      OBVIOUS
    <2>1. CASE Restart
      BY <2>1 DEF Restart, IssuedInv, EmptyFile, NoCommands
    <2>2. CASE ~Restart
      <3>1. TableEvolves
        BY <2>2, CommandsEvolve DEF IssuedInv
      <3>2. DOMAIN commands' \subseteq issued' /\ issued \subseteq issued'
        BY <3>1 DEF TableEvolves, IssuedInv
      <3>3. \A m \in sent' : m[2] \in issued'
        BY <2>2, <3>2, SentIsKnown DEF IssuedInv
      <3>4. disk' = disk \/ disk'.commands = commands
        <4>1. persistState => disk' = disk \/ disk'.commands = commands
          BY DEF persistState, Snapshot
        <4>2. UNCHANGED vars => disk' = disk
          BY DEF vars, file
        <4>3. QED
          BY <2>2, <4>1, <4>2, FileUnchanged DEF Next
      <3>5. QED
        BY <3>2, <3>3, <3>4 DEF IssuedInv
    <2>3. QED
      BY <2>1, <2>2
  <1>3. QED
    BY <1>1, <1>2, TypeCorrect, PTL DEF Spec

\* While the master lives a command only widens: no node, no target, no
\* confirmed outcome and no disabling is ever taken back.
THEOREM CommandsWiden == Spec => CommandsOnlyWiden
  <1> DEFINE Widens ==
        Lives => \A c \in DOMAIN commands \cap DOMAIN commands' :
          /\ commands[c].nodes \subseteq commands'[c].nodes
          /\ selectTargets(Node, commands[c].target)
               \subseteq selectTargets(Node, commands'[c].target)
          /\ commands[c].replayDisabled => commands'[c].replayDisabled
          /\ \A n \in Node : isReplayDoneStatus(commands[c].upd[n])
               => commands'[c].upd[n] = commands[c].upd[n]
  <1>1. TypeOK /\ IssuedInv /\ [Next]_vars => [Widens]_vars
    <2> SUFFICES ASSUME TypeOK, IssuedInv, [Next]_vars PROVE Widens
      OBVIOUS
    <2>1. CASE Restart
      <3>1. restarts \in Nat /\ restarts' = restarts + 1
        BY <2>1, MasterAssumption DEF Restart, TypeOK
      <3>2. ~Lives
        BY <3>1 DEF Lives
      <3>3. QED
        BY <3>2
    <2>2. CASE ~Restart
      <3>1. TableEvolves
        BY <2>2, CommandsEvolve DEF IssuedInv
      <3>2. QED
        BY <3>1 DEF TableEvolves, Evolves
    <2>3. QED
      BY <2>1, <2>2
  <1>2. QED
    BY <1>1, TypeCorrect, IssuedCorrect, PTL DEF Spec, CommandsOnlyWiden

(***************************************************************************)
(* LocalFollowsCommand.  A phase fixes the triggers it can have been given *)
(* for, and a goroutine that is about to begin carries a trigger that is   *)
(* still justified, unless its command is forgotten: the decision is taken *)
(* under the lock, the lock given up, and the phase set when it is taken   *)
(* again.                                                                  *)
(***************************************************************************)
LocalShape(loc) ==
  /\ loc.phase = "idle" => loc.trigger = NoTrigger
  /\ loc.phase = "emergency" => loc.trigger \in {"emergency", "ups_unreachable"}
  /\ loc.phase = "wait_expired" => loc.trigger = "wait_expired"
  /\ loc.phase = "waiting_remote" => loc.trigger \in {NoTrigger, "remote_complete"}

\* What is required of the local shutdown loc next to the commands cmds.
Sound(cmds, loc) == FollowsCommand(cmds, loc) /\ LocalShape(loc)

Justified(j) ==
  /\ j.cmd \in issued \cup {NoCmd}
  /\ j.pc = "begin" =>
       /\ j.trigger # NoTrigger
       /\ j.trigger \in {"remote_complete", "wait_expired"} =>
            j.cmd \in issued /\ (Known(j.cmd) => commands[j.cmd].target.all)

FollowInv ==
  /\ Sound(commands, local)
  /\ Sound(disk.commands, disk.local)
  /\ \A w \in Worker : Justified(job[w])

\* No local shutdown at all is sound.
LEMMA NoLocalSound == ASSUME NEW f PROVE Sound(f, NoLocal)
  BY DEF Sound, FollowsCommand, LocalShape, NoLocal, NoTrigger

\* A sound local shutdown stays sound while the commands evolve.
LEMMA SoundKept ==
  ASSUME TableEvolves, Sound(commands, local) PROVE Sound(commands', local)
  <1>1. local.phase # "idle" /\ local.cmd \in DOMAIN commands =>
          local.cmd \in DOMAIN commands' /\ Evolves(commands[local.cmd], commands'[local.cmd])
    BY DEF TableEvolves, LocalPresent, Known
  <1>2. LocalShape(local) /\ FollowsCommand(commands, local)
    BY DEF Sound
  <1>3. FollowsCommand(commands', local)
    BY <1>1, <1>2 DEF FollowsCommand, LocalShape, Evolves, NoTrigger
  <1>4. QED
    BY <1>2, <1>3 DEF Sound

\* A justified decision stays justified while the commands evolve.
LEMMA JustifiedKept ==
  ASSUME TableEvolves, NEW j, Justified(j)
  PROVE  /\ j.cmd \in issued' \cup {NoCmd}
         /\ j.pc = "begin" =>
              /\ j.trigger # NoTrigger
              /\ j.trigger \in {"remote_complete", "wait_expired"} =>
                   /\ j.cmd \in issued'
                   /\ j.cmd \in DOMAIN commands' => commands'[j.cmd].target.all
  BY DEF TableEvolves, Justified, Known, Evolves

\* No execution is justified.
LEMMA IdleJustified == Justified(NoJob)
  BY DEF Justified, NoJob

\* What armLocalShutdown leaves is sound if its argument was.
LEMMA ArmSound ==
  ASSUME NEW f, NEW c \in DOMAIN f, NEW cur, Sound(f, cur), NEW on, NEW x, x = f[c]
  PROVE  Sound(f, armLocalShutdown(cur, c, x, on))
  <1>1. CASE armLocalShutdown(cur, c, x, on) = cur
    BY <1>1
  <1>2. CASE /\ x.target.all
             /\ armLocalShutdown(cur, c, x, on) = [phase |-> "waiting_remote", cmd |-> c,
                                                   trigger |-> NoTrigger, dry |-> x.dry]
    BY <1>2 DEF Sound, FollowsCommand, LocalShape, NoTrigger
  <1>3. QED
    BY <1>1, <1>2 DEF armLocalShutdown

\* Steps that leave the executions and the file alone.
LEMMA FollowReduced ==
  ASSUME FollowInv, TableEvolves, UNCHANGED <<job, disk>>, Sound(commands', local')
  PROVE  FollowInv'
  <1>1. \A w \in Worker : Justified(job[w])'
    BY JustifiedKept DEF FollowInv, Justified, Known
  <1>2. QED
    BY <1>1 DEF FollowInv

\* The polling loop drops a local shutdown, or arms one for the command it
\* creates or widens.
LEMMA FollowPoll ==
  ASSUME TypeOK, IssuedInv, FollowInv, PollStep PROVE FollowInv'
  <1>0. /\ TableEvolves /\ Sound(commands, local)
        /\ \A loc \in {local, NoLocal} : Sound(commands', loc)
    BY EvolvePoll, SoundKept, NoLocalSound DEF IssuedInv, FollowInv
  <1>1. UNCHANGED <<job, disk>>
    BY DEF PollStep, PollUPS, endEpisodeOnLinePower, ConfirmReading, VouchForEpisode, startEpisodeIfNeeded,
           evaluateEpisodePolicies, applyPolicyMatch, file
  <1>2. CASE local' \in {local, NoLocal}
    BY <1>0, <1>1, <1>2, FollowReduced
  <1>3. CASE applyPolicyMatch /\ local' \notin {local, NoLocal}
    <2> DEFINE fired == poll.due \ episode.fired
    <2>1. CASE Known(episode.cmd) /\ WidenEpisodeCommand(fired)
      <3>1. PICK x : /\ commands' = [commands EXCEPT ![episode.cmd] = x]
                     /\ local' = armLocalShutdown(local, episode.cmd, x, TRUE)
        BY <1>3, <2>1 DEF WidenEpisodeCommand
      <3>2. episode.cmd \in DOMAIN commands' /\ x = commands'[episode.cmd]
        BY <2>1, <3>1 DEF Known, TypeOK, CoreTypeOK, IsCommands
      <3>3. Sound(commands', local')
        BY <1>0, <3>1, <3>2, ArmSound
      <3>4. QED
        BY <1>0, <1>1, <3>3, FollowReduced
    <2>2. CASE CreateEpisodeCommand(fired)
      <3> DEFINE kept == IF /\ Known(active) /\ ~commands[active].auto
                            /\ LocalPresent /\ local.cmd = active
                            /\ ~localShutdownTerminal(local.phase)
                         THEN NoLocal ELSE local
      <3>1. PICK c, x, f : /\ commands' = Put(f, c, x)
                           /\ local' = armLocalShutdown(kept, c, x, TRUE)
        BY <2>2 DEF CreateEpisodeCommand
      <3>2. c \in DOMAIN commands' /\ x = commands'[c]
        BY <3>1 DEF Put
      <3>3. Sound(commands', kept)
        BY <1>0
      <3> HIDE DEF kept
      <3>4. Sound(commands', local')
        BY <3>1, <3>2, <3>3, ArmSound
      <3>5. QED
        BY <1>0, <1>1, <3>4, FollowReduced
    <2>3. QED
      BY <1>3, <2>1, <2>2 DEF applyPolicyMatch, core
  <1>4. QED
    BY <1>2, <1>3 DEF PollStep, PollUPS, endEpisodeOnLinePower, ConfirmReading, VouchForEpisode,
                      startEpisodeIfNeeded, evaluateEpisodePolicies, core

\* The admin API likewise.
LEMMA FollowAdmin ==
  ASSUME TypeOK, IssuedInv, FollowInv, AdminStep PROVE FollowInv'
  <1>0. /\ TableEvolves /\ Sound(commands, local)
        /\ \A loc \in {local, NoLocal} : Sound(commands', loc)
    BY EvolveAdmin, SoundKept, NoLocalSound DEF IssuedInv, FollowInv
  <1>1. UNCHANGED <<job, disk>>
    BY DEF AdminStep, SelectManualTargets, TriggerShutdown, RejectManualShutdown,
           ResetActiveCommand, file
  <1>2. CASE local' \in {local, NoLocal}
    BY <1>0, <1>1, <1>2, FollowReduced
  <1>3. CASE TriggerShutdown
    <2>1. PICK c, x : /\ commands' = Put(commands, c, x)
                      /\ local' = armLocalShutdown(local, c, x, episode.on)
      BY <1>3 DEF TriggerShutdown
    <2>2. c \in DOMAIN commands' /\ x = commands'[c]
      BY <2>1 DEF Put
    <2>3. Sound(commands', local')
      BY <1>0, <2>1, <2>2, ArmSound
    <2>4. QED
      BY <1>0, <1>1, <2>3, FollowReduced
  <1>4. QED
    BY <1>2, <1>3 DEF AdminStep, SelectManualTargets, RejectManualShutdown,
                      ResetActiveCommand, core

\* Steps that give one goroutine another job.
LEMMA FollowJob ==
  ASSUME TypeOK, FollowInv, TableEvolves, disk' = disk, Sound(commands', local'),
         NEW w \in Worker, NEW j, job' = [job EXCEPT ![w] = j], Justified(j)'
  PROVE  FollowInv'
  <1>1. \A v \in Worker : job'[v] = IF v = w THEN j ELSE job[v]
    BY DEF TypeOK
  <1>2. \A v \in Worker : Justified(job[v])'
    BY <1>1, JustifiedKept DEF FollowInv, Justified, Known
  <1>3. QED
    BY <1>2 DEF FollowInv

\* What a tick calls an emergency was one of two things.
LEMMA EmergencyKinds ==
  ASSUME NEW silent, Emergency(silent) # NoTrigger
  PROVE  Emergency(silent) \in {"emergency", "ups_unreachable"}
  BY DEF Emergency, emergencyTrigger, NoTrigger

\* The watcher: every decision it takes is justified by the phase it decides on.
LEMMA FollowWatch ==
  ASSUME TypeOK, Live, IssuedInv, FollowInv, WatchStep PROVE FollowInv'
  <1>0. /\ TableEvolves /\ Sound(commands, local)
        /\ \A loc \in {local, NoLocal} : Sound(commands', loc)
    BY EvolveWatch, SoundKept, NoLocalSound DEF FollowInv
  <1>1. disk' = disk
    BY FileUnchanged
  <1>2. CASE local' \in {local, NoLocal} /\ job' = job
    BY <1>0, <1>1, <1>2, FollowReduced
  <1>3. CASE evaluateLocalShutdown
    <2>1. PICK silent, t :
            \/ ArmEmergency(Emergency(silent), t)
            \/ CancelWaiting(Emergency(silent), t)
            \/ FinishWaiting(Emergency(silent), t)
            \/ EscalateWaiting(Emergency(silent), t)
            \/ ExpireWaiting(Emergency(silent), t)
            \/ ResumeLocal(Emergency(silent), t)
            \/ LeaveLocal(Emergency(silent), t)
      BY <1>3 DEF evaluateLocalShutdown, upsSilentFor
    <2> DEFINE e == Emergency(silent)
    <2>2. e # NoTrigger => e \in {"emergency", "ups_unreachable"}
      BY EmergencyKinds
    <2> HIDE DEF e
    <2>3. commands' = commands /\ issued' = issued /\ local \in LocalType /\ "watcher" \in Worker
      BY <1>3 DEF evaluateLocalShutdown, ids, TypeOK, CoreTypeOK, Worker
    <2>4. NoCmd \notin issued /\ DOMAIN commands \subseteq issued
      BY MasterAssumption DEF TypeOK, IssuedInv
    <2>5. FollowsCommand(commands, local) /\ LocalShape(local)
      BY <1>0 DEF Sound
    <2>6. ASSUME NEW j, Justified(j), job' = [job EXCEPT !["watcher"] = j],
                 Sound(commands, local')
          PROVE  FollowInv'
      <3>1. Justified(j)'
        BY <2>3, <2>6 DEF Justified, Known
      <3>2. QED
        BY <1>0, <1>1, <2>3, <2>6, <3>1, FollowJob
    <2>7. CASE ArmEmergency(e, t)
      <3> DEFINE j == [pc |-> "begin", cmd |-> episode.cmd, trigger |-> e]
      <3>1. episode.cmd # NoCmd => episode.cmd \in DOMAIN commands
        BY DEF Live, LiveAuto
      <3>2. e \in {"emergency", "ups_unreachable"}
        BY <2>2, <2>7 DEF ArmEmergency
      <3>3. Justified(j)
        BY <2>4, <3>1, <3>2 DEF Justified, NoTrigger
      <3>4. Sound(commands, local')
        BY <2>7, <3>1, <3>2 DEF ArmEmergency, Sound, FollowsCommand, LocalShape, NoTrigger, Known
      <3>5. QED
        BY <2>6, <2>7, <3>3, <3>4 DEF ArmEmergency, WatcherBegins
    <2>8. CASE FinishWaiting(e, t)
      <3> DEFINE j == [pc |-> "begin", cmd |-> local.cmd, trigger |-> "remote_complete"]
      <3>1. local.cmd \in DOMAIN commands /\ commands[local.cmd].target.all
        BY <2>5, <2>8 DEF FinishWaiting, FollowsCommand
      <3>2. Justified(j)
        BY <2>4, <3>1 DEF Justified, NoTrigger
      <3>3. Sound(commands, local')
        BY <2>3, <2>5, <2>8, <3>1
        DEF FinishWaiting, LocalType, Sound, FollowsCommand, LocalShape, NoTrigger
      <3>4. QED
        BY <2>6, <2>8, <3>2, <3>3 DEF FinishWaiting, WatcherBegins
    <2>9. CASE EscalateWaiting(e, t)
      <3> DEFINE j == [pc |-> "begin", cmd |-> local.cmd, trigger |-> e]
      <3>1. local.cmd \in DOMAIN commands /\ e \in {"emergency", "ups_unreachable"}
        BY <2>2, <2>5, <2>9 DEF EscalateWaiting, FollowsCommand
      <3>2. Justified(j)
        BY <2>4, <3>1 DEF Justified, NoTrigger
      <3>3. Sound(commands, local')
        BY <2>3, <2>5, <2>9, <3>1
        DEF EscalateWaiting, LocalType, Sound, FollowsCommand, LocalShape, NoTrigger
      <3>4. QED
        BY <2>6, <2>9, <3>2, <3>3 DEF EscalateWaiting, WatcherBegins
    <2>10. CASE ExpireWaiting(e, t)
      <3> DEFINE j == [pc |-> "begin", cmd |-> local.cmd, trigger |-> "wait_expired"]
      <3>1. local.cmd \in DOMAIN commands /\ commands[local.cmd].target.all
        BY <2>5, <2>10 DEF ExpireWaiting, FollowsCommand
      <3>2. Justified(j)
        BY <2>4, <3>1 DEF Justified, NoTrigger
      <3>3. Sound(commands, local')
        BY <2>3, <2>5, <2>10, <3>1
        DEF ExpireWaiting, LocalType, Sound, FollowsCommand, LocalShape, NoTrigger
      <3>4. QED
        BY <2>6, <2>10, <3>2, <3>3 DEF ExpireWaiting, WatcherBegins
    <2>11. CASE ResumeLocal(e, t)
      <3> DEFINE j == [pc |-> "begin", cmd |-> local.cmd, trigger |-> local.trigger]
      <3>1. local.phase \in {"wait_expired", "emergency", "failed"} /\ local' = local
        BY <2>11 DEF ResumeLocal
      <3>2. job' = [job EXCEPT !["watcher"] = j]
        BY <2>5, <2>11 DEF ResumeLocal, WatcherBegins, LocalShape
      <3>3. Justified(j)
        BY <2>4, <2>5, <3>1 DEF Justified, FollowsCommand, Known
      <3>4. QED
        BY <1>0, <2>6, <3>1, <3>2, <3>3
    <2>12. CASE CancelWaiting(e, t) \/ LeaveLocal(e, t)
      BY <1>2, <2>12 DEF CancelWaiting, LeaveLocal
    <2>13. QED
      BY <2>1, <2>7, <2>8, <2>9, <2>10, <2>11, <2>12 DEF e
  <1>4. QED
    BY <1>2, <1>3 DEF WatchStep, MarkTimedOutCommands, retryEpisodeShutdown, SkipRetry,
                      SampleUPSStatus, SkipLocalShutdown, core

\* An execution takes over the trigger it was decided with, and its outcome is
\* recorded on a phase that had one.
LEMMA FollowExecution ==
  ASSUME TypeOK, ExecInv, IssuedInv, FollowInv, NEW w \in Worker, ExecutionStep(w)
  PROVE  FollowInv'
  <1>0. /\ commands' = commands /\ issued' = issued /\ disk' = disk
        /\ local \in LocalType /\ job[w] \in JobType
    BY FileUnchanged DEF ExecutionStep, DropExecution, beginLocalShutdownExecution,
           finishLocalShutdownExecution, core, ids, TypeOK, CoreTypeOK
  <1>1. /\ TableEvolves /\ FollowsCommand(commands, local) /\ LocalShape(local)
        /\ Justified(job[w])
    BY <1>0, TableUnchanged DEF FollowInv, Sound
  <1>2. ASSUME NEW j, Justified(j), job' = [job EXCEPT ![w] = j], Sound(commands, local')
        PROVE  FollowInv'
    <2>1. Justified(j)'
      BY <1>0, <1>2 DEF Justified, Known
    <2>2. QED
      BY <1>0, <1>1, <1>2, <2>1, FollowJob
  <1>3. CASE DropExecution(w)
    BY <1>1, <1>2, <1>3, IdleJustified DEF DropExecution, core, Sound
  <1>4. CASE beginLocalShutdownExecution(w)
    <2> DEFINE j == [job[w] EXCEPT !.pc = "persist"]
    <2>1. job' = [job EXCEPT ![w] = j]
      BY <1>4 DEF beginLocalShutdownExecution
    <2>2. Justified(j)
      BY <1>0, <1>1 DEF Justified, JobType
    <2>3. /\ local' = [local EXCEPT !.phase = "executing", !.trigger = job[w].trigger]
          /\ job[w].pc = "begin" /\ local.cmd = job[w].cmd /\ local.phase # "idle"
      BY <1>4 DEF beginLocalShutdownExecution, BeginRefused, LocalPresent
    <2>4. /\ local'.phase = "executing" /\ local'.trigger = job[w].trigger
          /\ local'.cmd = local.cmd /\ local'.dry = local.dry
      BY <1>0, <2>3 DEF LocalType
    <2>5. NoCmd \notin issued
      BY MasterAssumption DEF TypeOK
    <2>6. local.cmd # NoCmd => local.cmd \in DOMAIN commands /\ local.dry = commands[local.cmd].dry
      BY <1>1, <2>3 DEF FollowsCommand
    <2>7. job[w].trigger # NoTrigger
          /\ (job[w].trigger \in {"remote_complete", "wait_expired"}
                => local.cmd \in DOMAIN commands /\ commands[local.cmd].target.all)
      BY <1>1, <2>3, <2>5, <2>6 DEF Justified, Known
    <2>8. Sound(commands, local')
      BY <2>4, <2>6, <2>7 DEF Sound, FollowsCommand, LocalShape
    <2> HIDE DEF j
    <2>9. QED
      BY <1>2, <2>1, <2>2, <2>8
  <1>5. CASE finishLocalShutdownExecution(w)
    <2>1. local.phase = "executing" /\ local.cmd = job[w].cmd
      BY <1>5 DEF finishLocalShutdownExecution, ExecInv, OneExecution
    <2>2. PICK p \in {"completed", "failed"} : local' = [local EXCEPT !.phase = p]
      BY <1>5, <2>1 DEF finishLocalShutdownExecution, LocalPresent
    <2>3. /\ local'.phase = p /\ local'.trigger = local.trigger
          /\ local'.cmd = local.cmd /\ local'.dry = local.dry
      BY <1>0, <2>2 DEF LocalType
    <2>4. Sound(commands, local')
      BY <1>1, <2>1, <2>3 DEF Sound, FollowsCommand, LocalShape
    <2>5. QED
      BY <1>2, <1>5, <2>4, IdleJustified DEF finishLocalShutdownExecution
  <1>6. QED
    BY <1>3, <1>4, <1>5 DEF ExecutionStep

\* The ack that completes a command decides for the command it acks.
LEMMA FollowConn ==
  ASSUME TypeOK, IssuedInv, FollowInv, ConnStep PROVE FollowInv'
  <1>0. TableEvolves /\ Sound(commands', local) /\ disk' = disk /\ local \in LocalType
    BY EvolveConn, SoundKept, FileUnchanged DEF FollowInv, TypeOK, CoreTypeOK
  <1>1. CASE UNCHANGED <<local, job>>
    BY <1>0, <1>1, FollowReduced
  <1>2. ASSUME NEW h \in Handler, NEW n \in Node, NEW c \in CmdId, NEW status \in AckStatus,
               recordShutdownUpdate(h, n, c, status), ~UNCHANGED <<local, job>>
        PROVE  FollowInv'
    <2> DEFINE j == [pc |-> "begin", cmd |-> c, trigger |-> "remote_complete"]
    <2>1. /\ local.phase = "waiting_remote" /\ local.cmd = c
          /\ local' = [local EXCEPT !.trigger = "remote_complete"]
          /\ job' = [job EXCEPT ![h] = j] /\ h \in Worker
          /\ issued' = issued /\ c \in DOMAIN commands
      BY <1>2 DEF recordShutdownUpdate, Known, Worker, ids
    <2>2. FollowsCommand(commands', local) /\ c \in issued
      BY <1>0, <2>1 DEF Sound, IssuedInv
    <2>3. c \in DOMAIN commands' /\ commands'[c].target.all
      BY <2>1, <2>2 DEF FollowsCommand
    <2>4. Justified(j)'
      BY <2>1, <2>2, <2>3 DEF Justified, Known, NoTrigger
    <2>5. /\ local'.phase = "waiting_remote" /\ local'.trigger = "remote_complete"
          /\ local'.cmd = c /\ local'.dry = local.dry
      BY <1>0, <2>1 DEF LocalType
    <2>6. Sound(commands', local')
      BY <2>1, <2>2, <2>3, <2>5 DEF Sound, FollowsCommand, LocalShape
    <2> HIDE DEF j
    <2>7. QED
      BY <1>0, <2>1, <2>4, <2>6, FollowJob
  <1>3. QED
    <2>1. \A n \in Node : Register(n) \/ Disconnect(n) => UNCHANGED <<local, job>>
      BY DEF Register, Disconnect, core
    <2>2. \A n \in Node : replayPendingShutdown(n) => UNCHANGED <<local, job>>
      BY DEF replayPendingShutdown
    <2>3. QED
      BY <1>1, <1>2, <2>1, <2>2 DEF ConnStep

\* The file is written from a sound state, and loaded into one.
LEMMA FollowFile ==
  ASSUME TypeOK, FollowInv, persistState \/ Restart PROVE FollowInv'
  <1>1. CASE persistState
    <2>1. UNCHANGED <<commands, local, issued>>
      BY <1>1 DEF persistState, core, ids
    <2>2. Sound(commands, persistedLocalShutdownState(local))
      BY NoLocalSound DEF FollowInv, persistedLocalShutdownState
    <2>3. Sound(disk.commands, disk.local)'
      BY <1>1, <2>2 DEF persistState, Snapshot, FollowInv
    <2>4. \A v \in Worker : job'[v] = IF job[v].pc = "persist" THEN [job[v] EXCEPT !.pc = "run"]
                                                               ELSE job[v]
      BY <1>1 DEF persistState
    <2>5. ASSUME NEW v \in Worker PROVE Justified(job[v])'
      <3>1. job[v] \in JobType /\ Justified(job[v])
        BY DEF TypeOK, FollowInv
      <3>2. job'[v] = job[v] \/ (job'[v].pc = "run" /\ job'[v].cmd = job[v].cmd)
        BY <2>4, <3>1 DEF JobType
      <3>3. QED
        BY <2>1, <3>1, <3>2 DEF Justified, Known
    <2>6. QED
      BY <2>1, <2>3, <2>5 DEF FollowInv
  <1>2. CASE Restart
    <2>1. local' \in {disk.local, NoLocal} /\ commands' = disk.commands
      BY <1>2 DEF Restart, normalizeLoadedLocalShutdown
    <2>2. Sound(commands, local)'
      BY <2>1, NoLocalSound DEF FollowInv
    <2>3. Sound(disk.commands, disk.local)'
      BY <1>2, NoLocalSound DEF Restart, EmptyFile, FollowInv
    <2>4. \A v \in Worker : Justified(job[v])'
      BY <1>2 DEF Restart, Justified, NoJob
    <2>5. QED
      BY <2>2, <2>3, <2>4 DEF FollowInv
  <1>3. QED
    BY <1>1, <1>2

\* FollowInv is inductive.
LEMMA FollowCorrect == Spec => []FollowInv
  <1>1. Init => FollowInv
    BY NoLocalSound, IdleJustified DEF Init, FollowInv, EmptyFile
  <1>2. TypeOK /\ EpisodeCommandIsLive /\ ExecInv /\ IssuedInv /\ FollowInv /\ [Next]_vars
          => FollowInv'
    <2> SUFFICES ASSUME TypeOK, EpisodeCommandIsLive, ExecInv, IssuedInv, FollowInv, [Next]_vars
                 PROVE  FollowInv'
      OBVIOUS
    <2>0. Live
      BY DEF EpisodeCommandIsLive, Live
    <2>1. CASE Next
      BY <2>0, <2>1, FollowPoll, FollowWatch, FollowExecution, FollowConn, FollowAdmin, FollowFile
      DEF Next
    <2>2. CASE UNCHANGED vars
      <3>1. UNCHANGED <<commands, issued, local, job, disk>>
        BY <2>2 DEF vars, core, ids, file
      <3>2. QED
        BY <3>1, TableUnchanged, FollowReduced DEF FollowInv
    <2>3. QED
      BY <2>1, <2>2
  <1>3. QED
    BY <1>1, <1>2, TypeCorrect, EpisodeCommand, ExecCorrect, IssuedCorrect, PTL DEF Spec

\* The master's own shutdown belongs to a known command for all nodes or to an
\* emergency, with the dry_run of its command; in memory and in the state file.
THEOREM LocalFollows == Spec => []LocalFollowsCommand
  <1>1. FollowInv => LocalFollowsCommand
    BY DEF FollowInv, Sound, LocalFollowsCommand
  <1>2. QED
    BY <1>1, FollowCorrect, PTL

(***************************************************************************)
(* RemoteCompleteIsReported.  The phases fix the trigger a decision can    *)
(* have, so that only the two places that look at remoteShutdownFinished   *)
(* decide on remote_complete.                                              *)
(***************************************************************************)

\* The targets of c reported, and there are some.
Reported(cmds, c) ==
  /\ cmds[c].nodes # {}
  /\ \A n \in cmds[c].nodes : cmds[c].upd[n] \in {"executed", "simulated", "failed"}

\* The watcher decides on remote_complete only when every target reported.
LEMMA WatcherDecides ==
  ASSUME TypeOK, FollowInv, evaluateLocalShutdown, local.phase # "failed",
         NEW w \in Worker, job[w].pc = "idle", job'[w].pc = "begin",
         job'[w].trigger = "remote_complete"
  PROVE  Reported(commands', job'[w].cmd)
  <1>1. PICK silent, t :
          \/ ArmEmergency(Emergency(silent), t)
          \/ CancelWaiting(Emergency(silent), t)
          \/ FinishWaiting(Emergency(silent), t)
          \/ EscalateWaiting(Emergency(silent), t)
          \/ ExpireWaiting(Emergency(silent), t)
          \/ ResumeLocal(Emergency(silent), t)
          \/ LeaveLocal(Emergency(silent), t)
    BY DEF evaluateLocalShutdown, upsSilentFor
  <1> DEFINE e == Emergency(silent)
  <1>2. e # "remote_complete"
    BY EmergencyKinds DEF NoTrigger
  <1> HIDE DEF e
  <1>3. ASSUME NEW c, NEW tr, WatcherBegins(c, tr)
        PROVE  tr = "remote_complete" /\ job'[w].cmd = c
    <2>1. \A v \in Worker : job'[v] = IF v = "watcher" THEN [pc |-> "begin", cmd |-> c, trigger |-> tr]
                                                       ELSE job[v]
      BY <1>3 DEF WatcherBegins, TypeOK
    <2>2. w = "watcher"
      BY <2>1
    <2>3. QED
      BY <2>1, <2>2
  <1>4. CASE ArmEmergency(e, t) \/ EscalateWaiting(e, t)
    BY <1>2, <1>3, <1>4 DEF ArmEmergency, EscalateWaiting
  <1>5. CASE ExpireWaiting(e, t)
    BY <1>3, <1>5 DEF ExpireWaiting
  <1>6. CASE ResumeLocal(e, t)
    <2>1. local.phase \in {"wait_expired", "emergency"}
      BY <1>6 DEF ResumeLocal
    <2>2. local.trigger # "remote_complete"
      BY <2>1 DEF FollowInv, Sound, LocalShape
    <2>3. QED
      BY <1>3, <1>6, <2>2 DEF ResumeLocal
  <1>7. CASE FinishWaiting(e, t)
    <2>1. remoteShutdownFinished(commands[local.cmd]) /\ commands' = commands
      BY <1>7 DEF FinishWaiting, evaluateLocalShutdown
    <2>2. job'[w].cmd = local.cmd
      BY <1>3, <1>7 DEF FinishWaiting
    <2>3. QED
      BY <2>1, <2>2 DEF remoteShutdownFinished, isFinalShutdownStatus, Reported
  <1>8. CASE CancelWaiting(e, t) \/ LeaveLocal(e, t)
    BY <1>8 DEF CancelWaiting, LeaveLocal
  <1>9. QED
    BY <1>1, <1>4, <1>5, <1>6, <1>7, <1>8 DEF e

\* So does the handler of an ack.
LEMMA HandlerDecides ==
  ASSUME TypeOK, NEW h \in Handler, NEW n \in Node, NEW c \in CmdId, NEW status \in AckStatus,
         recordShutdownUpdate(h, n, c, status),
         NEW w \in Worker, job[w].pc = "idle", job'[w].pc = "begin"
  PROVE  Reported(commands', job'[w].cmd)
  <1> DEFINE command == Report(commands[c], n, status)
  <1>1. /\ remoteShutdownFinished(command) /\ c \in DOMAIN commands
        /\ commands' = [commands EXCEPT ![c] = command]
        /\ job' = [job EXCEPT ![h] = [pc |-> "begin", cmd |-> c, trigger |-> "remote_complete"]]
    BY DEF recordShutdownUpdate, Known
  <1>2. w = h /\ job'[w].cmd = c
    BY <1>1 DEF TypeOK
  <1> HIDE DEF command
  <1>3. commands'[c] = command
    BY <1>1 DEF TypeOK, CoreTypeOK, IsCommands
  <1>4. QED
    BY <1>1, <1>2, <1>3 DEF remoteShutdownFinished, isFinalShutdownStatus, Reported

\* A decision for remote_complete is taken only on what every target reported
\* itself; the master's own verdict, a timeout, never counts.
THEOREM RemoteCompleteReported == Spec => RemoteCompleteIsReported
  <1> DEFINE Decides ==
        \A w \in Worker :
          /\ job[w].pc = "idle" /\ job'[w].pc = "begin" /\ job'[w].trigger = "remote_complete"
          /\ local.phase # "failed"
          => /\ commands'[job'[w].cmd].nodes # {}
             /\ \A n \in commands'[job'[w].cmd].nodes :
                  commands'[job'[w].cmd].upd[n] \in {"executed", "simulated", "failed"}
  <1>1. TypeOK /\ FollowInv /\ [Next]_vars => [Decides]_vars
    <2> SUFFICES ASSUME TypeOK, FollowInv, [Next]_vars, NEW w \in Worker,
                        job[w].pc = "idle", job'[w].pc = "begin",
                        job'[w].trigger = "remote_complete", local.phase # "failed"
                 PROVE  Reported(commands', job'[w].cmd)
      BY DEF Reported
    <2>1. job' # job
      OBVIOUS
    <2>2. ~PollStep /\ ~AdminStep /\ ~UNCHANGED vars
      BY <2>1 DEF PollStep, PollUPS, endEpisodeOnLinePower, ConfirmReading, VouchForEpisode,
         startEpisodeIfNeeded, evaluateEpisodePolicies, applyPolicyMatch, AdminStep,
         SelectManualTargets, TriggerShutdown, RejectManualShutdown, ResetActiveCommand, vars
    <2>3. CASE WatchStep
      BY <2>1, <2>3, WatcherDecides
      DEF WatchStep, MarkTimedOutCommands, retryEpisodeShutdown, SkipRetry, SampleUPSStatus,
          SkipLocalShutdown
    <2>4. ASSUME NEW v \in Worker, ExecutionStep(v) PROVE FALSE
      <3>1. \E j : j.pc # "begin" /\ job' = [job EXCEPT ![v] = j]
        <4>1. job[v] \in JobType
          BY DEF TypeOK
        <4>2. [job[v] EXCEPT !.pc = "persist"].pc = "persist"
          BY <4>1 DEF JobType
        <4>3. QED
          BY <2>4, <4>2 DEF ExecutionStep, DropExecution, beginLocalShutdownExecution,
                            finishLocalShutdownExecution, NoJob
      <3>2. QED
        BY <3>1 DEF TypeOK
    <2>5. CASE ConnStep
      <3>1. \A n \in Node : Register(n) \/ Disconnect(n) => job' = job
        BY DEF Register, Disconnect
      <3>2. \A n \in Node : replayPendingShutdown(n) => job' = job
        BY DEF replayPendingShutdown
      <3>3. QED
        BY <2>1, <2>5, <3>1, <3>2, HandlerDecides DEF ConnStep
    <2>6. CASE persistState
      BY <2>6 DEF persistState
    <2>7. CASE Restart
      BY <2>7 DEF Restart, NoJob
    <2>8. QED
      BY <2>2, <2>3, <2>4, <2>5, <2>6, <2>7 DEF Next
  <1>2. QED
    BY <1>1, TypeCorrect, FollowCorrect, PTL DEF Spec, RemoteCompleteIsReported

(***************************************************************************)
(* ConfirmedBeforeAction.  Nobody looks at upsConfirmed when an ack starts *)
(* a local shutdown, or when applyPolicyMatch sends; what protects them is *)
(* that the policies to apply were found on a confirmed UPS, that a node   *)
(* can only ack what was sent, and that a local shutdown restored from the *)
(* file for an automatic command is one of the restored episode.           *)
(***************************************************************************)
ApplyInv ==
  poll.pc = "apply" \/ (poll.pc = "evaluate" /\ ups # "error") => upsConfirmed

RestoredInv ==
  ~upsConfirmed /\ LocalPresent /\ Automatic(local.cmd) => localShutdownBelongsToEpisode

ConfirmInv == ConfirmedBeforeAction /\ ApplyInv /\ RestoredInv

\* The UPS stays confirmed until a restart.
LEMMA ConfirmedStays ==
  ASSUME [Next]_vars, ~Restart, upsConfirmed PROVE upsConfirmed'
  <1>1. PollStep => upsConfirmed'
    BY DEF PollStep, PollUPS, endEpisodeOnLinePower, ConfirmReading, VouchForEpisode,
           startEpisodeIfNeeded, evaluateEpisodePolicies, applyPolicyMatch, upsVars
  <1>2. WatchStep => upsConfirmed'
    BY DEF WatchStep, MarkTimedOutCommands, retryEpisodeShutdown, SkipRetry,
           SampleUPSStatus, evaluateLocalShutdown, SkipLocalShutdown, upsVars
  <1>3. \A w \in Worker : ExecutionStep(w) => upsConfirmed'
    BY DEF ExecutionStep, DropExecution, beginLocalShutdownExecution,
           finishLocalShutdownExecution, upsVars
  <1>4. ConnStep => upsConfirmed'
    <2>1. \A n \in Node : Register(n) \/ Disconnect(n) => upsConfirmed'
      BY DEF Register, Disconnect, upsVars
    <2>2. \A n \in Node : replayPendingShutdown(n) => upsConfirmed'
      BY DEF replayPendingShutdown, upsVars
    <2>3. \A h \in Handler, n \in Node, c \in CmdId, status \in AckStatus :
            recordShutdownUpdate(h, n, c, status) => upsConfirmed'
      BY DEF recordShutdownUpdate, upsVars
    <2>4. QED
      BY <2>1, <2>2, <2>3 DEF ConnStep
  <1>5. AdminStep => upsConfirmed'
    BY DEF AdminStep, SelectManualTargets, TriggerShutdown, RejectManualShutdown,
           ResetActiveCommand, upsVars
  <1>6. persistState \/ UNCHANGED vars => upsConfirmed'
    BY DEF persistState, vars, upsVars
  <1>7. QED
    BY <1>1, <1>2, <1>3, <1>4, <1>5, <1>6 DEF Next

\* Only the polling loop and a restart touch its program counter.
LEMMA PollUnchanged ==
  ASSUME [Next]_vars, ~PollStep, ~Restart PROVE poll' = poll
  <1>2. WatchStep => poll' = poll
    BY DEF WatchStep, MarkTimedOutCommands, retryEpisodeShutdown, SkipRetry,
           SampleUPSStatus, evaluateLocalShutdown, SkipLocalShutdown
  <1>3. \A w \in Worker : ExecutionStep(w) => poll' = poll
    BY DEF ExecutionStep, DropExecution, beginLocalShutdownExecution,
           finishLocalShutdownExecution
  <1>4. ConnStep => poll' = poll
    <2>1. \A n \in Node : Register(n) \/ Disconnect(n) => poll' = poll
      BY DEF Register, Disconnect
    <2>2. \A n \in Node : replayPendingShutdown(n) => poll' = poll
      BY DEF replayPendingShutdown
    <2>3. \A h \in Handler, n \in Node, c \in CmdId, status \in AckStatus :
            recordShutdownUpdate(h, n, c, status) => poll' = poll
      BY DEF recordShutdownUpdate
    <2>4. QED
      BY <2>1, <2>2, <2>3 DEF ConnStep
  <1>5. AdminStep => poll' = poll
    BY DEF AdminStep, SelectManualTargets, TriggerShutdown, RejectManualShutdown,
           ResetActiveCommand
  <1>6. persistState \/ UNCHANGED vars => poll' = poll
    BY DEF persistState, vars
  <1>7. QED
    BY <1>2, <1>3, <1>4, <1>5, <1>6 DEF Next

\* Only the polling loop and a restart write the UPS view.
LEMMA UPSUnchanged ==
  ASSUME [Next]_vars, ~PollStep, ~Restart PROVE ups' = ups
  <1>1. WatchStep => ups' = ups
    BY DEF WatchStep, MarkTimedOutCommands, retryEpisodeShutdown, SkipRetry,
           SampleUPSStatus, evaluateLocalShutdown, SkipLocalShutdown, upsVars
  <1>2. \A w \in Worker : ExecutionStep(w) => ups' = ups
    BY DEF ExecutionStep, DropExecution, beginLocalShutdownExecution,
           finishLocalShutdownExecution, upsVars
  <1>3. ConnStep => ups' = ups
    <2>1. \A n \in Node : Register(n) \/ Disconnect(n) => ups' = ups
      BY DEF Register, Disconnect, upsVars
    <2>2. \A n \in Node : replayPendingShutdown(n) => ups' = ups
      BY DEF replayPendingShutdown, upsVars
    <2>3. \A h \in Handler, n \in Node, c \in CmdId, status \in AckStatus :
            recordShutdownUpdate(h, n, c, status) => ups' = ups
      BY DEF recordShutdownUpdate, upsVars
    <2>4. QED
      BY <2>1, <2>2, <2>3 DEF ConnStep
  <1>4. AdminStep => ups' = ups
    BY DEF AdminStep, SelectManualTargets, TriggerShutdown, RejectManualShutdown,
           ResetActiveCommand, upsVars
  <1>5. persistState \/ UNCHANGED vars => ups' = ups
    BY DEF persistState, vars, upsVars
  <1>6. QED
    BY <1>1, <1>2, <1>3, <1>4, <1>5 DEF Next

\* There are policies to apply only once the UPS is confirmed.
LEMMA ApplyStep == ASSUME TypeOK, ApplyInv, [Next]_vars PROVE ApplyInv'
  <1>0. poll \in PollType
    BY DEF TypeOK
  <1>1. CASE evaluateEpisodePolicies
    <2>1. CASE poll'.pc # "apply"
      <3>1. poll'.pc # "evaluate"
        BY <1>1 DEF evaluateEpisodePolicies, PollIdle
      <3>2. QED
        BY <2>1, <3>1 DEF ApplyInv
    <2>2. CASE poll'.pc = "apply"
      <3>1. PICK matching :
              /\ matching \ episode.fired # {}
              /\ ~(ups = "error" /\ matching # {} /\ ~upsConfirmed)
        BY <1>1, <2>2 DEF evaluateEpisodePolicies, PollIdle
      <3>2. matching # {}
        BY <3>1
      <3>3. poll.pc = "evaluate" /\ upsConfirmed' = upsConfirmed
        BY <1>1 DEF evaluateEpisodePolicies, upsVars
      <3>4. upsConfirmed'
        BY <3>1, <3>2, <3>3 DEF ApplyInv
      <3>5. QED
        BY <3>4 DEF ApplyInv
    <2>3. QED
      BY <2>1, <2>2
  <1>2. CASE PollStep /\ ~evaluateEpisodePolicies
    <2>1. CASE PollUPS
      <3>1. PICK r \in UPSResult :
              /\ ups' = r
              /\ poll' = [poll EXCEPT !.pc = CASE r = "line"  -> "line"
                                               [] r = "error" -> "evaluate"
                                               [] OTHER       -> "battery"]
        BY <2>1 DEF PollUPS
      <3>2. CASE r = "error"
        BY <1>0, <3>1, <3>2 DEF ApplyInv, PollType
      <3>3. CASE r # "error"
        <4>1. poll'.pc \in {"line", "battery"}
          BY <1>0, <3>1, <3>3 DEF PollType
        <4>2. QED
          BY <4>1 DEF ApplyInv
      <3>4. QED
        BY <3>2, <3>3
    <2>2. CASE endEpisodeOnLinePower \/ applyPolicyMatch \/ startEpisodeIfNeeded
      BY <1>0, <2>2 DEF endEpisodeOnLinePower, startEpisodeIfNeeded, applyPolicyMatch, upsVars,
                        ApplyInv, PollIdle, PollType
    <2>3. CASE ConfirmReading \/ VouchForEpisode
      BY <2>3 DEF ConfirmReading, VouchForEpisode, ApplyInv
    <2>4. QED
      BY <1>2, <2>1, <2>2, <2>3 DEF PollStep
  <1>3. CASE Restart
    BY <1>3 DEF Restart, ApplyInv, PollIdle
  <1>4. CASE ~PollStep /\ ~Restart
    BY <1>4, PollUnchanged, UPSUnchanged, ConfirmedStays DEF ApplyInv
  <1>5. QED
    BY <1>1, <1>2, <1>3, <1>4

\* A command that is not automatic does not become so.
LEMMA AutomaticKept ==
  ASSUME TableEvolves, NEW c, c \in issued \cup {NoCmd},
         c = NoCmd \/ (c \in DOMAIN commands' /\ commands'[c].auto)
  PROVE  Automatic(c)
  BY DEF TableEvolves, Automatic, Known, Evolves

\* The parts of ConfirmInv that a step must not disturb while the UPS is not
\* confirmed.
LEMMA ConfirmReduced ==
  ASSUME ConfirmInv, IssuedInv, FollowInv, TableEvolves, ~upsConfirmed, ApplyInv',
         \A m \in sent' : m \in sent \/ ~Automatic(m[2])',
         \A w \in Worker : Busy(w)' =>
           (Busy(w) /\ job'[w].cmd = job[w].cmd) \/ ~Automatic(job[w].cmd)',
         \/ RestoredInv'
         \/ /\ LocalPresent' => LocalPresent
            /\ local'.cmd = local.cmd
            /\ episode'.on = episode.on /\ episode'.cmd = episode.cmd
  PROVE  ConfirmInv'
  <1>2. \A m \in sent : ~Automatic(m[2]) /\ m[2] \in issued
    BY DEF ConfirmInv, ConfirmedBeforeAction, IssuedInv
  <1>3. \A m \in sent' : ~Automatic(m[2])'
    <2> SUFFICES ASSUME NEW m \in sent', m \in sent PROVE ~Automatic(m[2])'
      OBVIOUS
    <2>1. ~Automatic(m[2]) /\ m[2] \in issued
      BY <1>2
    <2>2. QED
      BY <2>1, AutomaticKept DEF Automatic, Known
  <1>4. ASSUME NEW w \in Worker, Busy(w)' PROVE ~Automatic(job[w].cmd)'
    <2> SUFFICES ASSUME Busy(w), job'[w].cmd = job[w].cmd PROVE ~Automatic(job[w].cmd)'
      BY <1>4
    <2>1. ~Automatic(job[w].cmd) /\ job[w].cmd \in issued \cup {NoCmd}
      BY DEF ConfirmInv, ConfirmedBeforeAction, FollowInv, Justified
    <2>2. QED
      BY <2>1, AutomaticKept DEF Automatic, Known
  <1>5. ConfirmedBeforeAction'
    BY <1>3, <1>4 DEF ConfirmedBeforeAction
  <1>6. RestoredInv'
    <2> SUFFICES ASSUME LocalPresent' => LocalPresent, local'.cmd = local.cmd,
                        episode'.on = episode.on, episode'.cmd = episode.cmd,
                        LocalPresent', Automatic(local.cmd)'
                 PROVE  localShutdownBelongsToEpisode'
      BY DEF RestoredInv
    <2>1. local.cmd \in issued \cup {NoCmd}
      BY DEF FollowInv, Sound, FollowsCommand, LocalPresent, IssuedInv
    <2>2. Automatic(local.cmd)
      BY <2>1, AutomaticKept DEF Automatic, Known
    <2>3. QED
      BY <2>2 DEF ConfirmInv, RestoredInv, localShutdownBelongsToEpisode
  <1>7. QED
    BY <1>5, <1>6 DEF ConfirmInv

\* A local shutdown that is executing, while the UPS is not confirmed, is not
\* one of an episode.
LEMMA ExecutingIsManual ==
  ASSUME ExecInv, ConfirmInv, ~upsConfirmed, local.phase = "executing"
  PROVE  ~Automatic(local.cmd)
  <1>1. PICK w \in Worker : job[w].pc \in {"persist", "run"} /\ local.cmd = job[w].cmd
    BY DEF ExecInv, OneExecution
  <1>2. QED
    BY <1>1 DEF ConfirmInv, ConfirmedBeforeAction, Busy

\* The polling loop.
LEMMA ConfirmPoll ==
  ASSUME TypeOK, ExecInv, IssuedInv, FollowInv, ConfirmInv, ApplyInv', TableEvolves,
         PollStep, ~upsConfirmed, ~upsConfirmed'
  PROVE  ConfirmInv'
  <1>0. ~applyPolicyMatch
    BY DEF ConfirmInv, ApplyInv, applyPolicyMatch
  <1>1. UNCHANGED <<sent, job>>
    BY <1>0 DEF PollStep, PollUPS, endEpisodeOnLinePower, ConfirmReading, VouchForEpisode,
                startEpisodeIfNeeded, evaluateEpisodePolicies, net
  <1>2. CASE UNCHANGED <<local, episode>>
    BY <1>1, <1>2, ConfirmReduced DEF Busy, LocalPresent
  <1>3. CASE endEpisodeOnLinePower \/ (startEpisodeIfNeeded /\ ~episode.on)
    <2>1. local' = NoLocal \/ (local' = local /\ (LocalPresent => ~Automatic(local.cmd)))
      <3>1. CASE endEpisodeOnLinePower
        BY <3>1, ExecutingIsManual DEF endEpisodeOnLinePower, ConfirmInv, RestoredInv
      <3>2. CASE startEpisodeIfNeeded /\ ~episode.on
        BY <3>2 DEF startEpisodeIfNeeded, ConfirmInv, RestoredInv, localShutdownBelongsToEpisode
      <3>3. QED
        BY <1>3, <3>1, <3>2
    <2>2. CASE local' = NoLocal
      BY <1>1, <2>2, ConfirmReduced DEF Busy, RestoredInv, LocalPresent, NoLocal
    <2>3. CASE local' = local /\ (LocalPresent => ~Automatic(local.cmd))
      <3>1. LocalPresent => local.cmd \in issued \cup {NoCmd}
        BY DEF FollowInv, Sound, FollowsCommand, LocalPresent, IssuedInv
      <3>2. LocalPresent => ~Automatic(local.cmd)'
        BY <2>3, <3>1, AutomaticKept DEF Automatic, Known
      <3>3. RestoredInv'
        BY <2>3, <3>2 DEF RestoredInv, LocalPresent
      <3>4. QED
        BY <1>1, <3>3, ConfirmReduced DEF Busy
    <2>4. QED
      BY <2>1, <2>2, <2>3
  <1>4. QED
    BY <1>0, <1>2, <1>3 DEF PollStep, PollUPS, ConfirmReading, VouchForEpisode, startEpisodeIfNeeded,
                            evaluateEpisodePolicies, core

\* The watcher: an unconfirmed UPS leaves it nothing automatic to follow.
LEMMA ConfirmWatch ==
  ASSUME TypeOK, IssuedInv, FollowInv, ConfirmInv, ApplyInv', TableEvolves,
         WatchStep, ~upsConfirmed, ~upsConfirmed'
  PROVE  ConfirmInv'
  <1>0. ~retryEpisodeShutdown
    BY DEF retryEpisodeShutdown
  <1>1. CASE UNCHANGED <<sent, job, local, episode>>
    BY <1>1, ConfirmReduced DEF Busy, LocalPresent
  <1>2. CASE evaluateLocalShutdown
    <2>1. PICK e, t : /\ t = (upsConfirmed \/ e = "ups_unreachable")
                      /\ upsConfirmed' = (upsConfirmed \/ (e = "ups_unreachable" /\ episode.on))
                      /\ \/ ArmEmergency(e, t)
                         \/ CancelWaiting(e, t)
                         \/ FinishWaiting(e, t)
                         \/ EscalateWaiting(e, t)
                         \/ ExpireWaiting(e, t)
                         \/ ResumeLocal(e, t)
                         \/ LeaveLocal(e, t)
      BY <1>2 DEF evaluateLocalShutdown
    <2>2. t => ~episode.on
      BY <2>1
    <2>3. UNCHANGED <<commands, episode>> /\ local \in LocalType
      BY <1>2 DEF evaluateLocalShutdown, TypeOK, CoreTypeOK
    <2>4. CASE LeaveLocal(e, t)
      BY <1>1, <2>3, <2>4 DEF LeaveLocal
    <2>5. CASE CancelWaiting(e, t)
      BY <2>5, ConfirmReduced DEF CancelWaiting, Busy, RestoredInv, LocalPresent, NoLocal
    <2>6. ~ArmEmergency(e, t)
      BY <2>2 DEF ArmEmergency
    <2>7. CASE \/ FinishWaiting(e, t) \/ EscalateWaiting(e, t)
               \/ ExpireWaiting(e, t) \/ ResumeLocal(e, t)
      <3>1. Followed(e, t) /\ LocalPresent
        BY <2>7 DEF FinishWaiting, EscalateWaiting, ExpireWaiting, ResumeLocal, Followed
      <3>2. ~Automatic(local.cmd)
        <4>1. CASE Known(local.cmd) /\ ~commands[local.cmd].auto
          BY <4>1, NoCmdUnknown DEF Automatic, Known, TypeOK, CoreTypeOK
        <4>2. CASE t
          BY <2>2, <3>1, <4>2 DEF ConfirmInv, RestoredInv, localShutdownBelongsToEpisode
        <4>3. QED
          BY <3>1, <4>1, <4>2 DEF Followed
      <3>3. ~Automatic(local.cmd)'
            /\ local'.cmd = local.cmd /\ local'.phase # "idle"
        BY <2>3, <2>7, <3>1, <3>2
        DEF FinishWaiting, EscalateWaiting, ExpireWaiting, ResumeLocal, LocalType,
            Automatic, Known, LocalPresent
      <3>4. \A m \in sent' : m \in sent \/ m[2] = local.cmd
        BY <2>7 DEF FinishWaiting, EscalateWaiting, ExpireWaiting, ResumeLocal, Send
      <3>5. \E tr : job' = [job EXCEPT !["watcher"] = [pc |-> "begin", cmd |-> local.cmd,
                                                       trigger |-> tr]]
        BY <2>7 DEF FinishWaiting, EscalateWaiting, ExpireWaiting, ResumeLocal, WatcherBegins
      <3>6. \A w \in Worker : job'[w] = job[w] \/ job'[w].cmd = local.cmd
        BY <3>5 DEF TypeOK
      <3>7. \A m \in sent' : m \in sent \/ ~Automatic(m[2])'
        BY <3>3, <3>4 DEF Automatic, Known
      <3>8. \A w \in Worker : Busy(w)' =>
              (Busy(w) /\ job'[w].cmd = job[w].cmd) \/ ~Automatic(job[w].cmd)'
        BY <3>3, <3>6 DEF Automatic, Known, Busy
      <3>9. QED
        BY <2>3, <3>1, <3>3, <3>7, <3>8, ConfirmReduced
    <2>8. QED
      BY <2>1, <2>4, <2>5, <2>6, <2>7
  <1>3. QED
    BY <1>0, <1>1, <1>2 DEF WatchStep, MarkTimedOutCommands, SkipRetry, SampleUPSStatus,
                            SkipLocalShutdown, core, net

\* An execution keeps the command it was begun for.
LEMMA ConfirmExecution ==
  ASSUME TypeOK, IssuedInv, FollowInv, ConfirmInv, ApplyInv', TableEvolves,
         NEW w \in Worker, ExecutionStep(w), ~upsConfirmed
  PROVE  ConfirmInv'
  <1>0. local \in LocalType /\ episode \in EpisodeType /\ job \in [Worker -> JobType]
    BY DEF TypeOK, CoreTypeOK
  <1>1. sent' = sent
    BY DEF ExecutionStep, DropExecution, beginLocalShutdownExecution,
           finishLocalShutdownExecution, net
  <1>2. episode'.on = episode.on /\ episode'.cmd = episode.cmd
    BY <1>0 DEF ExecutionStep, DropExecution, beginLocalShutdownExecution,
           finishLocalShutdownExecution, core, EpisodeType
  <1>3. local'.cmd = local.cmd /\ (LocalPresent' => LocalPresent)
    BY <1>0 DEF ExecutionStep, DropExecution, beginLocalShutdownExecution, BeginRefused,
           finishLocalShutdownExecution, core, LocalType, LocalPresent
  <1>4. \A v \in Worker : Busy(v)' => Busy(v) /\ job'[v].cmd = job[v].cmd
    <2>1. CASE job' = [job EXCEPT ![w] = NoJob]
      BY <1>0, <2>1 DEF Busy, NoJob
    <2>2. CASE job' = [job EXCEPT ![w].pc = "persist"] /\ job[w].pc = "begin"
      BY <1>0, <2>2 DEF Busy, JobType
    <2>3. QED
      BY <2>1, <2>2 DEF ExecutionStep, DropExecution, beginLocalShutdownExecution,
                        finishLocalShutdownExecution
  <1>5. QED
    BY <1>1, <1>2, <1>3, <1>4, ConfirmReduced

\* Replays skip automatic commands, and acks are for commands that were sent.
LEMMA ConfirmConn ==
  ASSUME TypeOK, IssuedInv, FollowInv, ConfirmInv, ApplyInv', TableEvolves,
         ConnStep, ~upsConfirmed
  PROVE  ConfirmInv'
  <1>0. local \in LocalType /\ job \in [Worker -> JobType] /\ NoCmd \notin DOMAIN commands
    BY NoCmdUnknown DEF TypeOK, CoreTypeOK
  <1>1. CASE UNCHANGED <<sent, job, local, episode>>
    BY <1>1, ConfirmReduced DEF Busy, LocalPresent
  <1>2. ASSUME NEW n \in Node, replayPendingShutdown(n) PROVE ConfirmInv'
    <2>1. UNCHANGED <<job, local, episode>>
      BY <1>2 DEF replayPendingShutdown
    <2>2. CASE sent' = sent
      BY <1>1, <2>1, <2>2
    <2>3. CASE sent' # sent
      <3>1. /\ Known(active) /\ ~commands[active].auto
            /\ \E x : commands' = [commands EXCEPT ![active] = x]
            /\ Send({n}, active)
        BY <1>2, <2>3 DEF replayPendingShutdown
      <3>2. ~Automatic(active) /\ active \in issued
        BY <1>0, <3>1 DEF Automatic, Known, IssuedInv
      <3>3. ~(active = NoCmd \/ (active \in DOMAIN commands' /\ commands'[active].auto))
        BY <3>2, AutomaticKept
      <3>4. \A m \in sent' : m \in sent \/ m[2] = active
        BY <3>1 DEF Send
      <3>5. \A m \in sent' : m \in sent \/ ~Automatic(m[2])'
        BY <3>3, <3>4 DEF Automatic, Known
      <3>6. QED
        BY <2>1, <3>5, ConfirmReduced DEF Busy, LocalPresent
    <2>4. QED
      BY <2>2, <2>3
  <1>3. ASSUME NEW h \in Handler, NEW n \in Node, NEW c \in CmdId, NEW status \in AckStatus,
               recordShutdownUpdate(h, n, c, status)
        PROVE  ConfirmInv'
    <2>1. <<n, c>> \in sent /\ UNCHANGED <<sent, episode>>
      BY <1>3 DEF recordShutdownUpdate, net
    <2>2. ~Automatic(c) /\ c \in issued
      BY <2>1 DEF ConfirmInv, ConfirmedBeforeAction, IssuedInv
    <2>3. ~(c = NoCmd \/ (c \in DOMAIN commands' /\ commands'[c].auto))
      BY <2>2, AutomaticKept
    <2>4. local'.cmd = local.cmd /\ (LocalPresent' => LocalPresent)
      BY <1>0, <1>3 DEF recordShutdownUpdate, LocalType, LocalPresent
    <2>5. \A w \in Worker : job'[w] = job[w] \/ job'[w].cmd = c
      BY <1>0, <1>3 DEF recordShutdownUpdate
    <2>6. \A w \in Worker : Busy(w)' =>
            (Busy(w) /\ job'[w].cmd = job[w].cmd) \/ ~Automatic(job[w].cmd)'
      BY <2>3, <2>5 DEF Automatic, Known, Busy
    <2>7. QED
      BY <2>1, <2>4, <2>6, ConfirmReduced
  <1>4. QED
    <2>1. \A n \in Node : Register(n) \/ Disconnect(n) => UNCHANGED <<sent, job, local, episode>>
      BY DEF Register, Disconnect, core
    <2>2. QED
      BY <1>1, <1>2, <1>3, <2>1 DEF ConnStep

\* A manual command is not automatic.
LEMMA ConfirmAdmin ==
  ASSUME TypeOK, ExecInv, IssuedInv, FollowInv, ConfirmInv, ApplyInv', TableEvolves,
         AdminStep, ~upsConfirmed
  PROVE  ConfirmInv'
  <1>1. CASE SelectManualTargets \/ RejectManualShutdown
    BY <1>1, ConfirmReduced
    DEF SelectManualTargets, RejectManualShutdown, core, net, Busy, LocalPresent
  <1>2. CASE TriggerShutdown
    <2> DEFINE command == NewCommand(FALSE, request.dry, request.target, request.nodes)
    <2>1. PICK c \in Fresh : /\ commands' = Put(commands, c, command)
                             /\ local' = armLocalShutdown(local, c, command, episode.on)
                             /\ Send(request.nodes, c)
      BY <1>2 DEF TriggerShutdown
    <2>2. c \in CmdId /\ c # NoCmd /\ UNCHANGED <<job, episode>>
      BY <1>2, MasterAssumption DEF Fresh, TriggerShutdown
    <2>3. commands'[c] = command /\ ~command.auto
      BY <2>1 DEF Put, NewCommand
    <2> HIDE DEF command
    <2>4. \A m \in sent' : m \in sent \/ m[2] = c
      BY <2>1 DEF Send
    <2>5. \A m \in sent' : m \in sent \/ ~Automatic(m[2])'
      BY <2>2, <2>3, <2>4 DEF Automatic, Known
    <2>6. local' = local \/ local'.cmd = c
      BY <2>1 DEF armLocalShutdown
    <2>7. CASE local' = local
      BY <2>2, <2>5, <2>7, ConfirmReduced DEF Busy, LocalPresent
    <2>8. CASE local'.cmd = c
      <3>1. RestoredInv'
        BY <2>2, <2>3, <2>8 DEF RestoredInv, Automatic, Known
      <3>2. QED
        BY <2>2, <2>5, <3>1, ConfirmReduced DEF Busy
    <2>9. QED
      BY <2>6, <2>7, <2>8
  <1>3. CASE ResetActiveCommand
    <2>1. UNCHANGED <<sent, job>>
      BY <1>3 DEF ResetActiveCommand, net
    <2>2. CASE local' = NoLocal
      BY <2>1, <2>2, ConfirmReduced DEF Busy, RestoredInv, LocalPresent, NoLocal
    <2>3. CASE local' = local /\ local.phase = "executing"
      <3>1. ~Automatic(local.cmd)
        BY <2>3, ExecutingIsManual
      <3>2. local.cmd \in issued \cup {NoCmd}
        BY <2>3 DEF FollowInv, Sound, FollowsCommand, IssuedInv
      <3>3. ~Automatic(local.cmd)'
        BY <2>3, <3>1, <3>2, AutomaticKept DEF Automatic, Known
      <3>4. QED
        BY <2>1, <3>3, ConfirmReduced DEF Busy, RestoredInv
    <2>4. QED
      BY <1>3, <2>2, <2>3 DEF ResetActiveCommand
  <1>4. QED
    BY <1>1, <1>2, <1>3 DEF AdminStep

\* What a restart loads for an automatic command belongs to the episode it loads.
LEMMA ConfirmRestart ==
  ASSUME TypeOK, EpisodeCommandIsLive, Restart PROVE ConfirmInv'
  <1>1. ApplyInv' /\ ConfirmedBeforeAction'
    BY DEF Restart, ApplyInv, PollIdle, ConfirmedBeforeAction, Busy, NoJob
  <1>2. RestoredInv'
    <2> SUFFICES ASSUME local'.phase # "idle",
                        local'.cmd = NoCmd \/ commands'[local'.cmd].auto
                 PROVE  episode'.on /\ local'.cmd \in {episode'.cmd, NoCmd}
      BY DEF RestoredInv, LocalPresent, localShutdownBelongsToEpisode, Automatic
    <2>1. /\ local' = disk.local /\ commands' = disk.commands /\ episode' = disk.episode
          /\ IF local'.cmd = NoCmd
             THEN episode'.on /\ episode'.cmd = NoCmd
             ELSE local'.cmd \in DOMAIN commands' /\ ~commands'[local'.cmd].replayDisabled
      BY DEF Restart, normalizeLoadedLocalShutdown, NoLocal
    <2>2. LiveAuto(commands', disk.active, episode')
      BY <2>1 DEF EpisodeCommandIsLive
    <2>3. QED
      BY <2>1, <2>2 DEF LiveAuto
  <1>3. QED
    BY <1>1, <1>2 DEF ConfirmInv

\* ConfirmInv is inductive.
LEMMA ConfirmCorrect == Spec => []ConfirmInv
  <1>1. Init => ConfirmInv
    BY DEF Init, ConfirmInv, ConfirmedBeforeAction, Busy, NoJob, ApplyInv, PollIdle,
           RestoredInv, LocalPresent, NoLocal
  <1>2. TypeOK /\ EpisodeCommandIsLive /\ ExecInv /\ IssuedInv /\ FollowInv /\ ConfirmInv
          /\ [Next]_vars => ConfirmInv'
    <2> SUFFICES ASSUME TypeOK, EpisodeCommandIsLive, ExecInv, IssuedInv, FollowInv, ConfirmInv,
                        [Next]_vars
                 PROVE  ConfirmInv'
      OBVIOUS
    <2>1. ApplyInv'
      BY ApplyStep DEF ConfirmInv
    <2>2. CASE Restart
      BY <2>2, ConfirmRestart
    <2>3. CASE upsConfirmed'
      BY <2>1, <2>3 DEF ConfirmInv, ConfirmedBeforeAction, RestoredInv
    <2>4. CASE ~Restart /\ ~upsConfirmed'
      <3>1. ~upsConfirmed /\ TableEvolves
        BY <2>4, ConfirmedStays, CommandsEvolve DEF IssuedInv
      <3>2. CASE persistState
        <4>1. UNCHANGED <<sent, local, episode>>
          BY <3>2 DEF persistState, core, net
        <4>2. \A w \in Worker : Busy(w)' => Busy(w) /\ job'[w].cmd = job[w].cmd
          <5>1. ASSUME NEW w \in Worker PROVE Busy(w)' => Busy(w) /\ job'[w].cmd = job[w].cmd
            <6>1. job[w] \in JobType
              BY DEF TypeOK
            <6>2. QED
              BY <3>2, <6>1 DEF persistState, Busy, JobType
          <5>2. QED
            BY <5>1
        <4>3. QED
          BY <2>1, <3>1, <4>1, <4>2, ConfirmReduced DEF LocalPresent
      <3>3. CASE UNCHANGED vars
        BY <2>1, <3>1, <3>3, ConfirmReduced DEF vars, core, net, Busy, LocalPresent
      <3>4. QED
        BY <2>1, <2>4, <3>1, <3>2, <3>3, ConfirmPoll, ConfirmWatch, ConfirmExecution,
           ConfirmConn, ConfirmAdmin DEF Next
    <2>5. QED
      BY <2>2, <2>3, <2>4
  <1>3. QED
    BY <1>1, <1>2, TypeCorrect, EpisodeCommand, ExecCorrect, IssuedCorrect, FollowCorrect, PTL
    DEF Spec

\* A restored episode is acted on only after this process has read the UPS, or
\* an unreachable fallback vouches for it.
THEOREM ConfirmedFirst == Spec => []ConfirmedBeforeAction
  <1>1. ConfirmInv => ConfirmedBeforeAction
    BY DEF ConfirmInv
  <1>2. QED
    BY <1>1, ConfirmCorrect, PTL

(***************************************************************************)
(* PowerOffIsRemembered.  The mark that the running power-off belongs to   *)
(* this episode means that the episode in memory says so, which is what    *)
(* the write before the command puts in the file.                          *)
(***************************************************************************)
MarkInv == markedHere => episode.on /\ episode.poweredOff

PowerInv == PowerOffIsRemembered /\ MarkInv

\* Steps that leave the mark, the episode's mark and the file alone, and let
\* nobody run the command.
LEMMA PowerReduced ==
  ASSUME PowerInv, UNCHANGED <<disk, restarts>>,
         \/ ~markedHere'
         \/ /\ markedHere' = markedHere
            /\ episode'.on = episode.on /\ episode'.poweredOff = episode.poweredOff,
         \A w \in Worker : job'[w].pc = "run" => job[w].pc = "run"
  PROVE  PowerInv'
  BY DEF PowerInv, PowerOffIsRemembered, MarkInv, WillRestart

\* PowerInv is inductive.
LEMMA PowerCorrect == Spec => []PowerInv
  <1>1. Init => PowerInv
    BY DEF Init, PowerInv, PowerOffIsRemembered, MarkInv
  <1>2. TypeOK /\ ExecInv /\ PowerInv /\ [Next]_vars => PowerInv'
    <2> SUFFICES ASSUME TypeOK, ExecInv, PowerInv, [Next]_vars PROVE PowerInv'
      OBVIOUS
    <2>0. episode \in EpisodeType /\ job \in [Worker -> JobType]
      BY DEF TypeOK, CoreTypeOK
    <2>1. CASE PollStep
      <3>1. CASE startEpisodeIfNeeded
        <4>1. UNCHANGED <<markedHere, job>> /\ (episode.on => episode' = episode)
          BY <3>1 DEF startEpisodeIfNeeded
        <4>2. markedHere => episode.on
          BY DEF PowerInv, MarkInv
        <4>3. QED
          BY <2>1, <4>1, <4>2, FileUnchanged, PowerReduced
      <3>2. CASE endEpisodeOnLinePower
        BY <2>1, <3>2, FileUnchanged, PowerReduced DEF endEpisodeOnLinePower
      <3>3. CASE PollUPS \/ ConfirmReading \/ VouchForEpisode \/ evaluateEpisodePolicies
        BY <2>1, <3>3, FileUnchanged, PowerReduced
        DEF PollUPS, ConfirmReading, VouchForEpisode, evaluateEpisodePolicies, core
      <3>4. CASE applyPolicyMatch
        <4>1. episode'.on = episode.on /\ episode'.poweredOff = episode.poweredOff
          BY <2>0, <3>4 DEF applyPolicyMatch, WidenEpisodeCommand, CreateEpisodeCommand, core,
                            EpisodeType
        <4>2. QED
          BY <2>1, <3>4, <4>1, FileUnchanged, PowerReduced DEF applyPolicyMatch
      <3>5. QED
        BY <2>1, <3>1, <3>2, <3>3, <3>4 DEF PollStep
    <2>2. CASE WatchStep
      <3>1. UNCHANGED <<markedHere, episode>>
        BY <2>2 DEF WatchStep, MarkTimedOutCommands, retryEpisodeShutdown, SkipRetry,
           SampleUPSStatus, evaluateLocalShutdown, SkipLocalShutdown, core
      <3>2. \/ job' = job
            \/ \E c, tr : job' = [job EXCEPT !["watcher"] = [pc |-> "begin", cmd |-> c,
                                                             trigger |-> tr]]
        BY <2>2 DEF WatchStep, MarkTimedOutCommands, retryEpisodeShutdown, SkipRetry,
           SampleUPSStatus, evaluateLocalShutdown, SkipLocalShutdown, ArmEmergency,
           CancelWaiting, FinishWaiting, EscalateWaiting, ExpireWaiting, ResumeLocal,
           LeaveLocal, WatcherBegins
      <3>3. \A w \in Worker : job'[w].pc = "run" => job[w].pc = "run"
        BY <2>0, <3>2
      <3>4. QED
        BY <2>2, <3>1, <3>3, FileUnchanged, PowerReduced
    <2>3. ASSUME NEW w \in Worker, ExecutionStep(w) PROVE PowerInv'
      <3>1. CASE DropExecution(w)
        BY <2>0, <2>3, <3>1, FileUnchanged, PowerReduced DEF DropExecution, core, NoJob
      <3>2. CASE finishLocalShutdownExecution(w)
        BY <2>0, <2>3, <3>2, FileUnchanged, PowerReduced DEF finishLocalShutdownExecution, NoJob
      <3>3. CASE beginLocalShutdownExecution(w)
        <4>1. \A v \in Worker : job[v].pc # "run"
          BY <3>3 DEF beginLocalShutdownExecution, BeginRefused, localShutdownTerminal,
                      ExecInv, OneExecution
        <4>2. job' = [job EXCEPT ![w] = [job[w] EXCEPT !.pc = "persist"]]
          BY <3>3 DEF beginLocalShutdownExecution
        <4>3. \A v \in Worker : job'[v].pc # "run"
          <5>1. [job[w] EXCEPT !.pc = "persist"].pc = "persist"
            BY <2>0 DEF JobType
          <5>2. QED
            BY <2>0, <4>1, <4>2, <5>1
        <4>4. markedHere' => episode'.on /\ episode'.poweredOff
          BY <2>0, <3>3 DEF beginLocalShutdownExecution, EpisodeType
        <4>5. QED
          BY <4>3, <4>4 DEF PowerInv, PowerOffIsRemembered, MarkInv
      <3>4. QED
        BY <2>3, <3>1, <3>2, <3>3 DEF ExecutionStep
    <2>4. CASE ConnStep
      <3>1. UNCHANGED <<markedHere, episode>>
        <4>1. \A n \in Node : Register(n) \/ Disconnect(n) => UNCHANGED <<markedHere, episode>>
          BY DEF Register, Disconnect, core
        <4>2. \A n \in Node : replayPendingShutdown(n) => UNCHANGED <<markedHere, episode>>
          BY DEF replayPendingShutdown
        <4>3. \A h \in Handler, n \in Node, c \in CmdId, status \in AckStatus :
                recordShutdownUpdate(h, n, c, status) => UNCHANGED <<markedHere, episode>>
          BY DEF recordShutdownUpdate
        <4>4. QED
          BY <2>4, <4>1, <4>2, <4>3 DEF ConnStep
      <3>2. \/ job' = job
            \/ \E h, c : job' = [job EXCEPT ![h] = [pc |-> "begin", cmd |-> c,
                                                    trigger |-> "remote_complete"]]
        <4>1. \A n \in Node : Register(n) \/ Disconnect(n) => job' = job
          BY DEF Register, Disconnect
        <4>2. \A n \in Node : replayPendingShutdown(n) => job' = job
          BY DEF replayPendingShutdown
        <4>3. ASSUME NEW h \in Handler, NEW n \in Node, NEW c \in CmdId,
                     NEW status \in AckStatus, recordShutdownUpdate(h, n, c, status)
              PROVE  \/ job' = job
                     \/ job' = [job EXCEPT ![h] = [pc |-> "begin", cmd |-> c,
                                                   trigger |-> "remote_complete"]]
          BY <4>3 DEF recordShutdownUpdate
        <4>4. QED
          BY <2>4, <4>1, <4>2, <4>3 DEF ConnStep
      <3>3. \A w \in Worker : job'[w].pc = "run" => job[w].pc = "run"
        BY <2>0, <3>2
      <3>4. QED
        BY <2>4, <3>1, <3>3, FileUnchanged, PowerReduced
    <2>5. CASE AdminStep
      <3>1. UNCHANGED <<markedHere, job>>
            /\ episode'.on = episode.on /\ episode'.poweredOff = episode.poweredOff
        BY <2>0, <2>5 DEF AdminStep, SelectManualTargets, TriggerShutdown,
           RejectManualShutdown, ResetActiveCommand, core, EpisodeType
      <3>2. QED
        BY <2>5, <3>1, FileUnchanged, PowerReduced
    <2>6. CASE persistState
      <3>1. UNCHANGED <<episode, restarts, markedHere>>
            /\ (WillRestart => disk'.episode = episode)
        BY <2>6 DEF persistState, core, Snapshot
      <3>2. QED
        BY <3>1 DEF PowerInv, PowerOffIsRemembered, MarkInv, WillRestart
    <2>7. CASE Restart
      BY <2>7 DEF Restart, PowerInv, PowerOffIsRemembered, MarkInv
    <2>8. CASE UNCHANGED vars
      BY <2>8, PowerReduced DEF vars, core, file
    <2>9. QED
      BY <2>1, <2>2, <2>3, <2>4, <2>5, <2>6, <2>7, <2>8 DEF Next
  <1>3. QED
    BY <1>1, <1>2, TypeCorrect, ExecCorrect, PTL DEF Spec

\* Whenever the real power-off command runs in the episode that started it, the
\* file that the next boot reads already says so.
THEOREM PowerOffRemembered == Spec => []PowerOffIsRemembered
  <1>1. PowerInv => PowerOffIsRemembered
    BY DEF PowerInv
  <1>2. QED
    BY <1>1, PowerCorrect, PTL

(***************************************************************************)
(* ReadingBeforeFallback.  The polling loop works on the reading it took:  *)
(* nobody else writes the UPS view.  A mark that the file brought stands   *)
(* for a power-off of the episode in memory, and it was there before the   *)
(* polling loop let a policy vouch for that episode: no other step than a  *)
(* restart sets one, and a restart starts the polling loop again.          *)
(***************************************************************************)
ReadInv ==
  /\ poll.pc \in {"line", "confirm", "battery"} => ups \in Reading
  /\ poll.pc = "evaluate" => ups \in Reading \cup {"error"}

\* ReadInv is inductive.
LEMMA ReadCorrect == Spec => []ReadInv
  <1>1. Init => ReadInv
    BY DEF Init, ReadInv, PollIdle
  <1>2. TypeOK /\ ReadInv /\ [Next]_vars => ReadInv'
    <2> SUFFICES ASSUME TypeOK, ReadInv, [Next]_vars PROVE ReadInv'
      OBVIOUS
    <2>0. poll \in PollType
      BY DEF TypeOK
    <2>1. CASE PollUPS
      <3>1. PICK r \in UPSResult :
              /\ ups' = r
              /\ poll' = [poll EXCEPT !.pc = CASE r = "line"  -> "line"
                                               [] r = "error" -> "evaluate"
                                               [] OTHER       -> "battery"]
        BY <2>1 DEF PollUPS
      <3>2. r \in {"line", "battery", "critical", "error"}
        BY MasterAssumption
      <3>3. CASE r = "line"
        BY <2>0, <3>1, <3>3 DEF ReadInv, Reading, PollType
      <3>4. CASE r = "error"
        BY <2>0, <3>1, <3>4 DEF ReadInv, Reading, PollType
      <3>5. CASE r \in {"battery", "critical"}
        BY <2>0, <3>1, <3>5 DEF ReadInv, Reading, PollType
      <3>6. QED
        BY <3>2, <3>3, <3>4, <3>5
    <2>2. CASE endEpisodeOnLinePower \/ ConfirmReading \/ VouchForEpisode \/ applyPolicyMatch
      BY <2>0, <2>2 DEF endEpisodeOnLinePower, ConfirmReading, VouchForEpisode, applyPolicyMatch, upsVars,
                        ReadInv, PollIdle, PollType
    <2>3. CASE startEpisodeIfNeeded
      BY <2>0, <2>3 DEF startEpisodeIfNeeded, upsVars, ReadInv, PollType
    <2>4. CASE evaluateEpisodePolicies
      <3>1. poll'.pc \in {"idle", "vouch", "apply"}
        BY <2>4 DEF evaluateEpisodePolicies, PollIdle
      <3>2. QED
        BY <3>1 DEF ReadInv
    <2>5. CASE Restart
      BY <2>5 DEF Restart, ReadInv, PollIdle
    <2>6. CASE ~PollStep /\ ~Restart
      BY <2>6, PollUnchanged, UPSUnchanged DEF ReadInv
    <2>7. QED
      BY <2>1, <2>2, <2>3, <2>4, <2>5, <2>6 DEF PollStep
  <1>3. QED
    BY <1>1, <1>2, TypeCorrect, PTL DEF Spec

\* The only steps that confirm the UPS.
LEMMA WhatConfirms ==
  ASSUME [Next]_vars, ~upsConfirmed, upsConfirmed'
  PROVE  ConfirmReading \/ VouchForEpisode \/ evaluateLocalShutdown
  <1>1. PollStep => ConfirmReading \/ VouchForEpisode
    BY DEF PollStep, PollUPS, endEpisodeOnLinePower, startEpisodeIfNeeded,
           evaluateEpisodePolicies, applyPolicyMatch, upsVars
  <1>2. WatchStep => evaluateLocalShutdown
    BY DEF WatchStep, MarkTimedOutCommands, retryEpisodeShutdown, SkipRetry, SampleUPSStatus,
           SkipLocalShutdown, upsVars
  <1>3. \A w \in Worker : ~ExecutionStep(w)
    BY DEF ExecutionStep, DropExecution, beginLocalShutdownExecution,
           finishLocalShutdownExecution, upsVars
  <1>4. ~ConnStep
    <2>1. \A n \in Node : ~Register(n) /\ ~Disconnect(n)
      BY DEF Register, Disconnect, upsVars
    <2>2. \A n \in Node : ~replayPendingShutdown(n)
      BY DEF replayPendingShutdown, upsVars
    <2>3. \A h \in Handler, n \in Node, c \in CmdId, status \in AckStatus :
            recordShutdownUpdate(h, n, c, status) => upsConfirmed' = upsConfirmed
      BY DEF recordShutdownUpdate, upsVars
    <2>4. QED
      BY <2>1, <2>2, <2>3 DEF ConnStep
  <1>5. ~AdminStep
    BY DEF AdminStep, SelectManualTargets, TriggerShutdown, RejectManualShutdown,
           ResetActiveCommand, upsVars
  <1>6. ~persistState /\ ~Restart /\ ~UNCHANGED vars
    BY DEF persistState, Restart, vars, upsVars
  <1>7. QED
    BY <1>1, <1>2, <1>3, <1>4, <1>5, <1>6 DEF Next

\* The mark of the file stands in the episode, and the loop has not decided to
\* vouch for an unconfirmed one over it: the decision was taken without the mark,
\* and only a restart, which ends the loop's round, brings one.
BootInv ==
  /\ bootMark => episode.on /\ episode.poweredOff
  /\ poll.pc = "vouch" /\ ~upsConfirmed => ~bootMark

\* Only a restart sets the mark, and while it stands the episode has it.
LEMMA MarkStands ==
  ASSUME TypeOK, BootInv, [Next]_vars, ~Restart, bootMark'
  PROVE  bootMark /\ episode'.on /\ episode'.poweredOff
  <1>0. episode \in EpisodeType
    BY DEF TypeOK, CoreTypeOK
  <1>a. SUFFICES \/ UNCHANGED <<bootMark, episode>>
                 \/ /\ bootMark
                    /\ episode'.on = episode.on
                    /\ episode'.poweredOff
    BY DEF BootInv
  <1>1. CASE PollStep
    <2>1. ~endEpisodeOnLinePower
      BY DEF endEpisodeOnLinePower
    <2>2. CASE startEpisodeIfNeeded
      <3>1. bootMark' = bootMark /\ (episode.on => episode' = episode)
        BY <2>2 DEF startEpisodeIfNeeded, file
      <3>2. QED
        BY <3>1 DEF BootInv
    <2>3. CASE PollUPS \/ ConfirmReading \/ VouchForEpisode \/ evaluateEpisodePolicies
      BY <2>3 DEF PollUPS, ConfirmReading, VouchForEpisode, evaluateEpisodePolicies, core, file
    <2>4. CASE applyPolicyMatch
      <3>1. bootMark' = bootMark
        BY <2>4 DEF applyPolicyMatch, file
      <3>2. episode'.on = episode.on /\ episode'.poweredOff = episode.poweredOff
        BY <1>0, <2>4 DEF applyPolicyMatch, WidenEpisodeCommand, CreateEpisodeCommand, core,
                          EpisodeType
      <3>3. QED
        BY <3>1, <3>2 DEF BootInv
    <2>5. QED
      BY <1>1, <2>1, <2>2, <2>3, <2>4 DEF PollStep
  <1>2. CASE WatchStep
    BY <1>2 DEF WatchStep, MarkTimedOutCommands, retryEpisodeShutdown, SkipRetry,
       SampleUPSStatus, evaluateLocalShutdown, SkipLocalShutdown, core, file
  <1>3. ASSUME NEW w \in Worker, ExecutionStep(w)
        PROVE  \/ UNCHANGED <<bootMark, episode>>
               \/ bootMark /\ episode'.on = episode.on /\ episode'.poweredOff
    <2>1. CASE DropExecution(w)
      BY <2>1 DEF DropExecution, core, file
    <2>2. CASE beginLocalShutdownExecution(w)
      <3>1. bootMark' = bootMark
        BY <2>2 DEF beginLocalShutdownExecution, file
      <3>2. \/ episode' = episode
            \/ episode'.on = episode.on /\ episode'.poweredOff
        BY <1>0, <2>2 DEF beginLocalShutdownExecution, EpisodeType
      <3>3. QED
        BY <3>1, <3>2
    <2>3. CASE finishLocalShutdownExecution(w)
      <3>1. bootMark /\ episode'.poweredOff
        BY <2>3 DEF finishLocalShutdownExecution
      <3>2. episode'.on = episode.on
        BY <1>0, <2>3 DEF finishLocalShutdownExecution, EpisodeType
      <3>3. QED
        BY <3>1, <3>2
    <2>4. QED
      BY <1>3, <2>1, <2>2, <2>3 DEF ExecutionStep
  <1>4. CASE ConnStep
    <2>1. \A n \in Node : Register(n) \/ Disconnect(n) => UNCHANGED <<bootMark, episode>>
      BY DEF Register, Disconnect, core, file
    <2>2. \A n \in Node : replayPendingShutdown(n) => UNCHANGED <<bootMark, episode>>
      BY DEF replayPendingShutdown, file
    <2>3. \A h \in Handler, n \in Node, c \in CmdId, status \in AckStatus :
            recordShutdownUpdate(h, n, c, status) => UNCHANGED <<file, episode>>
      BY DEF recordShutdownUpdate
    <2>4. UNCHANGED file => bootMark' = bootMark
      BY DEF file
    <2>5. QED
      BY <1>4, <2>1, <2>2, <2>3, <2>4 DEF ConnStep
  <1>5. CASE AdminStep
    <2>1. bootMark' = bootMark
      BY <1>5 DEF AdminStep, SelectManualTargets, TriggerShutdown, RejectManualShutdown,
         ResetActiveCommand, file
    <2>2. episode'.on = episode.on /\ episode'.poweredOff = episode.poweredOff
      BY <1>0, <1>5 DEF AdminStep, SelectManualTargets, TriggerShutdown,
         RejectManualShutdown, ResetActiveCommand, core, EpisodeType
    <2>3. QED
      BY <2>1, <2>2 DEF BootInv
  <1>6. CASE persistState \/ UNCHANGED vars
    BY <1>6 DEF persistState, vars, core, file
  <1>7. QED
    BY <1>1, <1>2, <1>3, <1>4, <1>5, <1>6 DEF Next

\* BootInv is inductive.
LEMMA BootCorrect == Spec => []BootInv
  <1>1. Init => BootInv
    BY DEF Init, BootInv
  <1>2. TypeOK /\ BootInv /\ [Next]_vars => BootInv'
    <2> SUFFICES ASSUME TypeOK, BootInv, [Next]_vars PROVE BootInv'
      OBVIOUS
    <2>1. CASE Restart
      BY <2>1 DEF Restart, BootInv, PollIdle
    <2>2. CASE ~Restart
      <3>1. bootMark' => bootMark /\ episode'.on /\ episode'.poweredOff
        BY <2>2, MarkStands
      <3>2. ASSUME poll'.pc = "vouch", ~upsConfirmed', bootMark' PROVE FALSE
        <4>1. ~upsConfirmed
          BY <2>2, <3>2, ConfirmedStays
        <4>2. bootMark
          BY <3>1, <3>2
        <4>3. poll.pc # "vouch" /\ episode.on /\ episode.poweredOff
          BY <4>1, <4>2 DEF BootInv
        <4>4. CASE evaluateEpisodePolicies
          <5>1. awaitingReadingAfterPowerOff
            BY <4>1, <4>3 DEF awaitingReadingAfterPowerOff
          <5>2. QED
            BY <3>2, <4>4, <5>1 DEF evaluateEpisodePolicies, PollIdle
        <4>5. CASE PollStep /\ ~evaluateEpisodePolicies
          <5>0. poll \in PollType
            BY DEF TypeOK
          <5>1. CASE PollUPS
            <6>1. PICK r \in UPSResult :
                    poll' = [poll EXCEPT !.pc = CASE r = "line"  -> "line"
                                                  [] r = "error" -> "evaluate"
                                                  [] OTHER       -> "battery"]
              BY <5>1 DEF PollUPS
            <6>2. poll'.pc \in {"line", "evaluate", "battery"}
              BY <5>0, <6>1 DEF PollType
            <6>3. QED
              BY <3>2, <6>2
          <5>2. CASE ~PollUPS
            BY <3>2, <4>5, <5>0, <5>2
            DEF PollStep, endEpisodeOnLinePower, startEpisodeIfNeeded, ConfirmReading,
                VouchForEpisode, applyPolicyMatch, PollIdle, PollType
          <5>3. QED
            BY <5>1, <5>2
        <4>6. CASE ~PollStep
          BY <2>2, <3>2, <4>3, <4>6, PollUnchanged
        <4>7. QED
          BY <4>4, <4>5, <4>6
      <3>3. QED
        BY <3>1, <3>2 DEF BootInv
    <2>3. QED
      BY <2>1, <2>2
  <1>3. QED
    BY <1>1, <1>2, TypeCorrect, PTL DEF Spec

\* A process that the file told of a power-off in this episode is confirmed by a
\* reading only: silence confirms nothing while that mark stands, although the
\* polling loop confirms after it has released the lock it decided under.
THEOREM ReadingFirst == Spec => ReadingBeforeFallback
  <1> DEFINE Reads == ~upsConfirmed /\ upsConfirmed' /\ bootMark => ups \in Reading
  <1>1. ReadInv /\ BootInv /\ [Next]_vars => [Reads]_vars
    <2> SUFFICES ASSUME ReadInv, BootInv, [Next]_vars, ~upsConfirmed, upsConfirmed', bootMark
                 PROVE  ups \in Reading
      OBVIOUS
    <2>1. CASE ConfirmReading
      BY <2>1 DEF ConfirmReading, ReadInv
    <2>2. CASE VouchForEpisode
      BY <2>2 DEF VouchForEpisode, BootInv
    <2>3. CASE evaluateLocalShutdown
      <3>1. PICK silent : upsConfirmed' = (upsConfirmed
                            \/ (Emergency(silent) = "ups_unreachable" /\ episode.on))
        BY <2>3 DEF evaluateLocalShutdown
      <3>2. Emergency(silent) # "ups_unreachable"
        BY DEF BootInv, Emergency, awaitingReadingAfterPowerOff, NoTrigger
      <3>3. QED
        BY <3>1, <3>2
    <2>4. QED
      BY <2>1, <2>2, <2>3, WhatConfirms
  <1>2. QED
    BY <1>1, ReadCorrect, BootCorrect, PTL DEF Spec, ReadingBeforeFallback

(***************************************************************************)
(* NoNodeLeftOut.  A node is adopted when it is greeted or when the        *)
(* command is created or widened, whichever is later.  The replay skips an *)
(* automatic command while the UPS is not confirmed, which cannot be while *)
(* the episode has a command: that takes policies, applied on a confirmed  *)
(* UPS, in the process that confirmed it.                                  *)
(***************************************************************************)
Tracks(x, S) == \A n \in S : targetMatchesNode(x.target, n) => n \in x.nodes

NodeInv ==
  restarts = 0 =>
    /\ episode.cmd # NoCmd => upsConfirmed
    /\ Known(episode.cmd) => Tracks(commands[episode.cmd], connected \ greeting)

\* Timeouts, reports and reopening leave no node out.
LEMMA TracksKept ==
  ASSUME NEW x \in Command, NEW S, Tracks(x, S)
  PROVE  /\ Tracks(TimeOut(x), S)
         /\ \A T \in SUBSET Node : Tracks(Reopen(x, T), S)
         /\ \A n \in Node, st \in Status : Tracks(Report(x, n, st), S)
  <1>1. TimeOut(x).target = x.target /\ TimeOut(x).nodes = x.nodes
    BY DEF TimeOut, Command
  <1>2. \A T \in SUBSET Node : Reopen(x, T).target = x.target /\ Reopen(x, T).nodes = x.nodes \cup T
    BY DEF Reopen, Command
  <1>3. \A n \in Node, st \in Status :
          Report(x, n, st).target = x.target /\ Report(x, n, st).nodes = x.nodes
    BY DEF Report, Command
  <1>4. Tracks(TimeOut(x), S)
    BY <1>1 DEF Tracks
  <1>5. \A T \in SUBSET Node : Tracks(Reopen(x, T), S)
    BY <1>2 DEF Tracks
  <1>6. \A n \in Node, st \in Status : Tracks(Report(x, n, st), S)
    BY <1>3 DEF Tracks
  <1>7. QED
    BY <1>4, <1>5, <1>6

\* Adopting the clients leaves none of them out.
LEMMA AdoptTracks ==
  ASSUME NEW x \in Command, NEW S \in SUBSET Node PROVE Tracks(adoptMatchingClients(x, S), S)
  <1>1. Adoptable(x, S) \in SUBSET Node
    BY AdoptableType
  <1>2. /\ Reopen(x, Adoptable(x, S)).target = x.target
        /\ Reopen(x, Adoptable(x, S)).nodes = x.nodes \cup Adoptable(x, S)
    BY <1>1 DEF Reopen, Command
  <1>3. \A n \in S : targetMatchesNode(x.target, n) => n \in x.nodes \cup Adoptable(x, S)
    BY DEF Adoptable, selectTargets
  <1>4. CASE Adoptable(x, S) = {}
    BY <1>3, <1>4 DEF adoptMatchingClients, Tracks
  <1>5. CASE Adoptable(x, S) # {}
    BY <1>2, <1>3, <1>5 DEF adoptMatchingClients, Tracks
  <1>6. QED
    BY <1>4, <1>5

\* A new command tracks the clients it selects.
LEMMA NewTracks ==
  ASSUME NEW a, NEW d, NEW t, NEW S PROVE Tracks(NewCommand(a, d, t, selectTargets(S, t)), S)
  BY DEF NewCommand, selectTargets, Tracks

\* Steps that neither begin nor end an episode command.
LEMMA NodeReduced ==
  ASSUME NodeInv, [Next]_vars, ~Restart, restarts' = restarts,
         \/ episode'.cmd = NoCmd /\ NoCmd \notin DOMAIN commands'
         \/ /\ episode'.cmd = episode.cmd
            /\ Known(episode.cmd)' =>
                 Known(episode.cmd) /\ Tracks(commands'[episode'.cmd], connected' \ greeting')
  PROVE  NodeInv'
  BY ConfirmedStays DEF NodeInv, Known

\* The polling loop.
LEMMA NodePoll ==
  ASSUME TypeOK, TypeOK', Live, ApplyInv, NodeInv, PollStep PROVE NodeInv'
  <1>0. /\ restarts' = restarts /\ [Next]_vars /\ ~Restart
        /\ NoCmd \notin DOMAIN commands'
    <2>1. restarts' = restarts /\ NoCmd \notin DOMAIN commands'
      BY FileUnchanged, NoCmdUnknown DEF TypeOK, CoreTypeOK
    <2>2. ~Restart
      BY <2>1, MasterAssumption DEF Restart, TypeOK
    <2>3. QED
      BY <2>1, <2>2 DEF Next
  <1>00. IsCommands(commands) /\ episode \in EpisodeType /\ connected \in SUBSET Node
    BY DEF TypeOK, CoreTypeOK
  <1>1. CASE PollUPS \/ ConfirmReading \/ VouchForEpisode \/ evaluateEpisodePolicies
    <2>1. UNCHANGED <<commands, episode, connected, greeting>>
      BY <1>1 DEF PollUPS, ConfirmReading, VouchForEpisode, evaluateEpisodePolicies, core, net
    <2>2. CASE restarts = 0
      BY <1>0, <2>1, <2>2, NodeReduced DEF NodeInv, Known
    <2>3. CASE restarts # 0
      BY <1>0, <2>3 DEF NodeInv
    <2>4. QED
      BY <2>2, <2>3
  <1>2. CASE endEpisodeOnLinePower
    BY <1>0, <1>2, NodeReduced DEF endEpisodeOnLinePower, NoEpisode
  <1>3. CASE startEpisodeIfNeeded
    <2>1. UNCHANGED <<commands, connected, greeting>>
      BY <1>3 DEF startEpisodeIfNeeded, net
    <2>2. episode'.cmd = episode.cmd
      BY <1>3 DEF startEpisodeIfNeeded, NoEpisode, Live, LiveAuto
    <2>3. QED
      BY <1>0, <2>1, <2>2, ConfirmedStays DEF NodeInv, Known
  <1>4. CASE applyPolicyMatch
    <2> DEFINE fired == poll.due \ episode.fired
    <2>1. upsConfirmed' /\ UNCHANGED <<connected, greeting>>
      BY <1>0, <1>4, ConfirmedStays DEF applyPolicyMatch, ApplyInv
    <2>2. CASE UNCHANGED <<core, issued, sent>>
      BY <1>0, <2>1, <2>2 DEF core, NodeInv, Known
    <2>3. CASE Known(episode.cmd) /\ WidenEpisodeCommand(fired)
      <3> DEFINE c == episode.cmd
                 merged == [commands[c] EXCEPT
                              !.target = mergeShutdownTargets(@, PoliciesTarget(poll.due))]
                 command == adoptMatchingClients(merged, connected)
      <3>1. commands[c] \in Command /\ PoliciesTarget(poll.due) \in Target
        BY <1>00, <2>3, LookupCommands, PoliciesTargetType DEF Known, TypeOK, PollType
      <3>2. merged \in Command
        BY <3>1, MergeType DEF Command
      <3>3. Tracks(command, connected)
        BY <1>00, <3>2, AdoptTracks
      <3>4. commands' = [commands EXCEPT ![c] = command] /\ episode'.cmd = c
        BY <1>00, <2>3 DEF WidenEpisodeCommand, EpisodeType
      <3> HIDE DEF command
      <3>5. Tracks(commands'[c], connected)
        BY <1>00, <2>3, <3>3, <3>4 DEF IsCommands, Known
      <3>6. QED
        BY <2>1, <3>4, <3>5 DEF NodeInv, Tracks
    <2>4. CASE CreateEpisodeCommand(fired)
      <3> DEFINE target == PoliciesTarget(poll.due)
                 command == NewCommand(TRUE, DryRun, target, selectTargets(connected, target))
      <3>1. PICK c, f : commands' = Put(f, c, command) /\ episode'.cmd = c
        BY <1>00, <2>4 DEF CreateEpisodeCommand, EpisodeType
      <3>2. Tracks(command, connected)
        BY NewTracks
      <3> HIDE DEF command
      <3>3. commands'[c] = command
        BY <3>1 DEF Put
      <3>4. QED
        BY <2>1, <3>1, <3>2, <3>3 DEF NodeInv, Tracks
    <2>5. QED
      BY <1>4, <2>2, <2>3, <2>4 DEF applyPolicyMatch
  <1>5. QED
    BY <1>1, <1>2, <1>3, <1>4 DEF PollStep

\* The watcher: timeouts and retries.
LEMMA NodeWatch ==
  ASSUME TypeOK, NodeInv, WatchStep, restarts' = restarts, [Next]_vars, ~Restart
  PROVE  NodeInv'
  <1>0. IsCommands(commands)
    BY DEF TypeOK, CoreTypeOK
  <1>00. UNCHANGED <<episode, connected, greeting>>
    BY DEF WatchStep, MarkTimedOutCommands, retryEpisodeShutdown, SkipRetry, SampleUPSStatus,
           evaluateLocalShutdown, SkipLocalShutdown, core, net
  <1> SUFFICES ASSUME restarts = 0, Known(episode.cmd)'
               PROVE  /\ Known(episode.cmd)
                      /\ Tracks(commands'[episode.cmd], connected \ greeting)
    BY <1>00, NodeReduced DEF NodeInv
  <1>1. CASE commands' = commands
    BY <1>00, <1>1 DEF Known, NodeInv
  <1>2. CASE MarkTimedOutCommands
    <2>1. PICK expired :
            LET cmds == [c \in DOMAIN commands |->
                           IF c \in expired THEN TimeOut(commands[c]) ELSE commands[c]]
            IN  \E evicted : commands' = [c \in DOMAIN cmds \ evicted |-> cmds[c]]
      BY <1>2 DEF MarkTimedOutCommands
    <2>2. \A c \in DOMAIN commands' : /\ c \in DOMAIN commands
                                      /\ commands'[c] \in {commands[c], TimeOut(commands[c])}
      BY <2>1
    <2>3. Known(episode.cmd) /\ commands[episode.cmd] \in Command
          /\ Tracks(commands[episode.cmd], connected \ greeting)
      BY <1>0, <1>00, <2>2, LookupCommands DEF Known, NodeInv
    <2>4. QED
      BY <1>00, <2>2, <2>3, TracksKept DEF Known
  <1>3. CASE retryEpisodeShutdown
    <2> DEFINE c == episode.cmd
               adopted == Adoptable(commands[c], connected)
    <2>1. c \in DOMAIN commands
          /\ commands' = [commands EXCEPT ![c] = Reopen(commands[c], adopted)]
      BY <1>3 DEF retryEpisodeShutdown, Known
    <2>2. commands[c] \in Command /\ adopted \in SUBSET Node
          /\ Tracks(commands[c], connected \ greeting)
      BY <1>0, <2>1, LookupCommands, AdoptableType DEF TypeOK, NodeInv, Known
    <2>3. Tracks(Reopen(commands[c], adopted), connected \ greeting)
      BY <2>2, TracksKept
    <2>4. QED
      BY <1>0, <2>1, <2>3 DEF IsCommands, Known
  <1>4. QED
    BY <1>1, <1>2, <1>3 DEF WatchStep, SkipRetry, SampleUPSStatus, evaluateLocalShutdown,
                            SkipLocalShutdown, core

\* A greeted node that the episode command matches is adopted.
LEMMA NodeConn ==
  ASSUME TypeOK, Live, NodeInv, ConnStep, restarts' = restarts, [Next]_vars, ~Restart
  PROVE  NodeInv'
  <1>0. IsCommands(commands) /\ NoCmd \notin DOMAIN commands
    BY NoCmdUnknown DEF TypeOK, CoreTypeOK
  <1>1. ASSUME NEW n \in Node, Register(n) \/ Disconnect(n) PROVE NodeInv'
    <2>1. UNCHANGED <<commands, episode>> /\ connected' \ greeting' \subseteq connected \ greeting
      BY <1>1 DEF Register, Disconnect, core
    <2>2. QED
      BY <2>1, ConfirmedStays DEF NodeInv, Known, Tracks
  <1>2. ASSUME NEW n \in Node, replayPendingShutdown(n) PROVE NodeInv'
    <2>1. UNCHANGED <<episode, connected>> /\ greeting' = greeting \ {n}
      BY <1>2 DEF replayPendingShutdown
    <2> SUFFICES ASSUME restarts = 0, Known(episode.cmd)'
                 PROVE  /\ Known(episode.cmd)
                        /\ Tracks(commands'[episode.cmd], connected \ greeting')
      BY <2>1, NodeReduced DEF NodeInv
    <2> DEFINE c == episode.cmd
               old == commands[c]
    <2>2. Known(c)
      BY <1>2, <2>1 DEF replayPendingShutdown, Known
    <2>3. active = c /\ upsConfirmed /\ old \in Command /\ ~old.replayDisabled
          /\ Tracks(old, connected \ greeting)
      BY <1>0, <2>2, LookupCommands DEF Live, LiveAuto, NodeInv, Known
    <2>4. commands' = [commands EXCEPT ![c] =
                         IF targetMatchesNode(old.target, n) /\ n \notin old.nodes
                         THEN Reopen(old, {n}) ELSE old]
      BY <1>2, <2>2, <2>3 DEF replayPendingShutdown
    <2>5. commands'[c] = IF targetMatchesNode(old.target, n) /\ n \notin old.nodes
                         THEN Reopen(old, {n}) ELSE old
      BY <1>0, <2>2, <2>4 DEF IsCommands, Known
    <2>6. Reopen(old, {n}).target = old.target /\ Reopen(old, {n}).nodes = old.nodes \cup {n}
      BY <2>3 DEF Reopen, Command
    <2>7. Tracks(commands'[c], connected \ greeting')
      BY <2>1, <2>3, <2>5, <2>6 DEF Tracks
    <2>8. QED
      BY <2>2, <2>7
  <1>3. ASSUME NEW h \in Handler, NEW n \in Node, NEW c \in CmdId, NEW status \in AckStatus,
               recordShutdownUpdate(h, n, c, status)
        PROVE  NodeInv'
    <2> DEFINE command == Report(commands[c], n, status)
    <2>1. c \in DOMAIN commands /\ commands' = [commands EXCEPT ![c] = command]
          /\ UNCHANGED <<episode, connected, greeting>>
      BY <1>3 DEF recordShutdownUpdate, Known, net
    <2>2. commands[c] \in Command /\ status \in Status
      BY <1>0, <2>1, LookupCommands, MasterAssumption
    <2>3. \A S : Tracks(commands[c], S) => Tracks(command, S)
      BY <2>2, TracksKept
    <2> HIDE DEF command
    <2>4. \A k \in DOMAIN commands : commands'[k] = IF k = c THEN command ELSE commands[k]
      BY <1>0, <2>1 DEF IsCommands
    <2>5. DOMAIN commands' = DOMAIN commands
      BY <2>1
    <2>6. QED
      BY <2>1, <2>3, <2>4, <2>5, ConfirmedStays DEF NodeInv, Known
  <1>4. QED
    BY <1>1, <1>2, <1>3 DEF ConnStep

\* NodeInv is inductive.
LEMMA NodeCorrect == Spec => []NodeInv
  <1>1. Init => NodeInv
    BY DEF Init, NodeInv, NoEpisode, Known, NoCommands
  <1>2. TypeOK /\ TypeOK' /\ EpisodeCommandIsLive /\ ConfirmInv /\ NodeInv /\ [Next]_vars
          => NodeInv'
    <2> SUFFICES ASSUME TypeOK, TypeOK', EpisodeCommandIsLive, ConfirmInv, NodeInv, [Next]_vars
                 PROVE  NodeInv'
      OBVIOUS
    <2>0. Live /\ ApplyInv /\ restarts \in Nat /\ NoCmd \notin DOMAIN commands'
      BY NoCmdUnknown, MasterAssumption
      DEF EpisodeCommandIsLive, Live, ConfirmInv, TypeOK, CoreTypeOK
    <2>1. CASE Restart
      BY <2>0, <2>1 DEF Restart, NodeInv
    <2>2. CASE restarts' = restarts
      <3>1. ~Restart
        BY <2>0, <2>2 DEF Restart
      <3>2. CASE PollStep \/ WatchStep \/ ConnStep
        BY <2>0, <2>2, <3>1, <3>2, NodePoll, NodeWatch, NodeConn
      <3>3. CASE \/ \E w \in Worker : ExecutionStep(w)
                 \/ persistState \/ SelectManualTargets \/ RejectManualShutdown \/ UNCHANGED vars
        <4>1. UNCHANGED <<commands, connected, greeting>>
          BY <3>3 DEF ExecutionStep, DropExecution, beginLocalShutdownExecution,
             finishLocalShutdownExecution, persistState, SelectManualTargets,
             RejectManualShutdown, vars, core, net
        <4>2. episode'.cmd = episode.cmd
          BY <3>3 DEF ExecutionStep, DropExecution, beginLocalShutdownExecution,
             finishLocalShutdownExecution, persistState, SelectManualTargets,
             RejectManualShutdown, vars, core, TypeOK, CoreTypeOK, EpisodeType
        <4>3. QED
          BY <2>2, <3>1, <4>1, <4>2, ConfirmedStays DEF NodeInv, Known
      <3>4. CASE TriggerShutdown \/ ResetActiveCommand
        <4>1. episode'.cmd = NoCmd
          BY <3>4, <2>0 DEF TriggerShutdown, ResetActiveCommand, Live, LiveAuto, TypeOK,
                            CoreTypeOK, EpisodeType
        <4>2. QED
          BY <2>0, <2>2, <3>1, <4>1, NodeReduced
      <3>5. QED
        BY <2>1, <3>1, <3>2, <3>3, <3>4 DEF Next, AdminStep
    <2>3. restarts' = restarts \/ Restart
      <3>1. persistState \/ UNCHANGED vars => restarts' = restarts
        BY DEF persistState, vars, file
      <3>2. QED
        BY <3>1, FileUnchanged DEF Next
    <2>4. QED
      BY <2>1, <2>2, <2>3
  <1>3. QED
    BY <1>1, <1>2, TypeCorrect, EpisodeCommand, ConfirmCorrect, PTL DEF Spec

\* Until the first restart no order of registrations, policies and widenings
\* leaves out a connected node that the episode command matches.
THEOREM NobodyLeftOut == Spec => []NoNodeLeftOut
  <1>1. NodeInv => NoNodeLeftOut
    BY DEF NodeInv, NoNodeLeftOut, Tracks
  <1>2. QED
    BY <1>1, NodeCorrect, PTL
=============================================================================
