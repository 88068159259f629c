----------------------------- MODULE UPSPolling -----------------------------
(***************************************************************************)
(* The polling of the UPS over time (internal/master/ups.go, policy.go,    *)
(* episode.go): which policy fires at which poll, and when the silence of  *)
(* the UPS or its last reading makes the master power off at once.         *)
(*                                                                         *)
(* The Master module lets a debounce timer or a silence be long enough at  *)
(* any time; here the clock, the thresholds and the timers are modelled    *)
(* and what follows a decision is left out.  A poll takes time: its        *)
(* polledAt is read before the UPS is asked.  The watcher reads the clock  *)
(* and the last reading before it takes the lock and asks for the silence. *)
(***************************************************************************)
EXTENDS UPSReading, Sequences, SequencesExt

CONSTANTS
  Failed,            \* the result of a poll that fails
  Policy,            \* the names of the configured shutdown policies
  When,              \* When[p]: the conditions of policy p, 0 or FALSE if not set
  Duration,          \* Duration[p]: how long they must hold
  Readings,          \* what a poll may return
  UsesNUT,           \* cfg.UsesNUT(): only then the UPS reports low battery
  EmergencyRuntime,  \* cfg.LocalShutdown.EmergencyRuntimeMinutes
  UnreachableAfter,  \* cfg.LocalShutdown.UnreachableAfter, 0 if not set
  MaxTime,           \* bound: the clock
  MaxPolls,          \* bound: polls of one process
  MaxRestarts        \* bound: restarts of the master

Never == -1

ASSUME PollingAssumption ==
  /\ Absent \notin Nat /\ Failed \notin Reading
  /\ When \in [Policy -> [chargeBelow : Nat, runtimeBelow : Nat, low : BOOLEAN,
                          unreachableFor : Nat]]
  /\ Duration \in [Policy -> Nat]
  /\ Readings \subseteq Reading
  /\ UsesNUT \in BOOLEAN
  /\ UsesNUT \/ \A r \in Readings : ~r.low
  /\ EmergencyRuntime \in Nat /\ UnreachableAfter \in Nat
  /\ MaxTime \in Nat /\ MaxPolls \in Nat /\ MaxRestarts \in Nat

VARIABLES
  now,            \* the clock
  startedAt,      \* s.startedAt
  view,           \* s.upsStatus: the last reading, LastSuccessAt, LastErrorAt
  upsConfirmed,   \* s.upsConfirmed
  episode,        \* s.episode
  poll,           \* the polling loop: where it is, polledAt, the result of the poll
  watch,          \* the command watcher: its clock reading and its sample of the UPS
  emergency,      \* the local shutdown an emergency armed in this episode and process
  restarts,       \* how often the master was restarted
  history         \* observer: every poll of this process, [at, result]

clocks == <<now, startedAt, restarts>>
vars   == <<clocks, view, upsConfirmed, episode, poll, watch, emergency, history>>

NoReading == [onBattery |-> FALSE, charge |-> Absent, runtime |-> Absent, low |-> FALSE]
NoView    == [reading |-> NoReading, success |-> Never, error |-> Never]
NoEpisode == [on |-> FALSE, fired |-> {}, poweredOff |-> FALSE,
              matchSince |-> [p \in Policy |-> Never]]
PollIdle  == [pc |-> "idle", at |-> Never, result |-> Failed]
WatchIdle == [pc |-> "idle", at |-> 0, sample |-> Failed, seen |-> 0]

Init ==
  /\ now = 0 /\ startedAt = 0 /\ restarts = 0
  /\ view = NoView
  /\ upsConfirmed = FALSE
  /\ episode = NoEpisode
  /\ poll = PollIdle
  /\ watch = WatchIdle
  /\ emergency = "none"
  /\ history = <<>>

(***************************************************************************)
(* What the UPS view says.                                                 *)
(***************************************************************************)

\* The two results of upsSilentFor: whether the latest poll failed, and for how
\* long the UPS has not answered: since the last success, or since the start of
\* the process.
IsSilent(v) == v.error # Never /\ (v.success = Never \/ v.error > v.success)
upsSilentFor(v, at) == at - (IF v.success = Never THEN startedAt ELSE v.success)

latestSuccessfulUPSStatus_Bug(v) == IF v.success = Never THEN Failed ELSE v.reading

\* The last reading, unless a later poll failed.
latestSuccessfulUPSStatus(v) ==
  IF v.success = Never \/ (v.error # Never /\ ~(v.success > v.error)) THEN Failed ELSE v.reading

\* A condition on a value that the UPS does not report never holds.
policyMatches(r, when) ==
  /\ when.unreachableFor = 0
  /\ when.chargeBelow > 0  => (r.charge # Absent /\ r.charge <= when.chargeBelow)
  /\ when.runtimeBelow > 0 => (r.runtime # Absent /\ r.runtime <= when.runtimeBelow)
  /\ when.low => r.low

awaitingReadingAfterPowerOff == episode.on /\ episode.poweredOff /\ ~upsConfirmed

(***************************************************************************)
(* The polling loop: evaluateUPS.                                          *)
(***************************************************************************)

Tick ==
  /\ now < MaxTime
  /\ now' = now + 1
  /\ UNCHANGED <<startedAt, restarts, view, upsConfirmed, episode, poll, watch, emergency, history>>

\* The ticker of runPollingLoop: no two polls begin at the same time.
BeginPoll ==
  /\ poll.pc = "idle"
  /\ Len(history) < MaxPolls
  /\ now # poll.at
  /\ poll' = [pc |-> "asked", at |-> now, result |-> Failed]
  /\ UNCHANGED <<clocks, view, upsConfirmed, episode, watch, emergency, history>>

recordUPSSuccess(r) ==
  view' = [reading |-> [r EXCEPT !.low = UsesNUT /\ @], success |-> poll.at, error |-> Never]

recordUPSError == view' = [view EXCEPT !.error = poll.at]

\* The UPS answers, or the poll fails: the view is updated.
PollReturns ==
  /\ poll.pc = "asked"
  /\ \E result \in Readings \cup {Failed} :
       /\ IF result = Failed THEN recordUPSError ELSE recordUPSSuccess(result)
       /\ history' = Append(history, [at |-> poll.at, result |-> result])
       /\ poll' = [poll EXCEPT !.pc = "recorded", !.result = result]
  /\ UNCHANGED <<clocks, upsConfirmed, episode, watch, emergency>>

\* The local shutdown of the episode goes with it.  (One that is executing stays,
\* and may keep the next episode from arming its own for a while: see Master.)
endEpisodeOnLinePower ==
  /\ poll.pc = "recorded" /\ poll.result # Failed /\ ~poll.result.onBattery
  /\ episode' = NoEpisode
  /\ upsConfirmed' = TRUE
  /\ emergency' = "none"
  /\ poll' = [poll EXCEPT !.pc = "idle"]
  /\ UNCHANGED <<clocks, view, watch, history>>

startEpisodeIfNeeded ==
  /\ poll.pc = "recorded" /\ poll.result # Failed /\ poll.result.onBattery
  /\ episode' = IF episode.on THEN episode ELSE [NoEpisode EXCEPT !.on = TRUE]
  /\ upsConfirmed' = TRUE
  /\ poll' = [poll EXCEPT !.pc = "evaluate"]
  /\ UNCHANGED <<clocks, view, watch, emergency, history>>

MatchSince_Bug(r, at) ==
  [p \in Policy |-> IF episode.matchSince[p] = Never /\ policyMatches(r, When[p])
                    THEN at ELSE episode.matchSince[p]]

\* The debounce timers after the reading r: a policy that stops matching loses
\* its timer, one that fired keeps what it had.
MatchSince(r, at) ==
  [p \in Policy |-> IF p \in episode.fired \/ When[p].unreachableFor > 0 THEN episode.matchSince[p]
                    ELSE IF ~policyMatches(r, When[p]) THEN Never
                    ELSE IF episode.matchSince[p] = Never THEN at
                    ELSE episode.matchSince[p]]

\* The policies that the reading r makes due: matching for their duration.
DueOnReading(r, at) ==
  {p \in Policy \ episode.fired :
     policyMatches(r, When[p]) /\ at - MatchSince(r, at)[p] >= Duration[p]}

\* The policies about silence that vouch for the episode, fired before or not.
DueOnSilence(at) ==
  {p \in Policy : /\ When[p].unreachableFor > 0
                  /\ upsSilentFor(view, at) >= When[p].unreachableFor}

\* evaluateEpisodePolicies on a reading, and applyPolicyMatch: nobody else
\* changes what they read and write here.
EvaluateReading ==
  /\ poll.pc = "evaluate"
  /\ episode' = [episode EXCEPT !.matchSince = MatchSince(poll.result, poll.at),
                                !.fired = @ \cup DueOnReading(poll.result, poll.at)]
  /\ poll' = [poll EXCEPT !.pc = "idle"]
  /\ UNCHANGED <<clocks, view, upsConfirmed, watch, emergency, history>>

EvaluateSilence_Bug ==
  /\ poll.pc = "recorded" /\ poll.result = Failed
  /\ IF ~IsSilent(view) \/ ~episode.on \/ awaitingReadingAfterPowerOff
     THEN UNCHANGED <<episode, upsConfirmed>>
     ELSE /\ upsConfirmed' = (upsConfirmed \/ DueOnSilence(poll.at) # {})
          /\ episode' = [episode EXCEPT !.fired = @ \cup DueOnSilence(poll.at),
                                        !.matchSince = [p \in Policy |-> Never]]
  /\ poll' = [poll EXCEPT !.pc = "idle"]
  /\ UNCHANGED <<clocks, view, watch, emergency, history>>

\* evaluateEpisodePolicies after a failed poll: the timers are kept.
EvaluateSilence ==
  /\ poll.pc = "recorded" /\ poll.result = Failed
  /\ IF ~IsSilent(view) \/ ~episode.on \/ awaitingReadingAfterPowerOff
     THEN UNCHANGED <<episode, upsConfirmed>>
     ELSE /\ upsConfirmed' = (upsConfirmed \/ DueOnSilence(poll.at) # {})
          /\ episode' = [episode EXCEPT !.fired = @ \cup DueOnSilence(poll.at)]
  /\ poll' = [poll EXCEPT !.pc = "idle"]
  /\ UNCHANGED <<clocks, view, watch, emergency, history>>

(***************************************************************************)
(* The command watcher, as far as an emergency is concerned.               *)
(***************************************************************************)
SampleUPSStatus ==
  /\ watch.pc = "idle"
  /\ watch' = [pc |-> "sampled", at |-> now, sample |-> latestSuccessfulUPSStatus(view),
               seen |-> Len(history)]
  /\ UNCHANGED <<clocks, view, upsConfirmed, episode, poll, emergency, history>>

emergencyRuntimeReached(r) ==
  r # Failed /\ r.onBattery /\ r.runtime # Absent /\ r.runtime < EmergencyRuntime

emergencyTrigger(r, at) ==
  IF emergencyRuntimeReached(r) THEN "emergency_runtime"
  ELSE IF r # Failed /\ r.onBattery /\ r.low THEN "low_battery"
  ELSE IF IsSilent(view) /\ UnreachableAfter > 0 /\ upsSilentFor(view, at) >= UnreachableAfter
       THEN "ups_unreachable" ELSE "none"

\* A silence is not acted on by a master that was powered off in this episode
\* and has read nothing since; otherwise it needs no reading of this process.
evaluateLocalShutdown ==
  /\ watch.pc = "sampled"
  /\ LET found   == emergencyTrigger(watch.sample, watch.at)
         trigger == IF found = "ups_unreachable" /\ awaitingReadingAfterPowerOff
                    THEN "none" ELSE found
         trusted == upsConfirmed \/ trigger = "ups_unreachable"
         arms    == episode.on /\ trusted /\ trigger # "none" /\ emergency = "none"
     IN  /\ upsConfirmed' = (upsConfirmed \/ (trigger = "ups_unreachable" /\ episode.on))
         /\ emergency' = IF arms THEN trigger ELSE emergency
  /\ watch' = [watch EXCEPT !.pc = "idle"]
  /\ UNCHANGED <<clocks, view, episode, poll, history>>

\* An emergency, or the command of a policy that fired, runs the local shutdown
\* command once the UPS is confirmed; a command that fails takes the mark back.
beginLocalShutdownExecution ==
  /\ episode.on /\ upsConfirmed /\ ~episode.poweredOff
  /\ emergency # "none" \/ episode.fired # {}
  /\ episode' = [episode EXCEPT !.poweredOff = TRUE]
  /\ UNCHANGED <<clocks, view, upsConfirmed, poll, watch, emergency, history>>

LocalShutdownFails ==
  /\ episode.on /\ upsConfirmed /\ episode.poweredOff
  /\ episode' = [episode EXCEPT !.poweredOff = FALSE]
  /\ UNCHANGED <<clocks, view, upsConfirmed, poll, watch, emergency, history>>

\* The master restarts; the episode is restored without its timers.
Restart ==
  /\ restarts < MaxRestarts
  /\ restarts' = restarts + 1
  /\ startedAt' = now
  /\ episode' = [episode EXCEPT !.matchSince = NoEpisode.matchSince]
  /\ view' = NoView
  /\ upsConfirmed' = FALSE
  /\ poll' = PollIdle
  /\ watch' = WatchIdle
  /\ emergency' = "none"
  /\ history' = <<>>
  /\ UNCHANGED now

Next ==
  \/ Tick \/ BeginPoll \/ PollReturns
  \/ endEpisodeOnLinePower \/ startEpisodeIfNeeded \/ EvaluateReading \/ EvaluateSilence
  \/ SampleUPSStatus \/ evaluateLocalShutdown
  \/ beginLocalShutdownExecution \/ LocalShutdownFails
  \/ Restart

Spec == Init /\ [][Next]_vars

\* The clock is the wall clock: time.Now().UTC() carries no monotonic reading,
\* so an adjustment may set it back.
StepClock ==
  /\ now' \in 0..(now - 1)
  /\ UNCHANGED <<startedAt, restarts, view, upsConfirmed, episode, poll, watch, emergency, history>>

SteppedSpec == Init /\ [][Next \/ StepClock]_vars

----------------------------------------------------------------------------
TypeOK ==
  /\ now \in 0..MaxTime /\ startedAt \in 0..now /\ restarts \in 0..MaxRestarts
  /\ view \in [reading : Reading, success : Nat \cup {Never}, error : Nat \cup {Never}]
  /\ upsConfirmed \in BOOLEAN
  /\ episode \in [on : BOOLEAN, fired : SUBSET Policy, poweredOff : BOOLEAN,
                  matchSince : [Policy -> Nat \cup {Never}]]
  /\ poll \in [pc : {"idle", "asked", "recorded", "evaluate"}, at : Nat \cup {Never},
               result : Readings \cup {Failed}]
  /\ watch \in [pc : {"idle", "sampled"}, at : Nat, sample : Reading \cup {Failed},
                seen : 0..MaxPolls]
  /\ emergency \in {"none", "emergency_runtime", "low_battery", "ups_unreachable"}
  /\ \A i \in DOMAIN history : history[i] \in [at : Nat, result : Readings \cup {Failed}]

\* The polls of this process, seen from outside: what the code never keeps.
Answered      == {i \in DOMAIN history : history[i].result # Failed}
LatestFailed  == history # <<>> /\ Last(history).result = Failed
LastHeard     == IF Answered = {} THEN startedAt
                 ELSE history[CHOOSE i \in Answered : \A j \in Answered : j <= i].at
\* Which readings satisfy policy p, in the words of the configuration: every
\* condition that is set is reported and within its limit.
Satisfies(r, p) ==
  LET Below(v, limit) == limit = 0 \/ v \in 0..limit
  IN  /\ r.onBattery
      /\ Below(r.charge, When[p].chargeBelow) /\ Below(r.runtime, When[p].runtimeBelow)
      /\ When[p].low => r.low
HeldFor(p) ==
  /\ history # <<>> /\ ~LatestFailed
  /\ \E i \in Answered :
       /\ Last(history).at - history[i].at >= Duration[p]
       /\ \A j \in Answered : j >= i => Satisfies(history[j].result, p)
SilentFor(p) == LatestFailed /\ Last(history).at - LastHeard >= When[p].unreachableFor
Holds(p)     == IF When[p].unreachableFor > 0 THEN SilentFor(p) ELSE HeldFor(p)

\* A policy fires in an episode only on what this process has seen: every answer
\* of the UPS since at least the duration of the policy satisfied its conditions,
\* or (ups_unreachable_for) the UPS has been silent for that long and is silent
\* now.  Timers of an earlier episode or process, a value that is not reported,
\* or a reading older than a failed poll never count.
FiresOnlyWhenDue ==
  [][\A p \in episode'.fired \ episode.fired : episode.on /\ Holds(p)]_vars

\* Once a poll has been evaluated, no policy whose condition holds is left out,
\* even if polls in between failed or other policies fired before: the shutdown
\* is not delayed beyond the configured duration.  (After a power-off of the
\* master silence waits for a first answer.)
DuePoliciesFired ==
  (poll.pc = "idle" /\ history # <<>> /\ episode.on /\ ~awaitingReadingAfterPowerOff)
    => \A p \in Policy : Holds(p) => p \in episode.fired

\* The master powers off at once only in an episode, and only for the latest
\* answer of the UPS at the watcher's tick (critical runtime or low battery)
\* or for a silence that has lasted unreachable_after.
EmergencyIsReal ==
  [][emergency' # emergency /\ emergency' # "none" =>
       /\ episode.on
       /\ IF emergency' = "ups_unreachable"
          THEN LatestFailed /\ watch.at - LastHeard >= UnreachableAfter
          ELSE LET r == history[watch.seen].result
               IN  /\ r # Failed /\ r.onBattery
                   /\ r.low \/ r.runtime \in 0..(EmergencyRuntime - 1)]_vars

\* When the latest poll failed the UPS counts as silent (comment on upsSilentFor,
\* ups.go:77).
FailedPollIsSilence ==
  poll.pc = "idle" /\ LatestFailed => IsSilent(view)
=============================================================================
