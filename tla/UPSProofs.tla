----------------------------- MODULE UPSProofs ------------------------------
(***************************************************************************)
(* The reading of the UPS, checked by TLAPS.                               *)
(*                                                                         *)
(* The polling loop, for any policies, readings and thresholds and any     *)
(* number of polls and restarts: a policy fires when and only when what    *)
(* this process has polled makes it due, and an emergency is one.          *)
(*                                                                         *)
(* One poll, for any numbers and flags and answers of any length: what it  *)
(* returns is what the UPS told, and it is a reading as UPSPolling assumes *)
(* it.                                                                     *)
(***************************************************************************)
EXTENDS UPSPolling, UPSReader, SequenceTheorems, TLAPS

(***************************************************************************)
(* The invariant: what the view and the timers say of the polls so far.    *)
(***************************************************************************)
Poll == [at : Nat, result : Readings \cup {Failed}]

\* The result of the last poll is still to be evaluated.
Evaluating == poll.pc \in {"recorded", "evaluate"}

\* The answers that evaluateUPS is done with.
Evaluated == {i \in Answered : Evaluating => i # Len(history)}

\* The polls are in the order of their times, and the loop is at the last one.
PollsInOrder ==
  /\ history \in Seq(Poll)
  /\ Len(history) <= MaxPolls
  /\ poll.pc = "asked" => Len(history) < MaxPolls
  /\ poll.at <= now
  /\ poll.pc # "idle" => poll.at \in Nat
  /\ \A i, j \in DOMAIN history : i < j => history[i].at < history[j].at
  /\ poll.pc = "asked" => \A i \in DOMAIN history : history[i].at < poll.at
  /\ poll.pc # "asked" /\ history # <<>> => history[Len(history)].at = poll.at
  /\ Evaluating => history # <<>> /\ history[Len(history)].result = poll.result
  /\ poll.pc = "evaluate" => poll.result # Failed /\ poll.result.onBattery /\ episode.on

\* The view is the last answer, and remembers a failure only since then.
ViewIsLastAnswer ==
  /\ view.success = Never => Answered = {}
  /\ view.success # Never =>
       \E i \in Answered : /\ \A j \in Answered : j <= i
                           /\ view.success = history[i].at
                           /\ view.reading = history[i].result
  /\ view.error = IF LatestFailed THEN history[Len(history)].at ELSE Never

\* The watcher's sample is a reading that was answered.
SampleIsAnswer ==
  watch.pc = "sampled" /\ watch.sample # Failed =>
    watch.seen \in DOMAIN history /\ history[watch.seen].result = watch.sample

\* Every answer from the i-th on that was evaluated satisfies policy p.
SatisfiedSince(i, p) == \A j \in Evaluated : j >= i => Satisfies(history[j].result, p)

\* The timer of a policy that has not fired runs since the first of the answers
\* that satisfied it without a break, and is not over.
TimersRun ==
  \A p \in Policy \ episode.fired : When[p].unreachableFor = 0 =>
    /\ episode.matchSince[p] # Never =>
         \E i \in Evaluated : history[i].at = episode.matchSince[p] /\ SatisfiedSince(i, p)
    /\ \A i \in Evaluated : SatisfiedSince(i, p) =>
         episode.matchSince[p] # Never /\ episode.matchSince[p] <= history[i].at
    /\ ~Evaluating /\ history # <<>> /\ ~LatestFailed /\ episode.matchSince[p] # Never =>
         history[Len(history)].at - episode.matchSince[p] < Duration[p]

\* Without an episode the last answer was line power.
LineEndsEpisode ==
  ~episode.on => \A i \in Evaluated : \E j \in Evaluated : j >= i /\ ~history[j].result.onBattery

\* A silence that was evaluated has fired its policies.
SilenceFired ==
  ~Evaluating /\ LatestFailed /\ episode.on /\ ~awaitingReadingAfterPowerOff =>
    \A p \in Policy : When[p].unreachableFor > 0 /\ SilentFor(p) => p \in episode.fired

PollingInv ==
  /\ TypeOK /\ PollsInOrder /\ ViewIsLastAnswer /\ SampleIsAnswer
  /\ TimersRun /\ LineEndsEpisode /\ SilenceFired

(***************************************************************************)
(* What the view says of the polls.                                        *)
(***************************************************************************)

\* A failed poll is the last of the history.
LEMMA LatestFailedIs ==
  ASSUME PollsInOrder
  PROVE  /\ Len(history) \in Nat /\ DOMAIN history = 1..Len(history)
         /\ history # <<>> <=> Len(history) \in DOMAIN history
         /\ \A i \in DOMAIN history : history[i] \in Poll
         /\ LatestFailed <=> history # <<>> /\ history[Len(history)].result = Failed
  <1>1. history \in Seq(Poll)
    BY DEF PollsInOrder
  <1>2. Len(history) \in Nat /\ DOMAIN history = 1..Len(history)
    BY <1>1, LenProperties
  <1>3. history # <<>> <=> Len(history) # 0
    BY <1>1, EmptySeq
  <1>4. \A i \in DOMAIN history : history[i] \in Poll
    BY <1>1, <1>2, ElementOfSeq
  <1> QED
    BY <1>2, <1>3, <1>4 DEF LatestFailed, Last

\* The last answer is what CHOOSE finds.
LEMMA LastHeardIs ==
  ASSUME PollsInOrder, NEW i \in Answered, \A j \in Answered : j <= i
  PROVE  LastHeard = history[i].at
  <1> DEFINE last == CHOOSE k \in Answered : \A j \in Answered : j <= k
  <1>1. Answered \subseteq Nat
    BY LatestFailedIs DEF Answered
  <1>2. last \in Answered /\ \A j \in Answered : j <= last
    OBVIOUS
  <1>3. last = i
    <2> HIDE DEF last
    <2> QED
      BY <1>1, <1>2
  <1> QED
    BY <1>3 DEF LastHeard

\* upsSilentFor counts from the last answer, and says silent when the latest
\* poll failed.
LEMMA SilenceIsMeasured ==
  ASSUME PollsInOrder, ViewIsLastAnswer
  PROVE  /\ IsSilent(view) <=> LatestFailed
         /\ \A at : upsSilentFor(view, at) = at - LastHeard
  <1>1. CASE Answered = {}
    <2>1. view.success = Never
      BY <1>1 DEF ViewIsLastAnswer
    <2>2. LastHeard = startedAt
      BY <1>1 DEF LastHeard
    <2>3. LatestFailed => history[Len(history)].at \in Nat
      BY LatestFailedIs DEF Poll
    <2> QED
      BY <2>1, <2>2, <2>3 DEF IsSilent, upsSilentFor, ViewIsLastAnswer, Never
  <1>2. CASE Answered # {}
    <2>1. view.success # Never
      BY <1>2 DEF ViewIsLastAnswer
    <2>2. PICK i \in Answered : (\A j \in Answered : j <= i) /\ view.success = history[i].at
      BY <2>1 DEF ViewIsLastAnswer
    <2>3. LastHeard = history[i].at
      BY <2>2, LastHeardIs
    <2>4. ASSUME LatestFailed PROVE history[i].at < history[Len(history)].at
      <3>1. i \in DOMAIN history /\ history[i].result # Failed
        BY DEF Answered
      <3>2. i # Len(history)
        BY <3>1, <2>4, LatestFailedIs
      <3> QED
        BY <3>1, <3>2, <2>4, LatestFailedIs DEF PollsInOrder
    <2>5. LatestFailed => history[Len(history)].at \in Nat
      BY LatestFailedIs DEF Poll
    <2> QED
      BY <2>1, <2>2, <2>3, <2>4, <2>5 DEF IsSilent, upsSilentFor, ViewIsLastAnswer, Never
  <1> QED
    BY <1>1, <1>2

\* latestSuccessfulUPSStatus returns the answer of the latest poll, or none.
LEMMA LatestReadingIs ==
  ASSUME PollsInOrder, ViewIsLastAnswer, latestSuccessfulUPSStatus(view) # Failed
  PROVE  /\ Len(history) \in DOMAIN history
         /\ history[Len(history)].result = latestSuccessfulUPSStatus(view)
  <1>1. view.success # Never
    BY DEF latestSuccessfulUPSStatus
  <1>2. PICK i \in Answered : /\ \A j \in Answered : j <= i
                              /\ view.success = history[i].at /\ view.reading = history[i].result
    BY <1>1 DEF ViewIsLastAnswer
  <1>3. i \in DOMAIN history /\ history # <<>>
    BY <1>2, LatestFailedIs DEF Answered
  <1>4. ~LatestFailed
    <2>1. SUFFICES ASSUME LatestFailed PROVE FALSE
      OBVIOUS
    <2>2. IsSilent(view)
      BY <2>1, SilenceIsMeasured
    <2>3. ~(view.success > view.error) /\ view.error # Never
      <3>1. view.success \in Nat
        BY <1>2, <1>3, LatestFailedIs DEF Poll
      <3>2. view.error \in Nat
        BY <2>1, LatestFailedIs DEF ViewIsLastAnswer, Poll
      <3> QED
        BY <1>1, <2>2, <3>1, <3>2 DEF IsSilent, Never
    <2> QED
      BY <2>3 DEF latestSuccessfulUPSStatus
  <1>5. Len(history) \in Answered
    BY <1>3, <1>4, LatestFailedIs DEF Answered
  <1>6. i = Len(history)
    BY <1>2, <1>3, <1>5, LatestFailedIs
  <1>7. latestSuccessfulUPSStatus(view) = view.reading
    BY DEF latestSuccessfulUPSStatus
  <1> QED
    BY <1>2, <1>3, <1>6, <1>7

\* The words of the configuration and policyMatches agree.
LEMMA SatisfiesIsMatch ==
  ASSUME NEW r \in Readings, NEW p \in Policy, When[p].unreachableFor = 0
  PROVE  Satisfies(r, p) <=> r.onBattery /\ policyMatches(r, When[p])
  <1>1. When[p] \in [chargeBelow : Nat, runtimeBelow : Nat, low : BOOLEAN, unreachableFor : Nat]
    BY PollingAssumption
  <1>2. r \in Reading /\ Absent \notin Nat
    BY PollingAssumption
  <1> QED
    BY <1>1, <1>2 DEF Satisfies, policyMatches, Reading, Value

(***************************************************************************)
(* Types.                                                                  *)
(***************************************************************************)

\* A UPS that is not asked over NUT never reports a low battery, so that the
\* view keeps the reading as it was returned.
LEMMA ReadingKept ==
  ASSUME NEW r \in Readings PROVE [r EXCEPT !.low = UsesNUT /\ @] = r
  <1>1. r \in Reading /\ r.low \in BOOLEAN
    BY PollingAssumption DEF Reading
  <1>2. (UsesNUT /\ r.low) = r.low
    BY <1>1, PollingAssumption
  <1>3. [r EXCEPT !.low = r.low] = r
    BY <1>1 DEF Reading
  <1> QED
    BY <1>2, <1>3

\* Timers are times or not running.
LEMMA MatchSinceType ==
  ASSUME TypeOK, NEW r, NEW at \in Nat
  PROVE  MatchSince(r, at) \in [Policy -> Nat \cup {Never}]
  BY DEF TypeOK, MatchSince

\* The loop and the watcher, as far as they leave the episode alone.
LEMMA LoopTypes ==
  ASSUME TypeOK, PollsInOrder, Tick \/ BeginPoll \/ PollReturns \/ SampleUPSStatus
  PROVE  TypeOK'
  <1>tick. CASE Tick
    BY <1>tick, PollingAssumption DEF Tick, TypeOK
  <1>begin. CASE BeginPoll
    BY <1>begin, PollingAssumption DEF BeginPoll, TypeOK, clocks
  <1>returns. CASE PollReturns
    <2>1. PICK result \in Readings \cup {Failed} :
            /\ IF result = Failed THEN recordUPSError ELSE recordUPSSuccess(result)
            /\ history' = Append(history, [at |-> poll.at, result |-> result])
            /\ poll' = [poll EXCEPT !.pc = "recorded", !.result = result]
      BY <1>returns DEF PollReturns
    <2>2. poll.at \in Nat
      BY <1>returns DEF PollReturns, PollsInOrder
    <2>3. view' \in [reading : Reading, success : Nat \cup {Never}, error : Nat \cup {Never}]
      <3>1. CASE result = Failed
        BY <2>1, <2>2, <3>1 DEF recordUPSError, TypeOK
      <3>2. CASE result # Failed
        BY <2>1, <2>2, <3>2, ReadingKept, PollingAssumption DEF recordUPSSuccess
      <3> QED
        BY <3>1, <3>2
    <2>4. history' \in Seq(Poll)
      BY <2>1, <2>2, AppendProperties DEF PollsInOrder, Poll
    <2>5. \A i \in DOMAIN history' : history'[i] \in Poll
      BY <2>4, LenProperties, ElementOfSeq
    <2>6. poll' \in [pc : {"idle", "asked", "recorded", "evaluate"}, at : Nat \cup {Never},
                     result : Readings \cup {Failed}]
      BY <2>1 DEF TypeOK
    <2> QED
      BY <2>3, <2>5, <2>6, <1>returns DEF PollReturns, TypeOK, Poll, clocks
  <1>sample. CASE SampleUPSStatus
    <2>1. latestSuccessfulUPSStatus(view) \in Reading \cup {Failed}
      BY DEF TypeOK, latestSuccessfulUPSStatus
    <2>2. Len(history) \in 0..MaxPolls
      BY LatestFailedIs DEF PollsInOrder
    <2>3. now \in Nat
      BY PollingAssumption DEF TypeOK
    <2> QED
      BY <2>1, <2>2, <2>3, <1>sample DEF SampleUPSStatus, TypeOK, clocks
  <1> QED
    BY <1>tick, <1>begin, <1>returns, <1>sample

\* The evaluation of a poll, the emergency and a restart.
LEMMA EpisodeTypes ==
  ASSUME TypeOK, PollsInOrder,
         \/ endEpisodeOnLinePower \/ startEpisodeIfNeeded \/ EvaluateReading
         \/ EvaluateSilence \/ evaluateLocalShutdown \/ Restart
         \/ beginLocalShutdownExecution \/ LocalShutdownFails
  PROVE  TypeOK'
  <1> DEFINE Episodes == [on : BOOLEAN, fired : SUBSET Policy, poweredOff : BOOLEAN,
                          matchSince : [Policy -> Nat \cup {Never}]]
  <1>0. NoEpisode \in Episodes
    BY DEF NoEpisode
  <1>line. CASE endEpisodeOnLinePower
    BY <1>line, <1>0 DEF endEpisodeOnLinePower, TypeOK, clocks
  <1>start. CASE startEpisodeIfNeeded
    BY <1>start, <1>0 DEF startEpisodeIfNeeded, TypeOK, clocks
  <1>reading. CASE EvaluateReading
    <2>1. poll.at \in Nat
      BY <1>reading DEF EvaluateReading, PollsInOrder
    <2>2. MatchSince(poll.result, poll.at) \in [Policy -> Nat \cup {Never}]
      BY <2>1, MatchSinceType
    <2>3. DueOnReading(poll.result, poll.at) \in SUBSET Policy
      BY DEF DueOnReading
    <2> QED
      BY <2>2, <2>3, <1>reading DEF EvaluateReading, TypeOK, clocks
  <1>silence. CASE EvaluateSilence
    <2>1. DueOnSilence(poll.at) \in SUBSET Policy
      BY DEF DueOnSilence
    <2>2. episode' \in Episodes
      BY <2>1, <1>silence DEF EvaluateSilence, TypeOK
    <2>3. upsConfirmed' \in BOOLEAN
      BY <1>silence DEF EvaluateSilence, TypeOK
    <2> QED
      BY <2>2, <2>3, <1>silence DEF EvaluateSilence, TypeOK, clocks
  <1>local. CASE evaluateLocalShutdown
    <2>1. episode' \in Episodes /\ upsConfirmed' \in BOOLEAN
      BY <1>local DEF evaluateLocalShutdown, TypeOK
    <2>2. emergency' \in {"none", "emergency_runtime", "low_battery", "ups_unreachable"}
      BY <1>local DEF evaluateLocalShutdown, emergencyTrigger, TypeOK
    <2> QED
      BY <2>1, <2>2, <1>local DEF evaluateLocalShutdown, TypeOK, clocks
  <1>runs. CASE beginLocalShutdownExecution \/ LocalShutdownFails
    BY <1>runs DEF beginLocalShutdownExecution, LocalShutdownFails, TypeOK, clocks
  <1>restart. CASE Restart
    <2>1. view' \in [reading : Reading, success : Nat \cup {Never}, error : Nat \cup {Never}]
      BY <1>restart DEF Restart, NoView, NoReading, Reading, Value
    <2>2. episode' \in Episodes
      BY <1>restart, <1>0 DEF Restart, TypeOK
    <2>3. poll' \in [pc : {"idle", "asked", "recorded", "evaluate"}, at : Nat \cup {Never},
                     result : Readings \cup {Failed}]
      BY <1>restart DEF Restart, PollIdle
    <2>4. watch' \in [pc : {"idle", "sampled"}, at : Nat, sample : Reading \cup {Failed},
                      seen : 0..MaxPolls]
      BY <1>restart, PollingAssumption DEF Restart, WatchIdle
    <2>5. now' \in 0..MaxTime /\ startedAt' \in 0..now' /\ restarts' \in 0..MaxRestarts
      BY <1>restart, PollingAssumption DEF Restart, TypeOK
    <2>6. upsConfirmed' \in BOOLEAN /\ emergency' = "none" /\ history' = <<>>
      BY <1>restart DEF Restart
    <2> QED
      BY <2>1, <2>2, <2>3, <2>4, <2>5, <2>6 DEF TypeOK
  <1> QED
    BY <1>line, <1>start, <1>reading, <1>silence, <1>local, <1>runs, <1>restart

(***************************************************************************)
(* Steps that record no poll.                                              *)
(***************************************************************************)

\* What is seen from outside is a matter of the history.
LEMMA SeenUnchanged ==
  ASSUME UNCHANGED <<history, startedAt>>
  PROVE  /\ Answered' = Answered /\ (LatestFailed' <=> LatestFailed) /\ LastHeard' = LastHeard
         /\ \A p \in Policy : SilentFor(p)' <=> SilentFor(p)
  <1>1. Answered' = Answered
    BY DEF Answered
  <1>2. LastHeard' = LastHeard
    BY <1>1 DEF LastHeard
  <1> QED
    BY <1>1, <1>2 DEF LatestFailed, SilentFor

\* As long as nothing is recorded or evaluated the timers mean the same.
LEMMA TimersUnchanged ==
  ASSUME UNCHANGED <<history, startedAt>>, Evaluated' = Evaluated,
         UNCHANGED <<episode.fired, episode.matchSince>>,
         Evaluating' <=> Evaluating, TimersRun
  PROVE  TimersRun'
  <1>1. \A i \in Evaluated, p \in Policy : SatisfiedSince(i, p)' <=> SatisfiedSince(i, p)
    BY DEF SatisfiedSince
  <1> QED
    BY <1>1, SeenUnchanged DEF TimersRun

\* Time passes, a poll begins, or the watcher samples the UPS.
LEMMA WaitingKeeps ==
  ASSUME PollingInv, Tick \/ BeginPoll \/ SampleUPSStatus
  PROVE  PollingInv'
  <1> USE DEF PollingInv
  <1>1. UNCHANGED <<history, startedAt, view, episode, upsConfirmed>>
    BY DEF Tick, BeginPoll, SampleUPSStatus, clocks
  <1>2. ~Evaluating \/ poll' = poll
    BY DEF Tick, BeginPoll, SampleUPSStatus, Evaluating
  <1>3. Evaluating' <=> Evaluating
    BY <1>2 DEF Tick, BeginPoll, SampleUPSStatus, Evaluating
  <1>4. Evaluated' = Evaluated
    BY <1>1, <1>3, SeenUnchanged DEF Evaluated
  <1>types. TypeOK'
    BY LoopTypes
  <1>polls. PollsInOrder'
    <2>tick. CASE Tick
      <3>1. poll.at <= now'
        <4>1. poll.at \in Int /\ now \in Int
          BY PollingAssumption DEF TypeOK, Never
        <4> QED
          BY <4>1, <2>tick DEF Tick, PollsInOrder
      <3> QED
        BY <3>1, <2>tick, <1>3 DEF Tick, PollsInOrder
    <2>begin. CASE BeginPoll
      <3>1. poll' = [pc |-> "asked", at |-> now, result |-> Failed]
        BY <2>begin DEF BeginPoll
      <3>2. \A i \in DOMAIN history : history[i].at < now
        <4>1. poll.at < now
          BY <2>begin DEF BeginPoll, PollsInOrder, TypeOK, Never
        <4>2. TAKE i \in DOMAIN history
        <4>3. history[Len(history)].at = poll.at
          BY <2>begin, LatestFailedIs DEF BeginPoll, PollsInOrder
        <4>4. i < Len(history) => history[i].at < history[Len(history)].at
          BY LatestFailedIs DEF PollsInOrder
        <4>5. history[i].at \in Nat /\ history[Len(history)].at \in Nat
          BY LatestFailedIs DEF Poll
        <4> QED
          BY <4>1, <4>3, <4>4, <4>5, LatestFailedIs DEF TypeOK, Never
      <3>3. now \in Nat
        BY PollingAssumption DEF TypeOK
      <3>4. Len(history) < MaxPolls
        BY <2>begin DEF BeginPoll
      <3> QED
        BY <3>1, <3>2, <3>3, <3>4, <2>begin DEF BeginPoll, PollsInOrder, Evaluating, clocks
    <2>sample. CASE SampleUPSStatus
      BY <2>sample, <1>3 DEF SampleUPSStatus, PollsInOrder, clocks
    <2> QED
      BY <2>tick, <2>begin, <2>sample
  <1>view. ViewIsLastAnswer'
    BY <1>1, SeenUnchanged DEF ViewIsLastAnswer
  <1>sample. SampleIsAnswer'
    <2>1. CASE SampleUPSStatus
      BY <2>1, LatestReadingIs DEF SampleUPSStatus, SampleIsAnswer
    <2>2. CASE Tick \/ BeginPoll
      BY <2>2 DEF Tick, BeginPoll, SampleIsAnswer
    <2> QED
      BY <2>1, <2>2
  <1>timers. TimersRun'
    BY <1>1, <1>3, <1>4, TimersUnchanged
  <1>line. LineEndsEpisode'
    BY <1>1, <1>4 DEF LineEndsEpisode
  <1>silence. SilenceFired'
    BY <1>1, <1>3, SeenUnchanged DEF SilenceFired, awaitingReadingAfterPowerOff
  <1> QED
    BY <1>types, <1>polls, <1>view, <1>sample, <1>timers, <1>line, <1>silence

\* The watcher looks for an emergency, and the local shutdown command runs: the
\* timers are not touched, the UPS is confirmed only where silence has already
\* been trusted, and the mark of a power-off changes only once it is.
LEMMA EmergencyKeeps ==
  ASSUME PollingInv,
         evaluateLocalShutdown \/ beginLocalShutdownExecution \/ LocalShutdownFails
  PROVE  PollingInv'
  <1> USE DEF PollingInv
  <1> USE DEF evaluateLocalShutdown, beginLocalShutdownExecution, LocalShutdownFails
  <1>1. UNCHANGED <<history, startedAt, view, poll, now>>
    BY DEF clocks
  <1>2. /\ episode'.on = episode.on /\ episode'.fired = episode.fired
        /\ episode'.matchSince = episode.matchSince
    BY DEF TypeOK
  <1>3. (Evaluating' <=> Evaluating) /\ Evaluated' = Evaluated
    BY <1>1, SeenUnchanged DEF Evaluating, Evaluated
  <1>4. awaitingReadingAfterPowerOff => awaitingReadingAfterPowerOff'
    BY <1>2 DEF awaitingReadingAfterPowerOff, TypeOK
  <1>types. TypeOK'
    BY EpisodeTypes
  <1>polls. PollsInOrder'
    BY <1>1, <1>2, <1>3 DEF PollsInOrder
  <1>view. ViewIsLastAnswer'
    BY <1>1, SeenUnchanged DEF ViewIsLastAnswer
  <1>sample. SampleIsAnswer'
    BY DEF SampleIsAnswer, TypeOK
  <1>timers. TimersRun'
    BY <1>1, <1>2, <1>3, TimersUnchanged
  <1>line. LineEndsEpisode'
    BY <1>1, <1>2, <1>3 DEF LineEndsEpisode
  <1>silence. SilenceFired'
    BY <1>1, <1>2, <1>3, <1>4, SeenUnchanged DEF SilenceFired
  <1> QED
    BY <1>types, <1>polls, <1>view, <1>sample, <1>timers, <1>line, <1>silence

\* A restart forgets polls, view and timers.
LEMMA RestartKeeps ==
  ASSUME PollingInv, Restart
  PROVE  PollingInv'
  <1>1. /\ history' = <<>> /\ view' = NoView /\ poll' = PollIdle /\ watch' = WatchIdle
        /\ now' = now
        /\ episode'.matchSince = [p \in Policy |-> Never]
    BY DEF Restart, PollingInv, TypeOK, NoEpisode
  <1>2. Answered' = {} /\ Evaluated' = {} /\ ~LatestFailed'
    BY <1>1 DEF Answered, Evaluated, LatestFailed
  <1>3. history' \in Seq(Poll) /\ Len(history') = 0
    BY <1>1, EmptySeq
  <1>types. TypeOK'
    BY EpisodeTypes DEF PollingInv
  <1>polls. PollsInOrder'
    BY <1>1, <1>3, PollingAssumption
    DEF PollsInOrder, PollIdle, Evaluating, Never, PollingInv, TypeOK
  <1>view. ViewIsLastAnswer'
    BY <1>1, <1>2 DEF ViewIsLastAnswer, NoView
  <1>sample. SampleIsAnswer'
    BY <1>1 DEF SampleIsAnswer, WatchIdle
  <1>timers. TimersRun'
    BY <1>1, <1>2 DEF TimersRun
  <1>line. LineEndsEpisode'
    BY <1>2 DEF LineEndsEpisode
  <1>silence. SilenceFired'
    BY <1>2 DEF SilenceFired
  <1> QED
    BY <1>types, <1>polls, <1>view, <1>sample, <1>timers, <1>line, <1>silence DEF PollingInv

(***************************************************************************)
(* The poll returns.                                                       *)
(***************************************************************************)

\* The result joins the history as the newest poll.
LEMMA RecordedPoll ==
  ASSUME TypeOK, PollsInOrder, PollReturns
  PROVE  \E result \in Readings \cup {Failed} :
           /\ IF result = Failed THEN recordUPSError ELSE recordUPSSuccess(result)
           /\ poll' = [poll EXCEPT !.pc = "recorded", !.result = result]
           /\ poll'.at = poll.at /\ poll'.result = result
           /\ history' \in Seq(Poll) /\ Len(history') = Len(history) + 1
           /\ DOMAIN history' = DOMAIN history \cup {Len(history')}
           /\ Len(history') \notin DOMAIN history
           /\ \A i \in DOMAIN history : history'[i] = history[i] /\ i < Len(history')
           /\ history'[Len(history')].at = poll.at /\ poll.at \in Nat
           /\ history'[Len(history')].result = result
           /\ history' # <<>>
  <1>1. PICK result \in Readings \cup {Failed} :
          /\ IF result = Failed THEN recordUPSError ELSE recordUPSSuccess(result)
          /\ history' = Append(history, [at |-> poll.at, result |-> result])
          /\ poll' = [poll EXCEPT !.pc = "recorded", !.result = result]
    BY DEF PollReturns
  <1>2. poll.at \in Nat
    BY DEF PollReturns, PollsInOrder
  <1>3. history \in Seq(Poll) /\ [at |-> poll.at, result |-> result] \in Poll
    BY <1>2 DEF PollsInOrder, Poll
  <1>4. /\ history' \in Seq(Poll) /\ Len(history') = Len(history) + 1 /\ history' # <<>>
        /\ \A i \in 1..Len(history) : history'[i] = history[i]
        /\ history'[Len(history) + 1] = [at |-> poll.at, result |-> result]
    BY <1>1, <1>3, AppendProperties
  <1>5. DOMAIN history' = 1..Len(history')
    BY <1>4, LenProperties
  <1>6. poll'.at = poll.at /\ poll'.result = result
    BY <1>1 DEF TypeOK
  <1>7. Len(history) \in Nat /\ DOMAIN history = 1..Len(history)
    BY LatestFailedIs
  <1>8. /\ DOMAIN history' = DOMAIN history \cup {Len(history')}
        /\ Len(history') \notin DOMAIN history
        /\ \A i \in DOMAIN history : history'[i] = history[i] /\ i < Len(history')
    BY <1>4, <1>5, <1>7
  <1>9. history'[Len(history')].at = poll.at /\ history'[Len(history')].result = result
    BY <1>4
  <1> QED
    BY <1>1, <1>2, <1>4, <1>6, <1>8, <1>9 DEF recordUPSError, recordUPSSuccess

\* The view follows the history, and nothing that was evaluated changes.
LEMMA ReturnKeeps ==
  ASSUME PollingInv, PollReturns
  PROVE  PollingInv'
  <1> USE DEF PollingInv
  <1>r. PICK result \in Readings \cup {Failed} :
          /\ IF result = Failed THEN recordUPSError ELSE recordUPSSuccess(result)
          /\ poll' = [poll EXCEPT !.pc = "recorded", !.result = result]
          /\ poll'.at = poll.at /\ poll'.result = result
          /\ history' \in Seq(Poll) /\ Len(history') = Len(history) + 1
          /\ DOMAIN history' = DOMAIN history \cup {Len(history')}
          /\ Len(history') \notin DOMAIN history
          /\ \A i \in DOMAIN history : history'[i] = history[i] /\ i < Len(history')
          /\ history'[Len(history')].at = poll.at /\ poll.at \in Nat
          /\ history'[Len(history')].result = result
          /\ history' # <<>>
    BY RecordedPoll
  <1>pc. poll.pc = "asked" /\ poll'.pc = "recorded"
    BY <1>r DEF PollReturns, TypeOK
  <1>same. UNCHANGED <<episode, upsConfirmed, watch, now, startedAt>>
    BY DEF PollReturns, clocks
  <1>nat. /\ Len(history) \in Nat /\ DOMAIN history = 1..Len(history)
          /\ \A i \in DOMAIN history : history[i].at \in Nat
    BY LatestFailedIs DEF Poll
  <1>answered. Answered' = Answered \cup (IF result = Failed THEN {} ELSE {Len(history')})
    BY <1>r DEF Answered
  <1>evaluated. Evaluated' = Evaluated
    <2>1. Evaluated = Answered
      BY <1>pc DEF Evaluated, Evaluating
    <2>2. Evaluated' = {i \in Answered' : i # Len(history')}
      BY <1>pc DEF Evaluated, Evaluating
    <2>3. \A i \in Answered : i # Len(history')
      BY <1>r DEF Answered
    <2> QED
      BY <1>answered, <2>1, <2>2, <2>3
  <1>polls. PollsInOrder'
    <2>1. poll.at <= now /\ (\A i \in DOMAIN history : history[i].at < poll.at)
      BY <1>pc DEF PollsInOrder
    <2>2. Len(history') <= MaxPolls
      BY <1>r, <1>pc, <1>nat, PollingAssumption DEF PollsInOrder
    <2>3. ASSUME NEW i \in DOMAIN history', NEW j \in DOMAIN history', i < j
          PROVE  history'[i].at < history'[j].at
      <3>1. i \in DOMAIN history
        BY <2>3, <1>r, <1>nat
      <3>2. CASE j \in DOMAIN history
        BY <2>3, <3>1, <3>2, <1>r DEF PollsInOrder
      <3>3. CASE j = Len(history')
        BY <3>1, <3>3, <2>1, <1>r
      <3> QED
        BY <3>2, <3>3, <1>r
    <2> QED
      BY <2>1, <2>2, <2>3, <1>r, <1>pc, <1>same DEF PollsInOrder, Evaluating
  <1>failed. LatestFailed' <=> result = Failed
    BY <1>r, <1>polls, LatestFailedIs DEF LatestFailed, Last
  <1>view. ViewIsLastAnswer'
    <2>1. CASE result = Failed
      <3>1. view' = [view EXCEPT !.error = poll.at]
        BY <2>1, <1>r DEF recordUPSError
      <3>2. view'.success = view.success /\ view'.reading = view.reading /\ view'.error = poll.at
        BY <3>1 DEF TypeOK
      <3>3. Answered' = Answered
        BY <2>1, <1>answered
      <3>4. \A i \in Answered : history'[i] = history[i]
        BY <1>r DEF Answered
      <3> QED
        BY <2>1, <3>2, <3>3, <3>4, <1>failed, <1>r DEF ViewIsLastAnswer
    <2>2. CASE result # Failed
      <3>1. view' = [reading |-> result, success |-> poll.at, error |-> Never]
        BY <2>2, <1>r, ReadingKept DEF recordUPSSuccess
      <3>2. Len(history') \in Answered' /\ \A j \in Answered' : j <= Len(history')
        BY <2>2, <1>answered, <1>nat, <1>r DEF Answered
      <3>3. view'.success # Never
        BY <3>1, <1>r DEF Never
      <3> QED
        BY <2>2, <3>1, <3>2, <3>3, <1>failed, <1>r DEF ViewIsLastAnswer
    <2> QED
      BY <2>1, <2>2
  <1>sample. SampleIsAnswer'
    BY <1>same, <1>r DEF SampleIsAnswer
  <1>timers. TimersRun'
    <2>1. \A i \in Evaluated : history'[i] = history[i]
      BY <1>r DEF Evaluated, Answered
    <2>2. \A i \in Evaluated, p \in Policy : SatisfiedSince(i, p)' <=> SatisfiedSince(i, p)
      BY <2>1, <1>evaluated DEF SatisfiedSince
    <2>3. Evaluating'
      BY <1>pc DEF Evaluating
    <2> QED
      BY <2>1, <2>2, <2>3, <1>evaluated, <1>same DEF TimersRun
  <1>line. LineEndsEpisode'
    <2>1. \A i \in Evaluated : history'[i] = history[i]
      BY <1>r DEF Evaluated, Answered
    <2> QED
      BY <2>1, <1>evaluated, <1>same DEF LineEndsEpisode
  <1>silence. SilenceFired'
    BY <1>pc DEF SilenceFired, Evaluating
  <1>types. TypeOK'
    BY LoopTypes
  <1> QED
    BY <1>types, <1>polls, <1>view, <1>sample, <1>timers, <1>line, <1>silence

(***************************************************************************)
(* The evaluation of a poll.                                               *)
(***************************************************************************)

\* The newest poll is the one under evaluation; when it is done with, its
\* answer joins those that were evaluated.
LEMMA EvaluationEnds ==
  ASSUME PollingInv, Evaluating, poll' = [poll EXCEPT !.pc = "idle"],
         UNCHANGED <<history, startedAt, view, watch, now>>
  PROVE  /\ Len(history) \in DOMAIN history
         /\ history[Len(history)].at = poll.at /\ history[Len(history)].result = poll.result
         /\ poll.at \in Nat /\ poll.result \in Readings \cup {Failed}
         /\ LatestFailed <=> poll.result = Failed
         /\ Evaluated' = Evaluated \cup (IF poll.result = Failed THEN {} ELSE {Len(history)})
         /\ \A i \in Evaluated : /\ i < Len(history) /\ i \in DOMAIN history
                                 /\ history[i].result \in Readings /\ history[i].at \in Nat
                                 /\ history[i].at < poll.at
         /\ ~Evaluating'
         /\ PollsInOrder' /\ ViewIsLastAnswer' /\ SampleIsAnswer'
  <1> USE DEF PollingInv
  <1>1. poll'.pc = "idle" /\ poll'.at = poll.at /\ poll'.result = poll.result
    BY DEF TypeOK
  <1>2. Len(history) \in DOMAIN history /\ Len(history) \in Nat /\ DOMAIN history = 1..Len(history)
    BY LatestFailedIs DEF PollsInOrder
  <1>3. /\ history[Len(history)].at = poll.at /\ history[Len(history)].result = poll.result
        /\ poll.at \in Nat /\ poll.result \in Readings \cup {Failed}
    BY <1>2, LatestFailedIs DEF PollsInOrder, Evaluating, TypeOK
  <1>4. LatestFailed <=> poll.result = Failed
    BY <1>2, <1>3, LatestFailedIs
  <1>5. ~Evaluating'
    BY <1>1 DEF Evaluating
  <1>6. Evaluated' = Answered /\ Evaluated = {i \in Answered : i # Len(history)}
    BY <1>5, SeenUnchanged DEF Evaluated
  <1>7. Len(history) \in Answered <=> poll.result # Failed
    BY <1>2, <1>3 DEF Answered
  <1>8. Evaluated' = Evaluated \cup (IF poll.result = Failed THEN {} ELSE {Len(history)})
    BY <1>6, <1>7
  <1>9. ASSUME NEW i \in Evaluated
        PROVE  /\ i < Len(history) /\ i \in DOMAIN history
               /\ history[i].result \in Readings /\ history[i].at \in Nat
               /\ history[i].at < poll.at
    <2>1. i \in DOMAIN history /\ i # Len(history) /\ history[i].result # Failed
      BY <1>6 DEF Answered
    <2>2. history[i].result \in Readings /\ history[i].at \in Nat
      BY <2>1, LatestFailedIs DEF Poll
    <2>3. i < Len(history)
      BY <1>2, <2>1
    <2> QED
      BY <1>2, <1>3, <2>1, <2>2, <2>3 DEF PollsInOrder
  <1>10. PollsInOrder'
    BY <1>1, <1>3, <1>5 DEF PollsInOrder, TypeOK
  <1>11. ViewIsLastAnswer'
    BY SeenUnchanged DEF ViewIsLastAnswer
  <1>12. SampleIsAnswer'
    BY DEF SampleIsAnswer
  <1> QED
    BY <1>2, <1>3, <1>4, <1>5, <1>8, <1>9, <1>10, <1>11, <1>12

\* Line power ends the episode: no timer runs over it.
LEMMA LineKeeps ==
  ASSUME PollingInv, endEpisodeOnLinePower
  PROVE  PollingInv'
  <1> DEFINE n == Len(history)
  <1>0. /\ Evaluating /\ poll' = [poll EXCEPT !.pc = "idle"]
        /\ UNCHANGED <<history, startedAt, view, watch, now>>
        /\ poll.result # Failed /\ ~poll.result.onBattery
        /\ episode'.on = FALSE /\ episode'.matchSince = [p \in Policy |-> Never]
    BY DEF endEpisodeOnLinePower, Evaluating, NoEpisode, clocks
  <1>1. /\ n \in DOMAIN history /\ history[n].result = poll.result
        /\ Evaluated' = Evaluated \cup {n}
        /\ \A i \in Evaluated : i < n /\ i \in DOMAIN history
        /\ ~LatestFailed
        /\ PollsInOrder' /\ ViewIsLastAnswer' /\ SampleIsAnswer'
    BY <1>0, EvaluationEnds
  <1>2. n \in Nat /\ \A i \in Evaluated' : n >= i
    BY <1>1, LatestFailedIs DEF PollingInv
  <1>types. TypeOK'
    BY EpisodeTypes DEF PollingInv
  <1>timers. TimersRun'
    <2>1. \A i \in Evaluated', p \in Policy : ~SatisfiedSince(i, p)'
      BY <1>0, <1>1, <1>2 DEF SatisfiedSince, Satisfies
    <2> QED
      BY <1>0, <2>1 DEF TimersRun
  <1>line. LineEndsEpisode'
    BY <1>0, <1>1, <1>2 DEF LineEndsEpisode
  <1>silence. SilenceFired'
    BY <1>0 DEF SilenceFired
  <1> QED
    BY <1>1, <1>types, <1>timers, <1>line, <1>silence DEF PollingInv

\* The first reading on battery starts an episode, without timers.
LEMMA StartKeeps ==
  ASSUME PollingInv, startEpisodeIfNeeded
  PROVE  PollingInv'
  <1> USE DEF PollingInv
  <1>0. /\ poll' = [poll EXCEPT !.pc = "evaluate"] /\ poll.pc = "recorded"
        /\ UNCHANGED <<history, startedAt, view, watch, now>>
        /\ poll.result # Failed /\ poll.result.onBattery
        /\ episode' = IF episode.on THEN episode ELSE [NoEpisode EXCEPT !.on = TRUE]
    BY DEF startEpisodeIfNeeded, clocks
  <1>1. poll'.pc = "evaluate" /\ poll'.at = poll.at /\ poll'.result = poll.result
    BY <1>0 DEF TypeOK
  <1>2. Evaluating /\ Evaluating' /\ Evaluated' = Evaluated
    BY <1>0, <1>1, SeenUnchanged DEF Evaluating, Evaluated
  <1>3. episode'.on
    BY <1>0 DEF NoEpisode
  <1>types. TypeOK'
    BY EpisodeTypes
  <1>polls. PollsInOrder'
    BY <1>0, <1>1, <1>2, <1>3 DEF PollsInOrder, Evaluating
  <1>view. ViewIsLastAnswer'
    BY <1>0, SeenUnchanged DEF ViewIsLastAnswer
  <1>sample. SampleIsAnswer'
    BY <1>0 DEF SampleIsAnswer
  <1>timers. TimersRun'
    <2>1. CASE episode.on
      BY <2>1, <1>0, <1>2, TimersUnchanged
    <2>2. CASE ~episode.on
      <3>1. episode'.matchSince = [p \in Policy |-> Never]
        BY <2>2, <1>0 DEF NoEpisode
      <3>2. \A i \in Evaluated, p \in Policy : ~SatisfiedSince(i, p)'
        BY <2>2, <1>0, <1>2 DEF LineEndsEpisode, SatisfiedSince, Satisfies
      <3> QED
        BY <3>1, <3>2, <1>2 DEF TimersRun
    <2> QED
      BY <2>1, <2>2
  <1>line. LineEndsEpisode'
    BY <1>3 DEF LineEndsEpisode
  <1>silence. SilenceFired'
    BY <1>2 DEF SilenceFired
  <1> QED
    BY <1>types, <1>polls, <1>view, <1>sample, <1>timers, <1>line, <1>silence

\* What the evaluation of a reading makes of the timer of a policy, if the
\* policy has not fired and is not about silence.
LEMMA TimerAfterReading ==
  ASSUME PollingInv, EvaluateReading,
         NEW p \in Policy \ episode.fired, When[p].unreachableFor = 0
  PROVE  LET n     == Len(history)
             since == MatchSince(poll.result, poll.at)[p]
         IN  /\ since # Never => /\ policyMatches(poll.result, When[p])
                                 /\ since \in Nat /\ since <= poll.at
                                 /\ \E i \in Evaluated \cup {n} :
                                      /\ history[i].at = since
                                      /\ \A j \in Evaluated \cup {n} :
                                           j >= i => Satisfies(history[j].result, p)
             /\ \A i \in Evaluated \cup {n} :
                  (\A j \in Evaluated \cup {n} : j >= i => Satisfies(history[j].result, p))
                    => since # Never /\ since <= history[i].at
  <1> DEFINE n     == Len(history)
             old   == episode.matchSince[p]
             since == MatchSince(poll.result, poll.at)[p]
  <1>0. /\ Evaluating /\ poll' = [poll EXCEPT !.pc = "idle"]
        /\ UNCHANGED <<history, startedAt, view, watch, now>>
        /\ poll.pc = "evaluate"
    BY DEF EvaluateReading, Evaluating, clocks
  <1>1. /\ n \in DOMAIN history /\ history[n].at = poll.at /\ history[n].result = poll.result
        /\ poll.at \in Nat
        /\ \A i \in Evaluated : i < n /\ i \in DOMAIN history
                                /\ history[i].at \in Nat /\ history[i].at < poll.at
    BY <1>0, EvaluationEnds
  <1>2. poll.result \in Readings /\ poll.result.onBattery
    BY <1>0 DEF PollingInv, PollsInOrder, TypeOK
  <1>3. n \in Nat /\ \A i \in Evaluated : i \in Nat
    BY <1>1, LatestFailedIs DEF PollingInv
  <1>4. Satisfies(poll.result, p) <=> policyMatches(poll.result, When[p])
    BY <1>2, SatisfiesIsMatch
  <1>5. since = IF ~policyMatches(poll.result, When[p]) THEN Never
                ELSE IF old = Never THEN poll.at ELSE old
    BY DEF MatchSince
  <1>6. /\ old # Never => \E i \in Evaluated : history[i].at = old /\ SatisfiedSince(i, p)
        /\ \A i \in Evaluated : SatisfiedSince(i, p) => old # Never /\ old <= history[i].at
    BY DEF PollingInv, TimersRun
  <1> HIDE DEF n, old, since
  <1>7. ASSUME since # Never
        PROVE  /\ policyMatches(poll.result, When[p]) /\ since \in Nat /\ since <= poll.at
               /\ \E i \in Evaluated \cup {n} :
                    /\ history[i].at = since
                    /\ \A j \in Evaluated \cup {n} : j >= i => Satisfies(history[j].result, p)
    <2>1. policyMatches(poll.result, When[p])
      BY <1>5, <1>7
    <2>2. CASE old = Never
      <3>1. since = poll.at
        BY <1>5, <2>1, <2>2
      <3>2. \A j \in Evaluated \cup {n} : j >= n => j = n
        BY <1>1, <1>3
      <3> QED
        BY <1>1, <1>4, <2>1, <3>1, <3>2
    <2>3. CASE old # Never
      <3>1. since = old
        BY <1>5, <2>1, <2>3
      <3>2. PICK i \in Evaluated : history[i].at = old /\ SatisfiedSince(i, p)
        BY <1>6, <2>3
      <3>3. \A j \in Evaluated \cup {n} : j >= i => Satisfies(history[j].result, p)
        BY <1>1, <1>4, <2>1, <3>2 DEF SatisfiedSince
      <3>4. since \in Nat /\ since <= poll.at
        BY <1>1, <3>1, <3>2
      <3> QED
        BY <2>1, <3>1, <3>2, <3>3, <3>4
    <2> QED
      BY <2>2, <2>3
  <1>8. ASSUME NEW i \in Evaluated \cup {n},
               \A j \in Evaluated \cup {n} : j >= i => Satisfies(history[j].result, p)
        PROVE  since # Never /\ since <= history[i].at
    <2>1. n >= i
      BY <1>1, <1>3
    <2>2. policyMatches(poll.result, When[p])
      BY <1>1, <1>4, <1>8, <2>1
    <2>3. CASE i \in Evaluated
      <3>1. SatisfiedSince(i, p)
        BY <1>8 DEF SatisfiedSince
      <3> QED
        BY <1>5, <1>6, <2>2, <2>3, <3>1
    <2>4. CASE i = n
      <3>1. since # Never
        BY <1>1, <1>5, <2>2 DEF Never
      <3> QED
        BY <1>1, <1>7, <2>4, <3>1
    <2> QED
      BY <2>3, <2>4
  <1> QED
    BY <1>7, <1>8 DEF n, since

\* A reading on battery starts, keeps and clears timers, and fires what is due.
LEMMA ReadingKeeps ==
  ASSUME PollingInv, EvaluateReading
  PROVE  PollingInv'
  <1> DEFINE n     == Len(history)
             since == MatchSince(poll.result, poll.at)
             due   == DueOnReading(poll.result, poll.at)
  <1>0. /\ Evaluating /\ poll' = [poll EXCEPT !.pc = "idle"]
        /\ UNCHANGED <<history, startedAt, view, watch, now>>
        /\ poll.pc = "evaluate"
    BY DEF EvaluateReading, Evaluating, clocks
  <1>1. /\ n \in DOMAIN history /\ history[n].at = poll.at /\ history[n].result = poll.result
        /\ poll.at \in Nat /\ poll.result # Failed /\ ~LatestFailed
        /\ Evaluated' = Evaluated \cup {n}
        /\ ~Evaluating'
        /\ PollsInOrder' /\ ViewIsLastAnswer' /\ SampleIsAnswer'
    <2>1. poll.result # Failed
      BY <1>0 DEF PollingInv, PollsInOrder
    <2> QED
      BY <1>0, <2>1, EvaluationEnds
  <1>2. /\ episode'.matchSince = since /\ episode'.fired = episode.fired \cup due
        /\ episode'.on
    BY <1>0 DEF EvaluateReading, PollingInv, TypeOK, PollsInOrder
  <1>types. TypeOK'
    BY EpisodeTypes DEF PollingInv
  <1>timers. TimersRun'
    <2>1. SUFFICES ASSUME NEW p \in Policy \ episode'.fired, When[p].unreachableFor = 0
                   PROVE  /\ since[p] # Never =>
                               \E i \in Evaluated' : history[i].at = since[p] /\ SatisfiedSince(i, p)'
                          /\ \A i \in Evaluated' : SatisfiedSince(i, p)' =>
                               since[p] # Never /\ since[p] <= history[i].at
                          /\ since[p] # Never => poll.at - since[p] < Duration[p]
      BY <1>0, <1>1, <1>2 DEF TimersRun
    <2>2. p \in Policy \ episode.fired /\ p \notin due
      BY <2>1, <1>2
    <2>3. /\ since[p] # Never => /\ policyMatches(poll.result, When[p])
                                 /\ since[p] \in Nat
                                 /\ \E i \in Evaluated \cup {n} :
                                      /\ history[i].at = since[p]
                                      /\ \A j \in Evaluated \cup {n} :
                                           j >= i => Satisfies(history[j].result, p)
          /\ \A i \in Evaluated \cup {n} :
               (\A j \in Evaluated \cup {n} : j >= i => Satisfies(history[j].result, p))
                 => since[p] # Never /\ since[p] <= history[i].at
      BY <2>1, <2>2, TimerAfterReading
    <2>4. \A i : SatisfiedSince(i, p)' <=>
                   \A j \in Evaluated \cup {n} : j >= i => Satisfies(history[j].result, p)
      BY <1>0, <1>1 DEF SatisfiedSince
    <2>5. since[p] # Never => poll.at - since[p] < Duration[p]
      <3>1. SUFFICES ASSUME since[p] # Never PROVE poll.at - since[p] < Duration[p]
        OBVIOUS
      <3>2. ~(poll.at - since[p] >= Duration[p])
        BY <2>2, <2>3, <3>1 DEF DueOnReading
      <3>3. since[p] \in Nat /\ Duration[p] \in Nat
        BY <2>3, <3>1, PollingAssumption
      <3> HIDE DEF since
      <3> QED
        BY <3>2, <3>3, <1>1
    <2> HIDE DEF since, due, n
    <2> QED
      BY <1>1, <2>3, <2>4, <2>5
  <1>line. LineEndsEpisode'
    BY <1>2 DEF LineEndsEpisode
  <1>silence. SilenceFired'
    BY <1>0, <1>1, SeenUnchanged DEF SilenceFired
  <1> QED
    BY <1>1, <1>types, <1>timers, <1>line, <1>silence DEF PollingInv

\* A failed poll fires what is due on silence, and keeps the timers.
LEMMA SilenceKeeps ==
  ASSUME PollingInv, EvaluateSilence
  PROVE  PollingInv'
  <1> DEFINE n   == Len(history)
             due == DueOnSilence(poll.at)
  <1>0. /\ Evaluating /\ poll' = [poll EXCEPT !.pc = "idle"]
        /\ UNCHANGED <<history, startedAt, view, watch, now>>
        /\ poll.result = Failed
    BY DEF EvaluateSilence, Evaluating, clocks
  <1>1. /\ n \in DOMAIN history /\ history[n].at = poll.at /\ LatestFailed
        /\ Evaluated' = Evaluated /\ ~Evaluating'
        /\ PollsInOrder' /\ ViewIsLastAnswer' /\ SampleIsAnswer'
    BY <1>0, EvaluationEnds
  <1>2. /\ episode'.on = episode.on /\ episode'.matchSince = episode.matchSince
        /\ episode.fired \subseteq episode'.fired
    BY DEF EvaluateSilence, PollingInv, TypeOK
  <1>types. TypeOK'
    BY EpisodeTypes DEF PollingInv
  <1>timers. TimersRun'
    <2>1. \A i \in Evaluated, p \in Policy : SatisfiedSince(i, p)' <=> SatisfiedSince(i, p)
      BY <1>0, <1>1 DEF SatisfiedSince
    <2>2. LatestFailed'
      BY <1>0, <1>1, SeenUnchanged
    <2> QED
      BY <1>0, <1>1, <1>2, <2>1, <2>2 DEF TimersRun, PollingInv
  <1>line. LineEndsEpisode'
    BY <1>0, <1>1, <1>2 DEF LineEndsEpisode, PollingInv
  <1>silence. SilenceFired'
    <2>1. SUFFICES ASSUME NEW p \in Policy, episode'.on, ~awaitingReadingAfterPowerOff',
                          When[p].unreachableFor > 0, SilentFor(p)
                   PROVE  p \in episode'.fired
      BY <1>0, SeenUnchanged DEF SilenceFired
    <2>2. IsSilent(view) /\ upsSilentFor(view, poll.at) = poll.at - LastHeard
      BY <1>1, SilenceIsMeasured DEF PollingInv
    <2>3. ~awaitingReadingAfterPowerOff
      BY <2>1, <1>2 DEF EvaluateSilence, awaitingReadingAfterPowerOff
    <2>4. episode'.fired = episode.fired \cup due
      BY <1>2, <2>1, <2>2, <2>3 DEF EvaluateSilence, PollingInv, TypeOK
    <2>5. p \in due
      BY <1>1, <2>1, <2>2 DEF DueOnSilence, SilentFor, Last
    <2> QED
      BY <2>4, <2>5
  <1> QED
    BY <1>1, <1>types, <1>timers, <1>line, <1>silence DEF PollingInv

\* The invariant holds when the master starts.
LEMMA PollingInit == Init => PollingInv
  <1> SUFFICES ASSUME Init PROVE PollingInv
    OBVIOUS
  <1>1. /\ history = <<>> /\ view = NoView /\ poll = PollIdle /\ watch = WatchIdle
        /\ episode = NoEpisode /\ now = 0
    BY DEF Init
  <1>2. Answered = {} /\ Evaluated = {} /\ ~LatestFailed
    BY <1>1 DEF Answered, Evaluated, LatestFailed
  <1>3. history \in Seq(Poll) /\ Len(history) = 0
    BY <1>1, EmptySeq
  <1>types. TypeOK
    <2>1. view \in [reading : Reading, success : Nat \cup {Never}, error : Nat \cup {Never}]
      BY <1>1 DEF NoView, NoReading, Reading, Value
    <2>2. episode \in [on : BOOLEAN, fired : SUBSET Policy, poweredOff : BOOLEAN,
                       matchSince : [Policy -> Nat \cup {Never}]]
      BY <1>1 DEF NoEpisode
    <2>3. poll \in [pc : {"idle", "asked", "recorded", "evaluate"}, at : Nat \cup {Never},
                    result : Readings \cup {Failed}]
      BY <1>1 DEF PollIdle
    <2>4. watch \in [pc : {"idle", "sampled"}, at : Nat, sample : Reading \cup {Failed},
                     seen : 0..MaxPolls]
      BY <1>1, PollingAssumption DEF WatchIdle
    <2>5. now \in 0..MaxTime /\ startedAt \in 0..now /\ restarts \in 0..MaxRestarts
      BY PollingAssumption DEF Init
    <2>6. upsConfirmed \in BOOLEAN /\ emergency = "none" /\ history = <<>>
      BY DEF Init
    <2> QED
      BY <2>1, <2>2, <2>3, <2>4, <2>5, <2>6 DEF TypeOK
  <1>polls. PollsInOrder
    BY <1>1, <1>3, PollingAssumption DEF PollsInOrder, PollIdle, Evaluating, Never
  <1> QED
    BY <1>1, <1>2, <1>types, <1>polls
    DEF PollingInv, ViewIsLastAnswer, NoView, SampleIsAnswer, WatchIdle, TimersRun, NoEpisode,
        LineEndsEpisode, SilenceFired

\* Every step keeps it.
LEMMA PollingStep == PollingInv /\ [Next]_vars => PollingInv'
  <1>1. ASSUME PollingInv, UNCHANGED vars PROVE PollingInv'
    <2>1. UNCHANGED <<now, startedAt, restarts, view, upsConfirmed, episode, poll, watch,
                      emergency, history>>
      BY <1>1 DEF vars, clocks
    <2>2. Evaluated' = Evaluated /\ (Evaluating' <=> Evaluating)
      BY <2>1, SeenUnchanged DEF Evaluated, Evaluating
    <2>3. TimersRun'
      BY <1>1, <2>1, <2>2, TimersUnchanged DEF PollingInv
    <2>4. TypeOK' /\ PollsInOrder'
      BY <1>1, <2>1, <2>2 DEF PollingInv, TypeOK, PollsInOrder
    <2>5. ViewIsLastAnswer' /\ SampleIsAnswer' /\ LineEndsEpisode'
      BY <1>1, <2>1, <2>2, SeenUnchanged
      DEF PollingInv, ViewIsLastAnswer, SampleIsAnswer, LineEndsEpisode
    <2>6. SilenceFired'
      BY <1>1, <2>1, <2>2, SeenUnchanged DEF PollingInv, SilenceFired, awaitingReadingAfterPowerOff
    <2> QED
      BY <2>3, <2>4, <2>5, <2>6 DEF PollingInv
  <1> QED
    BY <1>1, WaitingKeeps, ReturnKeeps, LineKeeps, StartKeeps, ReadingKeeps, SilenceKeeps,
       EmergencyKeeps, RestartKeeps DEF Next

\* The invariant, in every behaviour.
LEMMA PollingCorrect == Spec => []PollingInv
  BY PollingInit, PollingStep, PTL DEF Spec

(***************************************************************************)
(* What the policies and the emergency owe to the polls.                   *)
(***************************************************************************)

\* Once a poll is evaluated, the policies that its history makes due have fired
\* (evaluateEpisodePolicies): a shutdown is not delayed beyond its duration by
\* failed polls, by other policies or by a restart, for any set of policies.
THEOREM DueFired == Spec => []DuePoliciesFired
  <1>1. ASSUME PollingInv PROVE DuePoliciesFired
    <2> USE <1>1 DEF PollingInv
    <2>1. SUFFICES ASSUME poll.pc = "idle", history # <<>>, episode.on,
                          ~awaitingReadingAfterPowerOff, NEW p \in Policy, Holds(p),
                          p \notin episode.fired
                   PROVE  FALSE
      BY DEF DuePoliciesFired
    <2>2. ~Evaluating /\ Evaluated = Answered
      BY <2>1 DEF Evaluating, Evaluated
    <2>3. CASE When[p].unreachableFor > 0
      BY <2>1, <2>2, <2>3 DEF Holds, SilentFor, SilenceFired
    <2>4. CASE ~(When[p].unreachableFor > 0)
      <3>1. When[p].unreachableFor = 0 /\ Duration[p] \in Nat
        BY <2>4, PollingAssumption
      <3>2. PICK i \in Answered :
              /\ Last(history).at - history[i].at >= Duration[p]
              /\ \A j \in Answered : j >= i => Satisfies(history[j].result, p)
        BY <2>1, <2>4 DEF Holds, HeldFor
      <3>3. ~LatestFailed
        BY <2>1, <2>4 DEF Holds, HeldFor
      <3>4. /\ episode.matchSince[p] # Never /\ episode.matchSince[p] <= history[i].at
            /\ history[Len(history)].at - episode.matchSince[p] < Duration[p]
        BY <2>1, <2>2, <3>1, <3>2, <3>3 DEF TimersRun, SatisfiedSince
      <3>5. episode.matchSince[p] \in Nat
        BY <3>4 DEF TypeOK
      <3>6. history[i].at \in Nat /\ history[Len(history)].at \in Nat
        BY <2>1, LatestFailedIs DEF Answered, Poll
      <3> QED
        BY <3>1, <3>2, <3>4, <3>5, <3>6 DEF Last
    <2> QED
      BY <2>3, <2>4
  <1> QED
    BY <1>1, PollingCorrect, PTL

\* A policy fires only in an episode, and only if every answer of this process
\* since at least its duration satisfied it, or the UPS has been silent for as
\* long as it says (DueOnReading, DueOnSilence).
THEOREM FiresWhenDue == Spec => FiresOnlyWhenDue
  <1>1. ASSUME PollingInv, [Next]_vars, NEW p \in episode'.fired \ episode.fired
        PROVE  episode.on /\ Holds(p)
    <2> USE <1>1 DEF PollingInv
    <2>1. CASE EvaluateReading
      <3> DEFINE since == MatchSince(poll.result, poll.at)
      <3>0. /\ Evaluating /\ poll' = [poll EXCEPT !.pc = "idle"] /\ poll.result # Failed
            /\ UNCHANGED <<history, startedAt, view, watch, now>>
            /\ episode.on
        BY <2>1 DEF EvaluateReading, Evaluating, clocks, PollsInOrder
      <3>1. p \in DueOnReading(poll.result, poll.at)
        BY <2>1 DEF EvaluateReading, TypeOK
      <3>2. /\ p \in Policy \ episode.fired /\ policyMatches(poll.result, When[p])
            /\ poll.at - since[p] >= Duration[p] /\ When[p].unreachableFor = 0
        BY <3>1 DEF DueOnReading, policyMatches
      <3>3. /\ Len(history) \in DOMAIN history /\ history[Len(history)].at = poll.at
            /\ history[Len(history)].result = poll.result /\ poll.at \in Nat /\ ~LatestFailed
        BY <3>0, EvaluationEnds
      <3>4. since[p] # Never
        BY <3>2, <3>3 DEF MatchSince, Never
      <3>5. PICK i \in Evaluated \cup {Len(history)} :
              /\ history[i].at = since[p]
              /\ \A j \in Evaluated \cup {Len(history)} :
                   j >= i => Satisfies(history[j].result, p)
        BY <2>1, <3>2, <3>4, TimerAfterReading
      <3>6. Evaluated \cup {Len(history)} = Answered
        BY <3>0, <3>3 DEF Evaluated, Answered
      <3>7. Last(history).at - history[i].at >= Duration[p]
        BY <3>2, <3>3, <3>5 DEF Last
      <3>8. HeldFor(p)
        BY <3>3, <3>5, <3>6, <3>7, LatestFailedIs DEF HeldFor
      <3> QED
        BY <3>0, <3>2, <3>8 DEF Holds
    <2>2. CASE EvaluateSilence
      <3>0. /\ Evaluating /\ poll' = [poll EXCEPT !.pc = "idle"] /\ poll.result = Failed
            /\ UNCHANGED <<history, startedAt, view, watch, now>>
        BY <2>2 DEF EvaluateSilence, Evaluating, clocks
      <3>1. /\ Len(history) \in DOMAIN history /\ history[Len(history)].at = poll.at /\ LatestFailed
        BY <3>0, EvaluationEnds
      <3>2. p \in DueOnSilence(poll.at) /\ episode.on
        BY <2>2 DEF EvaluateSilence, TypeOK
      <3>3. /\ p \in Policy /\ When[p].unreachableFor > 0
            /\ poll.at - LastHeard >= When[p].unreachableFor
        BY <3>2, SilenceIsMeasured DEF DueOnSilence
      <3> QED
        BY <3>1, <3>2, <3>3 DEF Holds, SilentFor, Last
    <2>3. ASSUME ~EvaluateReading, ~EvaluateSilence PROVE episode'.fired \subseteq episode.fired
      <3>1. CASE Tick \/ BeginPoll \/ PollReturns \/ SampleUPSStatus \/ UNCHANGED vars
        BY <3>1 DEF Tick, BeginPoll, PollReturns, SampleUPSStatus, vars
      <3>2. CASE endEpisodeOnLinePower \/ startEpisodeIfNeeded
        BY <3>2 DEF endEpisodeOnLinePower, startEpisodeIfNeeded, NoEpisode
      <3>3. CASE evaluateLocalShutdown \/ Restart
        BY <3>3 DEF evaluateLocalShutdown, Restart, TypeOK
      <3>4. CASE beginLocalShutdownExecution \/ LocalShutdownFails
        BY <3>4 DEF beginLocalShutdownExecution, LocalShutdownFails, TypeOK
      <3> QED
        BY <1>1, <2>3, <3>1, <3>2, <3>3, <3>4 DEF Next
    <2> QED
      BY <2>1, <2>2, <2>3
  <1>2. PollingInv /\ [Next]_vars
          => [\A p \in episode'.fired \ episode.fired : episode.on /\ Holds(p)]_vars
    BY <1>1
  <1> QED
    BY <1>2, PollingCorrect, PTL DEF Spec, FiresOnlyWhenDue

\* The master powers off at once only in an episode, and only on the answer that
\* was the latest at the tick of the watcher, or on a silence that has lasted
\* unreachable_after and has not ended since (emergencyTrigger).
THEOREM EmergencyReal == Spec => EmergencyIsReal
  <1>1. ASSUME PollingInv, [Next]_vars, emergency' # emergency, emergency' # "none"
        PROVE  /\ episode.on
               /\ IF emergency' = "ups_unreachable"
                  THEN LatestFailed /\ watch.at - LastHeard >= UnreachableAfter
                  ELSE LET r == history[watch.seen].result
                       IN  /\ r # Failed /\ r.onBattery
                           /\ r.low \/ r.runtime \in 0..(EmergencyRuntime - 1)
    <2> USE <1>1 DEF PollingInv
    <2>1. evaluateLocalShutdown
      BY <1>1 DEF Next, Tick, BeginPoll, PollReturns, endEpisodeOnLinePower, startEpisodeIfNeeded,
                  EvaluateReading, EvaluateSilence, SampleUPSStatus, beginLocalShutdownExecution,
                  LocalShutdownFails, Restart, vars
    <2>2. /\ episode.on /\ watch.pc = "sampled"
          /\ emergency' = emergencyTrigger(watch.sample, watch.at)
      BY <2>1 DEF evaluateLocalShutdown
    <2>3. CASE emergency' = "ups_unreachable"
      <3>1. IsSilent(view) /\ upsSilentFor(view, watch.at) >= UnreachableAfter
        BY <2>2, <2>3 DEF emergencyTrigger
      <3> QED
        BY <2>2, <2>3, <3>1, SilenceIsMeasured
    <2>4. CASE emergency' # "ups_unreachable"
      <3>1. /\ watch.sample # Failed /\ watch.sample.onBattery
            /\ \/ watch.sample.low
               \/ /\ watch.sample.runtime # Absent
                  /\ watch.sample.runtime < EmergencyRuntime
        BY <1>1, <2>2, <2>4 DEF emergencyTrigger, emergencyRuntimeReached
      <3>2. history[watch.seen].result = watch.sample
        BY <2>2, <3>1 DEF SampleIsAnswer
      <3>3. watch.sample.runtime # Absent => watch.sample.runtime \in Nat
        BY <3>1 DEF TypeOK, Reading, Value
      <3>4. watch.sample.low \/ watch.sample.runtime \in 0..(EmergencyRuntime - 1)
        BY <3>1, <3>3, PollingAssumption
      <3> QED
        BY <2>2, <2>4, <3>1, <3>2, <3>4
    <2> QED
      BY <2>3, <2>4
  <1> QED
    BY <1>1, PollingCorrect, PTL DEF Spec, EmergencyIsReal

(***************************************************************************)
(* One poll: what UPSReader returns.                                       *)
(***************************************************************************)

\* The places of a conversation with upsd before its answer is complete.
Talking == {"dial", "begin", "list"}

\* A variable is collected if and only if it was told, with its last value.
CollectedIsTold ==
  /\ DOMAIN nutVars = {n \in Name : Told(n) # {}}
  /\ \A n \in DOMAIN nutVars : \E i \in Told(n) :
       /\ \A j \in Told(n) : j <= i
       /\ nutVars[n] = [flags |-> received[i].flags, number |-> received[i].number]

\* Before the end there is no reading; after it the reading is decoded from all
\* that was told, or from the packet of the agent.
ReaderInv ==
  /\ unit \in Unit
  /\ received \in Seq(Line)
  /\ pc \in Talking \cup {"get", "done"}
  /\ pc # "done" => packet = <<>> /\ ~returned.ok
  /\ pc \in Talking => unit = "seconds" /\ CollectedIsTold
  /\ pc \in {"dial", "begin"} => received = <<>>
  /\ pc = "list" => received # <<>> /\ received[1].kind = "begin"
  /\ returned.ok /\ packet = <<>> =>
       /\ unit = "seconds" /\ CollectedIsTold
       /\ received # <<>> /\ received[1].kind = "begin" /\ Last(received).kind = "end"
       /\ returned = decodeNUTVars(nutVars)
  /\ packet # <<>> => \E p \in Packet :
                        packet = <<p>> /\ returned = decodeUPSPacket(p, unit)

\* What was told after one more line: what was told before, and the line if it is
\* a variable.
LEMMA ToldNext ==
  ASSUME received \in Seq(Line), NEW l \in Line, Receive(l)
  PROVE  /\ received' \in Seq(Line) /\ Last(received') = l
         /\ received' # <<>>
         /\ received'[1] = IF received = <<>> THEN l ELSE received[1]
         /\ received'[Len(received) + 1] = l
         /\ \A n, i : i \in Told(n) => i < Len(received) + 1 /\ received'[i] = received[i]
         /\ \A n : l.kind # "var" \/ l.name # n => Told(n)' = Told(n)
         /\ l.kind = "var" =>
              Told(l.name)' = Told(l.name) \cup {Len(received) + 1}
  <1> DEFINE k == Len(received) + 1
  <1>1. received' = Append(received, l)
    BY DEF Receive
  <1>2. /\ received' \in Seq(Line) /\ Len(received') = k /\ received' # <<>>
        /\ \A i \in 1..Len(received) : received'[i] = received[i]
        /\ received'[k] = l
    BY <1>1, AppendProperties
  <1>3. /\ DOMAIN received = 1..Len(received) /\ DOMAIN received' = 1..k
        /\ Len(received) \in Nat
    BY <1>2, LenProperties
  <1>4. received # <<>> => 1 \in 1..Len(received)
    BY <1>3, EmptySeq
  <1>5. received = <<>> => k = 1
    BY EmptySeq
  <1>6. Last(received') = l
    BY <1>2 DEF Last
  <1> HIDE DEF k
  <1>7. DOMAIN received' = DOMAIN received \cup {k} /\ \A i \in DOMAIN received : i < k
    BY <1>3 DEF k
  <1>8. \A n, i : i \in Told(n) => i < k /\ received'[i] = received[i]
    BY <1>2, <1>3, <1>7 DEF Told
  <1>9. \A n : l.kind # "var" \/ l.name # n => Told(n)' = Told(n)
    BY <1>2, <1>3, <1>7 DEF Told
  <1>10. l.kind = "var" => Told(l.name)' = Told(l.name) \cup {k}
    BY <1>2, <1>3, <1>7 DEF Told
  <1> QED
    BY <1>2, <1>4, <1>5, <1>6, <1>8, <1>9, <1>10 DEF k

\* A line that is no variable leaves alone what was collected.
LEMMA CollectedStays ==
  ASSUME received \in Seq(Line), NEW l \in Line, Receive(l),
         l.kind # "var", nutVars' = nutVars, CollectedIsTold
  PROVE  CollectedIsTold'
  <1>1. /\ \A n : Told(n)' = Told(n)
        /\ \A n, i : i \in Told(n) => received'[i] = received[i]
    BY ToldNext
  <1>2. ASSUME NEW n \in DOMAIN nutVars
        PROVE  \E i \in Told(n)' :
                 /\ \A j \in Told(n)' : j <= i
                 /\ nutVars[n] = [flags |-> received'[i].flags, number |-> received'[i].number]
    <2>1. PICK i \in Told(n) :
            /\ \A j \in Told(n) : j <= i
            /\ nutVars[n] = [flags |-> received[i].flags, number |-> received[i].number]
      BY DEF CollectedIsTold
    <2>2. received'[i] = received[i] /\ Told(n)' = Told(n)
      BY <1>1
    <2> QED
      BY <2>1, <2>2
  <1>3. DOMAIN nutVars = {n \in Name : Told(n)' # {}}
    BY <1>1 DEF CollectedIsTold
  <1> QED
    BY <1>2, <1>3 DEF CollectedIsTold

\* A variable is collected with the value of its line.
LEMMA VariableCollected ==
  ASSUME received \in Seq(Line), NEW l \in Line, Receive(l),
         l.kind = "var", CollectedIsTold,
         nutVars' = [n \in DOMAIN nutVars \cup {l.name} |->
                       IF n = l.name THEN [flags |-> l.flags, number |-> l.number] ELSE nutVars[n]]
  PROVE  CollectedIsTold'
  <1> DEFINE k == Len(received) + 1
  <1>1. /\ received'[k] = l
        /\ \A n : n # l.name => Told(n)' = Told(n)
        /\ \A n, i : i \in Told(n) => i < k /\ received'[i] = received[i]
        /\ Told(l.name)' = Told(l.name) \cup {k}
    BY ToldNext
  <1>2. l.name \in Name
    BY DEF Line, Name
  <1>3. DOMAIN nutVars' = DOMAIN nutVars \cup {l.name}
    OBVIOUS
  <1>4. k \in Nat
    BY LenProperties
  <1> HIDE DEF k
  <1>5. DOMAIN nutVars' = {n \in Name : Told(n)' # {}}
    BY <1>1, <1>2, <1>3 DEF CollectedIsTold
  <1>6. ASSUME NEW n \in DOMAIN nutVars'
        PROVE  \E i \in Told(n)' :
                 /\ \A j \in Told(n)' : j <= i
                 /\ nutVars'[n] = [flags |-> received'[i].flags, number |-> received'[i].number]
    <2>1. CASE n = l.name
      <3>1. \A j \in Told(n)' : j <= k
        BY <1>1, <1>4, <2>1 DEF Told
      <3> QED
        BY <1>1, <2>1, <3>1
    <2>2. CASE n # l.name
      <3>1. n \in DOMAIN nutVars /\ nutVars'[n] = nutVars[n]
        BY <1>3, <2>2
      <3>2. PICK i \in Told(n) :
              /\ \A j \in Told(n) : j <= i
              /\ nutVars[n] = [flags |-> received[i].flags, number |-> received[i].number]
        BY <3>1 DEF CollectedIsTold
      <3>3. received'[i] = received[i] /\ Told(n)' = Told(n)
        BY <1>1, <2>2
      <3> QED
        BY <3>1, <3>2, <3>3
    <2> QED
      BY <2>1, <2>2
  <1> QED
    BY <1>5, <1>6 DEF CollectedIsTold

\* A refused answer is no reading.
LEMMA ErrorIsNotOK == ~Error.ok
  BY DEF Error

\* A poll begins with nothing told and nothing collected.
LEMMA ReaderInit == PollInit => ReaderInv
  <1> SUFFICES ASSUME PollInit PROVE ReaderInv
    OBVIOUS
  <1>1. /\ pc \in {"dial", "get"} /\ unit \in Unit /\ received = <<>> /\ packet = <<>>
        /\ pc = "dial" => unit = "seconds"
        /\ ~returned.ok
    BY DEF PollInit, Pending, Error
  <1>2. DOMAIN nutVars = {}
    BY DEF PollInit, NoVars
  <1>3. \A n : Told(n) = {}
    BY <1>1 DEF Told
  <1>4. CollectedIsTold
    BY <1>2, <1>3 DEF CollectedIsTold
  <1>5. received \in Seq(Line)
    BY <1>1, EmptySeq
  <1> QED
    BY <1>1, <1>4, <1>5 DEF ReaderInv, Talking

\* A conversation that fails, at any point, returns no reading.
LEMMA FailureKeeps ==
  ASSUME ReaderInv, pc # "done", pc' = "done", ~returned'.ok,
         UNCHANGED <<unit, packet>>, received' \in Seq(Line)
  PROVE  ReaderInv'
  <1>1. packet' = <<>>
    BY DEF ReaderInv
  <1> QED
    BY <1>1 DEF ReaderInv, Talking

\* Every line of upsd keeps the invariant.
LEMMA LineKeepsReader ==
  ASSUME ReaderInv, ReadBegin \/ ReadVariable \/ ReadEnd
  PROVE  ReaderInv'
  <1> USE DEF Talking
  <1>0. received \in Seq(Line)
    BY DEF ReaderInv
  <1>begin. CASE ReadBegin
    <2>1. PICK l \in Line :
            /\ Receive(l)
            /\ IF l.kind = "begin" THEN pc' = "list" /\ UNCHANGED returned
                                   ELSE Finish(Error)
      BY <1>begin DEF ReadBegin
    <2>2. pc = "begin" /\ UNCHANGED <<nutVars, unit, packet>>
      BY <1>begin, <2>1 DEF ReadBegin, Receive
    <2>3. /\ received' \in Seq(Line) /\ received' # <<>>
          /\ received = <<>> => received'[1] = l
      BY <1>0, <2>1, ToldNext
    <2>4. CASE l.kind = "begin"
      <3>1. CollectedIsTold'
        BY <1>0, <2>1, <2>2, <2>4, CollectedStays DEF ReaderInv
      <3> QED
        BY <1>0, <2>1, <2>2, <2>3, <2>4, <3>1 DEF ReaderInv
    <2>5. CASE l.kind # "begin"
      <3>1. pc' = "done" /\ ~returned'.ok
        BY <2>1, <2>5, ErrorIsNotOK DEF Finish
      <3> QED
        BY <2>2, <2>3, <3>1, FailureKeeps
    <2> QED
      BY <2>4, <2>5
  <1>variable. CASE ReadVariable
    <2>1. PICK l \in Line :
            /\ l.kind = "var"
            /\ Receive(l)
            /\ \/ Finish(Error)
               \/ /\ nutVars' = [n \in DOMAIN nutVars \cup {l.name} |->
                                   IF n = l.name THEN [flags |-> l.flags, number |-> l.number]
                                   ELSE nutVars[n]]
                  /\ UNCHANGED <<pc, returned>>
      BY <1>variable DEF ReadVariable
    <2>2. pc = "list" /\ UNCHANGED <<unit, packet>>
      BY <1>variable, <2>1 DEF ReadVariable, Receive
    <2>3. /\ received' \in Seq(Line) /\ received' # <<>>
          /\ received # <<>> => received'[1] = received[1]
      BY <1>0, <2>1, ToldNext
    <2>4. CASE Finish(Error)
      <3>1. pc' = "done" /\ ~returned'.ok
        BY <2>4, ErrorIsNotOK DEF Finish
      <3> QED
        BY <2>2, <2>3, <3>1, FailureKeeps
    <2>5. CASE ~Finish(Error)
      <3>1. CollectedIsTold'
        BY <1>0, <2>1, <2>2, <2>5, VariableCollected DEF ReaderInv
      <3> QED
        BY <1>0, <2>1, <2>2, <2>3, <2>5, <3>1 DEF ReaderInv
    <2> QED
      BY <2>4, <2>5
  <1>end. CASE ReadEnd
    <2>1. PICK l \in Line :
            /\ l.kind # "var"
            /\ Receive(l)
            /\ Finish(IF l.kind = "end" THEN decodeNUTVars(nutVars)
                                               ELSE Error)
      BY <1>end DEF ReadEnd
    <2>2. pc = "list" /\ UNCHANGED <<nutVars, unit, packet>>
      BY <1>end, <2>1 DEF ReadEnd, Receive
    <2>3. /\ received' \in Seq(Line) /\ received' # <<>> /\ Last(received') = l
          /\ received # <<>> => received'[1] = received[1]
      BY <1>0, <2>1, ToldNext
    <2>4. CASE l.kind # "end"
      <3>1. pc' = "done" /\ ~returned'.ok
        BY <2>1, <2>4, ErrorIsNotOK DEF Finish
      <3> QED
        BY <2>2, <2>3, <3>1, FailureKeeps
    <2>5. CASE l.kind = "end"
      <3>1. CollectedIsTold'
        BY <1>0, <2>1, <2>2, CollectedStays DEF ReaderInv
      <3>2. pc' = "done" /\ returned' = decodeNUTVars(nutVars)
        BY <2>1, <2>5 DEF Finish
      <3>3. returned' = decodeNUTVars(nutVars)'
        BY <2>2, <3>2 DEF decodeNUTVars
      <3>4. packet' = <<>> /\ unit = "seconds" /\ received # <<>> /\ received[1].kind = "begin"
        BY <2>2 DEF ReaderInv
      <3> QED
        BY <1>0, <2>2, <2>3, <2>5, <3>1, <3>2, <3>3, <3>4 DEF ReaderInv
    <2> QED
      BY <2>4, <2>5
  <1> QED
    BY <1>begin, <1>variable, <1>end

\* The invariant of one poll.
LEMMA ReaderStep == ReaderInv /\ [PollNext]_state => ReaderInv'
  <1> USE DEF Talking
  <1> SUFFICES ASSUME ReaderInv, [PollNext]_state PROVE ReaderInv'
    OBVIOUS
  <1>0. received \in Seq(Line)
    BY DEF ReaderInv
  <1>same. ASSUME UNCHANGED <<received, nutVars>>, CollectedIsTold PROVE CollectedIsTold'
    BY <1>same DEF CollectedIsTold, Told
  <1>stutter. CASE UNCHANGED state
    <2>1. UNCHANGED <<pc, unit, nutVars, received, packet, returned>>
      BY <1>stutter DEF state
    <2>2. decodeNUTVars(nutVars)' = decodeNUTVars(nutVars)
      BY <2>1 DEF decodeNUTVars
    <2> QED
      BY <1>0, <1>same, <2>1, <2>2 DEF ReaderInv
  <1>dial. CASE Dial
    <2>1. pc = "dial" /\ UNCHANGED <<unit, nutVars, received, packet>>
      BY <1>dial DEF Dial
    <2>2. CASE pc' = "begin" /\ UNCHANGED returned
      BY <1>0, <1>same, <2>1, <2>2 DEF ReaderInv
    <2>3. CASE Finish(Error)
      <3>1. pc' = "done" /\ ~returned'.ok
        BY <2>3, ErrorIsNotOK DEF Finish
      <3> QED
        BY <1>0, <2>1, <3>1, FailureKeeps
    <2> QED
      BY <1>dial, <2>2, <2>3 DEF Dial
  <1>fails. CASE Deadline \/ GetTimesOut
    <2>1. /\ pc # "done" /\ pc' = "done" /\ ~returned'.ok
          /\ UNCHANGED <<unit, received, packet>>
      BY <1>fails, ErrorIsNotOK DEF Deadline, GetTimesOut, Finish
    <2> QED
      BY <1>0, <2>1, FailureKeeps
  <1>get. CASE GetAnswered
    <2>1. PICK p \in Packet :
            packet' = <<p>> /\ pc' = "done" /\ returned' = decodeUPSPacket(p, unit)
      BY <1>get DEF GetAnswered, Finish
    <2>2. UNCHANGED <<unit, received>>
      BY <1>get DEF GetAnswered
    <2>3. <<p>> # <<>>
      OBVIOUS
    <2> QED
      BY <1>0, <2>1, <2>2, <2>3 DEF ReaderInv
  <1> QED
    BY <1>stutter, <1>dial, <1>fails, <1>get, LineKeepsReader DEF PollNext

\* The invariant, in every poll.
LEMMA ReaderCorrect == PollSpec => []ReaderInv
  BY ReaderInit, ReaderStep, PTL DEF PollSpec

(***************************************************************************)
(* What a reading is worth.                                                *)
(***************************************************************************)

\* What was collected of a variable is what LastTold says; a charge or runtime
\* is a number or none.
LEMMA CollectedIsLast ==
  ASSUME received \in Seq(Line), CollectedIsTold, NEW n \in Name
  PROVE  /\ n \in DOMAIN nutVars <=> Told(n) # {}
         /\ n \in DOMAIN nutVars =>
              /\ nutVars[n].flags = LastTold(n).flags
              /\ nutVars[n].number = LastTold(n).number
              /\ n \in {"battery.charge", "battery.runtime"} =>
                   LastTold(n).number \in Numbers \cup {NotANumber}
  <1>1. n \in DOMAIN nutVars <=> Told(n) # {}
    BY DEF CollectedIsTold
  <1>2. ASSUME n \in DOMAIN nutVars
        PROVE  /\ nutVars[n].flags = LastTold(n).flags
               /\ nutVars[n].number = LastTold(n).number
               /\ n \in {"battery.charge", "battery.runtime"} =>
                    LastTold(n).number \in Numbers \cup {NotANumber}
    <2>1. PICK i \in Told(n) :
            /\ \A j \in Told(n) : j <= i
            /\ nutVars[n] = [flags |-> received[i].flags, number |-> received[i].number]
      BY <1>2 DEF CollectedIsTold
    <2>2. \A j \in Told(n) : /\ j \in Nat /\ received[j] \in Line
                                    /\ received[j].kind = "var" /\ received[j].name = n
      BY LenProperties, ElementOfSeq DEF Told
    <2> DEFINE last == CHOOSE k \in Told(n) : \A j \in Told(n) : j <= k
    <2>3. last \in Told(n) /\ \A j \in Told(n) : j <= last
      BY <2>1
    <2>4. last = i
      <3> HIDE DEF last
      <3> QED
        BY <2>1, <2>2, <2>3
    <2>5. LastTold(n) = received[i]
      BY <2>4 DEF LastTold
    <2>6. n \in {"battery.charge", "battery.runtime"} =>
            received[i].number \in Numbers \cup {NotANumber}
      BY <2>1, <2>2 DEF Line
    <2> QED
      BY <2>1, <2>5, <2>6
  <1> QED
    BY <1>1, <1>2

\* The decoding of a whole answer of upsd, in terms of what was told.
LEMMA DecodedIsTold ==
  ASSUME ReaderInv, returned.ok, packet = <<>>
  PROVE  /\ Told("ups.status") # {}
         /\ returned.onBattery = ("OB" \in LastTold("ups.status").flags)
         /\ returned.onBattery \/ "OL" \in LastTold("ups.status").flags
         /\ \A n \in {"battery.charge", "battery.runtime"} :
              Told(n) # {} => LastTold(n).number \in Nat
         /\ returned.charge = IF Told("battery.charge") = {} THEN Absent
                              ELSE LastTold("battery.charge").number \div 10
         /\ returned.runtime = IF Told("battery.runtime") = {} THEN Absent
                               ELSE (LastTold("battery.runtime").number \div 10) \div 60
         /\ returned.low \in BOOLEAN
  <1> DEFINE Reported(n) == n \in DOMAIN nutVars
             flags == IF Reported("ups.status") THEN nutVars["ups.status"].flags ELSE {}
             refused == \/ flags \cap {"OL", "OB"} = {}
                        \/ \E n \in {"battery.charge", "battery.runtime"} :
                             Reported(n) /\ ~Parses(nutVars[n].number)
  <1>1. /\ received \in Seq(Line) /\ CollectedIsTold /\ unit = "seconds"
        /\ returned = decodeNUTVars(nutVars)
    BY DEF ReaderInv
  <1>2. {"ups.status", "battery.charge", "battery.runtime"} \subseteq Name
    BY DEF Name
  <1>3. ~refused
    BY <1>1, ErrorIsNotOK DEF decodeNUTVars
  <1>4. returned = [ok |-> TRUE, onBattery |-> "OB" \in flags, low |-> "LB" \in flags,
                    charge  |-> IF Reported("battery.charge")
                                THEN nutVars["battery.charge"].number \div 10 ELSE Absent,
                    runtime |-> IF Reported("battery.runtime")
                                THEN (nutVars["battery.runtime"].number \div 10) \div 60
                                ELSE Absent]
    BY <1>1, <1>3
    DEF decodeNUTVars, parseNUTNumber, runtimeToMinutes
  <1> HIDE DEF refused
  <1>5. Reported("ups.status") /\ flags \cap {"OL", "OB"} # {}
    BY <1>3 DEF refused
  <1>6. ASSUME NEW n \in {"battery.charge", "battery.runtime"}, Told(n) # {}
        PROVE  LastTold(n).number \in Nat
    <2>1. Reported(n) /\ nutVars[n].number = LastTold(n).number
          /\ LastTold(n).number \in Numbers \cup {NotANumber}
      BY <1>1, <1>2, <1>6, CollectedIsLast
    <2>2. Parses(nutVars[n].number)
      BY <1>3, <2>1 DEF refused
    <2>3. LastTold(n).number # NotANumber /\ LastTold(n).number >= 0
      BY <2>1, <2>2 DEF Parses
    <2>4. Numbers \subseteq Int
      BY ReaderAssumption
    <2>5. \A x \in Numbers \cup {NotANumber} : x # NotANumber /\ x >= 0 => x \in Nat
      BY <2>4
    <2> HIDE DEF Reported, flags
    <2> QED
      BY <2>1, <2>3, <2>5
  <1>7. /\ \A n \in {"ups.status", "battery.charge", "battery.runtime"} :
             /\ Reported(n) <=> Told(n) # {}
             /\ Reported(n) => /\ nutVars[n].flags = LastTold(n).flags
                               /\ nutVars[n].number = LastTold(n).number
    BY <1>1, <1>2, CollectedIsLast
  <1>8. flags = LastTold("ups.status").flags /\ Told("ups.status") # {}
    BY <1>5, <1>7
  <1>9. /\ returned.onBattery = ("OB" \in flags) /\ returned.low \in BOOLEAN
        /\ returned.charge = IF Reported("battery.charge")
                             THEN nutVars["battery.charge"].number \div 10 ELSE Absent
        /\ returned.runtime = IF Reported("battery.runtime")
                              THEN (nutVars["battery.runtime"].number \div 10) \div 60 ELSE Absent
    BY <1>4
  <1> HIDE DEF flags, Reported
  <1>10. returned.onBattery = ("OB" \in LastTold("ups.status").flags)
         /\ (returned.onBattery \/ "OL" \in LastTold("ups.status").flags)
    BY <1>5, <1>8, <1>9
  <1>11. returned.charge = IF Told("battery.charge") = {} THEN Absent
                           ELSE LastTold("battery.charge").number \div 10
    BY <1>7, <1>9
  <1>12. returned.runtime = IF Told("battery.runtime") = {} THEN Absent
                            ELSE (LastTold("battery.runtime").number \div 10) \div 60
    BY <1>7, <1>9
  <1> QED
    BY <1>6, <1>8, <1>9, <1>10, <1>11, <1>12

\* The decoding of the packet of an agent.
LEMMA DecodedIsPacket ==
  ASSUME ReaderInv, returned.ok, packet # <<>>
  PROVE  /\ ~packet[1].error
         /\ \A i \in 1..3 : /\ packet[1].variables[i].type \in {"Integer", "TimeTicks"}
                            /\ packet[1].variables[i].value \in Int
         /\ packet[1].variables[2].value \in Nat /\ packet[1].variables[3].value \in Nat
         /\ packet[1].variables[3].type = "TimeTicks" => unit = "timeticks"
         /\ returned = [ok |-> TRUE,
                        onBattery |-> packet[1].variables[1].value \in OnBatteryValues,
                        low |-> FALSE, charge |-> packet[1].variables[2].value,
                        runtime |-> runtimeToMinutes(packet[1].variables[3].value, unit)]
  <1>1. PICK p \in Packet : packet = <<p>> /\ returned = decodeUPSPacket(p, unit)
    BY DEF ReaderInv
  <1>2. packet[1] = p
    BY <1>1
  <1>3. decodeUPSPacket(p, unit) # Error
    BY <1>1, ErrorIsNotOK
  <1>4. /\ ~p.error /\ Len(p.variables) = 3
        /\ \A i \in 1..3 : IsInteger(p.variables[i])
        /\ ~(p.variables[2].value < 0) /\ ~(p.variables[3].value < 0)
        /\ ~(p.variables[3].type = "TimeTicks" /\ unit # "timeticks")
    BY <1>3 DEF decodeUPSPacket
  <1>5. returned = [ok |-> TRUE, onBattery |-> p.variables[1].value \in OnBatteryValues,
                    low |-> FALSE, charge |-> p.variables[2].value,
                    runtime |-> runtimeToMinutes(p.variables[3].value, unit)]
    BY <1>1, <1>4 DEF decodeUPSPacket
  <1>6. p.variables \in [1..3 -> Variable]
    <2>1. p.variables \in [1..3 -> Variable] \cup [1..2 -> Variable]
      BY DEF Packet
    <2>2. ASSUME p.variables \in [1..2 -> Variable] PROVE Len(p.variables) = 2
      <3> DEFINE f == p.variables
      <3>1. f \in Seq(Variable) /\ DOMAIN f = 1..2
        <4> HIDE DEF f
        <4>1. f \in [1..2 -> Variable]
          BY <2>2 DEF f
        <4>2. [1..2 -> Variable] \subseteq Seq(Variable)
          BY SeqDef
        <4> QED
          BY <4>1, <4>2
      <3> HIDE DEF f
      <3>2. Len(f) \in Nat /\ DOMAIN f = 1..Len(f)
        BY <3>1, LenProperties
      <3>3. Len(f) = 2
        <4>1. 2 \in 1..Len(f) /\ (Len(f) \in 1..2 \/ Len(f) = 0)
          BY <3>1, <3>2
        <4> QED
          BY <3>2, <4>1
      <3> QED
        BY <3>3 DEF f
    <2> QED
      BY <1>4, <2>1, <2>2
  <1>7. \A i \in 1..3 : p.variables[i].value \in Int
    BY <1>6, ReaderAssumption DEF Variable
  <1>8. p.variables[2].value \in Nat /\ p.variables[3].value \in Nat
    <2>1. p.variables[2].value \in Int /\ p.variables[3].value \in Int
      BY <1>7
    <2> QED
      BY <1>4, <2>1
  <1>9. \A i \in 1..3 : p.variables[i].type \in {"Integer", "TimeTicks"}
    BY <1>4 DEF IsInteger
  <1> QED
    BY <1>2, <1>4, <1>5, <1>7, <1>8, <1>9

\* A reading is returned only for a whole answer, it says line power only if the
\* UPS said so, and no value is made up (ReadNUTStatus, ReadSNMPStatus,
\* decodeNUTVars, decodeUPSPacket): for answers of any length and any content.
THEOREM ReadingTold == PollSpec => []ReadingIsTold
  <1>1. ASSUME ReaderInv PROVE ReadingIsTold
    <2>1. CASE packet = <<>> /\ returned.ok
      <3>1. Last(received).kind = "end" /\ received[1].kind = "begin" /\ Absent \notin Nat
        BY <1>1, <2>1, ReaderAssumption DEF ReaderInv
      <3>2. \A n \in {"battery.charge", "battery.runtime"} : Told(n) # {} =>
              /\ LastTold(n).number \div 10 \in Nat
              /\ (LastTold(n).number \div 10) \div 60 \in Nat
        BY <1>1, <2>1, DecodedIsTold
      <3>3. returned.charge = Absent <=> Told("battery.charge") = {}
        BY <1>1, <2>1, <3>1, <3>2, DecodedIsTold
      <3>4. returned.runtime = Absent <=> Told("battery.runtime") = {}
        BY <1>1, <2>1, <3>1, <3>2, DecodedIsTold
      <3>5. /\ Told("ups.status") # {}
            /\ returned.onBattery = ("OB" \in LastTold("ups.status").flags)
            /\ returned.onBattery \/ "OL" \in LastTold("ups.status").flags
        BY <1>1, <2>1, DecodedIsTold
      <3> QED
        BY <2>1, <3>1, <3>3, <3>4, <3>5 DEF ReadingIsTold, AskedNUT
    <2>2. CASE packet # <<>> /\ returned.ok
      BY <1>1, <2>2, DecodedIsPacket DEF ReadingIsTold, AskedNUT
    <2> QED
      BY <2>1, <2>2 DEF ReadingIsTold
  <1> QED
    BY <1>1, ReaderCorrect, PTL

\* What an agent reports as runtime, in any unit, against a limit in minutes.
LEMMA TicksExact ==
  ASSUME ReaderInv, returned.ok, ~AskedNUT, NEW limit \in 0..10
  PROVE  returned.runtime <= limit <=> ToldTicks < 6000 * (limit + 1)
  <1> DEFINE x == packet[1].variables[3].value
  <1>1. /\ x \in Nat /\ returned.runtime = runtimeToMinutes(x, unit)
        /\ packet[1].variables[3].type = "TimeTicks" => unit = "timeticks"
    BY DecodedIsPacket DEF AskedNUT
  <1>2. unit \in {"minutes", "seconds", "timeticks"}
    BY DEF ReaderInv, Unit
  <1>3. /\ unit = "minutes" => ToldTicks = x * 6000
        /\ unit = "seconds" => ToldTicks = x * 100
        /\ unit = "timeticks" => ToldTicks = x * 1
    BY <1>1 DEF ToldTicks, TicksPer
  <1> HIDE DEF x
  <1>4. CASE unit = "minutes"
    <2>1. runtimeToMinutes(x, unit) = x
      BY <1>4 DEF runtimeToMinutes
    <2> QED
      BY <1>1, <1>3, <1>4, <2>1
  <1>5. CASE unit = "seconds"
    <2>1. runtimeToMinutes(x, unit) = x \div 60
      BY <1>5 DEF runtimeToMinutes
    <2> QED
      BY <1>1, <1>3, <1>5, <2>1
  <1>6. CASE unit = "timeticks"
    <2>1. runtimeToMinutes(x, unit) = x \div 6000
      BY <1>6 DEF runtimeToMinutes
    <2> QED
      BY <1>1, <1>3, <1>6, <2>1
  <1> QED
    BY <1>2, <1>4, <1>5, <1>6

\* A threshold fires no later on the decoded reading than on what the device
\* said, and less than a percent or a minute earlier (runtimeToMinutes,
\* parseNUTNumber): for all numbers, rounded down in two steps.
THEOREM ThresholdsInTime ==
  PollSpec => []ThresholdsFireInTime
  <1>1. ASSUME ReaderInv PROVE ThresholdsFireInTime
    <2>1. ASSUME packet = <<>>, returned.ok, NEW limit \in 0..10
          PROVE  /\ returned.charge # Absent =>
                      (returned.charge <= limit
                         <=> LastTold("battery.charge").number < 10 * (limit + 1))
                 /\ returned.runtime # Absent =>
                      (returned.runtime <= limit
                         <=> LastTold("battery.runtime").number < 600 * (limit + 1))
      <3>1. \A x \in Nat : /\ x \div 10 <= limit <=> x < 10 * (limit + 1)
                           /\ (x \div 10) \div 60 <= limit <=> x < 600 * (limit + 1)
        OBVIOUS
      <3>2. /\ returned.charge # Absent => /\ LastTold("battery.charge").number \in Nat
                                           /\ returned.charge
                                                = LastTold("battery.charge").number \div 10
            /\ returned.runtime # Absent =>
                 /\ LastTold("battery.runtime").number \in Nat
                 /\ returned.runtime
                      = (LastTold("battery.runtime").number \div 10) \div 60
        BY <1>1, <2>1, DecodedIsTold
      <3> QED
        BY <3>1, <3>2
    <2>2. CASE AskedNUT
      BY <2>1, <2>2 DEF ThresholdsFireInTime, AskedNUT
    <2>3. CASE ~AskedNUT
      BY <1>1, <2>3, TicksExact DEF ThresholdsFireInTime
    <2> QED
      BY <2>2, <2>3
  <1> QED
    BY <1>1, ReaderCorrect, PTL

\* The reading that a poll returned, as UPSPolling takes it.
Returned == [onBattery |-> returned.onBattery, charge |-> returned.charge,
             runtime |-> returned.runtime, low |-> returned.low]

\* What UPSPolling assumes of its readings, a poll keeps: a charge or a runtime is
\* a natural number or absent, however the UPS worded it, and an SNMP agent never
\* says that the battery is low (ReadNUTStatus, ReadSNMPStatus).
ReadingIsUsable ==
  returned.ok => Returned \in Reading /\ (packet # <<>> => ~Returned.low)

\* Every reading that a poll returns is one that the polling loop is proved for.
THEOREM ReadingFits == PollSpec => []ReadingIsUsable
  <1>1. ASSUME ReaderInv PROVE ReadingIsUsable
    <2>1. CASE packet = <<>> /\ returned.ok
      <3>1. /\ \A n \in {"battery.charge", "battery.runtime"} : Told(n) # {} =>
                 /\ LastTold(n).number \div 10 \in Nat
                 /\ (LastTold(n).number \div 10) \div 60 \in Nat
            /\ returned.low \in BOOLEAN
            /\ returned.onBattery = ("OB" \in LastTold("ups.status").flags)
        <4>1. /\ \A n \in {"battery.charge", "battery.runtime"} : Told(n) # {} =>
                   LastTold(n).number \in Nat
              /\ returned.low \in BOOLEAN
              /\ returned.onBattery = ("OB" \in LastTold("ups.status").flags)
          BY <1>1, <2>1, DecodedIsTold
        <4>2. \A x \in Nat : x \div 10 \in Nat /\ (x \div 10) \div 60 \in Nat
          OBVIOUS
        <4> QED
          BY <4>1, <4>2
      <3>2. returned.charge \in Value
        <4>1. CASE Told("battery.charge") = {}
          BY <1>1, <2>1, <4>1, DecodedIsTold DEF Value
        <4>2. CASE Told("battery.charge") # {}
          <5>1. /\ LastTold("battery.charge").number \div 10 \in Nat
                /\ returned.charge = LastTold("battery.charge").number \div 10
            BY <1>1, <2>1, <3>1, <4>2, DecodedIsTold
          <5> QED
            BY <5>1 DEF Value
        <4> QED
          BY <4>1, <4>2
      <3>3. returned.runtime \in Value
        <4>1. CASE Told("battery.runtime") = {}
          BY <1>1, <2>1, <4>1, DecodedIsTold DEF Value
        <4>2. CASE Told("battery.runtime") # {}
          <5>1. /\ (LastTold("battery.runtime").number \div 10) \div 60 \in Nat
                /\ returned.runtime
                     = (LastTold("battery.runtime").number \div 10) \div 60
            BY <1>1, <2>1, <3>1, <4>2, DecodedIsTold
          <5> QED
            BY <5>1 DEF Value
        <4> QED
          BY <4>1, <4>2
      <3>4. returned.onBattery \in BOOLEAN
        BY <3>1
      <3>5. Returned \in Reading
        BY <3>1, <3>2, <3>3, <3>4 DEF Returned, Reading
      <3> QED
        BY <2>1, <3>5 DEF ReadingIsUsable
    <2>2. CASE packet # <<>> /\ returned.ok
      <3>1. /\ returned.onBattery \in BOOLEAN /\ returned.low = FALSE
            /\ returned.charge \in Nat /\ packet[1].variables[3].value \in Nat
            /\ returned.runtime
                 = runtimeToMinutes(packet[1].variables[3].value, unit)
        <4>1. /\ returned = [ok |-> TRUE,
                             onBattery |-> packet[1].variables[1].value \in OnBatteryValues,
                             low |-> FALSE, charge |-> packet[1].variables[2].value,
                             runtime |-> runtimeToMinutes(packet[1].variables[3].value,
                                                                 unit)]
              /\ packet[1].variables[2].value \in Nat
              /\ packet[1].variables[3].value \in Nat
          BY <1>1, <2>2, DecodedIsPacket
        <4>2. /\ returned.onBattery = (packet[1].variables[1].value \in OnBatteryValues)
              /\ returned.low = FALSE /\ returned.charge = packet[1].variables[2].value
              /\ returned.runtime
                   = runtimeToMinutes(packet[1].variables[3].value, unit)
          BY <4>1
        <4>3. returned.onBattery \in BOOLEAN
          BY <4>2
        <4> QED
          BY <4>1, <4>2, <4>3
      <3>2. unit \in {"minutes", "seconds", "timeticks"}
        BY <1>1 DEF ReaderInv, Unit
      <3>3. returned.runtime \in Nat
        <4> DEFINE x == packet[1].variables[3].value
        <4>1. x \in Nat /\ returned.runtime = runtimeToMinutes(x, unit)
          BY <3>1
        <4> HIDE DEF x
        <4>2. CASE unit = "minutes"
          BY <4>1, <4>2 DEF runtimeToMinutes
        <4>3. CASE unit = "seconds"
          BY <4>1, <4>3 DEF runtimeToMinutes
        <4>4. CASE unit = "timeticks"
          BY <4>1, <4>4 DEF runtimeToMinutes
        <4> QED
          BY <3>2, <4>2, <4>3, <4>4
      <3> QED
        BY <3>1, <3>3 DEF ReadingIsUsable, Returned, Reading, Value
    <2> QED
      BY <2>1, <2>2 DEF ReadingIsUsable
  <1> QED
    BY <1>1, ReaderCorrect, PTL
=============================================================================
