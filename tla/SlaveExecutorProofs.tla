------------------------- MODULE SlaveExecutorProofs -------------------------
(***************************************************************************)
(* Proofs about SlaveExecutor, for any commands and any number of          *)
(* goroutines and restarts: types, that a command is run by one            *)
(* goroutine at a time, that what the master hears is true, and that what  *)
(* the state file shows as settled is not executed again.                  *)
(***************************************************************************)
EXTENDS SlaveExecutor, TLAPS

(***************************************************************************)
(* Types.                                                                  *)
(***************************************************************************)

\* The part of TypeOK that relates the fields of an execution.
RunsOK(r) ==
  \A g \in Goroutine : /\ r[g].pc # "idle" => r[g].cmd \in Cmd
                       /\ r[g].pc \notin {"idle", "run"} => r[g].outcome # NoStatus

\* setCommandState adds one state and drops some.
LEMMA SetStateType ==
  ASSUME TypeOK, NEW c \in Cmd, NEW status \in Status, setCommandState(c, status)
  PROVE  IsStates(commandStates)' /\ restored' \subseteq Cmd
  <1> DEFINE set == [d \in DOMAIN commandStates \cup {c} |->
                       IF d = c THEN status ELSE commandStates[d]]
  <1>1. PICK dropped \in SUBSET (DOMAIN set \ executions) :
          /\ commandStates' = [d \in DOMAIN set \ dropped |-> set[d]]
          /\ restored' = restored \ dropped
    BY DEF setCommandState
  <1>2. IsStates(commandStates)
    BY DEF TypeOK
  <1>3. DOMAIN set \subseteq Cmd /\ \A d \in DOMAIN set : set[d] \in Status
    BY <1>2 DEF IsStates
  <1>4. restored \subseteq Cmd
    BY DEF TypeOK
  <1> HIDE DEF set
  <1>5. QED
    BY <1>1, <1>3, <1>4 DEF IsStates

\* The records the goroutines start from have their types.
LEMMA RecordTypes ==
  /\ NoMessage \in HandlerType
  /\ NoRun \in RunType
  /\ IsStates(NoCommands)
  BY DEF NoMessage, NoRun, NoCommands, HandlerType, RunType, IsStates, NoStatus

\* Starting a goroutine keeps the types.
LEMMA GoType ==
  ASSUME TypeOK, NEW c \in Cmd, Go(c)
  PROVE  /\ run' \in [Goroutine -> RunType]
         /\ RunsOK(run')
  <1>1. PICK h \in Goroutine :
          run' = [run EXCEPT ![h] = [pc |-> "run", cmd |-> c, outcome |-> NoStatus]]
    BY DEF Go
  <1>2. QED
    BY <1>1 DEF TypeOK, RunType, NoStatus, RunsOK

\* The initial state of the slave has its types.
LEMMA TypeInit == Init => TypeOK
  <1> SUFFICES ASSUME Init PROVE TypeOK
    OBVIOUS
  <1>1. IsStates(commandStates) /\ IsStates(disk) /\ handler \in HandlerType
    BY RecordTypes DEF Init
  <1>2. run \in [Goroutine -> RunType] /\ RunsOK(run)
    BY RecordTypes DEF Init, RunsOK, NoRun
  <1>3. heard \in [Cmd -> Status \cup {NoStatus}] /\ restarts \in 0..MaxRestarts
    BY SlaveAssumption DEF Init
  <1>4. handler.pc = "idle"
    BY DEF Init, NoMessage
  <1>5. QED
    BY <1>1, <1>2, <1>3, <1>4 DEF Init, TypeOK, RunsOK

\* Each step of the handler keeps the types.
LEMMA TypeHandler == TypeOK /\ HandlerStep => TypeOK'
  <1> SUFFICES ASSUME TypeOK, HandlerStep PROVE TypeOK'
    OBVIOUS
  <1> USE SlaveAssumption
  <1>0. handler \in HandlerType /\ NoMessage \in HandlerType /\ NoMessage.pc = "idle"
    BY RecordTypes DEF TypeOK, NoMessage
  <1>1. ASSUME NEW status \in Status, handler.pc # "idle", HandlerSets(status) PROVE TypeOK'
    <2>1. handler.cmd \in Cmd
      BY <1>1 DEF TypeOK
    <2>2. IsStates(commandStates)' /\ restored' \subseteq Cmd
      BY <1>1, <2>1, SetStateType DEF HandlerSets
    <2>3. handler' \in HandlerType /\ handler'.cmd = handler.cmd
      BY <1>0, <1>1 DEF HandlerSets, HandlerType
    <2>4. QED
      BY <1>1, <2>1, <2>2, <2>3 DEF HandlerSets, TypeOK, observed
  <1>2. ASSUME NEW next \in HandlerType, next.pc # "idle" => next.cmd \in Cmd,
               handler.pc # "idle", HandlerSends(next),
               UNCHANGED <<shared, connected, run, disk, restarts, ran, restored>>
        PROVE  TypeOK'
    <2>1. handler' \in HandlerType /\ (handler'.pc # "idle" => handler'.cmd \in Cmd)
      BY <1>0, <1>2 DEF HandlerSends
    <2>2. heard' \in [Cmd -> Status \cup {NoStatus}]
      BY <1>0, <1>2 DEF HandlerSends, TypeOK, HandlerType
    <2>3. QED
      BY <1>2, <2>1, <2>2 DEF TypeOK, shared
  <1>3. CASE AcceptCommand
    BY <1>1, <1>3 DEF AcceptCommand, Status
  <1>4. CASE ResumeShutdown
    BY <1>1, <1>4 DEF ResumeShutdown, Status
  <1>5. CASE SendExisting
    <2>1. AfterReack \in HandlerType /\ (AfterReack.pc # "idle" => AfterReack.cmd \in Cmd)
      BY <1>0, <1>5 DEF SendExisting, AfterReack, HandlerType, TypeOK
    <2>2. QED
      BY <1>2, <1>5, <2>1 DEF SendExisting
  <1>6. CASE SendRecorded
    <2>1. AfterSend \in HandlerType /\ (AfterSend.pc # "idle" => AfterSend.cmd \in Cmd)
      BY <1>0, <1>6 DEF SendRecorded, AfterSend, HandlerType, TypeOK
    <2>2. QED
      BY <1>2, <1>6, <2>1 DEF SendRecorded
  <1>7. CASE RebindKnown
    <2>1. handler.cmd \in Cmd
      BY <1>7 DEF RebindKnown, TypeOK
    <2>2. executions' \subseteq Cmd /\ bound' \subseteq executions'
      BY <1>7, <2>1 DEF RebindKnown, Bind, TypeOK
    <2>3. handler' \in HandlerType /\ handler'.cmd = handler.cmd
      BY <1>0, <1>7 DEF RebindKnown, beginOrRebind, HandlerType
    <2>4. QED
      BY <1>7, <2>1, <2>2, <2>3 DEF RebindKnown, TypeOK, observed
  <1>8. CASE StartPrepared
    <2>1. handler.cmd \in Cmd
      BY <1>8 DEF StartPrepared, TypeOK
    <2>2. QED
      BY <1>0, <1>8, <2>1, GoType DEF StartPrepared, TypeOK, RunsOK, shared, observed
  <1>9. CASE BeginShutdown
    <2>1. handler.cmd \in Cmd
      BY <1>9 DEF BeginShutdown, TypeOK
    <2>2. executions' \subseteq Cmd /\ bound' \subseteq executions'
      BY <1>9, <2>1 DEF BeginShutdown, Bind, TypeOK
    <2>3. /\ run' \in [Goroutine -> RunType]
          /\ RunsOK(run')
      BY <1>9, <2>1, GoType DEF BeginShutdown, TypeOK, RunsOK
    <2>4. QED
      BY <1>0, <1>9, <2>2, <2>3 DEF BeginShutdown, TypeOK, RunsOK, observed
  <1>10. QED
    BY <1>3, <1>4, <1>5, <1>6, <1>7, <1>8, <1>9 DEF HandlerStep

\* Each step of an execution keeps the types.
LEMMA TypeRun == TypeOK /\ (\E g \in Goroutine : RunStep(g)) => TypeOK'
  <1> SUFFICES ASSUME TypeOK, NEW g \in Goroutine, RunStep(g) PROVE TypeOK'
    OBVIOUS
  <1>0. run[g] \in RunType /\ NoRun \in RunType /\ NoRun.pc = "idle"
    BY RecordTypes DEF TypeOK, NoRun
  <1>1. ASSUME NEW r \in RunType, run' = [run EXCEPT ![g] = r],
               r.pc # "idle" => r.cmd \in Cmd,
               r.pc \notin {"idle", "run"} => r.outcome # NoStatus
        PROVE  run' \in [Goroutine -> RunType] /\ RunsOK(run')
    BY <1>1 DEF TypeOK, RunsOK
  <1>2. CASE Execute(g)
    <2>1. run[g].cmd \in Cmd
      BY <1>2 DEF Execute, TypeOK
    <2>2. PICK outcome \in {"executed", "failed"} :
            run' = [run EXCEPT ![g] = [run[g] EXCEPT !.pc = "record", !.outcome = outcome]]
      BY <1>2 DEF Execute, TypeOK
    <2>3. run' \in [Goroutine -> RunType] /\ RunsOK(run')
      BY <1>0, <1>1, <2>1, <2>2 DEF RunType, NoStatus
    <2>4. ran' \subseteq Cmd
      BY <1>2, <2>1 DEF Execute, TypeOK
    <2>5. QED
      BY <1>2, <2>3, <2>4 DEF Execute, TypeOK, RunsOK, shared
  <1>3. CASE RecordOutcome(g)
    <2>1. run[g].cmd \in Cmd /\ run[g].outcome # NoStatus
      BY <1>3 DEF RecordOutcome, TypeOK
    <2>2. run[g].outcome \in Status
      BY <1>0, <2>1 DEF RunType, Status
    <2>3. IsStates(commandStates)' /\ restored' \subseteq Cmd
      BY <1>3, <2>1, <2>2, SetStateType DEF RecordOutcome
    <2>4. run' = [run EXCEPT ![g] = [run[g] EXCEPT !.pc = "persist"]]
      BY <1>3 DEF RecordOutcome, TypeOK
    <2>5. run' \in [Goroutine -> RunType] /\ RunsOK(run')
      BY <1>0, <1>1, <2>1, <2>4 DEF RunType
    <2>6. QED
      BY <1>3, <2>3, <2>5 DEF RecordOutcome, TypeOK, RunsOK, observed
  <1>4. CASE ReportOutcome(g)
    <2>1. run[g].cmd \in Cmd /\ run[g].outcome # NoStatus
      BY <1>4 DEF ReportOutcome, TypeOK
    <2>2. run[g].outcome \in Status
      BY <1>0, <2>1 DEF RunType, Status
    <2>3. heard' \in [Cmd -> Status \cup {NoStatus}]
      BY <1>4, <2>2 DEF ReportOutcome, TypeOK
    <2>4. run' = [run EXCEPT ![g] = [run[g] EXCEPT !.pc = "finish"]]
      BY <1>4 DEF ReportOutcome, TypeOK
    <2>5. run' \in [Goroutine -> RunType] /\ RunsOK(run')
      BY <1>0, <1>1, <2>1, <2>4 DEF RunType
    <2>6. QED
      BY <1>4, <2>3, <2>5 DEF ReportOutcome, TypeOK, RunsOK, shared
  <1>5. CASE finishShutdownExecution(g)
    <2>1. run' \in [Goroutine -> RunType] /\ RunsOK(run')
      BY <1>0, <1>1, <1>5 DEF finishShutdownExecution
    <2>2. executions' \subseteq Cmd /\ bound' \subseteq executions'
      BY <1>5 DEF finishShutdownExecution, TypeOK
    <2>3. QED
      BY <1>5, <2>1, <2>2 DEF finishShutdownExecution, TypeOK, RunsOK, observed
  <1>6. QED
    BY <1>2, <1>3, <1>4, <1>5 DEF RunStep

\* A write of the file keeps the types, and lets goroutines go on.
LEMMA TypePersist == TypeOK /\ persistState => TypeOK'
  <1> SUFFICES ASSUME TypeOK, persistState PROVE TypeOK'
    OBVIOUS
  <1>1. handler' \in HandlerType /\ (handler'.pc # "idle" => handler'.cmd \in Cmd)
    BY DEF persistState, TypeOK, HandlerType
  <1>2. \A g \in Goroutine : run[g] \in RunType
    BY DEF TypeOK
  <1>3. \A g \in Goroutine : [run[g] EXCEPT !.pc = "report"] \in RunType
    BY <1>2 DEF RunType
  <1>4. run' \in [Goroutine -> RunType]
    BY <1>2, <1>3 DEF persistState
  <1>5. RunsOK(run')
    BY <1>2 DEF persistState, TypeOK, RunsOK, RunType
  <1>6. IsStates(disk)'
    BY DEF persistState, TypeOK, IsStates
  <1>7. QED
    BY <1>1, <1>4, <1>5, <1>6 DEF persistState, TypeOK, RunsOK, shared, observed

\* Connections and restarts keep the types.
LEMMA TypeOthers ==
  TypeOK /\ (Connect \/ Disconnect \/ (\E c \in Cmd : Receive(c)) \/ Restart) => TypeOK'
  <1> SUFFICES ASSUME TypeOK, Connect \/ Disconnect \/ (\E c \in Cmd : Receive(c)) \/ Restart
               PROVE  TypeOK'
    OBVIOUS
  <1>1. CASE Connect
    BY <1>1 DEF Connect, TypeOK, shared, observed
  <1>2. CASE Disconnect
    BY <1>2 DEF Disconnect, TypeOK, observed
  <1>3. ASSUME NEW c \in Cmd, Receive(c) PROVE TypeOK'
    <2>1. handler' \in HandlerType /\ handler'.cmd \in Cmd
      BY <1>3 DEF Receive, TypeOK, IsStates, Known, HandlerType, NoMessage, NoStatus
    <2>2. QED
      BY <1>3, <2>1 DEF Receive, TypeOK, shared, observed
  <1>4. CASE Restart
    <2>1. IsStates(commandStates)' /\ IsStates(disk)'
      BY <1>4, RecordTypes DEF Restart, TypeOK, IsStates
    <2>2. restored' \subseteq Cmd
      BY <1>4 DEF Restart, TypeOK, IsStates
    <2>3. restarts' \in 0..MaxRestarts
      BY <1>4, SlaveAssumption DEF Restart, WillRestart, TypeOK
    <2>4. handler' \in HandlerType /\ handler'.pc = "idle"
      BY <1>4, RecordTypes DEF Restart, NoMessage
    <2>5. run' \in [Goroutine -> RunType] /\ RunsOK(run')
      BY <1>4, RecordTypes DEF Restart, RunsOK, NoRun
    <2>6. executions' = {} /\ bound' = {} /\ connected' = FALSE /\ heard' = heard /\ ran' = ran
      BY <1>4 DEF Restart, observed
    <2>7. QED
      BY <2>1, <2>2, <2>3, <2>4, <2>5, <2>6 DEF TypeOK, RunsOK
  <1>5. QED
    BY <1>1, <1>2, <1>3, <1>4

\* Every variable of the slave keeps its type (SlaveExecutor!TypeOK).
THEOREM TypeCorrect == Spec => []TypeOK
  <1>1. TypeOK /\ [Next]_vars => TypeOK'
    <2> SUFFICES ASSUME TypeOK, [Next]_vars PROVE TypeOK'
      OBVIOUS
    <2>1. CASE Next
      BY <2>1, TypeHandler, TypeRun, TypePersist, TypeOthers DEF Next
    <2>2. CASE UNCHANGED vars
      BY <2>2 DEF vars, shared, observed, TypeOK, IsStates
    <2>3. QED
      BY <2>1, <2>2
  <1>2. QED
    BY TypeInit, <1>1, PTL DEF Spec

(***************************************************************************)
(* One run at a time.  The entry in executions is made before the          *)
(* goroutine starts and removed after it ended; in between the handler may *)
(* have prepared a start that it has not carried out.                      *)
(***************************************************************************)

\* The handler owes a start to the entry it made.
Prepared == handler.start /\ handler.pc \in {"reack", "go"}

\* Every run, and a prepared start, has its entry; a prepared start has no run;
\* and the handler only starts what it prepared.
Entries ==
  /\ \A g \in Goroutine : run[g].pc # "idle" => run[g].cmd \in executions
  /\ Prepared => handler.cmd \in executions /\ ~Running(handler.cmd)
  /\ handler.pc = "known" => ~handler.start
  /\ handler.pc = "go" => handler.start

RunInv == OneRunPerCommand /\ Entries

\* A start of a command nobody runs, whose entry is there.
LEMMA GoKeepsOneRun ==
  ASSUME TypeOK, RunInv, NEW c \in Cmd, Go(c), ~Running(c), c \in executions',
         executions \subseteq executions', handler' = NoMessage
  PROVE  RunInv'
  <1>1. PICK h \in Goroutine :
          /\ run[h].pc = "idle"
          /\ run' = [run EXCEPT ![h] = [pc |-> "run", cmd |-> c, outcome |-> NoStatus]]
    BY DEF Go
  <1>2. \A g \in Goroutine \ {h} : run'[g] = run[g]
    BY <1>1 DEF TypeOK
  <1>3. run'[h].pc = "run" /\ run'[h].cmd = c
    BY <1>1 DEF TypeOK
  <1>4. OneRunPerCommand'
    BY <1>2, <1>3 DEF RunInv, OneRunPerCommand, Running
  <1>5. Entries'
    BY <1>2, <1>3 DEF RunInv, Entries, Prepared, NoMessage
  <1>6. QED
    BY <1>4, <1>5 DEF RunInv

\* A step that starts no goroutine, keeps their commands, keeps the entries they
\* have, and prepares no start.
LEMMA QuietKeepsOneRun ==
  ASSUME TypeOK, RunInv,
         \A g \in Goroutine : run'[g].pc # "idle" =>
           run[g].pc # "idle" /\ run'[g].cmd = run[g].cmd /\ run'[g].cmd \in executions',
         Prepared' => Prepared /\ handler'.cmd = handler.cmd /\ handler'.cmd \in executions',
         handler'.pc = "known" => ~handler'.start,
         handler'.pc = "go" => handler'.start
  PROVE  RunInv'
  <1>1. OneRunPerCommand'
    BY DEF RunInv, OneRunPerCommand
  <1>2. Prepared' => ~Running(handler.cmd)'
    BY DEF RunInv, Entries, Running
  <1>3. QED
    BY <1>1, <1>2 DEF RunInv, Entries, Running

\* The handler starts only what it has just entered, or prepared before.
LEMMA OneRunHandler == TypeOK /\ RunInv /\ HandlerStep => RunInv'
  <1> SUFFICES ASSUME TypeOK, RunInv, HandlerStep PROVE RunInv'
    OBVIOUS
  <1>0. handler \in HandlerType /\ NoMessage.pc = "idle" /\ NoMessage.start = FALSE
    BY DEF TypeOK, NoMessage
  <1>1. ASSUME NEW status \in Status, HandlerSets(status) PROVE RunInv'
    <2>1. handler'.pc = "persist" /\ run' = run /\ executions' = executions
      BY <1>0, <1>1 DEF HandlerSets, HandlerType
    <2>2. QED
      BY <2>1, QuietKeepsOneRun DEF RunInv, Entries, Prepared
  <1>2. CASE AcceptCommand
    BY <1>1, <1>2 DEF AcceptCommand, Status
  <1>3. CASE ResumeShutdown
    BY <1>1, <1>3 DEF ResumeShutdown, Status
  <1>4. CASE SendExisting
    <2>1. run' = run /\ executions' = executions /\ handler.pc = "reack"
          /\ handler' \in {AfterReack, NoMessage}
      BY <1>4 DEF SendExisting, HandlerSends, shared
    <2>2. \/ handler'.pc = "resume"
          \/ handler.start /\ handler'.pc = "go" /\ handler'.start /\ handler'.cmd = handler.cmd
          \/ handler'.pc = "idle"
      BY <1>0, <2>1 DEF AfterReack, HandlerType
    <2>3. QED
      BY <2>1, <2>2, QuietKeepsOneRun DEF RunInv, Entries, Prepared
  <1>5. CASE SendRecorded
    <2>1. run' = run /\ executions' = executions /\ handler' \in {AfterSend, NoMessage}
      BY <1>5 DEF SendRecorded, HandlerSends, shared
    <2>2. handler'.pc \in {"resume", "begin", "idle"}
      BY <1>0, <2>1 DEF AfterSend, HandlerType
    <2>3. QED
      BY <2>1, <2>2, QuietKeepsOneRun DEF RunInv, Entries, Prepared
  <1>6. CASE RebindKnown
    <2>1. run' = run /\ handler.pc = "known" /\ ~handler.start /\ executions \subseteq executions'
      BY <1>6 DEF RebindKnown, Bind, RunInv, Entries
    <2>2. handler'.pc = "reack" /\ handler'.cmd = handler.cmd
      BY <1>0, <1>6 DEF RebindKnown, HandlerType
    <2>3. handler'.start => handler.cmd \notin executions /\ handler.cmd \in executions'
      BY <1>0, <1>6, <2>1 DEF RebindKnown, Bind, beginOrRebind, HandlerType
    <2>4. handler'.start => ~Running(handler.cmd)
      BY <2>3 DEF RunInv, Entries, Running
    <2>5. OneRunPerCommand'
      BY <2>1 DEF RunInv, OneRunPerCommand
    <2>6. QED
      BY <2>1, <2>2, <2>3, <2>4, <2>5 DEF RunInv, Entries, Prepared, Running
  <1>7. CASE StartPrepared
    <2>1. handler.cmd \in Cmd /\ Go(handler.cmd) /\ executions' = executions /\ handler' = NoMessage
      BY <1>7 DEF StartPrepared, TypeOK, shared
    <2>2. handler.cmd \in executions /\ ~Running(handler.cmd)
      BY <1>7 DEF StartPrepared, RunInv, Entries, Prepared
    <2>3. QED
      BY <2>1, <2>2, GoKeepsOneRun
  <1>8. CASE BeginShutdown
    <2>1. handler.cmd \in Cmd /\ handler' = NoMessage /\ executions \subseteq executions'
          /\ handler.cmd \in executions'
      BY <1>8 DEF BeginShutdown, Bind, TypeOK
    <2>2. CASE handler.cmd \notin executions
      <3>1. Go(handler.cmd) /\ ~Running(handler.cmd)
        BY <1>8, <2>2 DEF BeginShutdown, beginOrRebind, RunInv, Entries, Running
      <3>2. QED
        BY <2>1, <3>1, GoKeepsOneRun
    <2>3. CASE handler.cmd \in executions
      <3>1. run' = run
        BY <1>8, <2>3 DEF BeginShutdown, beginOrRebind
      <3>2. QED
        BY <1>0, <2>1, <3>1, QuietKeepsOneRun DEF RunInv, Entries, Prepared
    <2>4. QED
      BY <2>2, <2>3
  <1>9. QED
    BY <1>2, <1>3, <1>4, <1>5, <1>6, <1>7, <1>8 DEF HandlerStep

\* The end of a run removes the entry of its own command, which no other run and
\* no prepared start has.
LEMMA OneRunRun == TypeOK /\ RunInv /\ (\E g \in Goroutine : RunStep(g)) => RunInv'
  <1> SUFFICES ASSUME TypeOK, RunInv, NEW g \in Goroutine, RunStep(g) PROVE RunInv'
    OBVIOUS
  <1>0. run[g] \in RunType
    BY DEF TypeOK
  <1>1. ASSUME NEW r, run' = [run EXCEPT ![g] = r], r.cmd = run[g].cmd, run[g].pc # "idle",
               executions' = executions, handler' = handler
        PROVE  RunInv'
    <2>1. \A h \in Goroutine : run'[h].pc # "idle" => run[h].pc # "idle" /\ run'[h].cmd = run[h].cmd
      BY <1>1 DEF TypeOK
    <2>2. QED
      BY <1>1, <2>1, QuietKeepsOneRun DEF RunInv, Entries, Prepared
  <1>2. CASE Execute(g)
    <2>1. PICK outcome \in {"executed", "failed"} :
            run' = [run EXCEPT ![g] = [run[g] EXCEPT !.pc = "record", !.outcome = outcome]]
      BY <1>2 DEF Execute, TypeOK
    <2>2. [run[g] EXCEPT !.pc = "record", !.outcome = outcome].cmd = run[g].cmd
      BY <1>0 DEF RunType
    <2>3. QED
      BY <1>1, <1>2, <2>1, <2>2 DEF Execute, shared
  <1>3. CASE RecordOutcome(g)
    <2>1. run' = [run EXCEPT ![g] = [run[g] EXCEPT !.pc = "persist"]]
      BY <1>3 DEF RecordOutcome, TypeOK
    <2>2. [run[g] EXCEPT !.pc = "persist"].cmd = run[g].cmd
      BY <1>0 DEF RunType
    <2>3. QED
      BY <1>1, <1>3, <2>1, <2>2 DEF RecordOutcome
  <1>4. CASE ReportOutcome(g)
    <2>1. run' = [run EXCEPT ![g] = [run[g] EXCEPT !.pc = "finish"]]
      BY <1>4 DEF ReportOutcome, TypeOK
    <2>2. [run[g] EXCEPT !.pc = "finish"].cmd = run[g].cmd
      BY <1>0 DEF RunType
    <2>3. QED
      BY <1>1, <1>4, <2>1, <2>2 DEF ReportOutcome, shared
  <1>5. CASE finishShutdownExecution(g)
    <2>1. run[g].pc # "idle" /\ executions' = executions \ {run[g].cmd} /\ handler' = handler
      BY <1>5 DEF finishShutdownExecution
    <2>2. run'[g].pc = "idle" /\ \A h \in Goroutine \ {g} : run'[h] = run[h]
      BY <1>5 DEF finishShutdownExecution, TypeOK, NoRun
    <2>3. \A h \in Goroutine \ {g} : run[h].pc # "idle" => run[h].cmd # run[g].cmd
      BY <2>1 DEF RunInv, OneRunPerCommand
    <2>4. Prepared => handler.cmd # run[g].cmd
      BY <2>1 DEF RunInv, Entries, Running
    <2>5. QED
      BY <2>1, <2>2, <2>3, <2>4, QuietKeepsOneRun DEF RunInv, Entries, Prepared
  <1>6. QED
    BY <1>2, <1>3, <1>4, <1>5 DEF RunStep

\* Connections, new messages and file writes start nothing; a restart ends all
\* goroutines along with the table.
LEMMA OneRunOthers ==
  TypeOK /\ RunInv
    /\ (persistState \/ Connect \/ Disconnect \/ (\E c \in Cmd : Receive(c)) \/ Restart)
    => RunInv'
  <1> SUFFICES ASSUME TypeOK, RunInv,
                      persistState \/ Connect \/ Disconnect \/ (\E c \in Cmd : Receive(c)) \/ Restart
               PROVE  RunInv'
    OBVIOUS
  <1>1. CASE persistState
    <2>1. \A g \in Goroutine : run[g] \in RunType
      BY DEF TypeOK
    <2>2. \A g \in Goroutine : run'[g].cmd = run[g].cmd /\ (run'[g].pc # "idle" => run[g].pc # "idle")
      BY <1>1, <2>1 DEF persistState, RunType
    <2>3. \/ handler' = handler
          \/ handler'.pc = "send"
      BY <1>1 DEF persistState, TypeOK, HandlerType
    <2>4. executions' = executions
      BY <1>1 DEF persistState, shared
    <2>5. QED
      BY <2>2, <2>3, <2>4, QuietKeepsOneRun DEF RunInv, Entries, Prepared
  <1>2. CASE Connect \/ Disconnect
    <2>1. run' = run /\ executions' = executions /\ handler' = handler
      BY <1>2 DEF Connect, Disconnect, shared
    <2>2. QED
      BY <2>1, QuietKeepsOneRun DEF RunInv, Entries, Prepared
  <1>3. ASSUME NEW c \in Cmd, Receive(c) PROVE RunInv'
    <2>1. run' = run /\ executions' = executions
      BY <1>3 DEF Receive, shared
    <2>2. handler'.pc \in {"known", "new"} /\ handler'.start = FALSE
      BY <1>3 DEF Receive, NoMessage
    <2>3. QED
      BY <2>1, <2>2, QuietKeepsOneRun DEF RunInv, Entries, Prepared
  <1>4. CASE Restart
    <2>1. handler'.pc = "idle" /\ \A g \in Goroutine : run'[g].pc = "idle"
      BY <1>4 DEF Restart, NoMessage, NoRun
    <2>2. QED
      BY <2>1, QuietKeepsOneRun DEF Prepared
  <1>5. QED
    BY <1>1, <1>2, <1>3, <1>4

\* A command is run by one goroutine at a time, for any number of replays,
\* reconnects and goroutines (SlaveExecutor!OneRunPerCommand).
THEOREM RunExclusive == Spec => []OneRunPerCommand
  <1>1. Init => RunInv
    BY DEF Init, RunInv, OneRunPerCommand, Entries, Prepared, NoMessage, NoRun
  <1>2. TypeOK /\ RunInv /\ [Next]_vars => RunInv'
    <2> SUFFICES ASSUME TypeOK, RunInv, [Next]_vars PROVE RunInv'
      OBVIOUS
    <2>1. CASE Next
      BY <2>1, OneRunHandler, OneRunRun, OneRunOthers DEF Next
    <2>2. CASE UNCHANGED vars
      <3>1. run' = run /\ executions' = executions /\ handler' = handler
        BY <2>2 DEF vars, shared
      <3>2. QED
        BY <3>1, QuietKeepsOneRun DEF RunInv, Entries, Prepared
    <2>3. QED
      BY <2>1, <2>2
  <1>3. RunInv => OneRunPerCommand
    BY DEF RunInv
  <1>4. QED
    BY <1>1, <1>2, <1>3, TypeCorrect, PTL DEF Spec

(***************************************************************************)
(* Reports are true.  A status on its way to the master is somewhere: in   *)
(* memory, in the file, in the message the handler has in hand, or in an   *)
(* execution.  All of them are truthful, and stay so because a successful  *)
(* run is never undone.                                                    *)
(***************************************************************************)

\* What the status says of command c is so.
Truthful(status, c) ==
  /\ status = "executed" => c \in ran
  /\ status = "simulated" => c \in DryCmd

TruthInv ==
  /\ \A c \in DOMAIN commandStates : Truthful(commandStates[c], c)
  /\ \A c \in DOMAIN disk : Truthful(disk[c], c)
  /\ Truthful(handler.status, handler.cmd)
  /\ \A g \in Goroutine : run[g].outcome = "executed" => run[g].cmd \in ran
  /\ \A c \in Cmd : Truthful(heard[c], c)

\* setCommandState keeps states that have a property when the new one has it.
LEMMA SetStateTruth ==
  ASSUME TruthInv, NEW c, NEW status, setCommandState(c, status), Truthful(status, c), ran' = ran
  PROVE  \A d \in DOMAIN commandStates' : Truthful(commandStates'[d], d)
  <1> DEFINE set == [d \in DOMAIN commandStates \cup {c} |->
                       IF d = c THEN status ELSE commandStates[d]]
  <1>1. PICK dropped : commandStates' = [d \in DOMAIN set \ dropped |-> set[d]]
    BY DEF setCommandState
  <1>2. \A d \in DOMAIN set : Truthful(set[d], d)
    BY DEF TruthInv
  <1> HIDE DEF set
  <1>3. QED
    BY <1>1, <1>2

\* The handler records and sends a status it was given or decided itself.
LEMMA TruthHandler == TypeOK /\ TruthInv /\ HandlerStep => TruthInv'
  <1> SUFFICES ASSUME TypeOK, TruthInv, HandlerStep PROVE TruthInv'
    OBVIOUS
  <1>0. handler \in HandlerType /\ NoMessage.status = NoStatus /\ NoMessage.cmd = NoCmd
    BY DEF TypeOK, NoMessage
  <1>1. ASSUME NEW status, Truthful(status, handler.cmd), HandlerSets(status) PROVE TruthInv'
    <2>1. UNCHANGED <<run, disk, heard, ran>> /\ setCommandState(handler.cmd, status)
      BY <1>1 DEF HandlerSets, observed
    <2>2. \A d \in DOMAIN commandStates' : Truthful(commandStates'[d], d)
      BY <1>1, <2>1, SetStateTruth
    <2>3. handler'.status = status /\ handler'.cmd = handler.cmd
      BY <1>0, <1>1 DEF HandlerSets, HandlerType
    <2>4. QED
      BY <1>1, <2>1, <2>2, <2>3 DEF TruthInv, Truthful
  <1>2. ASSUME NEW next, (next.status = handler.status /\ next.cmd = handler.cmd) \/ next = NoMessage,
               HandlerSends(next), handler.cmd \in Cmd,
               UNCHANGED <<shared, connected, run, disk, restarts, ran, restored>>
        PROVE  TruthInv'
    <2>1. Truthful(handler'.status, handler'.cmd)
      BY <1>0, <1>2 DEF HandlerSends, TruthInv, Truthful, NoStatus
    <2>2. \A c \in Cmd : Truthful(heard'[c], c)
      BY <1>2 DEF HandlerSends, TruthInv, TypeOK
    <2>3. UNCHANGED <<commandStates, disk, run, ran>>
      BY <1>2 DEF shared
    <2>4. QED
      BY <2>1, <2>2, <2>3 DEF TruthInv, Truthful
  <1>3. CASE AcceptCommand
    BY <1>1, <1>3 DEF AcceptCommand, Truthful
  <1>4. CASE ResumeShutdown
    BY <1>1, <1>4 DEF ResumeShutdown, Truthful
  <1>5. CASE SendExisting
    <2>1. (AfterReack.status = handler.status /\ AfterReack.cmd = handler.cmd) \/ AfterReack = NoMessage
      BY <1>0 DEF AfterReack, HandlerType
    <2>2. QED
      BY <1>2, <1>5, <2>1 DEF SendExisting, TypeOK
  <1>6. CASE SendRecorded
    <2>1. (AfterSend.status = handler.status /\ AfterSend.cmd = handler.cmd) \/ AfterSend = NoMessage
      BY <1>0 DEF AfterSend, HandlerType
    <2>2. QED
      BY <1>2, <1>6, <2>1 DEF SendRecorded, TypeOK
  <1>7. CASE RebindKnown
    <2>1. handler'.status = handler.status /\ handler'.cmd = handler.cmd
      BY <1>0, <1>7 DEF RebindKnown, HandlerType
    <2>2. QED
      BY <1>7, <2>1 DEF RebindKnown, TruthInv, Truthful, observed
  <1>8. CASE StartPrepared \/ BeginShutdown
    <2>1. UNCHANGED <<commandStates, disk, heard, ran>> /\ handler' = NoMessage
      BY <1>8 DEF StartPrepared, BeginShutdown, shared, observed
    <2>2. run' = run \/ Go(handler.cmd)
      BY <1>8 DEF StartPrepared, BeginShutdown
    <2>3. \A g \in Goroutine : run'[g].outcome = "executed" => run'[g].cmd \in ran
      BY <2>2 DEF Go, TruthInv, TypeOK, NoStatus
    <2>4. QED
      BY <1>0, <2>1, <2>3 DEF TruthInv, Truthful, NoStatus
  <1>9. QED
    BY <1>3, <1>4, <1>5, <1>6, <1>7, <1>8 DEF HandlerStep

\* An execution reports the outcome of its own run.
LEMMA TruthRun == TypeOK /\ TruthInv /\ (\E g \in Goroutine : RunStep(g)) => TruthInv'
  <1> SUFFICES ASSUME TypeOK, TruthInv, NEW g \in Goroutine, RunStep(g) PROVE TruthInv'
    OBVIOUS
  <1>0. run[g] \in RunType /\ run \in [Goroutine -> RunType]
    BY DEF TypeOK
  <1>1. Truthful(run[g].outcome, run[g].cmd)
    BY <1>0 DEF TruthInv, Truthful, RunType, NoStatus
  <1>2. CASE Execute(g)
    <2>1. PICK outcome \in {"executed", "failed"} :
            /\ run' = [run EXCEPT ![g] = [run[g] EXCEPT !.pc = "record", !.outcome = outcome]]
            /\ ran' = IF outcome = "executed" THEN ran \cup {run[g].cmd} ELSE ran
      BY <1>2 DEF Execute, TypeOK
    <2>2. run'[g].outcome = outcome /\ run'[g].cmd = run[g].cmd
          /\ \A h \in Goroutine \ {g} : run'[h] = run[h]
      BY <1>0, <2>1 DEF RunType
    <2>3. UNCHANGED <<commandStates, disk, handler, heard>> /\ ran \subseteq ran'
      BY <1>2, <2>1 DEF Execute, shared
    <2>4. \A h \in Goroutine : run'[h].outcome = "executed" => run'[h].cmd \in ran'
      BY <2>1, <2>2, <2>3 DEF TruthInv
    <2>5. QED
      BY <2>3, <2>4 DEF TruthInv, Truthful
  <1>3. CASE RecordOutcome(g)
    <2>1. UNCHANGED <<disk, handler, heard, ran>>
      BY <1>3 DEF RecordOutcome, observed
    <2>2. \A d \in DOMAIN commandStates' : Truthful(commandStates'[d], d)
      BY <1>1, <1>3, <2>1, SetStateTruth DEF RecordOutcome
    <2>3. \A h \in Goroutine : run'[h].outcome = run[h].outcome /\ run'[h].cmd = run[h].cmd
      BY <1>0, <1>3 DEF RecordOutcome, RunType
    <2>4. QED
      BY <2>1, <2>2, <2>3 DEF TruthInv, Truthful
  <1>4. CASE ReportOutcome(g)
    <2>1. UNCHANGED <<commandStates, disk, handler, ran>>
      BY <1>4 DEF ReportOutcome, shared
    <2>2. \A h \in Goroutine : run'[h].outcome = run[h].outcome /\ run'[h].cmd = run[h].cmd
      BY <1>0, <1>4 DEF ReportOutcome, RunType
    <2>3. \A c \in Cmd : Truthful(heard'[c], c)
      BY <1>1, <1>4 DEF ReportOutcome, TypeOK, TruthInv
    <2>4. QED
      BY <2>1, <2>2, <2>3 DEF TruthInv, Truthful
  <1>5. CASE finishShutdownExecution(g)
    <2>1. UNCHANGED <<commandStates, disk, handler, heard, ran>>
      BY <1>5 DEF finishShutdownExecution, observed
    <2>2. \A h \in Goroutine : run'[h] = run[h] \/ run'[h].outcome = NoStatus
      BY <1>0, <1>5 DEF finishShutdownExecution, NoRun
    <2>3. QED
      BY <2>1, <2>2 DEF TruthInv, Truthful, NoStatus
  <1>6. QED
    BY <1>2, <1>3, <1>4, <1>5 DEF RunStep

\* What is written, read back or looked up was truthful before.
LEMMA TruthOthers ==
  TypeOK /\ TruthInv
    /\ (persistState \/ Connect \/ Disconnect \/ (\E c \in Cmd : Receive(c)) \/ Restart)
    => TruthInv'
  <1> SUFFICES ASSUME TypeOK, TruthInv,
                      persistState \/ Connect \/ Disconnect \/ (\E c \in Cmd : Receive(c)) \/ Restart
               PROVE  TruthInv'
    OBVIOUS
  <1>0. UNCHANGED <<heard, ran>>
    BY DEF persistState, Connect, Disconnect, Receive, Restart, observed
  <1>1. CASE persistState
    <2>1. \A g \in Goroutine : run[g] \in RunType
      BY DEF TypeOK
    <2>2. \A g \in Goroutine : run'[g].outcome = run[g].outcome /\ run'[g].cmd = run[g].cmd
      BY <1>1, <2>1 DEF persistState, RunType
    <2>3. handler'.status = handler.status /\ handler'.cmd = handler.cmd
      BY <1>1 DEF persistState, TypeOK, HandlerType
    <2>4. disk' \in {disk, commandStates} /\ commandStates' = commandStates
      BY <1>1 DEF persistState, shared
    <2>5. QED
      BY <1>0, <2>2, <2>3, <2>4 DEF TruthInv, Truthful
  <1>2. CASE Connect \/ Disconnect
    BY <1>0, <1>2 DEF Connect, Disconnect, shared, TruthInv, Truthful
  <1>3. ASSUME NEW c \in Cmd, Receive(c) PROVE TruthInv'
    <2>1. UNCHANGED <<commandStates, disk, run>>
      BY <1>3 DEF Receive, shared
    <2>2. Truthful(handler'.status, handler'.cmd)
      BY <1>3 DEF Receive, NoMessage, NoStatus, Known, TruthInv, Truthful
    <2>3. QED
      BY <1>0, <2>1, <2>2 DEF TruthInv, Truthful
  <1>4. CASE Restart
    <2>1. commandStates' = disk /\ disk' \in {disk, NoCommands} /\ DOMAIN NoCommands = {}
      BY <1>4 DEF Restart, NoCommands
    <2>2. handler'.status = NoStatus /\ \A g \in Goroutine : run'[g].outcome = NoStatus
      BY <1>4 DEF Restart, NoMessage, NoRun
    <2>3. QED
      BY <1>0, <2>1, <2>2 DEF TruthInv, Truthful, NoStatus
  <1>5. QED
    BY <1>1, <1>2, <1>3, <1>4

\* Whatever is on its way to the master, or may be, is true.
LEMMA TruthCorrect == Spec => []TruthInv
  <1>1. Init => TruthInv
    BY DEF Init, TruthInv, Truthful, NoMessage, NoRun, NoCommands, NoStatus
  <1>2. TypeOK /\ TruthInv /\ [Next]_vars => TruthInv'
    <2> SUFFICES ASSUME TypeOK, TruthInv, [Next]_vars PROVE TruthInv'
      OBVIOUS
    <2>1. CASE Next
      BY <2>1, TruthHandler, TruthRun, TruthOthers DEF Next
    <2>2. CASE UNCHANGED vars
      BY <2>2 DEF vars, shared, observed, TruthInv, Truthful
    <2>3. QED
      BY <2>1, <2>2
  <1>3. QED
    BY <1>1, <1>2, TypeCorrect, PTL DEF Spec

\* The master hears executed only after a success and simulated only of a dry
\* run, for any number of commands, connections and restarts
\* (SlaveExecutor!ReportedIsTrue).
THEOREM ReportsAreTrue == Spec => []ReportedIsTrue
  <1>1. TruthInv => ReportedIsTrue
    BY DEF TruthInv, Truthful, ReportedIsTrue
  <1>2. QED
    BY <1>1, TruthCorrect, PTL

(***************************************************************************)
(* Settled commands.  A command that the file showed as settled is only    *)
(* ever answered with that status: nothing else is done for it.            *)
(***************************************************************************)
SettledInv ==
  /\ \A c \in restored : Known(c) /\ commandStates[c] \in Settled
  /\ \A g \in Goroutine : run[g].pc # "idle" => run[g].cmd \notin restored
  /\ handler.pc # "idle" /\ handler.cmd \in restored =>
       /\ handler.pc \in {"known", "reack"}
       /\ handler.status \in Settled
       /\ ~handler.start

\* A new state of a command that is not among the restored leaves those alone.
LEMMA SetStateSettled ==
  ASSUME SettledInv, NEW c, c \notin restored, NEW status, setCommandState(c, status)
  PROVE  /\ restored' \subseteq restored
         /\ \A d \in restored' : d \in DOMAIN commandStates' /\ commandStates'[d] \in Settled
  <1> DEFINE set == [d \in DOMAIN commandStates \cup {c} |->
                       IF d = c THEN status ELSE commandStates[d]]
  <1>1. PICK dropped : /\ commandStates' = [d \in DOMAIN set \ dropped |-> set[d]]
                       /\ restored' = restored \ dropped
    BY DEF setCommandState
  <1>2. \A d \in restored : d \in DOMAIN set /\ set[d] \in Settled
    BY DEF SettledInv, Known
  <1> HIDE DEF set
  <1>3. QED
    BY <1>1, <1>2

\* The handler goes on only with commands that are not among the restored.
LEMMA SettledHandler == TypeOK /\ SettledInv /\ HandlerStep => SettledInv'
  <1> SUFFICES ASSUME TypeOK, SettledInv, HandlerStep PROVE SettledInv'
    OBVIOUS
  <1>0. handler \in HandlerType /\ NoMessage.pc = "idle"
    BY DEF TypeOK, NoMessage
  <1>1. ASSUME NEW status, handler.pc \in {"new", "resume"}, HandlerSets(status)
        PROVE  SettledInv'
    <2>1. handler.cmd \notin restored
      BY <1>1 DEF SettledInv
    <2>2. /\ restored' \subseteq restored
          /\ \A d \in restored' : d \in DOMAIN commandStates' /\ commandStates'[d] \in Settled
      BY <1>1, <2>1, SetStateSettled DEF HandlerSets
    <2>3. run' = run /\ handler'.cmd = handler.cmd
      BY <1>0, <1>1 DEF HandlerSets, HandlerType
    <2>4. QED
      BY <2>1, <2>2, <2>3 DEF SettledInv, Known
  <1>2. ASSUME UNCHANGED <<commandStates, run, restored>>,
               \/ handler'.pc = "idle"
               \/ handler'.cmd = handler.cmd /\ handler.pc # "idle" /\ handler.cmd \notin restored
               \/ /\ handler'.cmd = handler.cmd /\ handler.pc # "idle"
                  /\ handler'.status = handler.status
                  /\ handler'.start = handler.start
                  /\ handler'.pc \in {"known", "reack"}
        PROVE  SettledInv'
    BY <1>2 DEF SettledInv, Known
  <1>3. CASE AcceptCommand
    BY <1>1, <1>3 DEF AcceptCommand
  <1>4. CASE ResumeShutdown
    BY <1>1, <1>4 DEF ResumeShutdown
  <1>5. CASE SendExisting
    <2>1. handler.cmd \in restored => AfterReack = NoMessage
      BY <1>5 DEF SendExisting, SettledInv, AfterReack, Settled
    <2>2. AfterReack = NoMessage \/ AfterReack.cmd = handler.cmd
      BY <1>0 DEF AfterReack, HandlerType
    <2>3. QED
      BY <1>0, <1>2, <1>5, <2>1, <2>2 DEF SendExisting, HandlerSends, shared
  <1>6. CASE SendRecorded
    <2>1. handler.cmd \notin restored
      BY <1>6 DEF SendRecorded, SettledInv
    <2>2. AfterSend = NoMessage \/ AfterSend.cmd = handler.cmd
      BY <1>0 DEF AfterSend, HandlerType
    <2>3. QED
      BY <1>0, <1>2, <1>6, <2>1, <2>2 DEF SendRecorded, HandlerSends, shared
  <1>7. CASE RebindKnown
    <2>1. handler'.cmd = handler.cmd /\ handler'.status = handler.status
          /\ handler'.pc = "reack" /\ handler.pc = "known"
      BY <1>0, <1>7 DEF RebindKnown, HandlerType
    <2>2. handler.cmd \in restored => handler'.start = handler.start
      BY <1>0, <1>7 DEF RebindKnown, HandlerType, SettledInv, Settled
    <2>3. QED
      BY <1>2, <1>7, <2>1, <2>2 DEF RebindKnown
  <1>8. CASE StartPrepared \/ BeginShutdown
    <2>1. handler.cmd \notin restored /\ handler' = NoMessage
          /\ UNCHANGED <<commandStates, restored>>
      BY <1>8 DEF StartPrepared, BeginShutdown, SettledInv, shared
    <2>2. run' = run \/ Go(handler.cmd)
      BY <1>8 DEF StartPrepared, BeginShutdown
    <2>3. \A g \in Goroutine : run'[g].pc # "idle" => run'[g].cmd \notin restored
      BY <2>1, <2>2 DEF Go, SettledInv, TypeOK
    <2>4. QED
      BY <1>0, <2>1, <2>3 DEF SettledInv, Known
  <1>9. QED
    BY <1>3, <1>4, <1>5, <1>6, <1>7, <1>8 DEF HandlerStep

\* No execution is for a restored command, so no outcome replaces its status.
LEMMA SettledRun == TypeOK /\ SettledInv /\ (\E g \in Goroutine : RunStep(g)) => SettledInv'
  <1> SUFFICES ASSUME TypeOK, SettledInv, NEW g \in Goroutine, RunStep(g) PROVE SettledInv'
    OBVIOUS
  <1>0. run[g] \in RunType /\ run \in [Goroutine -> RunType]
    BY DEF TypeOK
  <1>1. handler' = handler /\ run[g].cmd \notin restored
    BY DEF RunStep, Execute, RecordOutcome, ReportOutcome, finishShutdownExecution, SettledInv
  <1>2. \A h \in Goroutine : run'[h].pc # "idle" => run[h].pc # "idle" /\ run'[h].cmd = run[h].cmd
    BY <1>0 DEF RunStep, Execute, RecordOutcome, ReportOutcome, finishShutdownExecution,
                RunType, NoRun
  <1>3. /\ restored' \subseteq restored
        /\ \A d \in restored' : d \in DOMAIN commandStates' /\ commandStates'[d] \in Settled
    <2>1. CASE UNCHANGED <<commandStates, restored>>
      BY <2>1 DEF SettledInv, Known
    <2>2. CASE RecordOutcome(g)
      BY <1>1, <2>2, SetStateSettled DEF RecordOutcome
    <2>3. QED
      BY <2>1, <2>2 DEF RunStep, Execute, ReportOutcome, finishShutdownExecution, shared
  <1>4. QED
    BY <1>1, <1>2, <1>3 DEF SettledInv, Known

\* A message for a restored command finds its status; a restart restores what
\* the file shows and leaves no goroutine.
LEMMA SettledOthers ==
  TypeOK /\ SettledInv
    /\ (persistState \/ Connect \/ Disconnect \/ (\E c \in Cmd : Receive(c)) \/ Restart)
    => SettledInv'
  <1> SUFFICES ASSUME TypeOK, SettledInv,
                      persistState \/ Connect \/ Disconnect \/ (\E c \in Cmd : Receive(c)) \/ Restart
               PROVE  SettledInv'
    OBVIOUS
  <1>1. CASE persistState
    <2>1. \A g \in Goroutine : run[g] \in RunType
      BY DEF TypeOK
    <2>2. \A g \in Goroutine : run'[g].cmd = run[g].cmd /\ (run'[g].pc # "idle" => run[g].pc # "idle")
      BY <1>1, <2>1 DEF persistState, RunType
    <2>3. handler' = handler \/ (handler.pc = "persist" /\ handler'.cmd = handler.cmd)
      BY <1>1 DEF persistState, TypeOK, HandlerType
    <2>4. UNCHANGED <<commandStates, restored>>
      BY <1>1 DEF persistState, shared
    <2>5. QED
      BY <2>2, <2>3, <2>4 DEF SettledInv, Known
  <1>2. CASE Connect \/ Disconnect
    BY <1>2 DEF Connect, Disconnect, shared, SettledInv, Known
  <1>3. ASSUME NEW c \in Cmd, Receive(c) PROVE SettledInv'
    <2>1. UNCHANGED <<commandStates, run, restored>>
      BY <1>3 DEF Receive, shared
    <2>2. handler'.cmd = c /\ handler'.start = FALSE
          /\ (Known(c) => handler'.pc = "known" /\ handler'.status = commandStates[c])
      BY <1>3 DEF Receive, NoMessage
    <2>3. QED
      BY <2>1, <2>2 DEF SettledInv, Known
  <1>4. CASE Restart
    <2>1. handler'.pc = "idle" /\ \A g \in Goroutine : run'[g].pc = "idle"
      BY <1>4 DEF Restart, NoMessage, NoRun
    <2>2. commandStates' = disk /\ restored' = {c \in DOMAIN disk : disk[c] \in Settled}
      BY <1>4 DEF Restart
    <2>3. QED
      BY <2>1, <2>2 DEF SettledInv, Known
  <1>5. QED
    BY <1>1, <1>2, <1>3, <1>4

\* What the file shows as settled is not executed again while it is remembered,
\* whatever is replayed (SlaveExecutor!SettledIsNotRepeated).
THEOREM SettledStays == Spec => []SettledIsNotRepeated
  <1>1. Init => SettledInv
    BY DEF Init, SettledInv, NoMessage, NoRun
  <1>2. TypeOK /\ SettledInv /\ [Next]_vars => SettledInv'
    <2> SUFFICES ASSUME TypeOK, SettledInv, [Next]_vars PROVE SettledInv'
      OBVIOUS
    <2>1. CASE Next
      BY <2>1, SettledHandler, SettledRun, SettledOthers DEF Next
    <2>2. CASE UNCHANGED vars
      BY <2>2 DEF vars, shared, SettledInv, Known
    <2>3. QED
      BY <2>1, <2>2
  <1>3. SettledInv => SettledIsNotRepeated
    BY DEF SettledInv, SettledIsNotRepeated, Running, Known
  <1>4. QED
    BY <1>1, <1>2, <1>3, TypeCorrect, PTL DEF Spec
==============================================================================
