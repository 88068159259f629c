---------------------------- MODULE ClusterProofs ----------------------------
(***************************************************************************)
(* Master and slave of one node together, for any commands and any number  *)
(* of goroutines, restarts and messages on the way: the slave of Cluster   *)
(* behaves as SlaveExecutor says, the two implement ConfirmedShutdown, and *)
(* a node that was shut down and boots again stays up.                     *)
(***************************************************************************)
EXTENDS Cluster, SequenceTheorems, TLAPS

\* The slave with what is proved of it.
P == INSTANCE SlaveExecutorProofs WITH
       Cmd <- CmdId, DryCmd <- SlaveDry, Goroutine <- SlaveGoroutine,
       MaxRetained <- SlaveRetained, MaxRestarts <- SlaveRestarts,
       commandStates <- sStates, executions <- sExecutions, bound <- sBound,
       connected <- sUp, handler <- sHandler, run <- sRun, disk <- sDisk,
       restarts <- sRestarts, heard <- sHeard, ran <- sRan, restored <- sRestored

(***************************************************************************)
(* S and P are the same module with the same substitutions.                *)
(***************************************************************************)

\* The same initial states.
LEMMA SameInit == S!Init => P!Init
  BY DEF S!Init, P!Init, S!NoCommands, P!NoCommands, S!NoMessage, P!NoMessage, S!NoRun, P!NoRun,
         S!NoStatus, P!NoStatus

\* The same steps of connections, writes of the file and restarts.
LEMMA SameOthers ==
  /\ S!Connect => P!Connect
  /\ S!Disconnect => P!Disconnect
  /\ \A c \in CmdId : S!Receive(c) => P!Receive(c)
  /\ S!persistState => P!persistState
  /\ S!Restart => P!Restart
  <1> USE DEF S!shared, P!shared, S!observed, P!observed, S!NoMessage, P!NoMessage,
              S!NoStatus, P!NoStatus
  <1>1. S!Connect => P!Connect
    BY DEF S!Connect, P!Connect
  <1>2. S!Disconnect => P!Disconnect
    BY DEF S!Disconnect, P!Disconnect
  <1>3. \A c \in CmdId : S!Receive(c) => P!Receive(c)
    BY DEF S!Receive, P!Receive, S!Known, P!Known
  <1>4. S!persistState => P!persistState
    BY DEF S!persistState, P!persistState, S!WillRestart, P!WillRestart,
           S!WriteAwaited, P!WriteAwaited
  <1>5. S!Restart => P!Restart
    BY DEF S!Restart, P!Restart, S!WillRestart, P!WillRestart, S!Settled, P!Settled,
           S!NoRun, P!NoRun, S!NoCommands, P!NoCommands
  <1>6. QED
    BY <1>1, <1>2, <1>3, <1>4, <1>5

\* The same updates of the command states.
LEMMA SameSet ==
  ASSUME NEW c, NEW status, S!setCommandState(c, status) PROVE P!setCommandState(c, status)
  <1> DEFINE set        == [d \in DOMAIN sStates \cup {c} |-> IF d = c THEN status ELSE sStates[d]]
             candidates == DOMAIN set \ sExecutions
             size       == S!Cardinality(DOMAIN set)
  <1>1. PICK dropped \in SUBSET candidates :
          /\ \/ size <= SlaveRetained /\ dropped = {}
             \/ /\ size > SlaveRetained
                /\ \/ dropped = candidates /\ S!Cardinality(candidates) <= size - SlaveRetained
                   \/ c \notin dropped /\ S!Cardinality(dropped) = size - SlaveRetained
          /\ sStates' = [d \in DOMAIN set \ dropped |-> set[d]]
          /\ sRestored' = sRestored \ dropped
    BY DEF S!setCommandState
  <1>2. \A T : S!Cardinality(T) = P!Cardinality(T)
    BY DEF S!Cardinality, P!Cardinality
  <1>3. QED
    BY <1>1, <1>2 DEF P!setCommandState

\* The same steps of the handler.
LEMMA SameHandler == S!HandlerStep => P!HandlerStep
  <1> SUFFICES ASSUME S!HandlerStep PROVE P!HandlerStep
    OBVIOUS
  <1> USE DEF S!shared, P!shared, S!observed, P!observed, S!NoMessage, P!NoMessage,
              S!NoStatus, P!NoStatus
  <1>1. ASSUME NEW status, S!HandlerSets(status) PROVE P!HandlerSets(status)
    BY <1>1, SameSet DEF S!HandlerSets, P!HandlerSets
  <1>2. CASE S!AcceptCommand
    BY <1>1, <1>2 DEF S!AcceptCommand, P!AcceptCommand, P!HandlerStep
  <1>3. CASE S!RebindKnown
    BY <1>3 DEF S!RebindKnown, P!RebindKnown, P!HandlerStep, S!Bind, P!Bind,
                S!beginOrRebind, P!beginOrRebind
  <1>4. CASE S!SendExisting
    BY <1>4 DEF S!SendExisting, P!SendExisting, P!HandlerStep, S!HandlerSends, P!HandlerSends,
                S!AfterReack, P!AfterReack
  <1>5. CASE S!StartPrepared
    BY <1>5 DEF S!StartPrepared, P!StartPrepared, P!HandlerStep, S!Go, P!Go
  <1>6. CASE S!ResumeShutdown
    BY <1>1, <1>6 DEF S!ResumeShutdown, P!ResumeShutdown, P!HandlerStep
  <1>7. CASE S!SendRecorded
    BY <1>7 DEF S!SendRecorded, P!SendRecorded, P!HandlerStep, S!HandlerSends, P!HandlerSends,
                S!AfterSend, P!AfterSend
  <1>8. CASE S!BeginShutdown
    BY <1>8 DEF S!BeginShutdown, P!BeginShutdown, P!HandlerStep, S!Bind, P!Bind,
                S!beginOrRebind, P!beginOrRebind, S!Go, P!Go
  <1>9. QED
    BY <1>2, <1>3, <1>4, <1>5, <1>6, <1>7, <1>8 DEF S!HandlerStep

\* The same steps of an execution.
LEMMA SameRun == ASSUME NEW g \in SlaveGoroutine, S!RunStep(g) PROVE P!RunStep(g)
  <1> USE DEF S!shared, P!shared, S!observed, P!observed, S!NoRun, P!NoRun, S!NoStatus, P!NoStatus
  <1>1. CASE S!Execute(g)
    BY <1>1 DEF S!Execute, P!Execute, P!RunStep
  <1>2. CASE S!RecordOutcome(g)
    BY <1>2, SameSet DEF S!RecordOutcome, P!RecordOutcome, P!RunStep
  <1>3. CASE S!ReportOutcome(g)
    BY <1>3 DEF S!ReportOutcome, P!ReportOutcome, P!RunStep
  <1>4. CASE S!finishShutdownExecution(g)
    BY <1>4 DEF S!finishShutdownExecution, P!finishShutdownExecution, P!RunStep
  <1>5. QED
    BY <1>1, <1>2, <1>3, <1>4 DEF S!RunStep

\* The same specification.
LEMMA SameSpec == S!Spec => P!Spec
  <1>1. S!Next => P!Next
    BY SameOthers, SameHandler, SameRun DEF S!Next, P!Next
  <1>2. UNCHANGED S!vars => UNCHANGED P!vars
    BY DEF S!vars, P!vars, S!shared, P!shared, S!observed, P!observed
  <1>3. [S!Next]_(S!vars) => [P!Next]_(P!vars)
    BY <1>1, <1>2
  <1>4. QED
    BY <1>3, SameInit, PTL DEF S!Spec, P!Spec

(***************************************************************************)
(* The slave of Cluster behaves as SlaveExecutor says: the master sends it *)
(* commands, and nothing else of it is changed from outside.               *)
(***************************************************************************)

\* The sequences over a larger set.
LEMMA SeqMonotone == ASSUME NEW A, NEW B, A \subseteq B, NEW q \in Seq(A) PROVE q \in Seq(B)
  <1>1. q \in [1..Len(q) -> A] /\ Len(q) \in Nat
    BY LenProperties
  <1>2. q \in [1..Len(q) -> B]
    BY <1>1
  <1>3. QED
    BY <1>1, <1>2, IsASeq

\* What is on the way to the slave, about to be sent, and on record at the master,
\* are commands.
Addressed ==
  /\ toSlave \in Seq(CmdId)
  /\ decided \subseteq CmdId
  /\ DOMAIN commands \subseteq CmdId
  /\ DOMAIN file \subseteq CmdId

\* recordShutdownUpdate adds no command.
LEMMA RecordDomain ==
  ASSUME NEW c, NEW status, recordShutdownUpdate(c, status) PROVE DOMAIN commands' = DOMAIN commands
  BY DEF recordShutdownUpdate

\* Addressed is inductive.
LEMMA AddressedNext == Addressed /\ [Next]_vars => Addressed'
  <1> SUFFICES ASSUME Addressed, [Next]_vars PROVE Addressed'
    OBVIOUS
  <1>0. <<>> \in Seq(CmdId)
    BY EmptySeq
  <1>1. ASSUME NEW c \in CmdId, Issue(c) PROVE Addressed'
    BY <1>1 DEF Issue, Decide, Addressed, wireVars
  <1>2. ASSUME NEW c \in DOMAIN commands, Replay(c) PROVE Addressed'
    BY <1>2 DEF Replay, Decide, Addressed, wireVars
  <1>3. ASSUME NEW c \in DOMAIN commands, MarkTimedOut(c) PROVE Addressed'
    BY <1>3 DEF MarkTimedOut, Addressed, wireVars
  <1>4. CASE Acknowledge
    BY <1>4, RecordDomain DEF Acknowledge, Addressed
  <1>5. CASE AcknowledgeOlder
    BY <1>5, RecordDomain DEF AcknowledgeOlder, Addressed
  <1>6. CASE persistState
    BY <1>6 DEF persistState, Addressed, wireVars
  <1>7. CASE MasterRestart
    BY <1>0, <1>7 DEF MasterRestart, Addressed, NoCommands
  <1>8. CASE Connect \/ SlaveLoses \/ SlaveRestart
    BY <1>0, <1>8 DEF Connect, SlaveLoses, SlaveRestart, Addressed, masterVars
  <1>9. CASE Deliver
    <2>1. toSlave' \in Seq(CmdId)
      BY <1>9, HeadTailProperties DEF Deliver, Addressed
    <2>2. QED
      BY <1>9, <2>1 DEF Deliver, Addressed, masterVars
  <1>10. CASE SlaveStep \/ SlaveAcks \/ \E g \in SlaveGoroutine : SlaveReports(g)
    <2>1. UNCHANGED <<toSlave, decided, commands, file>>
      BY <1>10 DEF SlaveStep, SlaveAcks, SlaveReports, Told, masterVars, wireVars
    <2>2. QED
      BY <2>1 DEF Addressed
  <1>11. CASE UNCHANGED vars
    BY <1>11 DEF vars, masterVars, wireVars, Addressed
  <1>12. ASSUME NEW c \in decided, SendDecided(c) PROVE Addressed'
    <2>1. toSlave' \in Seq(CmdId)
      BY <1>12, AppendProperties DEF SendDecided, Addressed
    <2>2. QED
      BY <1>12, <2>1 DEF SendDecided, Addressed
  <1>13. ASSUME NEW c \in decided, DropDecided(c) PROVE Addressed'
    BY <1>13 DEF DropDecided, Addressed, wireVars
  <1>14. QED
    BY <1>1, <1>2, <1>3, <1>4, <1>5, <1>6, <1>7, <1>8, <1>9, <1>10, <1>11, <1>12, <1>13 DEF Next

\* A step of Cluster is a step of the slave, or leaves the slave alone.
LEMMA SlaveNext == Addressed /\ [Next]_vars => [S!Next]_(S!vars)
  <1> SUFFICES ASSUME Addressed, [Next]_vars PROVE S!Next \/ UNCHANGED S!vars
    OBVIOUS
  <1>0. UNCHANGED slaveVars => UNCHANGED S!vars
    BY DEF slaveVars, S!vars, S!shared, S!observed
  <1>1. ASSUME NEW c,
               Issue(c) \/ Replay(c) \/ SendDecided(c) \/ DropDecided(c) \/ MarkTimedOut(c)
        PROVE  UNCHANGED slaveVars
    BY <1>1 DEF Issue, Replay, SendDecided, DropDecided, MarkTimedOut
  <1>2. CASE Acknowledge \/ AcknowledgeOlder \/ persistState
    BY <1>0, <1>2 DEF Acknowledge, AcknowledgeOlder, persistState
  <1>3. CASE MasterRestart \/ Connect \/ SlaveLoses \/ SlaveRestart
    BY <1>0, <1>3 DEF MasterRestart, Connect, SlaveLoses, SlaveRestart, S!Next
  <1>4. CASE Deliver
    <2>1. Head(toSlave) \in CmdId
      BY <1>4, HeadTailProperties DEF Deliver, Addressed
    <2>2. QED
      BY <1>4, <2>1 DEF Deliver, S!Next
  <1>5. CASE SlaveStep
    BY <1>5 DEF SlaveStep, S!Next, S!HandlerStep, S!RunStep
  <1>6. CASE SlaveAcks
    BY <1>6 DEF SlaveAcks, S!Next, S!HandlerStep
  <1>7. ASSUME NEW g \in SlaveGoroutine, SlaveReports(g) PROVE S!Next
    BY <1>7 DEF SlaveReports, S!Next, S!RunStep
  <1>8. CASE UNCHANGED vars
    BY <1>0, <1>8 DEF vars
  <1>9. QED
    BY <1>0, <1>1, <1>2, <1>3, <1>4, <1>5, <1>6, <1>7, <1>8 DEF Next

\* The slave that is composed with the master in Cluster is the slave of
\* SlaveExecutor: whatever is proved of that holds here too.
THEOREM SlaveIsExecutor == Spec => S!Spec
  <1>1. Init => Addressed
    BY EmptySeq DEF Init, Addressed, NoCommands
  <1>2. Init => S!Init
    BY DEF Init
  <1>3. QED
    BY <1>1, <1>2, AddressedNext, SlaveNext, PTL DEF Spec, S!Spec

\* In particular the slave's variables have their types, and what it is about to
\* report is true.
LEMMA SlaveInvariants == Spec => [](P!TypeOK /\ P!TruthInv)
  <1>1. P!SlaveAssumption
    BY ClusterAssumption DEF P!SlaveAssumption
  <1>2. P!Spec => []P!TypeOK
    BY <1>1, P!TypeCorrect
  <1>3. P!Spec => []P!TruthInv
    BY <1>1, P!TruthCorrect
  <1>4. QED
    BY <1>2, <1>3, SlaveIsExecutor, SameSpec, PTL

(***************************************************************************)
(* The master's records.  A message that says "executed" is true when it   *)
(* is sent and stays true, however late it arrives; so is a record; and    *)
(* what is confirmed in the file is confirmed in memory, because nothing   *)
(* replaces "executed" (a restart then only forgets).                      *)
(***************************************************************************)
IsTable(f) == DOMAIN f \subseteq CmdId /\ \A c \in DOMAIN f : f[c] \in Command

\* The commands that table f has as executed by the node.
ConfirmedIn(f) == {c \in DOMAIN f : f[c].upd[TheNode] = "executed"}

TrueAck == {m \in CmdId \X Update : m[2] = "executed" => m[1] \in sRan}

RecordInv ==
  /\ IsTable(commands)
  /\ IsTable(file)
  /\ toMaster \in Seq(TrueAck)
  /\ older \in Seq(TrueAck)
  /\ Confirmed \subseteq sRan
  /\ ConfirmedIn(file) \subseteq Confirmed

\* A new command, a verdict of the master and a report are commands; the first two
\* confirm nothing and take nothing back.
LEMMA CommandOperators ==
  /\ NewCommand(FALSE, FALSE, AllNodes, {TheNode}) \in Command
  /\ NewCommand(FALSE, FALSE, AllNodes, {TheNode}).upd[TheNode] = "none"
  /\ \A x \in Command :
       /\ TimeOut(x) \in Command
       /\ TimeOut(x).upd[TheNode] = "executed" <=> x.upd[TheNode] = "executed"
  /\ \A x \in Command, st \in Update :
       /\ Report(x, TheNode, st) \in Command
       /\ Report(x, TheNode, st).upd[TheNode] = st
  <1>0. TheNode \in Node
    BY OneNode
  <1>1. NewCommand(FALSE, FALSE, AllNodes, {TheNode}) \in Command
    BY <1>0 DEF NewCommand, Command, AllNodes, Target, Update
  <1>2. NewCommand(FALSE, FALSE, AllNodes, {TheNode}).upd[TheNode] = "none"
    BY <1>0 DEF NewCommand
  <1>3. ASSUME NEW x \in Command
        PROVE  /\ TimeOut(x) \in Command
               /\ TimeOut(x).upd[TheNode] = "executed" <=> x.upd[TheNode] = "executed"
    <2> DEFINE marks  == [n \in Node |-> IF n \in x.nodes /\ ~isCompleteShutdownStatus(x.upd[n])
                                         THEN "timeout" ELSE x.upd[n]]
               marked == [x EXCEPT !.upd = marks]
    <2>1. marks \in [Node -> Update]
      BY DEF Command, Update, Status
    <2>2. marks[TheNode] = "executed" <=> x.upd[TheNode] = "executed"
      BY <1>0 DEF isCompleteShutdownStatus
    <2>3. TimeOut(x) = [marked EXCEPT !.done = commandComplete(marked)]
      BY DEF TimeOut
    <2> HIDE DEF marks
    <2>4. marked \in Command /\ marked.upd = marks
      BY <2>1 DEF Command
    <2>5. commandComplete(marked) \in BOOLEAN
      BY DEF commandComplete
    <2> HIDE DEF marked
    <2>6. QED
      BY <2>2, <2>3, <2>4, <2>5 DEF Command
  <1>4. ASSUME NEW x \in Command, NEW st \in Update
        PROVE  /\ Report(x, TheNode, st) \in Command
               /\ Report(x, TheNode, st).upd[TheNode] = st
    <2> DEFINE reported == [x EXCEPT !.upd[TheNode] = st]
    <2>1. reported \in Command /\ reported.upd[TheNode] = st
      BY <1>0 DEF Command
    <2>2. Report(x, TheNode, st) = [reported EXCEPT !.done = @ \/ commandComplete(reported)]
      BY DEF Report
    <2>3. commandComplete(reported) \in BOOLEAN
      BY DEF commandComplete
    <2> HIDE DEF reported
    <2>4. QED
      BY <2>1, <2>2, <2>3 DEF Command
  <1>5. QED
    BY <1>1, <1>2, <1>3, <1>4

\* A status that is recorded confirms at most the command it is about.
LEMMA RecordConfirms ==
  ASSUME IsTable(commands), NEW c, NEW status \in Update, recordShutdownUpdate(c, status)
  PROVE  /\ IsTable(commands)'
         /\ Confirmed \subseteq Confirmed'
         /\ Confirmed' \subseteq Confirmed \cup {c}
         /\ status # "executed" => Confirmed' = Confirmed
  <1>1. DOMAIN commands' = DOMAIN commands
    BY DEF recordShutdownUpdate
  <1>2. \A d \in DOMAIN commands :
          commands'[d] = IF d = c /\ shouldReplaceShutdownUpdate(commands[d].upd[TheNode])
                         THEN Report(commands[d], TheNode, status) ELSE commands[d]
    BY DEF recordShutdownUpdate
  <1>3. \A d \in DOMAIN commands :
          /\ commands'[d] \in Command
          /\ d # c => commands'[d] = commands[d]
          /\ commands[d].upd[TheNode] = "executed" => commands'[d] = commands[d]
          /\ status # "executed" /\ commands'[d].upd[TheNode] = "executed"
               => commands[d].upd[TheNode] = "executed"
    BY <1>2, CommandOperators DEF IsTable, shouldReplaceShutdownUpdate, isReplayDoneStatus
  <1>4. QED
    BY <1>1, <1>3 DEF IsTable, Confirmed

\* An ack that is processed confirms what was executed.
LEMMA AckConfirms ==
  ASSUME IsTable(commands), NEW q \in Seq(TrueAck), q # <<>>,
         recordShutdownUpdate(Head(q)[1], Head(q)[2])
  PROVE  /\ IsTable(commands)'
         /\ Confirmed \subseteq Confirmed'
         /\ \/ Confirmed' = Confirmed
            \/ Head(q)[1] \in CmdId \cap sRan /\ Confirmed' = Confirmed \cup {Head(q)[1]}
         /\ Tail(q) \in Seq(TrueAck)
  <1>1. Head(q) \in TrueAck /\ Tail(q) \in Seq(TrueAck)
    BY HeadTailProperties
  <1>2. Head(q)[1] \in CmdId /\ Head(q)[2] \in Update
    BY <1>1 DEF TrueAck
  <1>3. Head(q)[2] = "executed" => Head(q)[1] \in sRan
    BY <1>1 DEF TrueAck
  <1>4. /\ IsTable(commands)'
        /\ Confirmed \subseteq Confirmed'
        /\ Confirmed' \subseteq Confirmed \cup {Head(q)[1]}
        /\ Head(q)[2] # "executed" => Confirmed' = Confirmed
    BY <1>2, RecordConfirms
  <1>5. QED
    BY <1>1, <1>2, <1>3, <1>4

\* A shutdown_ack is a true one.
LEMMA ToldIsTrue ==
  ASSUME RecordInv, NEW c \in CmdId, NEW status \in Update, status = "executed" => c \in sRan,
         Told(c, status)
  PROVE  toMaster' \in Seq(TrueAck) /\ UNCHANGED <<older, commands, file>>
  <1>1. <<c, status>> \in TrueAck
    BY DEF TrueAck
  <1>2. QED
    BY <1>1, AppendProperties DEF Told, RecordInv, masterVars

\* Of the slave's steps only the end of the shutdown command adds to ran.
LEMMA OnlyExecuteRuns ==
  /\ S!Connect \/ S!Disconnect \/ S!persistState \/ S!Restart \/ S!HandlerStep => UNCHANGED sRan
  /\ \A c : S!Receive(c) => UNCHANGED sRan
  /\ \A g \in SlaveGoroutine :
       S!RecordOutcome(g) \/ S!ReportOutcome(g) \/ S!finishShutdownExecution(g) => UNCHANGED sRan
  /\ \A g \in SlaveGoroutine : S!Execute(g) => sRan' \in {sRan, sRan \cup {sRun[g].cmd}}
  <1> USE DEF S!observed
  <1>1. S!HandlerStep => UNCHANGED sRan
    BY DEF S!HandlerStep, S!AcceptCommand, S!RebindKnown, S!SendExisting, S!StartPrepared,
           S!ResumeShutdown, S!SendRecorded, S!BeginShutdown, S!HandlerSets
  <1>2. S!Connect \/ S!Disconnect \/ S!persistState \/ S!Restart => UNCHANGED sRan
    BY DEF S!Connect, S!Disconnect, S!persistState, S!Restart
  <1>3. \A c : S!Receive(c) => UNCHANGED sRan
    BY DEF S!Receive
  <1>4. \A g \in SlaveGoroutine :
          S!RecordOutcome(g) \/ S!ReportOutcome(g) \/ S!finishShutdownExecution(g) => UNCHANGED sRan
    BY DEF S!RecordOutcome, S!ReportOutcome, S!finishShutdownExecution
  <1>5. \A g \in SlaveGoroutine : S!Execute(g) => sRan' \in {sRan, sRan \cup {sRun[g].cmd}}
    BY DEF S!Execute
  <1>6. QED
    BY <1>1, <1>2, <1>3, <1>4, <1>5

\* Messages stay true when ran grows.
LEMMA TrueAckGrows == sRan \subseteq sRan' => TrueAck \subseteq TrueAck'
  BY DEF TrueAck

\* Steps that leave the records alone and send nothing to the master.
LEMMA RecordKept ==
  ASSUME RecordInv, sRan \subseteq sRan', UNCHANGED <<commands, file>>,
         toMaster' \in Seq(TrueAck), older' \in Seq(TrueAck)
  PROVE  RecordInv'
  <1>1. toMaster' \in Seq(TrueAck') /\ older' \in Seq(TrueAck')
    BY TrueAckGrows, SeqMonotone
  <1>2. Confirmed' = Confirmed /\ ConfirmedIn(file)' = ConfirmedIn(file)
    BY DEF Confirmed, ConfirmedIn
  <1>3. QED
    BY <1>1, <1>2 DEF RecordInv, IsTable

\* RecordInv is inductive, given what is known of the slave.
LEMMA RecordNext == P!TypeOK /\ P!TruthInv /\ RecordInv /\ [Next]_vars => RecordInv'
  <1> SUFFICES ASSUME P!TypeOK, P!TruthInv, RecordInv, [Next]_vars PROVE RecordInv'
    OBVIOUS
  <1>0. /\ toMaster \in Seq(TrueAck) /\ older \in Seq(TrueAck) /\ <<>> \in Seq(TrueAck)
        /\ IsTable(commands) /\ IsTable(file)
        /\ Confirmed \subseteq sRan /\ ConfirmedIn(file) \subseteq Confirmed
    BY EmptySeq DEF RecordInv
  <1>a. ASSUME IsTable(commands)', UNCHANGED <<file, sRan>>, Confirmed \subseteq Confirmed',
               Confirmed' \subseteq sRan, toMaster' \in Seq(TrueAck), older' \in Seq(TrueAck)
        PROVE  RecordInv'
    <2>1. TrueAck' = TrueAck /\ ConfirmedIn(file)' = ConfirmedIn(file)
      BY <1>a DEF TrueAck, ConfirmedIn
    <2>2. QED
      BY <1>0, <1>a, <2>1 DEF RecordInv, IsTable
  <1>1. ASSUME NEW c \in CmdId, Issue(c) PROVE RecordInv'
    <2>1. IsTable(commands)' /\ Confirmed' = Confirmed
      BY <1>0, <1>1, CommandOperators DEF Issue, IsTable, Confirmed
    <2>2. QED
      BY <1>0, <1>1, <1>a, <2>1 DEF Issue, slaveVars, wireVars
  <1>2. ASSUME NEW c, Replay(c) \/ SendDecided(c) \/ DropDecided(c) PROVE RecordInv'
    BY <1>0, <1>2, RecordKept DEF Replay, SendDecided, DropDecided, slaveVars, wireVars
  <1>3. ASSUME NEW c \in DOMAIN commands, MarkTimedOut(c) PROVE RecordInv'
    <2>1. IsTable(commands)' /\ Confirmed' = Confirmed
      BY <1>0, <1>3, CommandOperators DEF MarkTimedOut, IsTable, Confirmed
    <2>2. QED
      BY <1>0, <1>3, <1>a, <2>1 DEF MarkTimedOut, slaveVars, wireVars
  <1>4. CASE Acknowledge
    BY <1>0, <1>4, <1>a, AckConfirms DEF Acknowledge, slaveVars
  <1>5. CASE AcknowledgeOlder
    BY <1>0, <1>5, <1>a, AckConfirms DEF AcknowledgeOlder, slaveVars
  <1>6. CASE persistState
    <2>1. TrueAck' = TrueAck /\ Confirmed' = Confirmed /\ ConfirmedIn(file)' = Confirmed
      BY <1>6 DEF persistState, TrueAck, Confirmed, ConfirmedIn, slaveVars
    <2>2. QED
      BY <1>0, <1>6, <2>1 DEF persistState, RecordInv, IsTable, wireVars, slaveVars
  <1>7. CASE MasterRestart
    <2>1. UNCHANGED sRan
      BY <1>7, OnlyExecuteRuns DEF MasterRestart, slaveVars
    <2>2. Confirmed' = ConfirmedIn(file) /\ TrueAck' = TrueAck
      BY <1>7, <2>1 DEF MasterRestart, Confirmed, ConfirmedIn, TrueAck
    <2>3. IsTable(file)' /\ ConfirmedIn(file)' \subseteq ConfirmedIn(file)
      BY <1>0, <1>7 DEF MasterRestart, IsTable, ConfirmedIn, NoCommands
    <2>4. QED
      BY <1>0, <1>7, <2>1, <2>2, <2>3 DEF MasterRestart, RecordInv, IsTable
  <1>8. CASE Connect
    <2>1. older' \in Seq(TrueAck)
      BY <1>0, <1>8, ConcatProperties DEF Connect
    <2>2. QED
      BY <1>0, <1>8, <2>1, OnlyExecuteRuns, RecordKept DEF Connect, masterVars
  <1>9. CASE SlaveLoses
    <2>1. PICK k \in 0..Len(toMaster) : toMaster' = SubSeq(toMaster, 1, k)
      BY <1>9 DEF SlaveLoses
    <2>2. Len(toMaster) \in Nat /\ \A i \in 1..Len(toMaster) : toMaster[i] \in TrueAck
      BY <1>0, LenProperties, ElementOfSeq
    <2>3. \A i \in 1..k : toMaster[i] \in TrueAck
      BY <2>2
    <2>4. toMaster' \in Seq(TrueAck)
      BY <2>1, <2>2, <2>3, SubSeqProperties
    <2>5. QED
      BY <1>0, <1>9, <2>4, OnlyExecuteRuns, RecordKept DEF SlaveLoses, masterVars
  <1>10. CASE Deliver
    BY <1>0, <1>10, OnlyExecuteRuns, RecordKept DEF Deliver, masterVars
  <1>11. CASE SlaveStep
    <2>1. sRan \subseteq sRan'
      BY <1>11, OnlyExecuteRuns DEF SlaveStep, S!HandlerStep
    <2>2. QED
      BY <1>0, <1>11, <2>1, RecordKept DEF SlaveStep, masterVars, wireVars
  <1>12. CASE SlaveAcks
    <2>1. UNCHANGED sRan
      BY <1>12, OnlyExecuteRuns DEF SlaveAcks, S!HandlerStep
    <2>2. sHandler.cmd \in CmdId
      BY <1>12 DEF SlaveAcks, S!SendExisting, S!SendRecorded, P!TypeOK
    <2>3. sHandler.status \in Update
      BY DEF P!TypeOK, P!HandlerType, P!Status, P!NoStatus, Update, Status
    <2>4. sHandler.status = "executed" => sHandler.cmd \in sRan
      BY DEF P!TruthInv, P!Truthful
    <2>5. toMaster' \in Seq(TrueAck) /\ UNCHANGED <<older, commands, file>>
      BY <1>0, <1>12, <2>2, <2>3, <2>4, ToldIsTrue DEF SlaveAcks, masterVars, wireVars
    <2>6. QED
      BY <1>0, <2>1, <2>5, RecordKept
  <1>13. ASSUME NEW g \in SlaveGoroutine, SlaveReports(g) PROVE RecordInv'
    <2>1. UNCHANGED sRan
      BY <1>13, OnlyExecuteRuns DEF SlaveReports
    <2>2. sRun[g].cmd \in CmdId
      BY <1>13 DEF SlaveReports, S!ReportOutcome, P!TypeOK
    <2>3. sRun[g].outcome \in Update
      BY DEF P!TypeOK, P!RunType, P!NoStatus, Update, Status
    <2>4. sRun[g].outcome = "executed" => sRun[g].cmd \in sRan
      BY DEF P!TruthInv
    <2>5. toMaster' \in Seq(TrueAck) /\ UNCHANGED <<older, commands, file>>
      BY <1>0, <1>13, <2>2, <2>3, <2>4, ToldIsTrue DEF SlaveReports, masterVars, wireVars
    <2>6. QED
      BY <1>0, <2>1, <2>5, RecordKept
  <1>14. CASE SlaveRestart
    BY <1>0, <1>14, OnlyExecuteRuns, RecordKept DEF SlaveRestart
  <1>15. CASE UNCHANGED vars
    BY <1>0, <1>15, RecordKept DEF vars, masterVars, wireVars, slaveVars
  <1>16. QED
    BY <1>1, <1>2, <1>3, <1>4, <1>5, <1>6, <1>7, <1>8, <1>9, <1>10, <1>11, <1>12, <1>13,
       <1>14, <1>15 DEF Next

\* The records are true and the restart of the master only forgets.
LEMMA RecordCorrect == Spec => []RecordInv
  <1>1. Init => RecordInv
    BY EmptySeq DEF Init, RecordInv, IsTable, Confirmed, ConfirmedIn, NoCommands
  <1>2. QED
    BY <1>1, RecordNext, SlaveInvariants, PTL DEF Spec

(***************************************************************************)
(* What the slave is busy with: commands it was asked to execute and that  *)
(* were not settled before it went down.  A settled command is not sent    *)
(* again because the master still has it as executed and had nothing of it *)
(* left to send, and what was on the way when the node went down is lost.  *)
(***************************************************************************)
Wanted == asked \ settled

\* The commands the slave is busy with.
Busy == {sRun[g].cmd : g \in {h \in SlaveGoroutine : sRun[h].pc # "idle"}}
          \cup (IF sHandler.pc # "idle" THEN {sHandler.cmd} ELSE {})

WantedInv ==
  /\ asked \subseteq CmdId
  /\ settled \subseteq Confirmed
  /\ decided \subseteq CmdId \ settled
  /\ toSlave \in Seq(Wanted)
  /\ Busy \subseteq Wanted

\* A goroutine that starts works for the handler's command.
LEMMA GoBusy ==
  ASSUME P!TypeOK, sHandler.pc # "idle", S!Go(sHandler.cmd), sHandler' = S!NoMessage
  PROVE  Busy' \subseteq Busy
  <1>1. PICK h \in SlaveGoroutine :
          sRun' = [sRun EXCEPT ![h] = [pc |-> "run", cmd |-> sHandler.cmd, outcome |-> S!NoStatus]]
    BY DEF S!Go
  <1>2. sRun'[h].cmd = sHandler.cmd /\ \A g \in SlaveGoroutine \ {h} : sRun'[g] = sRun[g]
    BY <1>1 DEF P!TypeOK
  <1>3. sHandler'.pc = "idle"
    BY DEF S!NoMessage
  <1>4. QED
    BY <1>2, <1>3 DEF Busy

\* The handler goes on with its command, or has none.
LEMMA HandlerBusy ==
  ASSUME P!TypeOK, S!HandlerStep PROVE Busy' \subseteq Busy
  <1>0. sHandler \in P!HandlerType /\ S!NoMessage.pc = "idle"
    BY DEF P!TypeOK, S!NoMessage
  <1>1. ASSUME UNCHANGED sRun, sHandler.pc # "idle",
               sHandler'.cmd = sHandler.cmd \/ sHandler' = S!NoMessage
        PROVE  Busy' \subseteq Busy
    BY <1>0, <1>1 DEF Busy
  <1>2. CASE S!AcceptCommand
    BY <1>0, <1>1, <1>2 DEF S!AcceptCommand, S!HandlerSets, P!HandlerType
  <1>3. CASE S!RebindKnown
    BY <1>0, <1>1, <1>3 DEF S!RebindKnown, P!HandlerType
  <1>4. CASE S!SendExisting
    BY <1>0, <1>1, <1>4 DEF S!SendExisting, S!HandlerSends, S!AfterReack, P!HandlerType
  <1>5. CASE S!StartPrepared
    BY <1>5, GoBusy DEF S!StartPrepared
  <1>6. CASE S!ResumeShutdown
    BY <1>0, <1>1, <1>6 DEF S!ResumeShutdown, S!HandlerSets, P!HandlerType
  <1>7. CASE S!SendRecorded
    BY <1>0, <1>1, <1>7 DEF S!SendRecorded, S!HandlerSends, S!AfterSend, P!HandlerType
  <1>8. CASE S!BeginShutdown
    BY <1>0, <1>1, <1>8, GoBusy DEF S!BeginShutdown
  <1>9. QED
    BY <1>2, <1>3, <1>4, <1>5, <1>6, <1>7, <1>8 DEF S!HandlerStep

\* An execution goes on with its command, or ends.
LEMMA RunBusy ==
  ASSUME P!TypeOK, NEW g \in SlaveGoroutine, S!RunStep(g) PROVE Busy' \subseteq Busy
  <1>0. sRun \in [SlaveGoroutine -> P!RunType] /\ S!NoRun.pc = "idle"
    BY DEF P!TypeOK, S!NoRun
  <1>1. UNCHANGED sHandler /\ sRun[g].pc # "idle"
    BY DEF S!RunStep, S!Execute, S!RecordOutcome, S!ReportOutcome, S!finishShutdownExecution
  <1>2. \A h \in SlaveGoroutine \ {g} : sRun'[h] = sRun[h]
    BY <1>0 DEF S!RunStep, S!Execute, S!RecordOutcome, S!ReportOutcome, S!finishShutdownExecution
  <1>3. sRun'[g].cmd = sRun[g].cmd \/ sRun'[g].pc = "idle"
    BY <1>0 DEF S!RunStep, S!Execute, S!RecordOutcome, S!ReportOutcome, S!finishShutdownExecution,
                P!RunType
  <1>4. QED
    BY <1>1, <1>2, <1>3 DEF Busy

\* The connection and the file do not give the slave work; a message does, and
\* after a restart it has none.
LEMMA OthersBusy ==
  ASSUME P!TypeOK
  PROVE  /\ S!Connect \/ S!Disconnect \/ S!persistState => Busy' \subseteq Busy
         /\ \A c : S!Receive(c) => Busy' \subseteq Busy \cup {c}
         /\ S!Restart => Busy' = {}
  <1>1. S!Connect \/ S!Disconnect => Busy' \subseteq Busy
    BY DEF S!Connect, S!Disconnect, Busy
  <1>2. ASSUME S!persistState PROVE Busy' \subseteq Busy
    <2>1. sHandler'.cmd = sHandler.cmd /\ (sHandler'.pc # "idle" => sHandler.pc # "idle")
      BY <1>2 DEF S!persistState, P!TypeOK, P!HandlerType
    <2>2. \A g \in SlaveGoroutine :
            sRun'[g].cmd = sRun[g].cmd /\ (sRun'[g].pc # "idle" => sRun[g].pc # "idle")
      BY <1>2 DEF S!persistState, P!TypeOK, P!RunType
    <2>3. QED
      BY <2>1, <2>2 DEF Busy
  <1>3. ASSUME NEW c, S!Receive(c) PROVE Busy' \subseteq Busy \cup {c}
    <2>1. sHandler'.cmd = c /\ UNCHANGED sRun
      BY <1>3 DEF S!Receive, S!NoMessage
    <2>2. QED
      BY <2>1 DEF Busy
  <1>4. ASSUME S!Restart PROVE Busy' = {}
    BY <1>4 DEF S!Restart, Busy, S!NoMessage, S!NoRun
  <1>5. QED
    BY <1>1, <1>2, <1>3, <1>4

\* A command that is sent was not settled.
LEMMA SendWanted == ASSUME WantedInv, NEW c, SendDecided(c) PROVE WantedInv'
  <1>1. Wanted \subseteq Wanted' /\ c \in Wanted'
    BY DEF Wanted, SendDecided, WantedInv
  <1>2. toSlave \in Seq(Wanted')
    BY <1>1, SeqMonotone DEF WantedInv
  <1>3. toSlave' \in Seq(Wanted')
    BY <1>1, <1>2, AppendProperties DEF SendDecided
  <1>4. Busy' = Busy /\ Confirmed' = Confirmed
    BY DEF Busy, slaveVars, SendDecided, Confirmed
  <1>5. UNCHANGED settled /\ decided' \subseteq decided /\ asked' = asked \cup {c} /\ c \in CmdId
    BY DEF SendDecided, WantedInv
  <1>6. QED
    BY <1>1, <1>3, <1>4, <1>5 DEF WantedInv

\* Steps that leave asked and settled alone and take nothing back.
LEMMA WantedKept ==
  ASSUME WantedInv, UNCHANGED <<asked, settled>>, Confirmed \subseteq Confirmed',
         decided' \subseteq CmdId \ settled, toSlave' \in Seq(Wanted), Busy' \subseteq Wanted
  PROVE  WantedInv'
  <1>1. Wanted' = Wanted
    BY DEF Wanted
  <1>2. QED
    BY <1>1 DEF WantedInv

\* WantedInv is inductive, given the types of the slave and the records.
LEMMA WantedNext == P!TypeOK /\ RecordInv /\ WantedInv /\ [Next]_vars => WantedInv'
  <1> SUFFICES ASSUME P!TypeOK, RecordInv, WantedInv, [Next]_vars PROVE WantedInv'
    OBVIOUS
  <1>0. /\ toSlave \in Seq(Wanted) /\ <<>> \in Seq(Wanted) /\ Busy \subseteq Wanted
        /\ asked \subseteq CmdId /\ settled \subseteq Confirmed
        /\ decided \subseteq CmdId \ settled
        /\ IsTable(commands) /\ toMaster \in Seq(TrueAck) /\ older \in Seq(TrueAck)
    BY EmptySeq DEF RecordInv, WantedInv
  <1>a. UNCHANGED commands => Confirmed' = Confirmed
    BY DEF Confirmed
  <1>b. UNCHANGED slaveVars => Busy' = Busy
    BY DEF Busy, slaveVars
  <1>1. ASSUME NEW c \in CmdId, Issue(c) PROVE WantedInv'
    <2>1. c \notin Confirmed /\ Confirmed' = Confirmed
      BY <1>1, CommandOperators DEF Issue, Confirmed
    <2>2. QED
      BY <1>0, <1>1, <1>b, <2>1, WantedKept DEF Issue, Decide, wireVars
  <1>2. ASSUME NEW c \in DOMAIN commands, Replay(c) PROVE WantedInv'
    <2>1. c \in CmdId
      BY <1>0 DEF IsTable
    <2>2. c \notin Confirmed
      BY <1>2 DEF Replay, shouldReplayShutdownForNode, isReplayDoneStatus, Confirmed
    <2>3. QED
      BY <1>0, <1>2, <1>a, <1>b, <2>1, <2>2, WantedKept DEF Replay, Decide, wireVars
  <1>3. ASSUME NEW c \in DOMAIN commands, MarkTimedOut(c) PROVE WantedInv'
    <2>1. Confirmed' = Confirmed
      BY <1>0, <1>3, CommandOperators DEF MarkTimedOut, IsTable, Confirmed
    <2>2. QED
      BY <1>0, <1>3, <1>b, <2>1, WantedKept DEF MarkTimedOut, wireVars
  <1>4. CASE Acknowledge
    BY <1>0, <1>4, <1>b, AckConfirms, WantedKept DEF Acknowledge
  <1>5. CASE AcknowledgeOlder
    BY <1>0, <1>5, <1>b, AckConfirms, WantedKept DEF AcknowledgeOlder
  <1>6. CASE persistState
    BY <1>0, <1>6, <1>a, <1>b, WantedKept DEF persistState, wireVars
  <1>7. CASE MasterRestart
    <2>1. Busy' \subseteq Busy
      BY <1>7, <1>b, OthersBusy DEF MasterRestart
    <2>2. /\ settled' = {} /\ decided' = {} /\ toSlave' = <<>> /\ asked' = asked
          /\ Wanted \subseteq Wanted'
      BY <1>7 DEF MasterRestart, Wanted
    <2>3. QED
      BY <1>0, <2>1, <2>2, EmptySeq DEF WantedInv
  <1>8. CASE Connect \/ SlaveLoses
    <2>1. Busy' \subseteq Busy
      BY <1>8, OthersBusy DEF Connect, SlaveLoses
    <2>2. QED
      BY <1>0, <1>8, <1>a, <2>1, WantedKept DEF Connect, SlaveLoses, masterVars
  <1>9. CASE Deliver
    <2>1. Head(toSlave) \in Wanted /\ toSlave' \in Seq(Wanted)
      BY <1>0, <1>9, HeadTailProperties DEF Deliver
    <2>2. Busy' \subseteq Busy \cup {Head(toSlave)}
      BY <1>9, OthersBusy DEF Deliver
    <2>3. QED
      BY <1>0, <1>9, <1>a, <2>1, <2>2, WantedKept DEF Deliver, masterVars
  <1>10. CASE SlaveStep \/ SlaveAcks \/ \E g \in SlaveGoroutine : SlaveReports(g)
    <2>1. S!HandlerStep \/ S!persistState \/ \E g \in SlaveGoroutine : S!RunStep(g)
      BY <1>10 DEF SlaveStep, SlaveAcks, SlaveReports, S!HandlerStep, S!RunStep
    <2>2. Busy' \subseteq Busy
      BY <2>1, HandlerBusy, RunBusy, OthersBusy
    <2>3. UNCHANGED <<commands, decided, asked, settled, toSlave>>
      BY <1>10 DEF SlaveStep, SlaveAcks, SlaveReports, Told, masterVars, wireVars
    <2>4. QED
      BY <1>0, <1>a, <2>2, <2>3, WantedKept
  <1>11. CASE SlaveRestart
    <2>1. Busy' = {} /\ Confirmed' = Confirmed
      BY <1>11, <1>a, OthersBusy DEF SlaveRestart
    <2>2. /\ settled' = Confirmed \ decided /\ decided' = decided
          /\ toSlave' = <<>> /\ asked' = asked
      BY <1>11 DEF SlaveRestart
    <2>3. QED
      BY <1>0, <2>1, <2>2, EmptySeq DEF WantedInv
  <1>12. CASE UNCHANGED vars
    BY <1>0, <1>12, <1>a, <1>b, WantedKept DEF vars, masterVars, wireVars
  <1>13. ASSUME NEW c \in decided, DropDecided(c) PROVE WantedInv'
    BY <1>0, <1>13, <1>a, <1>b, WantedKept DEF DropDecided, wireVars
  <1>14. QED
    BY <1>1, <1>2, <1>3, <1>4, <1>5, <1>6, <1>7, <1>8, <1>9, <1>10, <1>11, <1>12, <1>13,
       SendWanted DEF Next

\* The slave is only ever busy with what it was asked to execute and had not
\* settled before it went down.
LEMMA WantedCorrect == Spec => []WantedInv
  <1>1. Init => WantedInv
    BY EmptySeq DEF Init, WantedInv, Wanted, Busy, S!Init, S!NoMessage, S!NoRun
  <1>2. QED
    BY <1>1, WantedNext, SlaveInvariants, RecordCorrect, PTL DEF Spec

\* A node that a command shut down, as the master knows, and that boots again is
\* not shut down again by that command, unless the master had decided before to
\* send it once more and had not done so yet; for any number of restarts, of such
\* sends and of messages on the way (Cluster!BootedStaysUp).
THEOREM BootedStays == Spec => []BootedStaysUp
  <1>1. WantedInv => BootedStaysUp
    BY DEF WantedInv, Busy, Wanted, BootedStaysUp, S!Running
  <1>2. QED
    BY <1>1, WantedCorrect, PTL

(***************************************************************************)
(* Cluster implements ConfirmedShutdown.                                   *)
(***************************************************************************)

\* Each step is one of ConfirmedShutdown, or changes nothing there.
LEMMA AbstractNext ==
  RecordInv /\ WantedInv /\ [Next]_vars => [Abstract!Next]_(Abstract!vars)
  <1> SUFFICES ASSUME RecordInv, WantedInv, [Next]_vars
               PROVE  Abstract!Next \/ UNCHANGED Abstract!vars
    OBVIOUS
  <1>0. /\ toMaster \in Seq(TrueAck) /\ older \in Seq(TrueAck)
        /\ IsTable(commands) /\ ConfirmedIn(file) \subseteq Confirmed
    BY DEF RecordInv
  <1>a. UNCHANGED commands => Confirmed' = Confirmed
    BY DEF Confirmed
  <1>b. UNCHANGED <<asked, sRan, Confirmed>> => UNCHANGED Abstract!vars
    BY DEF Abstract!vars
  <1>c. ASSUME NEW c \in decided, SendDecided(c) PROVE Abstract!Next
    BY <1>a, <1>c DEF SendDecided, Abstract!Next, Abstract!Ask, slaveVars, WantedInv
  <1>d. ASSUME NEW q \in Seq(TrueAck), q # <<>>, recordShutdownUpdate(Head(q)[1], Head(q)[2]),
               UNCHANGED <<asked, sRan>>
        PROVE  Abstract!Next \/ UNCHANGED Abstract!vars
    <2>1. \/ Confirmed' = Confirmed
          \/ Head(q)[1] \in CmdId \cap sRan /\ Confirmed' = Confirmed \cup {Head(q)[1]}
      BY <1>0, <1>d, AckConfirms
    <2>2. QED
      BY <1>b, <1>d, <2>1 DEF Abstract!Next, Abstract!Confirm
  <1>1. ASSUME NEW c \in CmdId, Issue(c) PROVE UNCHANGED Abstract!vars
    <2>1. Confirmed' = Confirmed
      BY <1>1, CommandOperators DEF Issue, Confirmed
    <2>2. QED
      BY <1>1, <1>b, <2>1 DEF Issue, slaveVars
  <1>2. ASSUME NEW c, Replay(c) \/ DropDecided(c) PROVE UNCHANGED Abstract!vars
    BY <1>2, <1>a, <1>b DEF Replay, DropDecided, slaveVars
  <1>3. ASSUME NEW c \in DOMAIN commands, MarkTimedOut(c) PROVE UNCHANGED Abstract!vars
    <2>1. Confirmed' = Confirmed
      BY <1>0, <1>3, CommandOperators DEF MarkTimedOut, IsTable, Confirmed
    <2>2. QED
      BY <1>3, <1>b, <2>1 DEF MarkTimedOut, slaveVars
  <1>4. CASE Acknowledge
    BY <1>0, <1>4, <1>d DEF Acknowledge, slaveVars
  <1>5. CASE AcknowledgeOlder
    BY <1>0, <1>5, <1>d DEF AcknowledgeOlder, slaveVars
  <1>6. CASE persistState
    BY <1>6, <1>a, <1>b DEF persistState, slaveVars
  <1>7. CASE MasterRestart
    <2>1. UNCHANGED <<asked, sRan>>
      BY <1>7, OnlyExecuteRuns DEF MasterRestart, slaveVars
    <2>2. Confirmed' = ConfirmedIn(file)
      BY <1>7 DEF MasterRestart, Confirmed, ConfirmedIn
    <2>3. QED
      BY <1>0, <2>1, <2>2 DEF Abstract!Next, Abstract!Forget
  <1>8. CASE Connect \/ SlaveLoses \/ Deliver \/ SlaveRestart
    <2>1. UNCHANGED <<asked, sRan, commands>>
      BY <1>8, OnlyExecuteRuns DEF Connect, SlaveLoses, Deliver, SlaveRestart, masterVars
    <2>2. QED
      BY <1>a, <1>b, <2>1
  <1>9. CASE SlaveAcks \/ \E g \in SlaveGoroutine : SlaveReports(g)
    <2>1. UNCHANGED sRan
      BY <1>9, OnlyExecuteRuns DEF SlaveAcks, SlaveReports, S!HandlerStep
    <2>2. UNCHANGED <<asked, commands>>
      BY <1>9 DEF SlaveAcks, SlaveReports, Told, masterVars, wireVars
    <2>3. QED
      BY <1>a, <1>b, <2>1, <2>2
  <1>10. CASE SlaveStep
    <2>1. UNCHANGED <<asked, commands>>
      BY <1>10 DEF SlaveStep, masterVars
    <2>2. ASSUME NEW g \in SlaveGoroutine, S!Execute(g) PROVE Abstract!Next \/ UNCHANGED Abstract!vars
      <3>1. sRun[g].cmd \in asked /\ sRun[g].cmd \in CmdId
        BY <2>2 DEF S!Execute, WantedInv, Busy, Wanted
      <3>2. sRan' \in {sRan, sRan \cup {sRun[g].cmd}}
        BY <2>2, OnlyExecuteRuns
      <3>3. QED
        BY <1>a, <1>b, <2>1, <3>1, <3>2 DEF Abstract!Next, Abstract!Run
    <2>3. (\E g \in SlaveGoroutine : S!Execute(g)) \/ UNCHANGED sRan
      BY <1>10, OnlyExecuteRuns DEF SlaveStep, S!HandlerStep
    <2>4. QED
      BY <1>a, <1>b, <2>1, <2>2, <2>3
  <1>11. CASE UNCHANGED vars
    BY <1>11, <1>a, <1>b DEF vars, masterVars, slaveVars
  <1>12. QED
    BY <1>c, <1>1, <1>2, <1>3, <1>4, <1>5, <1>6, <1>7, <1>8, <1>9, <1>10, <1>11 DEF Next

\* The node runs only what the master sent it, and the master has a command as
\* executed only after the node executed it: across broken connections, acks of
\* replaced ones, replays and restarts of both sides (Cluster!ImplementsConfirmed).
THEOREM ClusterRefines == Spec => ImplementsConfirmed
  <1>1. Init => Abstract!Init
    BY DEF Init, S!Init, Abstract!Init, Confirmed, NoCommands
  <1>2. QED
    BY <1>1, AbstractNext, RecordCorrect, WantedCorrect, PTL
       DEF Spec, ImplementsConfirmed, Abstract!Spec
=============================================================================
