------------------------------ MODULE Cluster ------------------------------
(***************************************************************************)
(* Master and slave of one node, end to end: SlaveExecutor composed with   *)
(* the master's side of the exchange, the commands of ShutdownCommand with *)
(* every operation of Master that changes them, over connections that      *)
(* break, with restarts of both sides.  (Why the master does each of them, *)
(* and when, is the matter of Master; here it may at any time, or never,   *)
(* so a reset, which only ends the replays, needs no step.)                *)
(*                                                                         *)
(* A connection delivers in order and lasts until the slave finds it gone; *)
(* what is sent on a dead one is lost.  What reached the master before it  *)
(* was replaced is still processed, by the old handler, next to the new    *)
(* one.                                                                    *)
(***************************************************************************)
EXTENDS ShutdownCommand, Integers, Sequences

CONSTANTS
  CmdId, NoCmd,
  SlaveDry,         \* commands the slave simulates: all if its config says so
  SlaveGoroutine,   \* bound: goroutines for executions
  SlaveRetained,    \* maxRetainedCommandStates
  SlaveRestarts,    \* bound: restarts of the slave
  MasterRestarts,   \* bound: restarts of the master
  MaxInFlight       \* bound: messages on the way

VARIABLES
  commands,    \* the master's commands
  file,        \* the commands in the master's state file
  decided,     \* the commands that goroutines of the master are about to send to the node
  mRestarts,
  toSlave,     \* shutdown messages on the way
  toMaster,    \* shutdown_acks on the way, <<command, status>>
  older,       \* those that the handler of a replaced connection still has to process
  asked,       \* history: the commands ever sent to the node
  settled,     \* history: the commands that were confirmed, and of which the master had
               \* nothing left to send, when the node last went down
  sStates, sExecutions, sBound, sUp, sHandler, sRun, sDisk, sRestarts, sHeard, sRan, sRestored

S == INSTANCE SlaveExecutor WITH
       Cmd <- CmdId, DryCmd <- SlaveDry, Goroutine <- SlaveGoroutine,
       MaxRetained <- SlaveRetained, MaxRestarts <- SlaveRestarts,
       commandStates <- sStates, executions <- sExecutions, bound <- sBound,
       connected <- sUp, handler <- sHandler, run <- sRun, disk <- sDisk,
       restarts <- sRestarts, heard <- sHeard, ran <- sRan, restored <- sRestored

masterVars == <<commands, file, decided, mRestarts, asked, settled>>
wireVars   == <<toSlave, toMaster, older>>
slaveVars  == <<sStates, sExecutions, sBound, sUp, sHandler, sRun, sDisk, sRestarts, sHeard, sRan,
                sRestored>>
vars == <<masterVars, wireVars, slaveVars>>

TheNode == CHOOSE n \in Node : TRUE

ASSUME OneNode == Node = {TheNode}

ASSUME ClusterAssumption ==
  /\ NoCmd \notin CmdId
  /\ SlaveDry \subseteq CmdId
  /\ SlaveRetained \in Nat /\ SlaveRestarts \in Nat /\ MasterRestarts \in Nat
  /\ MaxInFlight \in Nat

NoCommands == [c \in {} |-> NewCommand(FALSE, FALSE, AllNodes, {})]

\* The commands the master believes the node has executed.
Confirmed == {c \in DOMAIN commands : commands[c].upd[TheNode] = "executed"}

Init ==
  /\ commands = NoCommands
  /\ file = NoCommands
  /\ decided = {}
  /\ mRestarts = 0
  /\ toSlave = <<>>
  /\ toMaster = <<>>
  /\ older = <<>>
  /\ asked = {}
  /\ settled = {}
  /\ S!Init

(***************************************************************************)
(* The master.                                                             *)
(***************************************************************************)
\* What to send is decided under the lock.  It is sent later, when the lock is
\* released and the state file written.
Decide(c) == decided' = decided \cup {c}

\* A command of a policy or an operator, for the connected node.
Issue(c) ==
  /\ c \notin DOMAIN commands /\ c \notin asked
  /\ commands' = [d \in DOMAIN commands \cup {c} |->
                    IF d = c THEN NewCommand(FALSE, FALSE, AllNodes, {TheNode}) ELSE commands[d]]
  /\ Decide(c)
  /\ UNCHANGED <<file, mRestarts, asked, settled, wireVars, slaveVars>>

\* A replay on registration, a retry, or the replay of an emergency.
Replay(c) ==
  /\ shouldReplayShutdownForNode(commands[c], TheNode)
  /\ Decide(c)
  /\ UNCHANGED <<commands, file, mRestarts, asked, settled, wireVars, slaveVars>>

\* One of the goroutines that are to send c does so, on the connection that it
\* finds registered, whatever has been recorded of c in the meantime.
SendDecided(c) ==
  /\ c \in decided
  /\ sUp /\ Len(toSlave) < MaxInFlight
  /\ toSlave' = Append(toSlave, c)
  /\ asked' = asked \cup {c}
  /\ decided' \in {decided, decided \ {c}}
  /\ UNCHANGED <<commands, file, mRestarts, settled, toMaster, older, slaveVars>>

\* It finds no connection, or one that is dead.
DropDecided(c) ==
  /\ c \in decided
  /\ decided' = decided \ {c}
  /\ UNCHANGED <<commands, file, mRestarts, asked, settled, wireVars, slaveVars>>

MarkTimedOut(c) ==
  /\ ~commands[c].done
  /\ commands' = [commands EXCEPT ![c] = TimeOut(@)]
  /\ UNCHANGED <<file, decided, mRestarts, asked, settled, wireVars, slaveVars>>

recordShutdownUpdate_Bug(c, status) ==
  commands' = [d \in DOMAIN commands |->
                 IF d = c /\ shouldReplaceShutdownUpdate(commands[d].upd[TheNode])
                 THEN Report(commands[d], TheNode, IF status = "executing" THEN "executed" ELSE status)
                 ELSE commands[d]]

recordShutdownUpdate(c, status) ==
  commands' = [d \in DOMAIN commands |->
                 IF d = c /\ shouldReplaceShutdownUpdate(commands[d].upd[TheNode])
                 THEN Report(commands[d], TheNode, status) ELSE commands[d]]

Acknowledge ==
  /\ toMaster # <<>>
  /\ recordShutdownUpdate(Head(toMaster)[1], Head(toMaster)[2])
  /\ toMaster' = Tail(toMaster)
  /\ UNCHANGED <<file, decided, mRestarts, asked, settled, toSlave, older, slaveVars>>

AcknowledgeOlder ==
  /\ older # <<>>
  /\ recordShutdownUpdate(Head(older)[1], Head(older)[2])
  /\ older' = Tail(older)
  /\ UNCHANGED <<file, decided, mRestarts, asked, settled, toSlave, toMaster, slaveVars>>

persistState ==
  /\ mRestarts < MasterRestarts
  /\ file' = commands
  /\ UNCHANGED <<commands, decided, mRestarts, asked, settled, wireVars, slaveVars>>

\* Its connection is gone.  (What the slave still does before it finds out is the
\* same as done before: what it sent is lost either way.)  No restart reads the
\* file once MasterRestarts is reached: its content is then not kept.
MasterRestart ==
  /\ mRestarts < MasterRestarts
  /\ mRestarts' = mRestarts + 1
  /\ commands' = file
  /\ toSlave' = <<>> /\ toMaster' = <<>> /\ older' = <<>>
  /\ IF sUp THEN S!Disconnect ELSE UNCHANGED slaveVars
  /\ decided' = {}
  /\ settled' = {}
  /\ file' = IF mRestarts + 1 < MasterRestarts THEN file ELSE NoCommands
  /\ UNCHANGED asked

(***************************************************************************)
(* The connection and the slave.                                           *)
(***************************************************************************)
Connect ==
  /\ S!Connect
  /\ Len(toMaster) + Len(older) <= MaxInFlight
  /\ older' = older \o toMaster
  /\ toMaster' = <<>>
  /\ toSlave' = <<>>
  /\ UNCHANGED masterVars

\* The slave's end is gone; of what it sent a part may have arrived.
SlaveLoses ==
  /\ S!Disconnect
  /\ toSlave' = <<>>
  /\ \E k \in 0..Len(toMaster) : toMaster' = SubSeq(toMaster, 1, k)
  /\ UNCHANGED <<masterVars, older>>

Deliver ==
  /\ toSlave # <<>>
  /\ S!Receive(Head(toSlave))
  /\ toSlave' = Tail(toSlave)
  /\ UNCHANGED <<masterVars, toMaster, older>>

\* The steps of the slave that send nothing.
SlaveStep ==
  /\ \/ S!AcceptCommand \/ S!RebindKnown \/ S!StartPrepared \/ S!ResumeShutdown \/ S!BeginShutdown
     \/ S!persistState
     \/ \E g \in SlaveGoroutine :
          S!Execute(g) \/ S!RecordOutcome(g) \/ S!finishShutdownExecution(g)
  /\ UNCHANGED <<masterVars, wireVars>>

\* A shutdown_ack is written.
Told(c, status) ==
  /\ Len(toMaster) < MaxInFlight
  /\ toMaster' = Append(toMaster, <<c, status>>)
  /\ UNCHANGED <<masterVars, toSlave, older>>

SlaveAcks ==
  /\ S!SendExisting \/ S!SendRecorded
  /\ IF sUp THEN Told(sHandler.cmd, sHandler.status) ELSE UNCHANGED <<masterVars, wireVars>>

SlaveReports(g) ==
  /\ S!ReportOutcome(g)
  /\ \/ sRun[g].cmd \in sBound /\ Told(sRun[g].cmd, sRun[g].outcome)
     \/ UNCHANGED <<masterVars, wireVars>>

SlaveRestart ==
  /\ S!Restart
  /\ toSlave' = <<>>
  /\ settled' = Confirmed \ decided
  /\ UNCHANGED <<commands, file, decided, mRestarts, asked, toMaster, older>>

Next ==
  \/ \E c \in CmdId : Issue(c)
  \/ \E c \in DOMAIN commands : Replay(c) \/ MarkTimedOut(c)
  \/ \E c \in decided : SendDecided(c) \/ DropDecided(c)
  \/ Acknowledge \/ AcknowledgeOlder \/ persistState \/ MasterRestart
  \/ Connect \/ SlaveLoses \/ Deliver
  \/ SlaveStep \/ SlaveAcks \/ SlaveRestart
  \/ \E g \in SlaveGoroutine : SlaveReports(g)

Spec == Init /\ [][Next]_vars

----------------------------------------------------------------------------
Abstract == INSTANCE ConfirmedShutdown WITH
              Cmd <- CmdId, asked <- asked, ran <- sRan, confirmed <- Confirmed

\* Across broken connections, late acks of replaced connections, replays and
\* restarts of either side the node runs only what the master sent it, and the
\* master records "executed" only for what the node has executed.
ImplementsConfirmed == Abstract!Spec

\* A node that was shut down by a command, as the master knows, and boots again is
\* not shut down again by that command, although the record of it may not have
\* reached the slave's file, and acks sent before it may arrive after it.  What the
\* master had decided to send before it knew, and not sent yet, is excepted: such a
\* send is not withdrawn.
BootedStaysUp == \A c \in settled : ~S!Running(c)

(***************************************************************************)
(* What the documentation says and the code does not keep.                 *)
(***************************************************************************)

\* docs/troubleshooting.md: a node that comes back is sent the command again
\* "unless it is executed already".  What was decided before that was recorded is
\* sent all the same, and a node that has booted may run it again.
ExecutedIsNotReplayed == [][\A c \in decided : SendDecided(c) => c \notin Confirmed]_vars
=============================================================================
