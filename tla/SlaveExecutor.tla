---------------------------- MODULE SlaveExecutor ----------------------------
(***************************************************************************)
(* How nut-slave executes shutdown commands (internal/slave/client.go):    *)
(* one goroutine reads the messages of the current connection and handles  *)
(* them one after the other; each execution of the shutdown command is a   *)
(* goroutine of its own, which outlives the connection.  They share the    *)
(* command states and the table of executions, under commandMu.            *)
(*                                                                         *)
(* The master is free to send any command at any time, over and over.  The *)
(* connection breaks at any time; what is sent on a broken connection is   *)
(* lost, whether or not the sender notices.                                *)
(***************************************************************************)
EXTENDS FiniteSets, Integers

CONSTANTS
  Cmd, NoCmd,     \* command IDs, and no command
  DryCmd,         \* the commands that are only simulated (by message or config)
  Goroutine,      \* bound: goroutines available for executions
  MaxRetained,    \* maxRetainedCommandStates
  MaxRestarts     \* bound: restarts of the slave

ASSUME SlaveAssumption ==
  /\ NoCmd \notin Cmd
  /\ DryCmd \subseteq Cmd
  /\ MaxRetained \in Nat
  /\ MaxRestarts \in Nat

VARIABLES
  commandStates,  \* the status of each command that is remembered
  executions,     \* the commands with an entry in the table of executions
  bound,          \* those of them whose entry has the current session
  connected,      \* the current session is up
  handler,        \* the goroutine that handles messages
  run,            \* the execution goroutines
  disk,           \* the command states in the state file
  restarts,       \* how often the slave was restarted
  heard,          \* what the master heard last about each command
  ran,            \* observer: commands whose shutdown command succeeded
  restored        \* observer: commands found settled in the state file, and remembered since

shared   == <<commandStates, executions, bound>>
observed == <<heard, ran>>
vars     == <<shared, connected, handler, run, disk, restarts, observed, restored>>

Status     == {"accepted", "executing", "executed", "failed", "simulated"}
NoStatus   == "none"
NoMessage  == [pc |-> "idle", cmd |-> NoCmd, status |-> NoStatus, start |-> FALSE]
NoRun      == [pc |-> "idle", cmd |-> NoCmd, outcome |-> NoStatus]
NoCommands == [c \in {} |-> NoStatus]

Settled    == {"executed", "simulated"}
Known(c)   == c \in DOMAIN commandStates
Running(c) == \E g \in Goroutine : run[g].pc # "idle" /\ run[g].cmd = c

Init ==
  /\ commandStates = NoCommands
  /\ executions = {}
  /\ bound = {}
  /\ connected = FALSE
  /\ handler = NoMessage
  /\ run = [g \in Goroutine |-> NoRun]
  /\ disk = NoCommands
  /\ restarts = 0
  /\ heard = [c \in Cmd |-> NoStatus]
  /\ ran = {}
  /\ restored = {}

(***************************************************************************)
(* The command states.                                                     *)
(***************************************************************************)

\* The oldest states beyond MaxRetained are dropped, but none with an entry in
\* executions.  Their age is not tracked, only that the state of c, which was
\* just set, is the newest.
setCommandState(c, status) ==
  LET set        == [d \in DOMAIN commandStates \cup {c} |->
                       IF d = c THEN status ELSE commandStates[d]]
      excess     == Cardinality(DOMAIN set) - MaxRetained
      candidates == DOMAIN set \ executions
  IN  \E dropped \in SUBSET candidates :
        /\ \/ Cardinality(DOMAIN set) <= MaxRetained /\ dropped = {}
           \/ /\ Cardinality(DOMAIN set) > MaxRetained
              /\ \/ dropped = candidates /\ Cardinality(candidates) <= excess
                 \/ c \notin dropped /\ Cardinality(dropped) = excess
        /\ commandStates' = [d \in DOMAIN set \ dropped |-> set[d]]
        /\ restored' = restored \ dropped

WillRestart == restarts < MaxRestarts

\* Somebody waits for a write of the state file.
WriteAwaited == handler.pc = "persist" \/ \E g \in Goroutine : run[g].pc = "persist"

\* setCommandState returns when its snapshot, or a newer one, is in the file
\* (module StatePersistence).  No restart reads the file once MaxRestarts is
\* reached: its content is then not kept.
persistState ==
  /\ WillRestart \/ WriteAwaited
  /\ disk' = IF WillRestart THEN commandStates ELSE disk
  /\ handler' = IF handler.pc = "persist" THEN [handler EXCEPT !.pc = "send"] ELSE handler
  /\ run' = [g \in Goroutine |-> IF run[g].pc = "persist" THEN [run[g] EXCEPT !.pc = "report"]
                                                         ELSE run[g]]
  /\ UNCHANGED <<shared, connected, restarts, observed, restored>>

(***************************************************************************)
(* The connection.  The next one is made when the handler has returned.    *)
(***************************************************************************)
Connect ==
  /\ ~connected /\ handler = NoMessage
  /\ connected' = TRUE
  /\ UNCHANGED <<shared, handler, run, disk, restarts, observed, restored>>

Disconnect ==
  /\ connected
  /\ connected' = FALSE
  /\ bound' = {}
  /\ UNCHANGED <<commandStates, executions, handler, run, disk, restarts, observed, restored>>

\* The handler sends its status and goes on, or finds the connection broken and
\* returns.
HandlerSends(next) ==
  \/ /\ connected
     /\ heard' = [heard EXCEPT ![handler.cmd] = handler.status]
     /\ handler' = next
  \/ /\ ~connected
     /\ heard' = heard
     /\ handler' \in {next, NoMessage}

(***************************************************************************)
(* Executions.                                                             *)
(***************************************************************************)
beginOrRebind_Bug(c) == TRUE

\* beginOrRebindShutdownExecution: whether the caller is to start a goroutine.
beginOrRebind(c) == c \notin executions

\* The entry is made, or bound to the current session.
Bind(c) ==
  /\ executions' = executions \cup {c}
  /\ bound' = IF connected THEN bound \cup {c} ELSE bound

\* go c.executeShutdown
Go(c) ==
  \E g \in Goroutine :
    /\ run[g].pc = "idle"
    /\ run' = [run EXCEPT ![g] = [pc |-> "run", cmd |-> c, outcome |-> NoStatus]]

(***************************************************************************)
(* handleEnvelope and resumeShutdown.                                      *)
(***************************************************************************)
Receive(c) ==
  /\ connected /\ handler = NoMessage
  /\ handler' = IF Known(c)
                THEN [NoMessage EXCEPT !.pc = "known", !.cmd = c, !.status = commandStates[c]]
                ELSE [NoMessage EXCEPT !.pc = "new", !.cmd = c]
  /\ UNCHANGED <<shared, connected, run, disk, restarts, observed, restored>>

\* The handler records a status, and sends it when it is in the file.
HandlerSets(status) ==
  /\ setCommandState(handler.cmd, status)
  /\ handler' = [handler EXCEPT !.pc = "persist", !.status = status]
  /\ UNCHANGED <<executions, bound, connected, run, disk, restarts, observed>>

AcceptCommand ==
  /\ handler.pc = "new"
  /\ HandlerSets("accepted")

\* A known command: a running execution is bound to this session, or a new one
\* is prepared.
RebindKnown ==
  /\ handler.pc = "known"
  /\ IF handler.status = "executing"
     THEN /\ Bind(handler.cmd)
          /\ handler' = [handler EXCEPT !.pc = "reack", !.start = beginOrRebind(handler.cmd)]
     ELSE /\ handler' = [handler EXCEPT !.pc = "reack"]
          /\ UNCHANGED <<executions, bound>>
  /\ UNCHANGED <<commandStates, connected, run, disk, restarts, observed, restored>>

AfterReack_Bug ==
  IF handler.status \in {"accepted", "failed", "executed"} THEN [handler EXCEPT !.pc = "resume"]
  ELSE IF handler.start THEN [handler EXCEPT !.pc = "go"]
  ELSE NoMessage

\* After it has repeated the status of a command it knows, the handler resumes
\* an accepted or failed one and starts the execution it prepared.
AfterReack ==
  IF handler.status \in {"accepted", "failed"} THEN [handler EXCEPT !.pc = "resume"]
  ELSE IF handler.start THEN [handler EXCEPT !.pc = "go"]
  ELSE NoMessage

SendExisting ==
  /\ handler.pc = "reack"
  /\ HandlerSends(AfterReack)
  /\ UNCHANGED <<shared, connected, run, disk, restarts, ran, restored>>

StartPrepared ==
  /\ handler.pc = "go"
  /\ Go(handler.cmd)
  /\ handler' = NoMessage
  /\ UNCHANGED <<shared, connected, disk, restarts, observed, restored>>

ResumeShutdown ==
  /\ handler.pc = "resume"
  /\ HandlerSets(IF handler.cmd \in DryCmd THEN "simulated" ELSE "executing")

AfterSend ==
  CASE handler.status = "accepted"  -> [handler EXCEPT !.pc = "resume"]
    [] handler.status = "executing" -> [handler EXCEPT !.pc = "begin"]
    [] OTHER                        -> NoMessage

\* A status just recorded: accepted, executing or simulated.
SendRecorded ==
  /\ handler.pc = "send"
  /\ HandlerSends(AfterSend)
  /\ UNCHANGED <<shared, connected, run, disk, restarts, ran, restored>>

BeginShutdown ==
  /\ handler.pc = "begin"
  /\ Bind(handler.cmd)
  /\ IF beginOrRebind(handler.cmd) THEN Go(handler.cmd) ELSE UNCHANGED run
  /\ handler' = NoMessage
  /\ UNCHANGED <<commandStates, connected, disk, restarts, observed, restored>>

(***************************************************************************)
(* executeShutdown.                                                        *)
(***************************************************************************)

\* The shutdown command returns, or its timeout killed it.
Execute(g) ==
  /\ run[g].pc = "run"
  /\ \E outcome \in {"executed", "failed"} :
       /\ run' = [run EXCEPT ![g].pc = "record", ![g].outcome = outcome]
       /\ ran' = IF outcome = "executed" THEN ran \cup {run[g].cmd} ELSE ran
  /\ UNCHANGED <<shared, connected, handler, disk, restarts, heard, restored>>

RecordOutcome(g) ==
  /\ run[g].pc = "record"
  /\ setCommandState(run[g].cmd, run[g].outcome)
  /\ run' = [run EXCEPT ![g].pc = "persist"]
  /\ UNCHANGED <<executions, bound, connected, handler, disk, restarts, observed>>

ReportOutcome_Bug(g) ==
  /\ run[g].pc = "report"
  /\ heard' = IF run[g].cmd \in bound THEN [heard EXCEPT ![run[g].cmd] = "executed"] ELSE heard
  /\ run' = [run EXCEPT ![g].pc = "finish"]
  /\ UNCHANGED <<shared, connected, handler, disk, restarts, ran, restored>>

\* On the session the execution is bound to; if that is gone, or goes away
\* meanwhile, the report is lost.
ReportOutcome(g) ==
  /\ run[g].pc = "report"
  /\ \/ /\ run[g].cmd \in bound
        /\ heard' = [heard EXCEPT ![run[g].cmd] = run[g].outcome]
     \/ heard' = heard
  /\ run' = [run EXCEPT ![g].pc = "finish"]
  /\ UNCHANGED <<shared, connected, handler, disk, restarts, ran, restored>>

finishShutdownExecution(g) ==
  /\ run[g].pc = "finish"
  /\ executions' = executions \ {run[g].cmd}
  /\ bound' = bound \ {run[g].cmd}
  /\ run' = [run EXCEPT ![g] = NoRun]
  /\ UNCHANGED <<commandStates, connected, handler, disk, restarts, observed, restored>>

(***************************************************************************)
(* The node goes down (the shutdown command does that), or the slave       *)
(* crashes, and starts again.                                              *)
(***************************************************************************)
Restart ==
  /\ WillRestart
  /\ restarts' = restarts + 1
  /\ commandStates' = disk
  /\ restored' = {c \in DOMAIN disk : disk[c] \in Settled}
  /\ executions' = {}
  /\ bound' = {}
  /\ connected' = FALSE
  /\ handler' = NoMessage
  /\ run' = [g \in Goroutine |-> NoRun]
  /\ disk' = IF restarts + 1 < MaxRestarts THEN disk ELSE NoCommands
  /\ UNCHANGED observed

HandlerStep ==
  \/ AcceptCommand
  \/ RebindKnown
  \/ SendExisting
  \/ StartPrepared
  \/ ResumeShutdown
  \/ SendRecorded
  \/ BeginShutdown

RunStep(g) ==
  \/ Execute(g)
  \/ RecordOutcome(g)
  \/ ReportOutcome(g)
  \/ finishShutdownExecution(g)

Next ==
  \/ Connect
  \/ Disconnect
  \/ \E c \in Cmd : Receive(c)
  \/ HandlerStep
  \/ \E g \in Goroutine : RunStep(g)
  \/ persistState
  \/ Restart

Spec == Init /\ [][Next]_vars

\* The goroutines of the slave run, an execution is bounded by its timeout, and a
\* write of the file returns.  Nothing is assumed of the connection or the master.
FairSpec ==
  /\ Spec
  /\ WF_vars(HandlerStep)
  /\ \A g \in Goroutine : WF_vars(RunStep(g))
  /\ WF_vars(persistState /\ WriteAwaited)

----------------------------------------------------------------------------
(***************************************************************************)
(* Properties.                                                             *)
(***************************************************************************)

IsStates(s) == DOMAIN s \subseteq Cmd /\ s \in [DOMAIN s -> Status]

HandlerType == [pc : {"idle", "new", "known", "reack", "go", "resume", "persist", "send", "begin"},
                cmd : Cmd \cup {NoCmd}, status : Status \cup {NoStatus}, start : BOOLEAN]
RunType     == [pc : {"idle", "run", "record", "persist", "report", "finish"},
                cmd : Cmd \cup {NoCmd}, outcome : {"executed", "failed", NoStatus}]

\* The variables hold values of their types, a goroutine that does something
\* does it for a command, and one that ran the shutdown command has an outcome.
TypeOK ==
  /\ IsStates(commandStates)
  /\ IsStates(disk)
  /\ executions \subseteq Cmd
  /\ bound \subseteq executions
  /\ connected \in BOOLEAN
  /\ handler \in HandlerType
  /\ handler.pc # "idle" => handler.cmd \in Cmd
  /\ run \in [Goroutine -> RunType]
  /\ \A g \in Goroutine : /\ run[g].pc # "idle" => run[g].cmd \in Cmd
                          /\ run[g].pc \notin {"idle", "run"} => run[g].outcome # NoStatus
  /\ restarts \in 0..MaxRestarts
  /\ heard \in [Cmd -> Status \cup {NoStatus}]
  /\ ran \subseteq Cmd
  /\ restored \subseteq Cmd

\* The shutdown command never runs twice at a time for the same command,
\* whatever replays, reconnects and pruning do (executions is checked and set
\* in one critical section, long before the goroutine starts).
OneRunPerCommand ==
  \A g, h \in Goroutine :
    run[g].pc # "idle" /\ run[h].pc # "idle" /\ run[g].cmd = run[h].cmd => g = h

\* What the master hears is true: executed only if the shutdown command
\* succeeded, simulated only for a dry run.  The master powers itself off on
\* the strength of these reports.
ReportedIsTrue ==
  \A c \in Cmd : /\ heard[c] = "executed" => c \in ran
                 /\ heard[c] = "simulated" => c \in DryCmd

\* A command that the state file shows as settled is not executed again after a
\* restart, as long as it is remembered.
SettledIsNotRepeated ==
  \A c \in restored : Known(c) /\ commandStates[c] \in Settled /\ ~Running(c)

(***************************************************************************)
(* What the documentation says and the code does not keep.                 *)
(***************************************************************************)

\* handleEnvelope: a failed command is retried on a replay "so a transient failure
\* does not leave the node powered on": a command the master replays again and
\* again is run again and again until it succeeds.
ReplayedIsRun ==
  \A c \in Cmd \ DryCmd :
    []<>(handler.cmd = c)
      => []<>(Running(c) \/ (Known(c) /\ commandStates[c] = "executed"))

\* The test of handleEnvelope: "expected duplicate shutdown not to re-run executor":
\* no execution starts for a command that is recorded as executed.
DuplicateIsNotRerun ==
  [][\A c \in Cmd : Known(c) /\ commandStates[c] = "executed" /\ ~Running(c) => ~Running(c)']_vars
==============================================================================
