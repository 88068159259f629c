------------------------------ MODULE Session ------------------------------
(***************************************************************************)
(* The connection between one slave and its master over time: the slave's  *)
(* reconnect loop with its backoff (slave Client.Run, runOnce), pings and  *)
(* pongs, the read deadlines of both ends (handleConn), the registry and   *)
(* the state in which the master reports the node.                         *)
(*                                                                         *)
(* Time is discrete; timers are counters that Tick advances, and Tick      *)
(* waits for whatever is due.  A link that is cut is half-open: nothing is *)
(* delivered any more, writes still succeed, and neither end is told.      *)
(* Tokens and commands are those of Enrollment, Master and SlaveExecutor.  *)
(***************************************************************************)
EXTENDS Integers, Sequences

CONSTANTS
  Conns,         \* TCP connections; one is used again when both ends are gone
  Intervals,     \* reconnect_interval, after LoadSlaveConfig
  MaxReconnect,  \* maxReconnectInterval
  Width,         \* bits of a time.Duration
  DialTimeout,   \* defaultDialTimeout
  AckDeadline,   \* registerAckReadDeadline
  Handshake,     \* HandshakeReadDeadline
  PingInterval,  \* pingInterval
  IdleDeadline,  \* IdleReadDeadline of the master
  OfflineAfter,  \* offline_after
  Delay,         \* the longest a message takes on a working link
  MaxBusy,       \* the longest a handler is busy with one message
  MaxFaults,     \* bound: crashes, cuts and rejections of a behaviour
  MaxReports,    \* bound: reports of the slave
  MaxFailures,   \* bound: failed attempts that are counted
  None           \* no connection

ASSUME SessionAssumption ==
  /\ {DialTimeout, AckDeadline, Handshake, PingInterval, IdleDeadline, OfflineAfter,
      Delay, MaxBusy, MaxReports} \subseteq Nat
  /\ PingInterval > 0 /\ None \notin Conns
  /\ Delay < AckDeadline /\ Delay < Handshake

\* Of all read deadlines the master's is the longest.
ASSUME DeadlineAssumption ==
  AckDeadline <= IdleDeadline /\ Handshake <= IdleDeadline /\ 3 * PingInterval <= IdleDeadline

VARIABLES
  slave,     \* [phase, conn, timer, ping]: the slave's goroutines
  interval,  \* reconnect_interval
  delay,     \* Run's delay
  up,        \* the master runs
  link,      \* the connections: "free", "ok" or "dead" (half-open)
  toMaster, toSlave,  \* the messages in flight, with their age
  handler,   \* the master's handlers: [phase, timer, busy]
  registry,  \* the connection the node is registered with
  lastSeen,  \* age of the directory's LastSeen, None before the first one
  stopping,  \* the slave's context is cancelled
  failures,  \* history: failed attempts since the last registration
  deadFor,   \* history: how long a link is dead
  goneFor,   \* history: how long the slave's host is down
  stalled,   \* history: how long the handler of the slave's connection has been
             \* busy since the slave last heard from it
  faults, reports

slaveVars  == <<slave, delay, failures, stopping>>
masterVars == <<handler, registry, lastSeen, up>>
wireVars   == <<link, toMaster, toSlave>>
timeVars   == <<deadFor, goneFor, stalled, faults, reports, interval>>
vars == <<slaveVars, masterVars, wireVars, timeVars>>

readIdleTimeout == 3 * PingInterval

Gone == [phase |-> "none", timer |-> 0, busy |-> 0]
Idle(p) == [phase |-> p, conn |-> None, timer |-> 0, ping |-> 0]

Init ==
  /\ slave = Idle("dialing")
  /\ interval \in Intervals
  /\ delay = interval
  /\ up = TRUE
  /\ link = [c \in Conns |-> "free"]
  /\ toMaster = [c \in Conns |-> <<>>]
  /\ toSlave = [c \in Conns |-> <<>>]
  /\ handler = [c \in Conns |-> Gone]
  /\ registry = None
  /\ lastSeen = None
  /\ stopping = FALSE
  /\ failures = 0
  /\ deadFor = [c \in Conns |-> 0]
  /\ goneFor = 0
  /\ stalled = 0
  /\ faults = 0
  /\ reports = 0

Message(type) == [type |-> type, age |-> 0]

\* What a write puts on the wire: on a dead link it is lost without an error.
SendToMaster(c, type) ==
  IF link[c] = "ok" /\ handler[c].phase # "none"
  THEN [toMaster EXCEPT ![c] = Append(@, Message(type))] ELSE toMaster

SendToSlave(c, types) ==
  IF link[c] = "ok" /\ slave.conn = c
  THEN [toSlave EXCEPT ![c] = @ \o [i \in DOMAIN types |-> Message(types[i])]] ELSE toSlave

\* The connection is free for another use once nobody holds it.
Released(c, heldBySlave, heldByMaster) ==
  IF heldBySlave \/ heldByMaster THEN link[c] ELSE "free"

\* The faults of a behaviour are counted.
Fault == faults < MaxFaults /\ faults' = faults + 1

(***************************************************************************)
(* The reconnect loop of the slave.                                        *)
(***************************************************************************)
\* Durations are signed integers of Width bits.
Wrap(n) == ((n + 2^(Width - 1)) % 2^Width) - 2^(Width - 1)

nextBackoff_Bug(current) ==
  IF Wrap(current * 2) > MaxReconnect THEN MaxReconnect ELSE Wrap(current * 2)

nextBackoff(current) ==
  LET next == Wrap(current * 2)
  IN  IF next <= 0 \/ next > MaxReconnect THEN MaxReconnect ELSE next

\* A fifth more or less, on the grid of ticks.
jitterDuration(d) ==
  IF d <= 0 THEN {0} ELSE (d * 8) \div 10 .. (d * 12 + 9) \div 10

\* runOnce has returned: Run sleeps, unless its context is cancelled.
EndOnce ==
  /\ \/ stopping /\ slave' = Idle("stopped")
     \/ ~stopping /\ \E s \in jitterDuration(delay) : slave' = [Idle("sleeping") EXCEPT !.timer = s]
  /\ delay' = nextBackoff(delay)

\* conn.Close on the way out of runOnce; a close is a message that ends the stream.
SlaveCloses(c) ==
  /\ toMaster' = SendToMaster(c, "eof")
  /\ toSlave' = [toSlave EXCEPT ![c] = <<>>]
  /\ link' = [link EXCEPT ![c] = Released(c, FALSE, handler[c].phase # "none")]

\* An attempt that did not register.
Fails(c) ==
  /\ EndOnce
  /\ failures' = IF failures < MaxFailures THEN failures + 1 ELSE failures
  /\ IF c = None THEN UNCHANGED wireVars ELSE SlaveCloses(c)
  /\ UNCHANGED <<masterVars, timeVars, stopping>>

DialFails ==
  /\ slave.phase = "dialing" /\ ~up
  /\ Fails(None)

\* The master accepts and starts a handler, the slave sends its register message.
Dial(c) ==
  /\ slave.phase = "dialing" /\ up
  /\ link[c] = "free"
  /\ slave' = [Idle("registering") EXCEPT !.conn = c]
  /\ link' = [link EXCEPT ![c] = "ok"]
  /\ handler' = [handler EXCEPT ![c] = [Gone EXCEPT !.phase = "handshake"]]
  /\ toMaster' = [toMaster EXCEPT ![c] = <<Message("register")>>]
  /\ toSlave' = [toSlave EXCEPT ![c] = <<>>]
  /\ deadFor' = [deadFor EXCEPT ![c] = 0]
  /\ stalled' = 0
  /\ UNCHANGED <<delay, failures, stopping, registry, lastSeen, up, goneFor, faults, reports, interval>>

SlaveReceives(c, type) ==
  /\ slave.conn = c
  /\ toSlave[c] # <<>> /\ Head(toSlave[c]).type = type

\* onRegistered resets the backoff, and the ping loop starts.
Registered(c) ==
  /\ SlaveReceives(c, "ack") /\ slave.phase = "registering"
  /\ slave' = [Idle("up") EXCEPT !.conn = c]
  /\ delay' = interval
  /\ failures' = 0
  /\ stalled' = 0
  /\ toSlave' = [toSlave EXCEPT ![c] = Tail(@)]
  /\ UNCHANGED <<stopping, masterVars, link, toMaster, deadFor, goneFor, faults, reports, interval>>

\* Rejected, closed by the master, or no answer in time.
RegisterFails_Bug(c) ==
  /\ slave.phase = "registering" /\ slave.conn = c
  /\ SlaveReceives(c, "nack") \/ SlaveReceives(c, "eof")
  /\ Fails(c)

RegisterFails(c) ==
  /\ slave.phase = "registering" /\ slave.conn = c
  /\ \/ SlaveReceives(c, "nack")
     \/ SlaveReceives(c, "eof")
     \/ slave.timer >= AckDeadline
  /\ Fails(c)

\* Any message restarts the read deadline.
Pong(c) ==
  /\ SlaveReceives(c, "pong") /\ slave.phase = "up"
  /\ slave' = [slave EXCEPT !.timer = 0]
  /\ stalled' = 0
  /\ toSlave' = [toSlave EXCEPT ![c] = Tail(@)]
  /\ UNCHANGED <<delay, failures, stopping, masterVars, link, toMaster, deadFor, goneFor, faults, reports, interval>>

runPingLoop_Bug(c) ==
  /\ slave.phase = "up" /\ slave.conn = c
  /\ slave.ping >= PingInterval
  /\ slave' = [slave EXCEPT !.ping = 0, !.timer = 0]
  /\ toMaster' = SendToMaster(c, "ping")
  /\ UNCHANGED <<delay, failures, stopping, masterVars, link, toSlave, timeVars>>

runPingLoop(c) ==
  /\ slave.phase = "up" /\ slave.conn = c
  /\ slave.ping >= PingInterval
  /\ slave' = [slave EXCEPT !.ping = 0]
  /\ toMaster' = SendToMaster(c, "ping")
  /\ UNCHANGED <<delay, failures, stopping, masterVars, link, toSlave, timeVars>>

\* The slave reports on a command.
Report(c) ==
  /\ slave.phase = "up" /\ slave.conn = c
  /\ reports < MaxReports
  /\ reports' = reports + 1
  /\ toMaster' = SendToMaster(c, "report")
  /\ UNCHANGED <<slaveVars, masterVars, link, toSlave, deadFor, goneFor, stalled, faults, interval>>

SessionIdle(c) ==
  slave.phase = "up" /\ slave.conn = c /\ slave.timer >= readIdleTimeout

\* The session ends: closed by the master, silent, or the context is cancelled.
SessionEnds(c) ==
  /\ slave.phase = "up" /\ slave.conn = c
  /\ SlaveReceives(c, "eof") \/ SessionIdle(c) \/ stopping
  /\ EndOnce
  /\ failures' = 1
  /\ SlaveCloses(c)
  /\ UNCHANGED <<masterVars, timeVars, stopping>>

Wakes ==
  /\ slave.phase = "sleeping"
  /\ slave.timer = 0 \/ stopping
  /\ slave' = Idle(IF stopping THEN "stopped" ELSE "dialing")
  /\ UNCHANGED <<delay, failures, stopping, masterVars, wireVars, timeVars>>

(***************************************************************************)
(* The handlers of the master.                                             *)
(***************************************************************************)
HandlerReads(c, type) ==
  /\ handler[c].phase # "none" /\ handler[c].busy = 0
  /\ toMaster[c] # <<>> /\ Head(toMaster[c]).type = type

\* The handler returns: RemoveIfMatch, then Close.
RemoveIfMatch_Bug(c) == None

RemoveIfMatch(c) == IF registry = c THEN None ELSE registry

HandlerReturns(c, last) ==
  /\ handler' = [handler EXCEPT ![c] = Gone]
  /\ registry' = RemoveIfMatch(c)
  /\ toSlave' = SendToSlave(c, last \o <<"eof">>)
  /\ toMaster' = [toMaster EXCEPT ![c] = <<>>]
  /\ link' = [link EXCEPT ![c] = Released(c, slave.conn = c, FALSE)]
  /\ UNCHANGED <<slaveVars, lastSeen, up, deadFor, goneFor, stalled, interval, reports>>

\* Registration: registry.Set closes the connection registered before (its
\* handler's next read fails), the directory observes the node, the ack follows.
Accept(c) ==
  /\ HandlerReads(c, "register") /\ handler[c].phase = "handshake"
  /\ LET old == registry
     IN  handler' = [h \in Conns |->
                       IF h = c THEN [Gone EXCEPT !.phase = "serving"]
                       ELSE IF h = old THEN [handler[h] EXCEPT !.phase = "closed"]
                       ELSE handler[h]]
  /\ registry' = c
  /\ lastSeen' = 0
  /\ toMaster' = [toMaster EXCEPT ![c] = Tail(@)]
  /\ toSlave' = SendToSlave(c, <<"ack">>)
  /\ UNCHANGED <<slaveVars, up, link, timeVars>>

\* A token or an identity the master does not accept.
Reject(c) ==
  /\ Fault
  /\ HandlerReads(c, "register") /\ handler[c].phase = "handshake"
  /\ HandlerReturns(c, <<"nack">>)

\* A ping: Touch, and a pong after the time the handler takes.
Ping_Bug(c) ==
  /\ HandlerReads(c, "ping") /\ handler[c].phase = "serving"
  /\ lastSeen' = 0
  /\ handler' = [handler EXCEPT ![c].timer = 0]
  /\ toMaster' = [toMaster EXCEPT ![c] = Tail(@)]
  /\ UNCHANGED <<slaveVars, registry, up, link, toSlave, timeVars>>

Ping(c) ==
  /\ HandlerReads(c, "ping") /\ handler[c].phase = "serving"
  /\ lastSeen' = 0
  /\ handler' = [handler EXCEPT ![c].timer = 0]
  /\ toMaster' = [toMaster EXCEPT ![c] = Tail(@)]
  /\ toSlave' = SendToSlave(c, <<"pong">>)
  /\ UNCHANGED <<slaveVars, registry, up, link, timeVars>>

\* A shutdown_ack can run the local shutdown command: the handler reads nothing
\* until that is over, then it sets a new deadline.
ShutdownAck(c) ==
  /\ HandlerReads(c, "report") /\ handler[c].phase = "serving"
  /\ lastSeen' = 0
  /\ \E n \in 0..MaxBusy : handler' = [handler EXCEPT ![c].busy = n, ![c].timer = 0]
  /\ toMaster' = [toMaster EXCEPT ![c] = Tail(@)]
  /\ UNCHANGED <<slaveVars, registry, up, link, toSlave, timeVars>>

HandlerIdle(c) ==
  \/ handler[c].phase = "handshake" /\ handler[c].timer >= Handshake
  \/ handler[c].phase = "serving" /\ handler[c].timer >= IdleDeadline

HandlerEnds(c) ==
  /\ handler[c].phase # "none" /\ handler[c].busy = 0
  /\ HandlerReads(c, "eof") \/ HandlerIdle(c) \/ handler[c].phase = "closed"
  /\ HandlerReturns(c, <<>>)
  /\ UNCHANGED faults

(***************************************************************************)
(* The environment: faults, stop requests and time.                        *)
(***************************************************************************)
\* The link dies; what has reached the other end can still be read.
Cut(c) ==
  /\ link[c] = "ok" /\ Fault
  /\ link' = [link EXCEPT ![c] = "dead"]
  /\ \E m \in 0..Len(toMaster[c]), s \in 0..Len(toSlave[c]) :
       /\ toMaster' = [toMaster EXCEPT ![c] = SubSeq(@, 1, m)]
       /\ toSlave' = [toSlave EXCEPT ![c] = SubSeq(@, 1, s)]
  /\ UNCHANGED <<slaveVars, masterVars, deadFor, goneFor, stalled, reports, interval>>

\* The master's host crashes: nobody answers on its connections any more, and
\* the directory is what the last save has of it.
MasterCrash ==
  /\ up /\ Fault
  /\ up' = FALSE
  /\ handler' = [c \in Conns |-> Gone]
  /\ registry' = None
  /\ lastSeen' \in IF lastSeen = None THEN {None} ELSE lastSeen .. OfflineAfter + 1
  /\ link' = [c \in Conns |-> IF slave.conn = c THEN "dead" ELSE "free"]
  /\ toMaster' = [c \in Conns |-> <<>>]
  /\ UNCHANGED <<slaveVars, toSlave, deadFor, goneFor, stalled, reports, interval>>

MasterStart ==
  /\ ~up
  /\ up' = TRUE
  /\ UNCHANGED <<slaveVars, handler, registry, lastSeen, wireVars, timeVars>>

\* The slave's host is switched off, and comes back.
SlaveDown ==
  /\ slave.phase \notin {"down", "stopped"} /\ Fault
  /\ slave' = Idle("down")
  /\ link' = [c \in Conns |-> IF handler[c].phase = "none" THEN "free" ELSE "dead"]
  /\ toSlave' = [c \in Conns |-> <<>>]
  /\ goneFor' = 0
  /\ UNCHANGED <<delay, failures, stopping, masterVars, toMaster, deadFor, stalled, reports, interval>>

SlaveStart ==
  /\ slave.phase = "down"
  /\ slave' = Idle("dialing")
  /\ delay' = interval
  /\ failures' = 0
  /\ goneFor' = 0
  /\ stopping' = FALSE
  /\ UNCHANGED <<masterVars, wireVars, deadFor, stalled, faults, reports, interval>>

Stop ==
  /\ ~stopping /\ slave.phase # "down"
  /\ stopping' = TRUE
  /\ UNCHANGED <<slave, delay, failures, masterVars, wireVars, timeVars>>

\* Nothing that is due is overdue.
MayPass ==
  /\ slave.phase = "dialing" => slave.timer < DialTimeout /\ ~up
  /\ slave.phase = "registering" => slave.timer < AckDeadline
  /\ slave.phase = "up" => slave.timer < readIdleTimeout /\ slave.ping < PingInterval /\ ~stopping
  /\ slave.phase = "sleeping" => slave.timer > 0 /\ ~stopping
  /\ \A c \in Conns :
       /\ handler[c].busy = 0 => ~HandlerIdle(c) /\ handler[c].phase # "closed"
       /\ toSlave[c] # <<>> /\ slave.conn = c => Head(toSlave[c]).age < Delay
       /\ toMaster[c] # <<>> /\ handler[c].phase # "none" /\ handler[c].busy = 0 => Head(toMaster[c]).age < Delay

Older(queue) ==
  [c \in Conns |-> [i \in DOMAIN queue[c] |->
     [queue[c][i] EXCEPT !.age = IF @ < Delay THEN @ + 1 ELSE @]]]

\* A deadline after the last message that arrived, and what all reports cost a handler.
LongGone ==
  (IF IdleDeadline > OfflineAfter THEN IdleDeadline ELSE OfflineAfter) + MaxReports * MaxBusy + Delay + 1

Count(n, limit) == IF n < limit THEN n + 1 ELSE n

Tick ==
  /\ MayPass
  /\ slave' = CASE slave.phase = "sleeping" -> [slave EXCEPT !.timer = @ - 1]
                [] slave.phase = "up" -> [slave EXCEPT !.timer = @ + 1, !.ping = @ + 1]
                [] slave.phase \in {"dialing", "registering"} -> [slave EXCEPT !.timer = @ + 1]
                [] OTHER -> slave
  /\ handler' = [c \in Conns |->
                   IF handler[c].phase = "none" THEN Gone
                   ELSE IF handler[c].busy > 0 THEN [handler[c] EXCEPT !.busy = @ - 1]
                   ELSE [handler[c] EXCEPT !.timer = @ + 1]]
  /\ toMaster' = Older(toMaster)
  /\ toSlave' = Older(toSlave)
  /\ lastSeen' = IF lastSeen = None THEN None ELSE Count(lastSeen, OfflineAfter + 1)
  /\ deadFor' = [c \in Conns |-> IF link[c] = "dead" THEN Count(deadFor[c], LongGone) ELSE 0]
  /\ goneFor' = IF slave.phase = "down" THEN Count(goneFor, LongGone) ELSE 0
  /\ stalled' = IF slave.conn = None THEN 0
                ELSE IF handler[slave.conn].busy > 0 THEN stalled + 1 ELSE stalled
  /\ UNCHANGED <<delay, failures, stopping, registry, up, link, faults, reports, interval>>

SystemStep ==
  \/ DialFails \/ Wakes
  \/ \E c \in Conns :
       \/ Dial(c) \/ Registered(c) \/ RegisterFails(c) \/ Pong(c)
       \/ runPingLoop(c) \/ SessionEnds(c)
       \/ Accept(c) \/ Ping(c) \/ ShutdownAck(c) \/ HandlerEnds(c)

Next ==
  \/ SystemStep \/ Tick
  \/ MasterStart \/ SlaveStart \/ Stop \/ MasterCrash \/ SlaveDown
  \/ \E c \in Conns : Report(c) \/ Reject(c) \/ Cut(c)

Spec == Init /\ [][Next]_vars

\* Goroutines run, time passes, and hosts that went down come back.
Fairness ==
  WF_vars(SystemStep) /\ WF_vars(Tick) /\ WF_vars(MasterStart) /\ WF_vars(SlaveStart)

FairSpec == Spec /\ Fairness

----------------------------------------------------------------------------
\* The state in which Status reports the node.
nodeState ==
  IF registry # None \/ (lastSeen # None /\ lastSeen <= OfflineAfter) THEN "online"
  ELSE IF lastSeen # None THEN "offline" ELSE "never_seen"

\* What the slave's read deadline leaves to a busy handler: all of it but the time
\* to the next ping and the way there and back.
Leeway == readIdleTimeout - PingInterval - 2 * Delay

\* On a link that works pings and pongs arrive in time at both ends, whatever is
\* queued behind a handler that runs the local shutdown command: the master's
\* read deadline does not expire, and the slave's only when that command has kept
\* the handler busy for all the leeway since the slave last heard from it.
HealthyStaysUp ==
  \A c \in Conns : link[c] = "ok" =>
    /\ SessionIdle(c) => stalled >= Leeway
    /\ slave.conn = c => ~HandlerIdle(c)

\* A half-open connection is given up by both ends before long, although writes
\* to it succeed, and a node whose host is down for long is not reported online.
SilenceIsNoticed ==
  /\ \A c \in Conns : deadFor[c] >= LongGone => slave.conn # c /\ handler[c].phase = "none"
  /\ up /\ goneFor >= LongGone => nodeState # "online"

\* A slave that holds a registered connection is in the registry and reported
\* online: the end of an older connection's handler does not remove it.
RegisteredIsOnline ==
  slave.phase = "up" /\ link[slave.conn] = "ok" /\ handler[slave.conn].phase = "serving"
    => registry = slave.conn /\ nodeState = "online"

\* The wait before an attempt, as it should be: the interval after a session, then
\* doubled for every failure up to the limit, whatever interval is configured.
Wait(n) ==
  IF n = 0 THEN interval
  ELSE IF interval <= 0 \/ interval * 2^n > MaxReconnect THEN MaxReconnect ELSE interval * 2^n

\* The backoff follows that rule, in integers that can overflow.
BackoffIsExact ==
  /\ delay = Wait(failures)
  /\ slave.phase = "sleeping" /\ slave.timer > 0 => 10 * slave.timer < 12 * Wait(failures - 1) + 10

\* With finitely many faults the slave is registered again and again, unless it is
\* told to stop: then it does, wherever it is.
ComesBack == []<>(slave.phase = "stopped" \/ (slave.phase = "up" /\ ~stopping))

----------------------------------------------------------------------------
(***************************************************************************)
(* What the comments say and the code does not do.                         *)
(***************************************************************************)
\* "the master pongs every ping, so missing reads for longer than this means the
\* link is dead": the slave gives up no connection that works.
MissingReadsMeanDeadLink ==
  \A c \in Conns : link[c] = "ok" => ~SessionIdle(c)
=============================================================================
