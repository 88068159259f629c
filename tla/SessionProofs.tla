---------------------------- MODULE SessionProofs ----------------------------
(***************************************************************************)
(* Proofs about Session, for any connections, deadlines and faults: the    *)
(* shape of the goroutines, that a served node is in the registry, that a  *)
(* dead connection is noticed, and that one that works is kept.            *)
(***************************************************************************)
EXTENDS Session, FiniteSetTheorems, SequenceTheorems, TLAPS

(***************************************************************************)
(* The records of the slave and of the handlers.                           *)
(***************************************************************************)
SlaveType == [phase : {"dialing", "registering", "up", "sleeping", "stopped", "down"},
              conn : Conns \cup {None}, timer : Int, ping : Int]

HandlerType == [phase : {"none", "handshake", "serving", "closed"}, timer : Int, busy : Int]

\* A slave that registers or is up has a connection.
ShapeOK ==
  /\ slave \in SlaveType
  /\ slave.phase \in {"registering", "up"} => slave.conn \in Conns
  /\ handler \in [Conns -> HandlerType]

\* Only the handler that registered last is serving: the one before was closed when
\* its entry was replaced, and an entry goes away with the handler it belongs to.
ServedIsRegistered == \A c \in Conns : handler[c].phase = "serving" => registry = c

SessionInv == ShapeOK /\ ServedIsRegistered

\* The records the goroutines start from.
LEMMA StartTypes ==
  /\ Gone \in HandlerType /\ Gone.phase = "none"
  /\ [Gone EXCEPT !.phase = "handshake"] \in HandlerType
  /\ [Gone EXCEPT !.phase = "serving"] \in HandlerType
  /\ \A p \in {"dialing", "stopped", "down", "sleeping"} :
       Idle(p) \in SlaveType /\ Idle(p).phase = p
  /\ \A p \in {"registering", "up"}, c \in Conns :
       /\ [Idle(p) EXCEPT !.conn = c] \in SlaveType
       /\ [Idle(p) EXCEPT !.conn = c].conn = c
  /\ \A s \in Int : /\ [Idle("sleeping") EXCEPT !.timer = s] \in SlaveType
                    /\ [Idle("sleeping") EXCEPT !.timer = s].phase = "sleeping"
  BY DEF Gone, Idle, HandlerType, SlaveType

\* A step that leaves handlers and registry alone.
LEMMA SlaveOnly ==
  ASSUME SessionInv, slave' \in SlaveType,
         slave'.phase \in {"registering", "up"} => slave'.conn \in Conns,
         UNCHANGED <<handler, registry>>
  PROVE  SessionInv'
  BY DEF SessionInv, ShapeOK, ServedIsRegistered

\* A step that leaves the slave alone.
LEMMA HandlersOnly ==
  ASSUME SessionInv, UNCHANGED slave, handler' \in [Conns -> HandlerType], ServedIsRegistered'
  PROVE  SessionInv'
  BY DEF SessionInv, ShapeOK

\* A wait is a number of ticks.
LEMMA JitterType == ASSUME NEW d PROVE jitterDuration(d) \subseteq Int
  BY DEF jitterDuration

\* After runOnce the slave sleeps or has stopped.
LEMMA EndOnceType ==
  ASSUME EndOnce PROVE slave' \in SlaveType /\ slave'.phase \in {"sleeping", "stopped"}
  <1>1. CASE slave' = Idle("stopped")
    BY <1>1, StartTypes
  <1>2. ASSUME NEW s \in jitterDuration(delay), slave' = [Idle("sleeping") EXCEPT !.timer = s]
        PROVE  slave' \in SlaveType /\ slave'.phase = "sleeping"
    BY <1>2, JitterType, StartTypes
  <1>3. QED
    BY <1>1, <1>2 DEF EndOnce

\* The steps of the slave.
LEMMA SlaveKeeps ==
  ASSUME SessionInv,
         \/ DialFails \/ Wakes \/ SlaveDown \/ SlaveStart \/ Stop
         \/ \E c \in Conns : \/ Registered(c) \/ RegisterFails(c) \/ Pong(c)
                           \/ runPingLoop(c) \/ Report(c) \/ SessionEnds(c)
  PROVE  SessionInv'
  <1>0. slave \in SlaveType /\ (slave.phase \in {"registering", "up"} => slave.conn \in Conns)
    BY DEF SessionInv, ShapeOK
  <1>1. ASSUME NEW d, Fails(d) PROVE SessionInv'
    BY <1>1, EndOnceType, SlaveOnly DEF Fails, masterVars
  <1>2. CASE DialFails \/ \E c \in Conns : RegisterFails(c)
    BY <1>1, <1>2 DEF DialFails, RegisterFails
  <1>3. CASE Wakes
    <2>1. slave' \in SlaveType /\ slave'.phase \in {"dialing", "stopped"}
      BY <1>3, StartTypes DEF Wakes
    <2>2. QED
      BY <1>3, <2>1, SlaveOnly DEF Wakes, masterVars
  <1>4. ASSUME NEW c \in Conns, Registered(c) PROVE SessionInv'
    <2>1. slave' \in SlaveType /\ slave'.conn \in Conns
      BY <1>4, StartTypes DEF Registered
    <2>2. QED
      BY <1>4, <2>1, SlaveOnly DEF Registered, masterVars
  <1>5. CASE \E c \in Conns : Pong(c) \/ runPingLoop(c)
    <2>1. slave' \in SlaveType /\ slave'.conn = slave.conn /\ slave'.phase = slave.phase
      BY <1>0, <1>5 DEF Pong, runPingLoop, SlaveType
    <2>2. QED
      BY <1>0, <1>5, <2>1, SlaveOnly DEF Pong, runPingLoop, masterVars
  <1>6. CASE Stop \/ \E c \in Conns : Report(c)
    BY <1>0, <1>6, SlaveOnly DEF Report, Stop, slaveVars, masterVars
  <1>7. CASE \E c \in Conns : SessionEnds(c)
    BY <1>7, EndOnceType, SlaveOnly DEF SessionEnds, masterVars
  <1>8. CASE SlaveDown \/ SlaveStart
    <2>1. slave' \in SlaveType /\ slave'.phase \in {"down", "dialing"}
      BY <1>8, StartTypes DEF SlaveDown, SlaveStart
    <2>2. QED
      BY <1>8, <2>1, SlaveOnly DEF SlaveDown, SlaveStart, masterVars
  <1>9. QED
    BY <1>2, <1>3, <1>4, <1>5, <1>6, <1>7, <1>8

\* A new connection gets a handler that has registered nothing.
LEMMA DialKeeps == ASSUME SessionInv, NEW c \in Conns, Dial(c) PROVE SessionInv'
  <1>1. slave' \in SlaveType /\ slave'.conn \in Conns
    BY StartTypes DEF Dial
  <1>2. handler' \in [Conns -> HandlerType]
    BY StartTypes DEF Dial, SessionInv, ShapeOK
  <1>3. handler'[c].phase = "handshake" /\ \A d \in Conns \ {c} : handler'[d] = handler[d]
    BY DEF Dial, SessionInv, ShapeOK, Gone
  <1>4. QED
    BY <1>1, <1>2, <1>3 DEF Dial, SessionInv, ShapeOK, ServedIsRegistered

\* The handler of c returns; an entry of another connection stays.
LEMMA ReturnKeeps ==
  ASSUME SessionInv, NEW c \in Conns, NEW last, HandlerReturns(c, last) PROVE SessionInv'
  <1>1. handler' \in [Conns -> HandlerType]
    BY StartTypes DEF HandlerReturns, SessionInv, ShapeOK
  <1>2. handler'[c].phase = "none" /\ \A d \in Conns \ {c} : handler'[d] = handler[d]
    BY StartTypes DEF HandlerReturns, SessionInv, ShapeOK
  <1>3. ServedIsRegistered'
    BY <1>2 DEF HandlerReturns, RemoveIfMatch, SessionInv, ServedIsRegistered
  <1>4. QED
    BY <1>1, <1>3, HandlersOnly DEF HandlerReturns, slaveVars

\* The steps of the handlers.
LEMMA HandlersKeep ==
  ASSUME SessionInv, NEW c \in Conns,
         Accept(c) \/ Reject(c) \/ Ping(c) \/ ShutdownAck(c) \/ HandlerEnds(c)
  PROVE  SessionInv'
  <1>0. handler \in [Conns -> HandlerType] /\ ServedIsRegistered
    BY DEF SessionInv, ShapeOK
  <1>1. CASE Accept(c)
    <2>1. \A h \in Conns :
            handler'[h] = IF h = c THEN [Gone EXCEPT !.phase = "serving"]
                          ELSE IF h = registry THEN [handler[h] EXCEPT !.phase = "closed"]
                          ELSE handler[h]
      BY <1>1 DEF Accept
    <2>2. \A h \in Conns : [handler[h] EXCEPT !.phase = "closed"] \in HandlerType
      BY <1>0 DEF HandlerType
    <2>3. \A h \in Conns : [handler[h] EXCEPT !.phase = "closed"].phase = "closed"
      BY <1>0 DEF HandlerType
    <2>4. handler' \in [Conns -> HandlerType]
      BY <1>0, <1>1, <2>1, <2>2, StartTypes DEF Accept
    <2>5. \A h \in Conns \ {c} : handler'[h].phase # "serving"
      BY <1>0, <2>1, <2>3 DEF ServedIsRegistered
    <2>6. QED
      BY <1>1, <2>4, <2>5, HandlersOnly DEF Accept, slaveVars, ServedIsRegistered
  <1>2. CASE Reject(c)
    BY <1>2, ReturnKeeps DEF Reject
  <1>3. CASE HandlerEnds(c)
    BY <1>3, ReturnKeeps DEF HandlerEnds
  <1>4. CASE Ping(c)
    <2>1. handler' \in [Conns -> HandlerType] /\ \A h \in Conns : handler'[h].phase = handler[h].phase
      BY <1>0, <1>4 DEF Ping, HandlerType
    <2>2. QED
      BY <1>0, <1>4, <2>1, HandlersOnly DEF Ping, slaveVars, ServedIsRegistered
  <1>5. CASE ShutdownAck(c)
    <2>1. PICK n \in 0..MaxBusy : handler' = [handler EXCEPT ![c].busy = n, ![c].timer = 0]
      BY <1>5 DEF ShutdownAck
    <2>2. handler' = [handler EXCEPT ![c] = [handler[c] EXCEPT !.busy = n, !.timer = 0]]
      BY <1>0, <2>1
    <2>3. /\ [handler[c] EXCEPT !.busy = n, !.timer = 0] \in HandlerType
          /\ [handler[c] EXCEPT !.busy = n, !.timer = 0].phase = handler[c].phase
      <3> DEFINE busy == [handler[c] EXCEPT !.busy = n]
      <3>1. busy \in HandlerType /\ busy.phase = handler[c].phase
        BY <1>0 DEF HandlerType
      <3>2. [handler[c] EXCEPT !.busy = n, !.timer = 0] = [busy EXCEPT !.timer = 0]
        BY <1>0 DEF HandlerType
      <3> HIDE DEF busy
      <3>3. [busy EXCEPT !.timer = 0] \in HandlerType
        BY <3>1 DEF HandlerType
      <3>4. [busy EXCEPT !.timer = 0].phase = busy.phase
        BY <3>1 DEF HandlerType
      <3>5. QED
        BY <3>1, <3>2, <3>3, <3>4
    <2>4. handler' \in [Conns -> HandlerType] /\ \A h \in Conns : handler'[h].phase = handler[h].phase
      BY <1>0, <2>2, <2>3
    <2>5. QED
      BY <1>0, <1>5, <2>4, HandlersOnly DEF ShutdownAck, slaveVars, ServedIsRegistered
  <1>6. QED
    BY <1>1, <1>2, <1>3, <1>4, <1>5

\* Crashes and the passing of time.
LEMMA OthersKeep ==
  ASSUME SessionInv, MasterCrash \/ MasterStart \/ (\E c \in Conns : Cut(c)) \/ Tick
  PROVE  SessionInv'
  <1>0. handler \in [Conns -> HandlerType] /\ ServedIsRegistered /\ slave \in SlaveType
    BY DEF SessionInv, ShapeOK
  <1>1. CASE MasterCrash
    BY <1>1, StartTypes, HandlersOnly DEF MasterCrash, slaveVars, ServedIsRegistered
  <1>2. CASE MasterStart \/ \E c \in Conns : Cut(c)
    BY <1>0, <1>2, HandlersOnly DEF MasterStart, Cut, slaveVars, masterVars, ServedIsRegistered
  <1>3. CASE Tick
    <2>1. slave' \in SlaveType /\ slave'.conn = slave.conn /\ slave'.phase = slave.phase
      <3>1. CASE slave.phase = "sleeping"
        <4>1. slave' = [slave EXCEPT !.timer = slave.timer - 1]
          BY <1>3, <3>1 DEF Tick
        <4>2. QED
          BY <1>0, <4>1 DEF SlaveType
      <3>2. CASE slave.phase = "up"
        <4> DEFINE later == [slave EXCEPT !.timer = slave.timer + 1]
        <4>1. slave' = [later EXCEPT !.ping = slave.ping + 1]
          BY <1>0, <1>3, <3>2 DEF Tick, SlaveType
        <4>2. later \in SlaveType /\ later.conn = slave.conn /\ later.phase = slave.phase
          BY <1>0 DEF SlaveType
        <4> HIDE DEF later
        <4>3. QED
          BY <1>0, <4>1, <4>2 DEF SlaveType
      <3>3. CASE slave.phase \in {"dialing", "registering"}
        <4>1. slave' = [slave EXCEPT !.timer = slave.timer + 1]
          BY <1>3, <3>3 DEF Tick
        <4>2. QED
          BY <1>0, <4>1 DEF SlaveType
      <3>4. CASE slave.phase \in {"stopped", "down"}
        <4>1. slave' = slave
          BY <1>3, <3>4 DEF Tick
        <4>2. QED
          BY <1>0, <4>1
      <3>5. QED
        BY <1>0, <3>1, <3>2, <3>3, <3>4 DEF SlaveType
    <2>2. \A h \in Conns :
            /\ [handler[h] EXCEPT !.busy = @ - 1] \in HandlerType
            /\ [handler[h] EXCEPT !.busy = @ - 1].phase = handler[h].phase
            /\ [handler[h] EXCEPT !.timer = @ + 1] \in HandlerType
            /\ [handler[h] EXCEPT !.timer = @ + 1].phase = handler[h].phase
      BY <1>0 DEF HandlerType
    <2>3. handler' \in [Conns -> HandlerType] /\ \A h \in Conns : handler'[h].phase = handler[h].phase
      BY <1>0, <1>3, <2>2, StartTypes DEF Tick
    <2>4. registry' = registry
      BY <1>3 DEF Tick
    <2>5. QED
      BY <1>0, <2>1, <2>3, <2>4 DEF SessionInv, ShapeOK, ServedIsRegistered
  <1>4. QED
    BY <1>1, <1>2, <1>3

LEMMA SessionInit == Init => SessionInv
  BY StartTypes DEF Init, SessionInv, ShapeOK, ServedIsRegistered

LEMMA SessionStep == SessionInv /\ [Next]_vars => SessionInv'
  <1> SUFFICES ASSUME SessionInv, [Next]_vars PROVE SessionInv'
    OBVIOUS
  <1>1. CASE UNCHANGED vars
    BY <1>1 DEF vars, slaveVars, masterVars, SessionInv, ShapeOK, ServedIsRegistered
  <1>2. CASE Next
    BY <1>2, SlaveKeeps, DialKeeps, HandlersKeep, OthersKeep DEF Next, SystemStep
  <1>3. QED
    BY <1>1, <1>2

\* A slave that holds a registered connection is in the registry and reported
\* online, for any number of connections, replacements and faults
\* (Session!RegisteredIsOnline).
THEOREM RegisteredOnline == Spec => []RegisteredIsOnline
  <1>1. SessionInv => RegisteredIsOnline
    BY SessionAssumption DEF SessionInv, ShapeOK, ServedIsRegistered, RegisteredIsOnline, nodeState
  <1>2. QED
    BY <1>1, SessionInit, SessionStep, PTL DEF Spec

(***************************************************************************)
(* The invariant about time: how long ago the last message of a connection *)
(* can have arrived at either end.                                         *)
(***************************************************************************)
Msg == [type : {"register", "ack", "nack", "ping", "pong", "report", "eof"}, age : 0..Delay]

\* Messages in flight, the oldest first.
Queue == {q \in Seq(Msg) : \A i, j \in DOMAIN q : i < j => q[i].age >= q[j].age}

\* Every message has been under way for n ticks, or for as long as one can be.
AsOld(q, n) == \A i \in DOMAIN q : q[i].age = Delay \/ q[i].age >= n

ReportsIn(q) == Cardinality({i \in DOMAIN q : q[i].type = "report"})

\* The time that reports cost a handler at most.
Cost(n) == MaxBusy * n

\* The part of it that the handler of c has behind it.
Spent(c) == Cost(reports - ReportsIn(toMaster[c])) - handler[c].busy

\* Somebody holds every connection in use; on a dead one messages only age.
LinkOK(c) ==
  /\ link[c] = "free" => slave.conn # c /\ handler[c].phase = "none"
  /\ link[c] = "ok" => deadFor[c] = 0
  /\ link[c] = "dead" => AsOld(toMaster[c], deadFor[c]) /\ AsOld(toSlave[c], deadFor[c])

\* What arrived at the handler on a dead link arrived early enough.
HandlerClock(c) ==
  handler[c].phase # "none" =>
    /\ handler[c].timer \in 0..IdleDeadline /\ handler[c].busy \in Nat
    /\ ReportsIn(toMaster[c]) <= reports /\ 0 <= Spent(c)
    /\ link[c] = "dead" =>
         /\ deadFor[c] <= Delay + Spent(c) + handler[c].timer
         /\ toMaster[c] # <<>> => deadFor[c] <= Delay + Spent(c)

\* And at the slave.
SlaveClock(c) ==
  slave.conn = c =>
    /\ slave.phase \in {"registering", "up"}
    /\ slave.timer \in 0..IdleDeadline /\ slave.ping \in 0..PingInterval
    /\ link[c] = "dead" =>
         /\ deadFor[c] <= Delay + slave.timer
         /\ toSlave[c] # <<>> => deadFor[c] <= Delay

\* The handler has heard of the slave since the last ping but one.
HandlerHears(c) ==
  slave.conn = c /\ link[c] = "ok" =>
    /\ handler[c].phase = "handshake" =>
         /\ slave.phase = "registering" /\ toSlave[c] = <<>>
         /\ toMaster[c] # <<>> /\ handler[c].timer <= toMaster[c][1].age
    /\ handler[c].phase = "serving" /\ slave.phase = "registering" =>
         toSlave[c] # <<>> /\ handler[c].timer <= toSlave[c][1].age
    /\ handler[c].phase = "serving" /\ slave.phase = "up" =>
         \/ handler[c].timer <= slave.ping + Delay
         \/ \E i \in DOMAIN toMaster[c] :
              /\ toMaster[c][i].type = "ping"
              /\ handler[c].timer <= PingInterval + Delay + toMaster[c][i].age

\* The time in which a pong is on its way back, if the handler is busy that long.
AnsweredBy(busy) == PingInterval + Delay + busy

\* Since the slave last heard of the master it has sent one ping, at most, that
\* is not answered: the ping, or its answer, is under way.
SlaveHears(c) ==
  slave.conn = c /\ link[c] = "ok" =>
    /\ handler[c].phase = "none" => \E j \in DOMAIN toSlave[c] : toSlave[c][j].type = "eof"
    /\ slave.phase = "up" =>
         \/ handler[c].phase # "none" /\ slave.timer <= slave.ping
         \/ handler[c].phase # "none" /\ \E i \in DOMAIN toMaster[c] :
              /\ toMaster[c][i].type = "ping"
              /\ slave.timer <= PingInterval + toMaster[c][i].age + stalled
         \/ \E j \in DOMAIN toSlave[c] : slave.timer <= AnsweredBy(stalled) + toSlave[c][j].age

ConnOK(c) ==
  /\ LinkOK(c) /\ HandlerClock(c) /\ SlaveClock(c) /\ HandlerHears(c) /\ SlaveHears(c)

\* While the slave's host is down all its connections are dead, and LastSeen is
\* as old as that, but for what was on the way.
DownClock ==
  /\ goneFor \in Nat
  /\ slave.phase # "down" => goneFor = 0
  /\ slave.phase = "down" =>
       /\ \A c \in Conns : handler[c].phase # "none" => link[c] = "dead" /\ goneFor <= deadFor[c]
       /\ lastSeen # None =>
            lastSeen > OfflineAfter \/ goneFor <= lastSeen + Delay + Cost(MaxReports)

RegistryOK ==
  /\ registry # None => registry \in Conns /\ handler[registry].phase # "none"
  /\ lastSeen # None => lastSeen \in Nat
  /\ reports \in 0..MaxReports /\ stalled \in Nat

\* The variables indexed by connection.
ArraysOK ==
  /\ toMaster \in [Conns -> Queue] /\ toSlave \in [Conns -> Queue]
  /\ link \in [Conns -> {"free", "ok", "dead"}] /\ deadFor \in [Conns -> Nat]

TimeInv == SessionInv /\ ArraysOK /\ RegistryOK /\ DownClock /\ \A c \in Conns : ConnOK(c)

(***************************************************************************)
(* Queues of messages and the reports in them.                             *)
(***************************************************************************)
LEMMA Parameters ==
  /\ DialTimeout \in Nat /\ AckDeadline \in Nat /\ Handshake \in Nat /\ PingInterval \in Nat \ {0}
  /\ IdleDeadline \in Nat /\ OfflineAfter \in Nat /\ Delay \in Nat
  /\ MaxBusy \in Nat /\ MaxReports \in Nat /\ None \notin Conns
  BY SessionAssumption

LEMMA QueueIs ==
  ASSUME NEW q \in Queue
  PROVE  /\ q \in Seq(Msg) /\ Len(q) \in Nat /\ DOMAIN q = 1..Len(q)
         /\ \A i \in DOMAIN q : q[i] \in Msg /\ q[i].age \in 0..Delay
         /\ \A i, j \in DOMAIN q : i < j => q[i].age >= q[j].age
         /\ q # <<>> => 1 \in DOMAIN q /\ Head(q) = q[1]
         /\ q = <<>> => DOMAIN q = {}
  <1>1. q \in Seq(Msg) /\ \A i, j \in DOMAIN q : i < j => q[i].age >= q[j].age
    BY DEF Queue
  <1>2. Len(q) \in Nat /\ DOMAIN q = 1..Len(q)
    BY <1>1, LenProperties
  <1>3. \A i \in DOMAIN q : q[i] \in Msg
    BY <1>1, <1>2, ElementOfSeq
  <1>4. \A m \in Msg : m.age \in 0..Delay
    BY DEF Msg
  <1>5. q # <<>> <=> Len(q) # 0
    BY <1>1, EmptySeq
  <1>6. QED
    BY <1>1, <1>2, <1>3, <1>4, <1>5

\* What is written now is the youngest.
LEMMA Appended ==
  ASSUME NEW q \in Queue, NEW new \in Seq(Msg), \A i \in DOMAIN new : new[i].age = 0
  PROVE  /\ q \o new \in Queue /\ Len(q \o new) = Len(q) + Len(new)
         /\ \A i \in DOMAIN q : i \in DOMAIN (q \o new) /\ (q \o new)[i] = q[i]
         /\ \A i \in DOMAIN new : Len(q) + i \in DOMAIN (q \o new) /\ (q \o new)[Len(q) + i] = new[i]
         /\ \A i \in DOMAIN (q \o new) : i \in DOMAIN q \/ i - Len(q) \in DOMAIN new
  <1>1. q \in Seq(Msg) /\ Len(q) \in Nat /\ DOMAIN q = 1..Len(q)
    BY QueueIs
  <1>2. Len(new) \in Nat /\ DOMAIN new = 1..Len(new)
    BY LenProperties
  <1>3. /\ q \o new \in Seq(Msg) /\ Len(q \o new) = Len(q) + Len(new)
        /\ \A i \in 1 .. Len(q) + Len(new) :
             (q \o new)[i] = IF i <= Len(q) THEN q[i] ELSE new[i - Len(q)]
    BY <1>1, ConcatProperties
  <1>4. DOMAIN (q \o new) = 1 .. Len(q) + Len(new)
    BY <1>3, LenProperties
  <1> DEFINE r == q \o new
  <1>5. \A i \in DOMAIN q : i \in DOMAIN r /\ r[i] = q[i]
    BY <1>1, <1>2, <1>3, <1>4
  <1>6. \A i \in DOMAIN new : Len(q) + i \in DOMAIN r /\ r[Len(q) + i] = new[i]
    BY <1>1, <1>2, <1>3, <1>4
  <1>7. \A i \in DOMAIN r :
          i \in DOMAIN q \/ (i - Len(q) \in DOMAIN new /\ i > Len(q) /\ r[i] = new[i - Len(q)])
    BY <1>1, <1>2, <1>3, <1>4
  <1>8. \A i, j \in DOMAIN r : i < j => r[i].age >= r[j].age
    <2> SUFFICES ASSUME NEW i \in DOMAIN r, NEW j \in DOMAIN r, i < j PROVE r[i].age >= r[j].age
      OBVIOUS
    <2>1. i \in Nat /\ j \in Nat
      BY <1>1, <1>2, <1>4
    <2>2. CASE j \in DOMAIN q
      <3>1. i \in DOMAIN q
        BY <1>1, <1>4, <2>1, <2>2
      <3>2. QED
        BY <1>5, <2>2, <3>1, QueueIs
    <2>3. CASE j - Len(q) \in DOMAIN new /\ j > Len(q) /\ r[j] = new[j - Len(q)]
      <3>1. r[j].age = 0
        BY <2>3
      <3>2. r[i].age \in Nat
        <4>1. CASE i \in DOMAIN q
          BY <1>5, <4>1, QueueIs, Parameters
        <4>2. CASE i - Len(q) \in DOMAIN new /\ r[i] = new[i - Len(q)]
          BY <4>2
        <4>3. QED
          BY <1>7, <4>1, <4>2
      <3>3. QED
        BY <3>1, <3>2
    <2>4. QED
      BY <1>7, <2>2, <2>3
  <1>9. r \in Queue
    BY <1>3, <1>8 DEF Queue
  <1>10. QED
    BY <1>3, <1>5, <1>6, <1>7, <1>9

\* Reading a message.
LEMMA TailIs ==
  ASSUME NEW q \in Queue, q # <<>>
  PROVE  /\ Tail(q) \in Queue /\ Len(Tail(q)) = Len(q) - 1
         /\ \A i \in DOMAIN Tail(q) : i + 1 \in DOMAIN q /\ Tail(q)[i] = q[i + 1]
         /\ \A i \in DOMAIN q \ {1} : i - 1 \in DOMAIN Tail(q) /\ Tail(q)[i - 1] = q[i]
  <1>1. q \in Seq(Msg) /\ Len(q) \in Nat /\ DOMAIN q = 1..Len(q) /\ 1 \in DOMAIN q
    BY QueueIs
  <1>2. /\ Tail(q) \in Seq(Msg) /\ Len(Tail(q)) = Len(q) - 1
        /\ \A i \in 1 .. Len(Tail(q)) : Tail(q)[i] = q[i + 1]
    BY <1>1, HeadTailProperties
  <1>3. DOMAIN Tail(q) = 1 .. Len(q) - 1
    BY <1>2, LenProperties
  <1>4. \A i \in DOMAIN Tail(q) : i \in Nat /\ i + 1 \in DOMAIN q /\ Tail(q)[i] = q[i + 1]
    BY <1>1, <1>2, <1>3
  <1>5. \A i \in DOMAIN q \ {1} : i - 1 \in DOMAIN Tail(q) /\ Tail(q)[i - 1] = q[i]
    <2> SUFFICES ASSUME NEW i \in DOMAIN q \ {1}
                 PROVE  i - 1 \in DOMAIN Tail(q) /\ Tail(q)[i - 1] = q[i]
      OBVIOUS
    <2>1. i \in Nat /\ i - 1 \in DOMAIN Tail(q) /\ (i - 1) + 1 = i
      BY <1>1, <1>3
    <2>2. QED
      BY <1>4, <2>1
  <1>6. \A i, j \in DOMAIN Tail(q) : i < j => Tail(q)[i].age >= Tail(q)[j].age
    <2> SUFFICES ASSUME NEW i \in DOMAIN Tail(q), NEW j \in DOMAIN Tail(q), i < j
                 PROVE  Tail(q)[i].age >= Tail(q)[j].age
      OBVIOUS
    <2>1. /\ i + 1 \in DOMAIN q /\ j + 1 \in DOMAIN q /\ i + 1 < j + 1
          /\ Tail(q)[i] = q[i + 1] /\ Tail(q)[j] = q[j + 1]
      BY <1>4
    <2>2. q[i + 1].age >= q[j + 1].age
      BY <2>1, QueueIs
    <2>3. QED
      BY <2>1, <2>2
  <1>7. QED
    BY <1>2, <1>4, <1>5, <1>6 DEF Queue

\* What is left of a queue when its connection dies.
LEMMA PrefixIs ==
  ASSUME NEW q \in Queue, NEW n \in 0..Len(q)
  PROVE  /\ SubSeq(q, 1, n) \in Queue
         /\ \A i \in DOMAIN SubSeq(q, 1, n) : i \in DOMAIN q /\ SubSeq(q, 1, n)[i] = q[i]
  <1>1. q \in Seq(Msg) /\ Len(q) \in Nat /\ DOMAIN q = 1..Len(q)
    BY QueueIs
  <1>2. n \in Nat /\ \A i \in 1..n : q[i] \in Msg
    BY <1>1, QueueIs
  <1>3. /\ SubSeq(q, 1, n) \in Seq(Msg)
        /\ Len(SubSeq(q, 1, n)) = n
        /\ \A i \in 1 .. n : SubSeq(q, 1, n)[i] = q[i]
    <2>1. /\ SubSeq(q, 1, n) \in Seq(Msg)
          /\ Len(SubSeq(q, 1, n)) = IF 1 <= n THEN n - 1 + 1 ELSE 0
          /\ \A i \in 1 .. n - 1 + 1 : SubSeq(q, 1, n)[i] = q[1 + i - 1]
      BY <1>2, SubSeqProperties
    <2>2. n - 1 + 1 = n /\ \A i \in 1..n : 1 + i - 1 = i
      BY <1>2
    <2>3. QED
      BY <1>2, <2>1, <2>2
  <1>4. DOMAIN SubSeq(q, 1, n) = 1..n
    BY <1>3, LenProperties
  <1>5. \A i \in DOMAIN SubSeq(q, 1, n) : i \in DOMAIN q /\ SubSeq(q, 1, n)[i] = q[i]
    BY <1>1, <1>3, <1>4
  <1>6. \A i, j \in DOMAIN SubSeq(q, 1, n) : i < j => SubSeq(q, 1, n)[i].age >= SubSeq(q, 1, n)[j].age
    BY <1>5, QueueIs
  <1>7. QED
    BY <1>3, <1>5, <1>6 DEF Queue

\* A tick ages every message.
Aged(q) == [i \in DOMAIN q |-> [q[i] EXCEPT !.age = IF @ < Delay THEN @ + 1 ELSE @]]

LEMMA AgedIs ==
  ASSUME NEW q \in Queue
  PROVE  /\ Aged(q) \in Queue /\ DOMAIN Aged(q) = DOMAIN q
         /\ \A i \in DOMAIN q :
              /\ Aged(q)[i].type = q[i].type
              /\ Aged(q)[i].age = IF q[i].age < Delay THEN q[i].age + 1 ELSE q[i].age
  <1>1. q \in Seq(Msg) /\ Len(q) \in Nat /\ DOMAIN q = 1..Len(q)
    BY QueueIs
  <1>2. \A m \in Msg :
          LET older == [m EXCEPT !.age = IF @ < Delay THEN @ + 1 ELSE @]
          IN  /\ older \in Msg /\ older.type = m.type
              /\ older.age = IF m.age < Delay THEN m.age + 1 ELSE m.age
    BY Parameters DEF Msg
  <1>3. DOMAIN Aged(q) = DOMAIN q
    BY DEF Aged
  <1>4. \A i \in DOMAIN q :
          /\ Aged(q)[i] \in Msg /\ Aged(q)[i].type = q[i].type
          /\ Aged(q)[i].age = IF q[i].age < Delay THEN q[i].age + 1 ELSE q[i].age
    BY <1>2, QueueIs DEF Aged
  <1>5. Aged(q) \in [1..Len(q) -> Msg]
    BY <1>1, <1>3, <1>4 DEF Aged
  <1>6. Aged(q) \in Seq(Msg)
    BY <1>1, <1>5
  <1>7. \A i, j \in DOMAIN Aged(q) : i < j => Aged(q)[i].age >= Aged(q)[j].age
    <2> SUFFICES ASSUME NEW i \in DOMAIN q, NEW j \in DOMAIN q, i < j
                 PROVE  Aged(q)[i].age >= Aged(q)[j].age
      BY <1>3
    <2>1. q[i].age \in 0..Delay /\ q[j].age \in 0..Delay /\ q[i].age >= q[j].age
      BY QueueIs
    <2>2. QED
      BY <1>4, <2>1, Parameters
  <1>8. QED
    BY <1>3, <1>4, <1>6, <1>7 DEF Queue

ReportPlaces(q) == {i \in DOMAIN q : q[i].type = "report"}

LEMMA ReportsType ==
  ASSUME NEW q \in Queue
  PROVE  IsFiniteSet(ReportPlaces(q)) /\ ReportsIn(q) \in Nat /\ ReportsIn(q) = Cardinality(ReportPlaces(q))
  <1>1. IsFiniteSet(1..Len(q))
    BY QueueIs, FS_Interval
  <1>2. ReportPlaces(q) \in SUBSET (1..Len(q))
    BY QueueIs DEF ReportPlaces
  <1>3. IsFiniteSet(ReportPlaces(q))
    BY <1>1, <1>2, FS_Subset
  <1>4. QED
    BY <1>3, FS_CardinalityType DEF ReportsIn, ReportPlaces

\* A queue with reports at the same places, or at fewer, has as many, or no more.
LEMMA FewerReports ==
  ASSUME NEW q \in Queue, NEW r \in Queue, ReportPlaces(r) \subseteq ReportPlaces(q)
  PROVE  ReportsIn(r) <= ReportsIn(q) /\ (ReportPlaces(r) = ReportPlaces(q) => ReportsIn(r) = ReportsIn(q))
  <1>1. ReportPlaces(r) \in SUBSET ReportPlaces(q)
    OBVIOUS
  <1>2. Cardinality(ReportPlaces(r)) <= Cardinality(ReportPlaces(q))
    BY <1>1, ReportsType, FS_Subset
  <1>3. QED
    BY <1>2, ReportsType

LEMMA NoReports ==
  ASSUME NEW q \in Queue, \A i \in DOMAIN q : q[i].type # "report" PROVE ReportsIn(q) = 0
  <1>1. ReportPlaces(q) = {}
    BY DEF ReportPlaces
  <1>2. QED
    BY <1>1, ReportsType, FS_EmptySet

\* A written report counts for one.
LEMMA ReportWritten ==
  ASSUME NEW q \in Queue, NEW m \in Msg, m.age = 0
  PROVE  /\ Append(q, m) \in Queue /\ Append(q, m) = q \o <<m>>
         /\ \A i \in DOMAIN q : i \in DOMAIN Append(q, m) /\ Append(q, m)[i] = q[i]
         /\ Len(q) + 1 \in DOMAIN Append(q, m) /\ Append(q, m)[Len(q) + 1] = m
         /\ m.type = "report" => ReportsIn(Append(q, m)) = ReportsIn(q) + 1
         /\ m.type # "report" => ReportsIn(Append(q, m)) = ReportsIn(q)
  <1> DEFINE r == q \o <<m>>
  <1>1. q \in Seq(Msg) /\ Len(q) \in Nat /\ DOMAIN q = 1..Len(q)
    BY QueueIs
  <1>2. Append(q, m) = r
    BY <1>1, AppendIsConcat
  <1>3. <<m>> \in Seq(Msg) /\ Len(<<m>>) = 1 /\ DOMAIN <<m>> = {1} /\ <<m>>[1] = m
    OBVIOUS
  <1>4. /\ r \in Queue
        /\ \A i \in DOMAIN q : i \in DOMAIN r /\ r[i] = q[i]
        /\ Len(q) + 1 \in DOMAIN r /\ r[Len(q) + 1] = m
        /\ \A i \in DOMAIN r : i \in DOMAIN q \/ i - Len(q) = 1
    <2> DEFINE new == <<m>>
    <2>1. /\ new \in Seq(Msg) /\ (\A i \in DOMAIN new : new[i].age = 0)
          /\ 1 \in DOMAIN new /\ new[1] = m /\ \A i \in DOMAIN new : i = 1
      BY <1>3
    <2> HIDE DEF new
    <2>2. /\ q \o new \in Queue
          /\ \A i \in DOMAIN q : i \in DOMAIN (q \o new) /\ (q \o new)[i] = q[i]
          /\ \A i \in DOMAIN new : Len(q) + i \in DOMAIN (q \o new) /\ (q \o new)[Len(q) + i] = new[i]
          /\ \A i \in DOMAIN (q \o new) : i \in DOMAIN q \/ i - Len(q) \in DOMAIN new
      BY <2>1, Appended
    <2>3. QED
      BY <2>1, <2>2 DEF new
  <1> HIDE DEF r
  <1>5. \A i \in DOMAIN r : i \in DOMAIN q \/ i = Len(q) + 1
    <2>1. r \in Seq(Msg) /\ DOMAIN r = 1..Len(r) /\ Len(r) \in Nat
      BY <1>4, QueueIs
    <2>2. QED
      BY <1>1, <1>4, <2>1
  <1>6. Len(q) + 1 \notin DOMAIN q
    BY <1>1
  <1>7. ASSUME m.type = "report" PROVE ReportsIn(r) = ReportsIn(q) + 1
    <2>1. ReportPlaces(r) = ReportPlaces(q) \cup {Len(q) + 1}
      BY <1>4, <1>5, <1>7 DEF ReportPlaces
    <2>2. Len(q) + 1 \notin ReportPlaces(q)
      BY <1>6 DEF ReportPlaces
    <2>3. Cardinality(ReportPlaces(r)) = Cardinality(ReportPlaces(q)) + 1
      BY <2>1, <2>2, ReportsType, FS_AddElement
    <2>4. QED
      BY <1>4, <2>3, ReportsType
  <1>8. ASSUME m.type # "report" PROVE ReportsIn(r) = ReportsIn(q)
    <2>1. ReportPlaces(r) = ReportPlaces(q)
      BY <1>4, <1>5, <1>6, <1>8 DEF ReportPlaces
    <2>2. QED
      BY <1>4, <2>1, FewerReports
  <1>9. QED
    BY <1>2, <1>4, <1>7, <1>8

\* A read report counts for one less.
LEMMA ReportRead ==
  ASSUME NEW q \in Queue, q # <<>>
  PROVE  /\ q[1].type = "report" => ReportsIn(q) = ReportsIn(Tail(q)) + 1
         /\ q[1].type # "report" => ReportsIn(q) = ReportsIn(Tail(q))
  <1> DEFINE t == Tail(q)
             shift == [i \in ReportPlaces(t) |-> i + 1]
             later == ReportPlaces(q) \ {1}
  <1>1. /\ t \in Queue
        /\ \A i \in DOMAIN t : i + 1 \in DOMAIN q /\ t[i] = q[i + 1]
        /\ \A i \in DOMAIN q \ {1} : i - 1 \in DOMAIN t /\ t[i - 1] = q[i]
    BY TailIs
  <1>2. DOMAIN q \subseteq Nat /\ DOMAIN t \subseteq Nat /\ 1 \in DOMAIN q /\ 0 \notin DOMAIN t
    BY <1>1, QueueIs
  <1> HIDE DEF t
  <1>3. shift \in Bijection(ReportPlaces(t), later)
    <2>1. \A i \in ReportPlaces(t) : i \in Nat \ {0} /\ i + 1 \in later
      BY <1>1, <1>2 DEF ReportPlaces
    <2>2. shift \in [ReportPlaces(t) -> later]
      BY <2>1
    <2>3. \A i, j \in ReportPlaces(t) : shift[i] = shift[j] => i = j
      BY <2>1
    <2>4. \A k \in later : \E i \in ReportPlaces(t) : shift[i] = k
      <3> SUFFICES ASSUME NEW k \in later PROVE \E i \in ReportPlaces(t) : shift[i] = k
        OBVIOUS
      <3>1. k \in Nat /\ k - 1 \in ReportPlaces(t)
        BY <1>1, <1>2 DEF ReportPlaces
      <3>2. shift[k - 1] = k
        BY <3>1
      <3>3. QED
        BY <3>1, <3>2
    <2>5. QED
      BY <2>2, <2>3, <2>4 DEF Bijection, Injection, Surjection, IsInjective
  <1>4. Cardinality(later) = Cardinality(ReportPlaces(t))
    BY <1>1, <1>3, ReportsType, FS_Bijection DEF ExistsBijection
  <1>5. Cardinality(later) = IF 1 \in ReportPlaces(q) THEN Cardinality(ReportPlaces(q)) - 1
                             ELSE Cardinality(ReportPlaces(q))
    BY ReportsType, FS_RemoveElement
  <1>6. ReportsIn(q) \in Nat /\ ReportsIn(q) = Cardinality(ReportPlaces(q))
        /\ ReportsIn(t) = Cardinality(ReportPlaces(t))
    BY <1>1, ReportsType
  <1>7. 1 \in ReportPlaces(q) <=> q[1].type = "report"
    BY <1>2 DEF ReportPlaces
  <1>8. QED
    BY <1>4, <1>5, <1>6, <1>7 DEF t

LEMMA CostIs ==
  /\ \A n \in Nat : Cost(n) \in Nat /\ Cost(n + 1) = Cost(n) + MaxBusy
  /\ \A m, n \in Nat : m <= n => Cost(m) <= Cost(n)
  <1>1. MaxBusy \in Nat
    BY Parameters
  <1>2. \A n \in Nat : MaxBusy * n \in Nat /\ MaxBusy * (n + 1) = MaxBusy * n + MaxBusy
    BY <1>1
  <1>3. \A m, n \in Nat : m <= n => MaxBusy * m <= MaxBusy * n
    BY <1>1
  <1>4. QED
    BY <1>2, <1>3 DEF Cost

(***************************************************************************)
(* The steps, for one connection.                                          *)
(***************************************************************************)

\* What is written with no age.
LEMMA MessageIs ==
  ASSUME NEW t \in {"register", "ack", "nack", "ping", "pong", "report", "eof"}
  PROVE  Message(t) \in Msg /\ Message(t).type = t /\ Message(t).age = 0
  BY Parameters DEF Message, Msg

LEMMA AllReportsCost == Cost(MaxReports) \in Nat
  BY CostIs, Parameters

LEMMA AnsweredByIs ==
  \A n \in Nat : AnsweredBy(n) \in Nat /\ AnsweredBy(n) = PingInterval + Delay + n
  BY Parameters DEF AnsweredBy

\* A connection at which nothing changes.
LEMMA Untouched ==
  ASSUME NEW c \in Conns, ConnOK(c), reports' = reports,
         link'[c] = link[c], deadFor'[c] = deadFor[c], handler'[c] = handler[c],
         toMaster'[c] = toMaster[c], toSlave'[c] = toSlave[c],
         (slave' = slave /\ stalled' = stalled) \/ (slave.conn # c /\ slave'.conn # c)
  PROVE  ConnOK(c)'
  <1>1. LinkOK(c)' /\ HandlerClock(c)'
    BY DEF ConnOK, LinkOK, HandlerClock, Spent
  <1>2. SlaveClock(c)' /\ HandlerHears(c)' /\ SlaveHears(c)'
    <2>1. CASE slave' = slave /\ stalled' = stalled
      BY <2>1 DEF ConnOK, SlaveClock, HandlerHears, SlaveHears
    <2>2. CASE slave'.conn # c
      BY <2>2 DEF SlaveClock, HandlerHears, SlaveHears
    <2>3. QED
      BY <2>1, <2>2
  <1>3. QED
    BY <1>1, <1>2 DEF ConnOK

LEMMA SpentIs ==
  ASSUME NEW c \in Conns, ConnOK(c), ArraysOK, RegistryOK, SessionInv, handler[c].phase # "none"
  PROVE  /\ reports \in 0..MaxReports /\ ReportsIn(toMaster[c]) \in 0..reports
         /\ Spent(c) \in Nat /\ Spent(c) <= Cost(MaxReports)
         /\ handler[c].busy \in Nat /\ handler[c].timer \in 0..IdleDeadline
  <1>1. toMaster[c] \in Queue /\ handler[c].busy \in Nat /\ handler[c].timer \in 0..IdleDeadline
    BY DEF ArraysOK, ConnOK, HandlerClock
  <1>2. reports \in 0..MaxReports /\ ReportsIn(toMaster[c]) \in 0..reports
    BY <1>1, ReportsType DEF RegistryOK, ConnOK, HandlerClock
  <1>3. /\ reports - ReportsIn(toMaster[c]) \in Nat
        /\ reports - ReportsIn(toMaster[c]) <= MaxReports
    BY <1>2, Parameters
  <1>4. /\ Cost(reports - ReportsIn(toMaster[c])) \in Nat /\ Cost(MaxReports) \in Nat
        /\ Cost(reports - ReportsIn(toMaster[c])) <= Cost(MaxReports)
    BY <1>3, CostIs, Parameters
  <1>5. 0 <= Spent(c)
    BY DEF ConnOK, HandlerClock
  <1>6. QED
    BY <1>1, <1>2, <1>4, <1>5 DEF Spent

\* More on the way to a handler that nothing else happened to.
LEMMA ToMasterGrows ==
  ASSUME NEW c \in Conns, ConnOK(c), ArraysOK, RegistryOK, SessionInv, UNCHANGED <<slave, stalled>>,
         link'[c] = link[c], deadFor'[c] = deadFor[c], handler'[c] = handler[c],
         toSlave'[c] = toSlave[c],
         toMaster'[c] \in Queue, link[c] # "ok" => toMaster'[c] = toMaster[c],
         \A i \in DOMAIN toMaster[c] : i \in DOMAIN toMaster'[c] /\ toMaster'[c][i] = toMaster[c][i],
         reports' \in Nat,
         reports - ReportsIn(toMaster[c]) <= reports' - ReportsIn(toMaster'[c])
  PROVE  ConnOK(c)'
  <1>1. toMaster[c] \in Queue
    BY DEF ArraysOK
  <1>2. handler[c].phase # "none" =>
          Spent(c)' >= Spent(c) /\ Spent(c) \in Nat /\ Spent(c)' \in Nat /\ ReportsIn(toMaster'[c]) <= reports'
    <2> SUFFICES ASSUME handler[c].phase # "none"
                 PROVE  /\ Spent(c)' >= Spent(c) /\ Spent(c) \in Nat /\ Spent(c)' \in Nat
                        /\ ReportsIn(toMaster'[c]) <= reports'
      OBVIOUS
    <2> DEFINE m == reports - ReportsIn(toMaster[c])
               n == reports' - ReportsIn(toMaster'[c])
    <2>1. m \in Nat /\ Spent(c) \in Nat /\ handler[c].busy \in Nat
      BY SpentIs
    <2>2. n \in Nat /\ ReportsIn(toMaster'[c]) <= reports'
      BY <2>1, ReportsType
    <2>3. Cost(m) \in Nat /\ Cost(n) \in Nat /\ Cost(m) <= Cost(n)
      BY <2>1, <2>2, CostIs
    <2>4. Spent(c) = Cost(m) - handler[c].busy /\ Spent(c)' = Cost(n) - handler[c].busy
      BY DEF Spent, Cost
    <2>5. QED
      BY <2>1, <2>2, <2>3, <2>4
  <1>3. LinkOK(c)'
    BY DEF ConnOK, LinkOK
  <1>4. HandlerClock(c)'
    <2> SUFFICES ASSUME handler[c].phase # "none" PROVE HandlerClock(c)'
      BY DEF HandlerClock
    <2>1. /\ handler[c].timer \in 0..IdleDeadline /\ handler[c].busy \in Nat
          /\ link[c] = "dead" =>
               /\ deadFor[c] <= Delay + Spent(c) + handler[c].timer
               /\ toMaster[c] # <<>> => deadFor[c] <= Delay + Spent(c)
      BY DEF ConnOK, HandlerClock
    <2>2. link[c] = "dead" =>
            /\ deadFor[c] <= Delay + Spent(c)' + handler[c].timer
            /\ toMaster[c] # <<>> => deadFor[c] <= Delay + Spent(c)'
      BY <1>2, <2>1, Parameters DEF ArraysOK
    <2>3. 0 <= Spent(c)' /\ ReportsIn(toMaster'[c]) <= reports'
      BY <1>2
    <2>4. QED
      BY <2>1, <2>2, <2>3 DEF HandlerClock
  <1>5. SlaveClock(c)'
    BY DEF ConnOK, SlaveClock
  <1>6. HandlerHears(c)'
    <2>1. toMaster[c] # <<>> => toMaster'[c] # <<>> /\ toMaster'[c][1] = toMaster[c][1]
      BY <1>1, QueueIs
    <2>2. QED
      BY <2>1 DEF ConnOK, HandlerHears
  <1>7. SlaveHears(c)'
    <2> SUFFICES ASSUME slave.conn = c, link[c] = "ok" PROVE SlaveHears(c)'
      BY DEF SlaveHears
    <2>1. SlaveHears(c)
      BY DEF ConnOK
    <2>2. SlaveClock(c)
      BY DEF ConnOK
    <2>3. ASSUME slave.phase = "up", handler[c].phase # "none",
                 NEW i \in DOMAIN toMaster[c], toMaster[c][i].type = "ping",
                 slave.timer <= PingInterval + toMaster[c][i].age + stalled
          PROVE  slave.timer <= PingInterval + toMaster'[c][i].age + stalled'
      <3>1. toMaster[c][i].age \in 0..Delay /\ slave.timer \in Nat
        BY <1>1, <2>2, QueueIs DEF SlaveClock
      <3>2. QED
        BY <2>3, <3>1, Parameters
    <2>4. QED
      BY <2>1, <2>3 DEF SlaveHears
  <1>8. QED
    BY <1>3, <1>4, <1>5, <1>6, <1>7 DEF ConnOK

\* A new connection.
LEMMA DialClocks ==
  ASSUME TimeInv, NEW d \in Conns, Dial(d)
  PROVE  /\ ArraysOK' /\ RegistryOK' /\ DownClock'
         /\ \A c \in Conns : ConnOK(c)'
  <1> DEFINE first == <<Message("register")>>
  <1>1. /\ handler \in [Conns -> HandlerType] /\ slave \in SlaveType
        /\ ArraysOK /\ RegistryOK /\ DownClock /\ \A c \in Conns : ConnOK(c)
    BY DEF TimeInv, SessionInv, ShapeOK
  <1>2. /\ first \in Queue /\ first # <<>> /\ first[1] = Message("register") /\ first[1].age = 0
        /\ \A i \in DOMAIN first : first[i].type # "report"
    <2>1. Message("register") \in Msg /\ Message("register").age = 0 /\ Message("register").type = "register"
      BY MessageIs
    <2>2. first \in Seq(Msg) /\ DOMAIN first = {1} /\ first[1] = Message("register") /\ first # <<>>
      BY <2>1
    <2> HIDE DEF first
    <2>3. \A i, j \in DOMAIN first : i < j => first[i].age >= first[j].age
      BY <2>2
    <2>4. QED
      BY <2>1, <2>2, <2>3 DEF Queue
  <1>3. <<>> \in Queue
    BY EmptySeq DEF Queue
  <1> HIDE DEF first
  <1>4. /\ slave'.conn = d /\ slave'.phase = "registering" /\ slave'.timer = 0 /\ slave'.ping = 0
        /\ handler'[d].phase = "handshake" /\ handler'[d].timer = 0 /\ handler'[d].busy = 0
        /\ toMaster'[d] = first /\ toSlave'[d] = <<>> /\ link'[d] = "ok" /\ deadFor'[d] = 0
        /\ UNCHANGED <<reports, registry, lastSeen, goneFor>> /\ slave.phase = "dialing" /\ stalled' = 0
    BY <1>1 DEF Dial, Idle, Gone, ArraysOK, first
  <1>5. \A c \in Conns \ {d} : /\ link'[c] = link[c] /\ deadFor'[c] = deadFor[c] /\ handler'[c] = handler[c]
                               /\ toMaster'[c] = toMaster[c] /\ toSlave'[c] = toSlave[c]
    BY <1>1 DEF Dial, ArraysOK
  <1>6. \A c \in Conns : slave.conn # c
    BY <1>1, <1>4 DEF ConnOK, SlaveClock
  <1>7. \A c \in Conns \ {d} : ConnOK(c)'
    <2> SUFFICES ASSUME NEW c \in Conns \ {d} PROVE ConnOK(c)'
      OBVIOUS
    <2>1. slave.conn # c /\ slave'.conn # c /\ reports' = reports /\ ConnOK(c)
      BY <1>1, <1>4, <1>6
    <2>2. QED
      BY <1>5, <2>1, Untouched
  <1>8. ConnOK(d)'
    <2>1. reports \in Nat /\ ReportsIn(first) = 0
      BY <1>1, <1>2, NoReports, Parameters DEF RegistryOK
    <2>2. Spent(d)' = Cost(reports) /\ Cost(reports) \in Nat
      <3>1. Spent(d)' = Cost(reports - 0) - 0
        BY <1>4, <2>1 DEF Spent, Cost
      <3>2. reports - 0 = reports /\ Cost(reports) \in Nat
        BY <2>1, CostIs
      <3>3. QED
        BY <3>1, <3>2
    <2>3. LinkOK(d)' /\ SlaveClock(d)'
      BY <1>4, Parameters DEF LinkOK, SlaveClock
    <2>4. HandlerClock(d)'
      BY <1>4, <2>1, <2>2, Parameters DEF HandlerClock
    <2>5. HandlerHears(d)' /\ SlaveHears(d)'
      BY <1>2, <1>4 DEF HandlerHears, SlaveHears
    <2>6. QED
      BY <2>3, <2>4, <2>5 DEF ConnOK
  <1>9. ArraysOK'
    BY <1>1, <1>2, <1>3 DEF Dial, ArraysOK, first
  <1>10. RegistryOK' /\ DownClock'
    <2>1. RegistryOK'
      BY <1>1, <1>4, <1>5 DEF RegistryOK
    <2>2. goneFor = 0
      BY <1>1, <1>4 DEF DownClock
    <2>3. QED
      BY <1>4, <2>1, <2>2 DEF DownClock
  <1>11. QED
    BY <1>7, <1>8, <1>9, <1>10

\* What the slave writes.
LEMMA WrittenToMaster ==
  ASSUME ArraysOK, NEW c \in Conns,
         NEW t \in {"ping", "report", "eof"}, toMaster' = SendToMaster(c, t)
  PROVE  /\ toMaster' \in [Conns -> Queue]
         /\ \A d \in Conns \ {c} : toMaster'[d] = toMaster[d]
         /\ \A i \in DOMAIN toMaster[c] : i \in DOMAIN toMaster'[c] /\ toMaster'[c][i] = toMaster[c][i]
         /\ link[c] # "ok" \/ handler[c].phase = "none" => toMaster'[c] = toMaster[c]
         /\ link[c] = "ok" /\ handler[c].phase # "none" =>
              \E i \in DOMAIN toMaster'[c] : toMaster'[c][i].type = t /\ toMaster'[c][i].age = 0
         /\ t # "report" => ReportsIn(toMaster'[c]) = ReportsIn(toMaster[c])
         /\ ReportsIn(toMaster'[c]) <= ReportsIn(toMaster[c]) + 1
         /\ ReportsIn(toMaster[c]) \in Nat /\ ReportsIn(toMaster'[c]) \in Nat
  <1> DEFINE q == toMaster[c]
             m == Message(t)
  <1>1. q \in Queue /\ toMaster \in [Conns -> Queue]
    BY DEF ArraysOK
  <1>2. m \in Msg /\ m.type = t /\ m.age = 0
    BY MessageIs
  <1> HIDE DEF m
  <1>3. /\ Append(q, m) \in Queue
        /\ \A i \in DOMAIN q : i \in DOMAIN Append(q, m) /\ Append(q, m)[i] = q[i]
        /\ Len(q) + 1 \in DOMAIN Append(q, m) /\ Append(q, m)[Len(q) + 1] = m
        /\ m.type = "report" => ReportsIn(Append(q, m)) = ReportsIn(q) + 1
        /\ m.type # "report" => ReportsIn(Append(q, m)) = ReportsIn(q)
    BY <1>1, <1>2, ReportWritten
  <1>4. ReportsIn(q) \in Nat
    BY <1>1, ReportsType
  <1>5. CASE ~(link[c] = "ok" /\ handler[c].phase # "none")
    <2>1. toMaster' = toMaster
      BY <1>5 DEF SendToMaster
    <2>2. QED
      BY <1>1, <1>4, <1>5, <2>1
  <1>6. CASE link[c] = "ok" /\ handler[c].phase # "none"
    <2>1. toMaster' = [toMaster EXCEPT ![c] = Append(q, m)]
      BY <1>6 DEF SendToMaster, m
    <2>2. /\ toMaster'[c] = Append(q, m) /\ \A d \in Conns \ {c} : toMaster'[d] = toMaster[d]
          /\ toMaster' \in [Conns -> Queue]
      BY <1>1, <1>3, <2>1
    <2>3. /\ \A i \in DOMAIN q : i \in DOMAIN toMaster'[c] /\ toMaster'[c][i] = q[i]
          /\ \E i \in DOMAIN toMaster'[c] : toMaster'[c][i].type = t /\ toMaster'[c][i].age = 0
      BY <1>2, <1>3, <2>2
    <2>4. /\ t # "report" => ReportsIn(toMaster'[c]) = ReportsIn(q)
          /\ ReportsIn(toMaster'[c]) <= ReportsIn(q) + 1
          /\ ReportsIn(toMaster'[c]) \in Nat
      BY <1>2, <1>3, <1>4, <2>2
    <2>5. QED
      BY <1>4, <1>6, <2>2, <2>3, <2>4
  <1>7. QED
    BY <1>5, <1>6

\* After runOnce the slave has no connection.
LEMMA EndOnceIs ==
  ASSUME EndOnce PROVE slave'.conn = None /\ slave'.phase \in {"sleeping", "stopped"}
  BY DEF EndOnce, Idle

\* The slave gives up an attempt or a session.
LEMMA CloseClocks ==
  ASSUME TimeInv, NEW d \in Conns, slave.conn = d, slave.phase \in {"registering", "up"},
         EndOnce, SlaveCloses(d),
         UNCHANGED <<masterVars, timeVars>>
  PROVE  /\ ArraysOK' /\ RegistryOK' /\ DownClock'
         /\ \A c \in Conns : ConnOK(c)'
  <1>1. /\ handler \in [Conns -> HandlerType] /\ slave \in SlaveType /\ SessionInv
        /\ ArraysOK /\ RegistryOK /\ DownClock /\ \A c \in Conns : ConnOK(c)
    BY DEF TimeInv, SessionInv, ShapeOK
  <1>2. slave'.conn = None /\ slave'.phase \in {"sleeping", "stopped"} /\ None \notin Conns
    BY EndOnceIs, Parameters
  <1>3. /\ UNCHANGED <<handler, registry, lastSeen, deadFor, goneFor, reports, stalled>>
        /\ toMaster' = SendToMaster(d, "eof")
        /\ toSlave' = [toSlave EXCEPT ![d] = <<>>]
        /\ link' = [link EXCEPT ![d] = Released(d, FALSE, handler[d].phase # "none")]
    BY DEF SlaveCloses, masterVars, timeVars
  <1>4. /\ toMaster' \in [Conns -> Queue]
        /\ \A c \in Conns \ {d} : toMaster'[c] = toMaster[c]
        /\ \A i \in DOMAIN toMaster[d] : i \in DOMAIN toMaster'[d] /\ toMaster'[d][i] = toMaster[d][i]
        /\ link[d] # "ok" \/ handler[d].phase = "none" => toMaster'[d] = toMaster[d]
        /\ ReportsIn(toMaster'[d]) = ReportsIn(toMaster[d])
    BY <1>1, <1>3, WrittenToMaster
  <1>5. <<>> \in Queue
    BY EmptySeq DEF Queue
  <1>6. Released(d, FALSE, handler[d].phase # "none") = IF handler[d].phase # "none" THEN link[d] ELSE "free"
    BY DEF Released
  <1>7. ArraysOK'
    BY <1>1, <1>3, <1>4, <1>5, <1>6 DEF ArraysOK
  <1>8. \A c \in Conns \ {d} : ConnOK(c)'
    <2> SUFFICES ASSUME NEW c \in Conns \ {d} PROVE ConnOK(c)'
      OBVIOUS
    <2>1. /\ link'[c] = link[c] /\ deadFor'[c] = deadFor[c] /\ handler'[c] = handler[c]
          /\ toMaster'[c] = toMaster[c] /\ toSlave'[c] = toSlave[c] /\ reports' = reports
      BY <1>1, <1>3, <1>4 DEF ArraysOK
    <2>2. slave.conn # c /\ slave'.conn # c /\ ConnOK(c)
      BY <1>1, <1>2
    <2>3. QED
      BY <2>1, <2>2, Untouched
  <1>9. ConnOK(d)'
    <2>1. SlaveClock(d)' /\ HandlerHears(d)' /\ SlaveHears(d)'
      BY <1>2 DEF SlaveClock, HandlerHears, SlaveHears
    <2>2. /\ link'[d] = IF handler[d].phase # "none" THEN link[d] ELSE "free"
          /\ toSlave'[d] = <<>> /\ deadFor' = deadFor /\ handler' = handler /\ reports' = reports
      BY <1>1, <1>3, <1>6 DEF ArraysOK
    <2>3. LinkOK(d) /\ HandlerClock(d)
      BY <1>1 DEF ConnOK
    <2>4. LinkOK(d)'
      <3>1. AsOld(<<>>, deadFor[d])
        BY DEF AsOld
      <3>2. QED
        BY <1>2, <1>4, <2>2, <2>3, <3>1 DEF LinkOK
    <2>5. HandlerClock(d)'
      <3>1. Spent(d)' = Spent(d)
        BY <1>4, <2>2 DEF Spent
      <3>2. handler[d].phase # "none" /\ link'[d] = "dead" => link[d] = "dead" /\ toMaster'[d] = toMaster[d]
        BY <1>4, <2>2
      <3>3. QED
        BY <1>4, <2>2, <2>3, <3>1, <3>2 DEF HandlerClock
    <2>6. QED
      BY <2>1, <2>4, <2>5 DEF ConnOK
  <1>10. RegistryOK' /\ DownClock'
    BY <1>1, <1>2, <1>3 DEF RegistryOK, DownClock
  <1>11. QED
    BY <1>7, <1>8, <1>9, <1>10

\* The slave reads an ack or a pong: its read deadline starts again.
LEMMA HearClocks ==
  ASSUME TimeInv, NEW d \in Conns, slave.conn = d,
         toSlave[d] # <<>>, Head(toSlave[d]).type # "eof",
         slave'.conn = d, slave'.phase = "up", slave'.timer = 0,
         \/ slave.phase = "registering" /\ slave'.ping = 0
         \/ slave.phase = "up" /\ slave'.ping = slave.ping,
         toSlave' = [toSlave EXCEPT ![d] = Tail(@)],
         stalled' = 0, UNCHANGED <<masterVars, link, toMaster, deadFor, goneFor, reports>>
  PROVE  /\ ArraysOK' /\ RegistryOK' /\ DownClock'
         /\ \A c \in Conns : ConnOK(c)'
  <1>1. ArraysOK /\ RegistryOK /\ DownClock /\ \A c \in Conns : ConnOK(c)
    BY DEF TimeInv
  <1>2. UNCHANGED <<handler, registry, lastSeen, deadFor, goneFor, reports, link, toMaster>>
    BY DEF masterVars
  <1> DEFINE q == toSlave[d]
             t == Tail(toSlave[d])
  <1>3. q \in Queue /\ toSlave \in [Conns -> Queue]
    BY <1>1 DEF ArraysOK
  <1>4. /\ t \in Queue
        /\ \A i \in DOMAIN t : i + 1 \in DOMAIN q /\ t[i] = q[i + 1]
        /\ \A i \in DOMAIN q \ {1} : i - 1 \in DOMAIN t /\ t[i - 1] = q[i]
        /\ Head(q) = q[1] /\ 1 \in DOMAIN q /\ q[1].age \in 0..Delay
    BY <1>3, TailIs, QueueIs
  <1>5. toSlave'[d] = t /\ toSlave' \in [Conns -> Queue] /\ \A c \in Conns \ {d} : toSlave'[c] = toSlave[c]
    BY <1>3, <1>4
  <1>6. \A i \in DOMAIN t : t[i].age \in 0..Delay
    BY <1>4, QueueIs
  <1> HIDE DEF t
  <1>7. \A c \in Conns \ {d} : ConnOK(c)'
    <2> SUFFICES ASSUME NEW c \in Conns \ {d} PROVE ConnOK(c)'
      OBVIOUS
    <2>1. /\ link'[c] = link[c] /\ deadFor'[c] = deadFor[c] /\ handler'[c] = handler[c]
          /\ toMaster'[c] = toMaster[c] /\ toSlave'[c] = toSlave[c] /\ reports' = reports
      BY <1>2, <1>5
    <2>2. slave.conn # c /\ slave'.conn # c /\ ConnOK(c)
      BY <1>1
    <2>3. QED
      BY <2>1, <2>2, Untouched
  <1>8. LinkOK(d) /\ HandlerClock(d) /\ SlaveClock(d) /\ HandlerHears(d) /\ SlaveHears(d)
    BY <1>1 DEF ConnOK
  <1>9. LinkOK(d)'
    <2>1. ASSUME NEW n, AsOld(q, n) PROVE AsOld(t, n)
      BY <1>4, <2>1 DEF AsOld
    <2>2. QED
      BY <1>2, <1>5, <1>8, <2>1 DEF LinkOK
  <1>10. HandlerClock(d)'
    BY <1>2, <1>8 DEF HandlerClock, Spent
  <1>11. SlaveClock(d)'
    <2>1. slave'.ping \in 0..PingInterval
      BY <1>8, Parameters DEF SlaveClock
    <2>2. link[d] = "dead" => deadFor[d] <= Delay
      BY <1>8 DEF SlaveClock
    <2>3. deadFor[d] \in Nat
      BY <1>1 DEF ArraysOK
    <2>4. link'[d] = "dead" =>
            /\ deadFor'[d] <= Delay + slave'.timer
            /\ toSlave'[d] # <<>> => deadFor'[d] <= Delay
      BY <1>2, <2>2, <2>3, Parameters
    <2>5. QED
      BY <2>1, <2>4, Parameters DEF SlaveClock
  <1>12. HandlerHears(d)'
    <2> SUFFICES ASSUME link[d] = "ok" PROVE HandlerHears(d)'
      BY <1>2 DEF HandlerHears
    <2>1. handler[d].phase # "handshake"
      BY <1>8 DEF HandlerHears
    <2>2. CASE slave.phase = "registering" /\ slave'.ping = 0
      <3>1. handler[d].phase = "serving" => handler[d].timer <= q[1].age /\ handler[d].timer \in Nat
        BY <1>8, <2>2 DEF HandlerHears, HandlerClock
      <3>2. handler[d].phase = "serving" => handler[d].timer <= slave'.ping + Delay
        BY <1>4, <2>2, <3>1, Parameters
      <3>3. QED
        BY <1>2, <2>1, <3>2 DEF HandlerHears
    <2>3. CASE slave.phase = "up" /\ slave'.ping = slave.ping
      BY <1>2, <1>8, <2>1, <2>3 DEF HandlerHears
    <2>4. QED
      BY <2>2, <2>3
  <1>13. SlaveHears(d)'
    <2> SUFFICES ASSUME link[d] = "ok" PROVE SlaveHears(d)'
      BY <1>2 DEF SlaveHears
    <2>1. slave'.timer <= slave'.ping
      BY <1>8, Parameters DEF SlaveClock
    <2>2. ASSUME handler[d].phase = "none"
          PROVE  \E j \in DOMAIN t : t[j].type = "eof"
      BY <1>4, <1>8, <2>2 DEF SlaveHears
    <2>3. \A j \in DOMAIN t : slave'.timer <= AnsweredBy(stalled') + t[j].age
      <3>1. AnsweredBy(stalled') = AnsweredBy(0) /\ AnsweredBy(0) \in Nat
        BY AnsweredByIs
      <3>2. QED
        BY <1>6, <3>1, Parameters
    <2>4. handler'[d].phase = handler[d].phase /\ toSlave'[d] = t
      BY <1>2, <1>5
    <2>5. CASE handler[d].phase = "none"
      <3>1. \E j \in DOMAIN t : t[j].type = "eof" /\ slave'.timer <= AnsweredBy(stalled') + t[j].age
        BY <2>2, <2>3, <2>5
      <3>2. QED
        BY <2>4, <2>5, <3>1 DEF SlaveHears
    <2>6. CASE handler[d].phase # "none"
      BY <2>1, <2>4, <2>6 DEF SlaveHears
    <2>7. QED
      BY <2>5, <2>6
  <1>14. ArraysOK' /\ RegistryOK' /\ DownClock'
    <2>1. ArraysOK'
      BY <1>1, <1>2, <1>5 DEF ArraysOK
    <2>2. RegistryOK'
      BY <1>1, <1>2 DEF RegistryOK
    <2>3. slave.phase # "down" /\ slave'.phase # "down"
      OBVIOUS
    <2>4. QED
      BY <1>1, <1>2, <2>1, <2>2, <2>3 DEF DownClock
  <1>15. QED
    BY <1>7, <1>9, <1>10, <1>11, <1>12, <1>13, <1>14 DEF ConnOK

\* The slave pings.
LEMMA PingClocks ==
  ASSUME TimeInv, NEW d \in Conns, runPingLoop(d)
  PROVE  /\ ArraysOK' /\ RegistryOK' /\ DownClock'
         /\ \A c \in Conns : ConnOK(c)'
  <1>1. /\ ArraysOK /\ RegistryOK /\ DownClock /\ (\A c \in Conns : ConnOK(c))
        /\ SessionInv /\ slave \in SlaveType
    BY DEF TimeInv, SessionInv, ShapeOK
  <1>2. /\ UNCHANGED <<handler, registry, lastSeen, deadFor, goneFor, reports, stalled, link, toSlave>>
        /\ slave.phase = "up" /\ slave.conn = d /\ slave.ping >= PingInterval
        /\ toMaster' = SendToMaster(d, "ping")
    BY DEF runPingLoop, masterVars, timeVars
  <1>3. slave'.phase = "up" /\ slave'.conn = d /\ slave'.timer = slave.timer /\ slave'.ping = 0
    BY <1>1, <1>2 DEF runPingLoop, SlaveType
  <1> DEFINE q == toMaster[d]
             r == toMaster'[d]
  <1>4. /\ toMaster' \in [Conns -> Queue]
        /\ \A c \in Conns \ {d} : toMaster'[c] = toMaster[c]
        /\ \A i \in DOMAIN q : i \in DOMAIN r /\ r[i] = q[i]
        /\ link[d] # "ok" \/ handler[d].phase = "none" => r = q
        /\ link[d] = "ok" /\ handler[d].phase # "none" =>
             \E i \in DOMAIN r : r[i].type = "ping" /\ r[i].age = 0
        /\ ReportsIn(r) = ReportsIn(q)
    BY <1>1, <1>2, WrittenToMaster
  <1> HIDE DEF r
  <1>5. \A c \in Conns \ {d} : ConnOK(c)'
    <2> SUFFICES ASSUME NEW c \in Conns \ {d} PROVE ConnOK(c)'
      OBVIOUS
    <2>1. /\ link'[c] = link[c] /\ deadFor'[c] = deadFor[c] /\ handler'[c] = handler[c]
          /\ toMaster'[c] = toMaster[c] /\ toSlave'[c] = toSlave[c] /\ reports' = reports
      BY <1>2, <1>4
    <2>2. slave.conn # c /\ slave'.conn # c /\ ConnOK(c)
      BY <1>1, <1>2, <1>3
    <2>3. QED
      BY <2>1, <2>2, Untouched
  <1>6. LinkOK(d) /\ HandlerClock(d) /\ SlaveClock(d) /\ HandlerHears(d) /\ SlaveHears(d)
    BY <1>1 DEF ConnOK
  <1>7. slave.ping = PingInterval /\ slave.timer \in Nat
    BY <1>2, <1>6, Parameters DEF SlaveClock
  <1>8. Spent(d)' = Spent(d)
    BY <1>2, <1>4 DEF Spent, r
  <1>9. LinkOK(d)'
    BY <1>2, <1>3, <1>4, <1>6 DEF LinkOK, r
  <1>10. HandlerClock(d)'
    BY <1>2, <1>4, <1>6, <1>8 DEF HandlerClock, r
  <1>11. SlaveClock(d)'
    BY <1>2, <1>3, <1>6, Parameters DEF SlaveClock
  <1>12. HandlerHears(d)'
    <2> SUFFICES ASSUME link[d] = "ok", handler[d].phase # "none" PROVE HandlerHears(d)'
      BY <1>2 DEF HandlerHears
    <2>1. handler[d].phase # "handshake"
      BY <1>2, <1>6 DEF HandlerHears
    <2>2. PICK i \in DOMAIN r : r[i].type = "ping" /\ r[i].age = 0
      BY <1>4
    <2>3. handler[d].timer <= slave.ping + Delay => handler[d].timer <= PingInterval + Delay + r[i].age
      BY <1>6, <1>7, <2>2, Parameters DEF HandlerClock
    <2>4. handler[d].phase = "serving" =>
            \E k \in DOMAIN r : r[k].type = "ping" /\ handler[d].timer <= PingInterval + Delay + r[k].age
      BY <1>2, <1>4, <1>6, <2>2, <2>3 DEF HandlerHears
    <2>5. QED
      BY <1>2, <1>3, <2>1, <2>4 DEF HandlerHears, r
  <1>13. SlaveHears(d)'
    <2> SUFFICES ASSUME link[d] = "ok" PROVE SlaveHears(d)'
      BY <1>2 DEF SlaveHears
    <2>1. CASE handler[d].phase = "none"
      BY <1>2, <1>3, <1>6, <2>1 DEF SlaveHears
    <2>2. CASE handler[d].phase # "none"
      <3>1. PICK i \in DOMAIN r : r[i].type = "ping" /\ r[i].age = 0
        BY <1>4, <2>2
      <3>2. stalled \in Nat
        BY <1>1 DEF RegistryOK
      <3>3. slave.timer <= slave.ping => slave.timer <= PingInterval + r[i].age + stalled
        BY <1>7, <3>1, <3>2, Parameters
      <3>4. \/ \E k \in DOMAIN r :
                 r[k].type = "ping" /\ slave.timer <= PingInterval + r[k].age + stalled
            \/ \E j \in DOMAIN toSlave[d] : slave.timer <= AnsweredBy(stalled) + toSlave[d][j].age
        BY <1>2, <1>4, <1>6, <3>1, <3>3 DEF SlaveHears
      <3>5. QED
        BY <1>2, <1>3, <2>2, <3>4 DEF SlaveHears, r
    <2>3. QED
      BY <2>1, <2>2
  <1>14. ArraysOK' /\ RegistryOK' /\ DownClock'
    BY <1>1, <1>2, <1>3, <1>4 DEF ArraysOK, RegistryOK, DownClock
  <1>15. QED
    BY <1>5, <1>9, <1>10, <1>11, <1>12, <1>13, <1>14 DEF ConnOK

\* The slave reports.
LEMMA ReportClocks ==
  ASSUME TimeInv, NEW d \in Conns, Report(d)
  PROVE  /\ ArraysOK' /\ RegistryOK' /\ DownClock'
         /\ \A c \in Conns : ConnOK(c)'
  <1>1. /\ ArraysOK /\ RegistryOK /\ DownClock /\ (\A c \in Conns : ConnOK(c)) /\ SessionInv
    BY DEF TimeInv
  <1>2. /\ UNCHANGED <<slave, handler, registry, lastSeen, deadFor, goneFor, stalled, link, toSlave>>
        /\ reports < MaxReports /\ reports' = reports + 1
        /\ toMaster' = SendToMaster(d, "report")
    BY DEF Report, slaveVars, masterVars
  <1>3. /\ toMaster' \in [Conns -> Queue]
        /\ \A c \in Conns \ {d} : toMaster'[c] = toMaster[c]
        /\ \A i \in DOMAIN toMaster[d] : i \in DOMAIN toMaster'[d] /\ toMaster'[d][i] = toMaster[d][i]
        /\ link[d] # "ok" \/ handler[d].phase = "none" => toMaster'[d] = toMaster[d]
        /\ ReportsIn(toMaster'[d]) <= ReportsIn(toMaster[d]) + 1
        /\ ReportsIn(toMaster[d]) \in Nat /\ ReportsIn(toMaster'[d]) \in Nat
    BY <1>1, <1>2, WrittenToMaster
  <1>4. reports \in Nat /\ reports' \in 0..MaxReports
    BY <1>1, <1>2, Parameters DEF RegistryOK
  <1>5. ASSUME NEW c \in Conns PROVE ConnOK(c)'
    <2>1. toMaster'[c] \in Queue /\ toMaster[c] \in Queue
      BY <1>1, <1>3 DEF ArraysOK
    <2>2. /\ link[c] # "ok" => toMaster'[c] = toMaster[c]
          /\ \A i \in DOMAIN toMaster[c] : i \in DOMAIN toMaster'[c] /\ toMaster'[c][i] = toMaster[c][i]
          /\ reports - ReportsIn(toMaster[c]) <= reports' - ReportsIn(toMaster'[c])
      <3>1. CASE c = d
        BY <1>2, <1>3, <1>4, <3>1
      <3>2. CASE c # d
        <4>1. toMaster'[c] = toMaster[c]
          BY <1>3, <3>2
        <4>2. ReportsIn(toMaster[c]) \in Nat
          BY <2>1, ReportsType
        <4>3. QED
          BY <1>2, <1>4, <4>1, <4>2
      <3>3. QED
        BY <3>1, <3>2
    <2>3. /\ ConnOK(c) /\ link'[c] = link[c] /\ deadFor'[c] = deadFor[c] /\ handler'[c] = handler[c]
          /\ toSlave'[c] = toSlave[c] /\ reports' \in Nat /\ UNCHANGED <<slave, stalled>>
      BY <1>1, <1>2, <1>4, Parameters
    <2>4. QED
      BY <1>1, <2>1, <2>2, <2>3, ToMasterGrows
  <1>6. ArraysOK' /\ RegistryOK' /\ DownClock'
    BY <1>1, <1>2, <1>3, <1>4 DEF ArraysOK, RegistryOK, DownClock
  <1>7. QED
    BY <1>5, <1>6

\* What a handler writes.
LEMMA WrittenToSlave ==
  ASSUME ArraysOK, NEW c \in Conns,
         NEW types \in Seq({"ack", "nack", "pong", "eof"}), toSlave' = SendToSlave(c, types)
  PROVE  /\ toSlave' \in [Conns -> Queue]
         /\ \A d \in Conns \ {c} : toSlave'[d] = toSlave[d]
         /\ \A i \in DOMAIN toSlave[c] : i \in DOMAIN toSlave'[c] /\ toSlave'[c][i] = toSlave[c][i]
         /\ link[c] # "ok" \/ slave.conn # c => toSlave'[c] = toSlave[c]
         /\ link[c] = "ok" /\ slave.conn = c =>
              \A k \in DOMAIN types : /\ Len(toSlave[c]) + k \in DOMAIN toSlave'[c]
                                      /\ toSlave'[c][Len(toSlave[c]) + k] = Message(types[k])
  <1> DEFINE q == toSlave[c]
             new == [i \in DOMAIN types |-> Message(types[i])]
  <1>1. q \in Queue /\ toSlave \in [Conns -> Queue]
    BY DEF ArraysOK
  <1>2. /\ Len(types) \in Nat /\ DOMAIN types = 1..Len(types)
        /\ \A i \in DOMAIN types : types[i] \in {"ack", "nack", "pong", "eof"}
    <2>1. Len(types) \in Nat /\ DOMAIN types = 1..Len(types)
      BY LenProperties
    <2>2. QED
      BY <2>1, ElementOfSeq
  <1>3. /\ DOMAIN new = DOMAIN types
        /\ \A i \in DOMAIN types : new[i] = Message(types[i]) /\ new[i] \in Msg /\ new[i].age = 0
    BY <1>2, MessageIs
  <1>4. new \in Seq(Msg)
    <2>1. new \in [1..Len(types) -> Msg]
      BY <1>2, <1>3
    <2>2. QED
      BY <1>2, <2>1
  <1>5. CASE ~(link[c] = "ok" /\ slave.conn = c)
    <2>1. toSlave' = toSlave
      BY <1>5 DEF SendToSlave
    <2>2. QED
      BY <1>1, <1>5, <2>1
  <1>6. CASE link[c] = "ok" /\ slave.conn = c
    <2>1. toSlave' = [toSlave EXCEPT ![c] = q \o new]
      BY <1>6 DEF SendToSlave
    <2> HIDE DEF new
    <2>2. /\ q \o new \in Queue
          /\ \A i \in DOMAIN q : i \in DOMAIN (q \o new) /\ (q \o new)[i] = q[i]
          /\ \A i \in DOMAIN new : Len(q) + i \in DOMAIN (q \o new) /\ (q \o new)[Len(q) + i] = new[i]
      BY <1>1, <1>3, <1>4, Appended
    <2>3. toSlave'[c] = q \o new /\ \A d \in Conns \ {c} : toSlave'[d] = toSlave[d]
      BY <1>1, <2>1
    <2>4. toSlave' \in [Conns -> Queue]
      BY <1>1, <2>1, <2>2
    <2>5. QED
      BY <1>3, <1>6, <2>2, <2>3, <2>4
  <1>7. QED
    BY <1>5, <1>6

\* How long the slave has not heard of the master, at most, while a handler works.
LEMMA HeardOf ==
  ASSUME NEW c \in Conns, ConnOK(c), ArraysOK, RegistryOK, SessionInv,
         slave.conn = c, link[c] = "ok", slave.phase = "up", handler[c].phase # "none"
  PROVE  slave.timer <= AnsweredBy(stalled) \/ \E j \in DOMAIN toSlave[c] : slave.timer <= AnsweredBy(stalled) + toSlave[c][j].age
  <1>1. SlaveHears(c) /\ SlaveClock(c) /\ toMaster[c] \in Queue
    BY DEF ConnOK, ArraysOK
  <1>2. slave.timer \in Nat /\ slave.ping \in 0..PingInterval
    BY <1>1, Parameters DEF SlaveClock
  <1>3. stalled \in Nat
    BY DEF RegistryOK
  <1>4. CASE slave.timer <= slave.ping
    BY <1>2, <1>3, <1>4, AnsweredByIs, Parameters
  <1>5. ASSUME NEW i \in DOMAIN toMaster[c], slave.timer <= PingInterval + toMaster[c][i].age + stalled
        PROVE  slave.timer <= AnsweredBy(stalled)
    <2>1. toMaster[c][i].age \in 0..Delay
      BY <1>1, QueueIs
    <2>2. QED
      BY <1>2, <1>3, <1>5, <2>1, AnsweredByIs, Parameters
  <1>6. QED
    BY <1>1, <1>4, <1>5 DEF SlaveHears

\* A handler reads a message: what is left of the queue.
LEMMA HandlerReadsOne ==
  ASSUME TimeInv, NEW c \in Conns, NEW t, HandlerReads(c, t),
         handler'[c].phase # "none", handler'[c].timer = 0,
         handler'[c].busy \in IF t = "report" THEN 0..MaxBusy ELSE {0},
         toMaster' = [toMaster EXCEPT ![c] = Tail(@)],
         UNCHANGED <<reports, link, deadFor>>
  PROVE  /\ toMaster' \in [Conns -> Queue] /\ \A d \in Conns \ {c} : toMaster'[d] = toMaster[d]
         /\ \A i \in DOMAIN toMaster[c] : toMaster[c][i].type # t =>
              i - 1 \in DOMAIN toMaster'[c] /\ toMaster'[c][i - 1] = toMaster[c][i]
         /\ Spent(c) \in Nat /\ Spent(c)' \in Nat /\ Spent(c) <= Spent(c)'
         /\ link[c] = "dead" => AsOld(toMaster'[c], deadFor[c]) /\ deadFor[c] <= Delay + Spent(c)
         /\ HandlerClock(c)'
  <1> DEFINE q == toMaster[c]
             r == Tail(toMaster[c])
             n == reports - ReportsIn(q)
             k == reports - ReportsIn(r)
  <1>1. /\ ArraysOK /\ RegistryOK /\ SessionInv /\ ConnOK(c)
    BY DEF TimeInv
  <1>2. /\ handler[c].phase # "none" /\ handler[c].busy = 0 /\ q # <<>> /\ Head(q).type = t
        /\ q \in Queue /\ toMaster \in [Conns -> Queue]
    BY <1>1 DEF HandlerReads, ArraysOK
  <1>3. /\ r \in Queue
        /\ \A i \in DOMAIN r : i + 1 \in DOMAIN q /\ r[i] = q[i + 1]
        /\ \A i \in DOMAIN q \ {1} : i - 1 \in DOMAIN r /\ r[i - 1] = q[i]
    BY <1>2, TailIs
  <1>4. q[1].type = t /\ 1 \in DOMAIN q
    BY <1>2, QueueIs
  <1>5. /\ t = "report" => ReportsIn(q) = ReportsIn(r) + 1
        /\ t # "report" => ReportsIn(q) = ReportsIn(r)
    BY <1>2, <1>4, ReportRead
  <1>6. ReportsIn(r) \in Nat
    BY <1>3, ReportsType
  <1>7. toMaster'[c] = r /\ toMaster' \in [Conns -> Queue] /\ \A d \in Conns \ {c} : toMaster'[d] = toMaster[d]
    BY <1>2, <1>3
  <1> HIDE DEF r
  <1>8. reports \in 0..MaxReports /\ ReportsIn(q) \in 0..reports /\ Spent(c) \in Nat
    BY <1>1, <1>2, SpentIs
  <1>9. /\ n \in Nat /\ k \in Nat /\ ReportsIn(r) <= reports
        /\ t = "report" => k = n + 1
        /\ t # "report" => k = n
    BY <1>5, <1>6, <1>8, Parameters
  <1>10. Cost(n) \in Nat /\ Cost(k) \in Nat /\ Cost(n + 1) = Cost(n) + MaxBusy
    BY <1>9, CostIs
  <1>11. Spent(c) = Cost(n) /\ Spent(c)' = Cost(k) - handler'[c].busy
    <2>1. Spent(c) = Cost(n) - 0
      BY <1>2 DEF Spent
    <2>2. Spent(c)' = Cost(k) - handler'[c].busy
      BY <1>7 DEF Spent, Cost
    <2>3. QED
      BY <1>10, <2>1, <2>2
  <1>12. /\ t = "report" => Cost(k) = Cost(n) + MaxBusy
         /\ t # "report" => Cost(k) = Cost(n)
    BY <1>9, <1>10
  <1>13. handler'[c].busy \in Nat /\ Spent(c)' \in Nat /\ Spent(c) <= Spent(c)'
    <2>1. CASE t = "report"
      <3>1. handler'[c].busy \in 0..MaxBusy
        BY <2>1
      <3>2. QED
        BY <1>10, <1>11, <1>12, <2>1, <3>1, Parameters
    <2>2. CASE t # "report"
      <3>1. handler'[c].busy = 0
        BY <2>2
      <3>2. QED
        BY <1>10, <1>11, <1>12, <2>2, <3>1
    <2>3. QED
      BY <2>1, <2>2
  <1>14. link[c] = "dead" => deadFor[c] <= Delay + Spent(c) /\ AsOld(q, deadFor[c])
    BY <1>1, <1>2 DEF ConnOK, HandlerClock, LinkOK
  <1>15. link[c] = "dead" => AsOld(r, deadFor[c])
    BY <1>3, <1>14 DEF AsOld
  <1>16. HandlerClock(c)'
    <2>1. deadFor[c] \in Nat
      BY <1>1 DEF ArraysOK
    <2>2. link'[c] = "dead" => deadFor'[c] <= Delay + Spent(c)'
      BY <1>8, <1>13, <1>14, <2>1, Parameters
    <2>3. link'[c] = "dead" => deadFor'[c] <= Delay + Spent(c)' + handler'[c].timer
      BY <1>13, <2>1, <2>2, Parameters
    <2>4. ReportsIn(toMaster'[c]) <= reports' /\ 0 <= Spent(c)'
      <3>1. ReportsIn(r) <= reports
        BY <1>9
      <3>2. ReportsIn(toMaster'[c]) = ReportsIn(r)
        BY <1>7
      <3>3. 0 <= Spent(c)'
        BY <1>13
      <3>4. QED
        BY <3>1, <3>2, <3>3
    <2>5. handler'[c].timer \in 0..IdleDeadline /\ handler'[c].busy \in Nat
      BY <1>13, Parameters
    <2>6. QED
      BY <2>2, <2>3, <2>4, <2>5 DEF HandlerClock
  <1>17. \A i \in DOMAIN q : q[i].type # t => i - 1 \in DOMAIN r /\ r[i - 1] = q[i]
    BY <1>3, <1>4
  <1>18. QED
    BY <1>7, <1>8, <1>13, <1>14, <1>15, <1>16, <1>17

\* Whatever a handler reads counts as a sign of the node's life.
LEMMA SeenNow ==
  ASSUME TimeInv, NEW c \in Conns, handler[c].phase # "none",
         \A d \in Conns : handler'[d].phase = "none" <=> handler[d].phase = "none",
         link[c] = "dead" => deadFor[c] <= Delay + Spent(c),
         lastSeen' = 0, UNCHANGED <<slave, goneFor, link, deadFor>>
  PROVE  DownClock'
  <1>1. ArraysOK /\ RegistryOK /\ SessionInv /\ ConnOK(c) /\ DownClock
    BY DEF TimeInv
  <1>2. Spent(c) \in Nat /\ Spent(c) <= Cost(MaxReports) /\ Cost(MaxReports) \in Nat
    BY <1>1, SpentIs, AllReportsCost
  <1>3. slave.phase = "down" => goneFor <= 0 + Delay + Cost(MaxReports)
    <2> SUFFICES ASSUME slave.phase = "down" PROVE goneFor <= 0 + Delay + Cost(MaxReports)
      OBVIOUS
    <2>1. link[c] = "dead" /\ goneFor <= deadFor[c] /\ goneFor \in Nat
      BY <1>1 DEF DownClock
    <2>2. deadFor[c] \in Nat /\ deadFor[c] <= Delay + Spent(c)
      BY <1>1, <2>1 DEF ArraysOK
    <2>3. QED
      BY <1>2, <2>1, <2>2, Parameters
  <1>4. QED
    BY <1>1, <1>3 DEF DownClock

\* The handler of a connection is closed when another one is registered.
LEMMA ClosedKeeps ==
  ASSUME NEW c \in Conns, ConnOK(c), reports' = reports, UNCHANGED <<slave, stalled>>,
         link'[c] = link[c], deadFor'[c] = deadFor[c],
         toMaster'[c] = toMaster[c], toSlave'[c] = toSlave[c],
         handler[c].phase # "none", handler'[c].phase = "closed",
         handler'[c].timer = handler[c].timer, handler'[c].busy = handler[c].busy
  PROVE  ConnOK(c)'
  <1>1. Spent(c)' = Spent(c)
    BY DEF Spent
  <1>2. LinkOK(c)' /\ HandlerClock(c)' /\ SlaveClock(c)'
    BY <1>1 DEF ConnOK, LinkOK, HandlerClock, SlaveClock
  <1>3. HandlerHears(c)'
    BY DEF HandlerHears
  <1>4. SlaveHears(c)'
    BY DEF ConnOK, SlaveHears
  <1>5. QED
    BY <1>2, <1>3, <1>4 DEF ConnOK

\* A registration.
LEMMA AcceptClocks ==
  ASSUME TimeInv, NEW d \in Conns, Accept(d)
  PROVE  /\ ArraysOK' /\ RegistryOK' /\ DownClock'
         /\ \A c \in Conns : ConnOK(c)'
  <1>1. /\ ArraysOK /\ RegistryOK /\ DownClock /\ (\A c \in Conns : ConnOK(c)) /\ SessionInv
        /\ handler \in [Conns -> HandlerType]
    BY DEF TimeInv, SessionInv, ShapeOK
  <1>2. /\ UNCHANGED <<slave, deadFor, goneFor, stalled, link, reports>> /\ registry' = d /\ lastSeen' = 0
        /\ HandlerReads(d, "register") /\ handler[d].phase = "handshake"
        /\ toMaster' = [toMaster EXCEPT ![d] = Tail(@)]
        /\ toSlave' = SendToSlave(d, <<"ack">>)
    BY DEF Accept, slaveVars, timeVars
  <1>3. handler'[d].phase = "serving" /\ handler'[d].timer = 0 /\ handler'[d].busy = 0
    BY DEF Accept, Gone
  <1>4. \A c \in Conns \ {d} :
          \/ handler'[c] = handler[c]
          \/ /\ c = registry /\ handler[c].phase # "none" /\ handler'[c].phase = "closed"
             /\ handler'[c].timer = handler[c].timer /\ handler'[c].busy = handler[c].busy
    <2> SUFFICES ASSUME NEW c \in Conns \ {d}
                 PROVE  \/ handler'[c] = handler[c]
                        \/ /\ c = registry /\ handler[c].phase # "none" /\ handler'[c].phase = "closed"
                           /\ handler'[c].timer = handler[c].timer /\ handler'[c].busy = handler[c].busy
      OBVIOUS
    <2>1. CASE c # registry
      BY <2>1 DEF Accept
    <2>2. CASE c = registry
      <3>1. handler[c].phase # "none"
        BY <1>1, <2>2, Parameters DEF RegistryOK
      <3>2. handler'[c] = [handler[c] EXCEPT !.phase = "closed"]
        BY <2>2 DEF Accept
      <3>3. handler[c] \in HandlerType
        BY <1>1
      <3>4. QED
        BY <2>2, <3>1, <3>2, <3>3 DEF HandlerType
    <2>3. QED
      BY <2>1, <2>2
  <1>5. /\ toMaster' \in [Conns -> Queue] /\ \A c \in Conns \ {d} : toMaster'[c] = toMaster[c]
        /\ link[d] = "dead" => AsOld(toMaster'[d], deadFor[d]) /\ deadFor[d] <= Delay + Spent(d)
        /\ HandlerClock(d)'
    BY <1>2, <1>3, HandlerReadsOne
  <1>6. <<"ack">> \in Seq({"ack", "nack", "pong", "eof"}) /\ 1 \in DOMAIN <<"ack">> /\ <<"ack">>[1] = "ack"
    OBVIOUS
  <1>7. /\ toSlave' \in [Conns -> Queue] /\ \A c \in Conns \ {d} : toSlave'[c] = toSlave[c]
        /\ link[d] # "ok" \/ slave.conn # d => toSlave'[d] = toSlave[d]
        /\ link[d] = "ok" /\ slave.conn = d =>
             /\ Len(toSlave[d]) + 1 \in DOMAIN toSlave'[d]
             /\ toSlave'[d][Len(toSlave[d]) + 1] = Message("ack")
    BY <1>1, <1>2, <1>6, WrittenToSlave
  <1>8. \A c \in Conns \ {d} : ConnOK(c)'
    <2> SUFFICES ASSUME NEW c \in Conns \ {d} PROVE ConnOK(c)'
      OBVIOUS
    <2>1. /\ link'[c] = link[c] /\ deadFor'[c] = deadFor[c] /\ UNCHANGED <<slave, stalled>>
          /\ toMaster'[c] = toMaster[c] /\ toSlave'[c] = toSlave[c] /\ reports' = reports /\ ConnOK(c)
      BY <1>1, <1>2, <1>5, <1>7
    <2>2. CASE handler'[c] = handler[c]
      BY <2>1, <2>2, Untouched
    <2>3. CASE /\ handler[c].phase # "none" /\ handler'[c].phase = "closed"
               /\ handler'[c].timer = handler[c].timer /\ handler'[c].busy = handler[c].busy
      BY <2>1, <2>3, ClosedKeeps
    <2>4. QED
      BY <1>4, <2>2, <2>3
  <1>9. LinkOK(d) /\ SlaveClock(d) /\ HandlerHears(d)
    BY <1>1 DEF ConnOK
  <1>10. LinkOK(d)' /\ SlaveClock(d)'
    <2>1. link[d] = "dead" => toSlave'[d] = toSlave[d]
      BY <1>7
    <2>2. LinkOK(d)'
      BY <1>2, <1>3, <1>5, <1>9, <2>1 DEF LinkOK
    <2>3. SlaveClock(d)'
      BY <1>2, <1>9, <2>1 DEF SlaveClock
    <2>4. QED
      BY <2>2, <2>3
  <1>11. HandlerHears(d)' /\ SlaveHears(d)'
    <2> SUFFICES ASSUME slave.conn = d, link[d] = "ok" PROVE HandlerHears(d)' /\ SlaveHears(d)'
      BY <1>2 DEF HandlerHears, SlaveHears
    <2>1. slave.phase = "registering" /\ toSlave[d] = <<>>
      BY <1>2, <1>9 DEF HandlerHears
    <2>2. toSlave'[d] # <<>> /\ 0 <= toSlave'[d][1].age
      <3>1. toSlave'[d] \in Queue /\ Len(toSlave[d]) = 0
        BY <1>7, <2>1
      <3>2. 1 \in DOMAIN toSlave'[d]
        BY <1>7, <3>1
      <3>3. QED
        BY <3>1, <3>2, QueueIs, Parameters
    <2>3. QED
      BY <1>2, <1>3, <2>1, <2>2 DEF HandlerHears, SlaveHears
  <1>12. DownClock'
    <2>1. \A c \in Conns : handler'[c].phase = "none" <=> handler[c].phase = "none"
      BY <1>2, <1>3, <1>4
    <2>2. QED
      BY <1>2, <1>5, <2>1, SeenNow
  <1>13. ArraysOK' /\ RegistryOK'
    BY <1>1, <1>2, <1>3, <1>5, <1>7 DEF ArraysOK, RegistryOK
  <1>14. QED
    BY <1>5, <1>8, <1>10, <1>11, <1>12, <1>13 DEF ConnOK

\* A handler reads a ping, or a report that may keep it busy.
LEMMA ServeClocks ==
  ASSUME TimeInv, NEW d \in Conns, Ping(d) \/ ShutdownAck(d)
  PROVE  /\ ArraysOK' /\ RegistryOK' /\ DownClock'
         /\ \A c \in Conns : ConnOK(c)'
  <1> DEFINE t == IF Ping(d) THEN "ping" ELSE "report"
  <1>1. /\ ArraysOK /\ RegistryOK /\ DownClock /\ (\A c \in Conns : ConnOK(c)) /\ SessionInv
        /\ handler \in [Conns -> HandlerType]
    BY DEF TimeInv, SessionInv, ShapeOK
  <1>2. /\ UNCHANGED <<slave, deadFor, goneFor, stalled, link, reports, registry>> /\ lastSeen' = 0
        /\ handler[d].phase = "serving" /\ toMaster' = [toMaster EXCEPT ![d] = Tail(@)]
    BY DEF Ping, ShutdownAck, slaveVars, timeVars
  <1>3. HandlerReads(d, t) /\ (Ping(d) => t = "ping") /\ (~Ping(d) => t = "report")
    BY DEF Ping, ShutdownAck
  <1>4. \A c \in Conns \ {d} : handler'[c] = handler[c]
    BY <1>1 DEF Ping, ShutdownAck
  <1>5. /\ handler'[d].phase = "serving" /\ handler'[d].timer = 0
        /\ Ping(d) => handler'[d].busy = 0
        /\ ~Ping(d) => handler'[d].busy \in 0..MaxBusy
    <2>1. handler[d] \in HandlerType /\ handler[d].busy = 0
      BY <1>1, <1>3 DEF HandlerReads
    <2>2. CASE Ping(d)
      <3>1. handler'[d] = [handler[d] EXCEPT !.timer = 0]
        BY <1>1, <2>2 DEF Ping
      <3>2. QED
        BY <1>2, <2>1, <2>2, <3>1 DEF HandlerType
    <2>3. CASE ~Ping(d)
      <3>1. PICK n \in 0..MaxBusy : handler' = [handler EXCEPT ![d].busy = n, ![d].timer = 0]
        BY <2>3 DEF ShutdownAck
      <3> DEFINE busy == [handler[d] EXCEPT !.busy = n]
      <3>2. handler'[d] = [busy EXCEPT !.timer = 0]
        BY <1>1, <3>1
      <3>3. busy \in HandlerType /\ busy.phase = handler[d].phase /\ busy.busy = n
        BY <2>1, Parameters DEF HandlerType
      <3> HIDE DEF busy
      <3>4. /\ [busy EXCEPT !.timer = 0].timer = 0 /\ [busy EXCEPT !.timer = 0].phase = busy.phase
            /\ [busy EXCEPT !.timer = 0].busy = busy.busy
        BY <3>3 DEF HandlerType
      <3>5. QED
        BY <1>2, <2>3, <3>2, <3>3, <3>4
    <2>4. QED
      BY <2>2, <2>3
  <1> HIDE DEF t
  <1>6. handler'[d].phase # "none" /\ handler'[d].busy \in IF t = "report" THEN 0..MaxBusy ELSE {0}
    BY <1>3, <1>5, Parameters
  <1>7. /\ toMaster' \in [Conns -> Queue] /\ \A c \in Conns \ {d} : toMaster'[c] = toMaster[c]
        /\ \A i \in DOMAIN toMaster[d] : toMaster[d][i].type # t =>
             i - 1 \in DOMAIN toMaster'[d] /\ toMaster'[d][i - 1] = toMaster[d][i]
        /\ Spent(d) \in Nat /\ Spent(d)' \in Nat /\ Spent(d) <= Spent(d)'
        /\ link[d] = "dead" => AsOld(toMaster'[d], deadFor[d]) /\ deadFor[d] <= Delay + Spent(d)
        /\ HandlerClock(d)'
    BY <1>2, <1>3, <1>5, <1>6, HandlerReadsOne
  <1>8. /\ toSlave' \in [Conns -> Queue]
        /\ \A c \in Conns \ {d} : toSlave'[c] = toSlave[c]
        /\ \A i \in DOMAIN toSlave[d] : i \in DOMAIN toSlave'[d] /\ toSlave'[d][i] = toSlave[d][i]
        /\ link[d] # "ok" \/ slave.conn # d => toSlave'[d] = toSlave[d]
        /\ Ping(d) /\ link[d] = "ok" /\ slave.conn = d => \E j \in DOMAIN toSlave'[d] : toSlave'[d][j].age = 0
    <2>1. CASE Ping(d)
      <3>1. /\ <<"pong">> \in Seq({"ack", "nack", "pong", "eof"}) /\ 1 \in DOMAIN <<"pong">>
            /\ <<"pong">>[1] = "pong"
        OBVIOUS
      <3>2. toSlave' = SendToSlave(d, <<"pong">>) /\ Message("pong").age = 0
        BY <2>1, MessageIs DEF Ping
      <3>3. /\ toSlave' \in [Conns -> Queue]
            /\ \A c \in Conns \ {d} : toSlave'[c] = toSlave[c]
            /\ \A i \in DOMAIN toSlave[d] : i \in DOMAIN toSlave'[d] /\ toSlave'[d][i] = toSlave[d][i]
            /\ link[d] # "ok" \/ slave.conn # d => toSlave'[d] = toSlave[d]
            /\ link[d] = "ok" /\ slave.conn = d =>
                 /\ Len(toSlave[d]) + 1 \in DOMAIN toSlave'[d]
                 /\ toSlave'[d][Len(toSlave[d]) + 1] = Message("pong")
        BY <1>1, <3>1, <3>2, WrittenToSlave
      <3>4. QED
        BY <3>2, <3>3
    <2>2. CASE ~Ping(d)
      <3>1. toSlave' = toSlave
        BY <2>2 DEF ShutdownAck
      <3>2. QED
        BY <1>1, <2>2, <3>1 DEF ArraysOK
    <2>3. QED
      BY <2>1, <2>2
  <1>9. \A c \in Conns \ {d} : ConnOK(c)'
    <2> SUFFICES ASSUME NEW c \in Conns \ {d} PROVE ConnOK(c)'
      OBVIOUS
    <2>1. /\ link'[c] = link[c] /\ deadFor'[c] = deadFor[c] /\ handler'[c] = handler[c] /\ UNCHANGED <<slave, stalled>>
          /\ toMaster'[c] = toMaster[c] /\ toSlave'[c] = toSlave[c] /\ reports' = reports /\ ConnOK(c)
      BY <1>1, <1>2, <1>4, <1>7, <1>8
    <2>2. QED
      BY <2>1, Untouched
  <1>10. LinkOK(d) /\ SlaveClock(d) /\ HandlerHears(d) /\ SlaveHears(d)
    BY <1>1 DEF ConnOK
  <1>11. LinkOK(d)' /\ SlaveClock(d)'
    <2>1. link[d] = "dead" => toSlave'[d] = toSlave[d]
      BY <1>8
    <2>2. LinkOK(d)'
      BY <1>2, <1>5, <1>7, <1>10, <2>1 DEF LinkOK
    <2>3. SlaveClock(d)'
      BY <1>2, <1>10, <2>1 DEF SlaveClock
    <2>4. QED
      BY <2>2, <2>3
  <1>12. HandlerHears(d)'
    <2> SUFFICES ASSUME slave.conn = d, link[d] = "ok" PROVE HandlerHears(d)'
      BY <1>2 DEF HandlerHears
    <2>1. toSlave[d] \in Queue /\ toSlave'[d] \in Queue
      BY <1>1, <1>8 DEF ArraysOK
    <2>2. slave.phase = "registering" => toSlave'[d] # <<>> /\ 0 <= toSlave'[d][1].age
      <3> SUFFICES ASSUME slave.phase = "registering" PROVE toSlave'[d] # <<>> /\ 0 <= toSlave'[d][1].age
        OBVIOUS
      <3>1. toSlave[d] # <<>>
        BY <1>2, <1>10 DEF HandlerHears
      <3>2. 1 \in DOMAIN toSlave'[d]
        BY <1>8, <2>1, <3>1, QueueIs
      <3>3. QED
        BY <2>1, <3>2, QueueIs, Parameters
    <2>3. slave.phase = "up" => 0 <= slave.ping + Delay
      BY <1>10, Parameters DEF SlaveClock
    <2>4. QED
      BY <1>2, <1>5, <2>2, <2>3 DEF HandlerHears
  <1>13. SlaveHears(d)'
    <2> SUFFICES ASSUME slave.conn = d, link[d] = "ok", slave.phase = "up" PROVE SlaveHears(d)'
      BY <1>2, <1>5 DEF SlaveHears
    <2>1. slave.timer \in Nat
      BY <1>10 DEF SlaveClock
    <2>2. CASE Ping(d)
      <3>1. PICK j \in DOMAIN toSlave'[d] : toSlave'[d][j].age = 0
        BY <1>8, <2>2
      <3>2. slave.timer <= AnsweredBy(stalled) => slave.timer <= AnsweredBy(stalled) + toSlave'[d][j].age
        BY <1>1, <2>1, <3>1, AnsweredByIs DEF RegistryOK
      <3>3. slave.timer <= AnsweredBy(stalled) \/ \E k \in DOMAIN toSlave[d] : slave.timer <= AnsweredBy(stalled) + toSlave[d][k].age
        BY <1>1, <1>2, HeardOf
      <3>4. \E k \in DOMAIN toSlave'[d] : slave.timer <= AnsweredBy(stalled) + toSlave'[d][k].age
        BY <1>8, <3>1, <3>2, <3>3
      <3>5. QED
        BY <1>2, <1>5, <3>4 DEF SlaveHears
    <2>3. CASE ~Ping(d)
      <3>1. ASSUME NEW i \in DOMAIN toMaster[d], toMaster[d][i].type = "ping",
                   slave.timer <= PingInterval + toMaster[d][i].age + stalled
            PROVE  \E k \in DOMAIN toMaster'[d] :
                     /\ toMaster'[d][k].type = "ping"
                     /\ slave.timer <= PingInterval + toMaster'[d][k].age + stalled'
        <4>1. toMaster[d][i].age \in Nat
          BY <1>1, QueueIs, Parameters DEF ArraysOK
        <4>2. slave.timer <= PingInterval + toMaster[d][i].age + stalled'
          BY <1>2, <3>1
        <4>3. i - 1 \in DOMAIN toMaster'[d] /\ toMaster'[d][i - 1] = toMaster[d][i]
          BY <1>3, <1>7, <2>3, <3>1
        <4>4. QED
          BY <3>1, <4>2, <4>3
      <3>2. \/ slave.timer <= slave.ping
            \/ \E k \in DOMAIN toMaster'[d] :
                 /\ toMaster'[d][k].type = "ping"
                 /\ slave.timer <= PingInterval + toMaster'[d][k].age + stalled'
            \/ \E j \in DOMAIN toSlave'[d] : slave.timer <= AnsweredBy(stalled) + toSlave'[d][j].age
        BY <1>8, <1>10, <3>1 DEF SlaveHears
      <3>3. QED
        BY <1>2, <1>5, <3>2 DEF SlaveHears
    <2>4. QED
      BY <2>2, <2>3
  <1>14. DownClock'
    <2>1. \A c \in Conns : handler'[c].phase = "none" <=> handler[c].phase = "none"
      BY <1>2, <1>4, <1>5
    <2>2. QED
      BY <1>2, <1>7, <2>1, SeenNow
  <1>15. ArraysOK' /\ RegistryOK'
    BY <1>1, <1>2, <1>4, <1>5, <1>7, <1>8 DEF ArraysOK, RegistryOK
  <1>16. QED
    BY <1>7, <1>9, <1>11, <1>12, <1>13, <1>14, <1>15 DEF ConnOK

\* A handler returns; the slave hears of it if it is still there.
LEMMA ReturnClocks ==
  ASSUME TimeInv, NEW d \in Conns, NEW last \in {<<>>, <<"nack">>},
         handler[d].phase # "none", HandlerReturns(d, last)
  PROVE  /\ ArraysOK' /\ RegistryOK' /\ DownClock'
         /\ \A c \in Conns : ConnOK(c)'
  <1>1. /\ ArraysOK /\ RegistryOK /\ DownClock /\ (\A c \in Conns : ConnOK(c)) /\ SessionInv
        /\ handler \in [Conns -> HandlerType]
    BY DEF TimeInv, SessionInv, ShapeOK
  <1>2. /\ UNCHANGED <<slave, lastSeen, deadFor, goneFor, stalled, reports>>
        /\ handler' = [handler EXCEPT ![d] = Gone] /\ registry' = RemoveIfMatch(d)
        /\ toSlave' = SendToSlave(d, last \o <<"eof">>)
        /\ toMaster' = [toMaster EXCEPT ![d] = <<>>]
        /\ link' = [link EXCEPT ![d] = Released(d, slave.conn = d, FALSE)]
    BY DEF HandlerReturns, slaveVars
  <1>3. handler'[d].phase = "none" /\ \A c \in Conns \ {d} : handler'[c] = handler[c]
    BY <1>1, <1>2 DEF Gone
  <1>4. <<>> \in Queue
    BY EmptySeq DEF Queue
  <1>5. /\ toMaster' \in [Conns -> Queue] /\ toMaster'[d] = <<>>
        /\ \A c \in Conns \ {d} : toMaster'[c] = toMaster[c]
    BY <1>1, <1>2, <1>4 DEF ArraysOK
  <1>6. Released(d, slave.conn = d, FALSE) = IF slave.conn = d THEN link[d] ELSE "free"
    BY DEF Released
  <1>7. /\ link' \in [Conns -> {"free", "ok", "dead"}]
        /\ link'[d] = IF slave.conn = d THEN link[d] ELSE "free"
        /\ \A c \in Conns \ {d} : link'[c] = link[c]
    BY <1>1, <1>2, <1>6 DEF ArraysOK
  <1>8. /\ toSlave' \in [Conns -> Queue]
        /\ \A c \in Conns \ {d} : toSlave'[c] = toSlave[c]
        /\ \A i \in DOMAIN toSlave[d] : i \in DOMAIN toSlave'[d] /\ toSlave'[d][i] = toSlave[d][i]
        /\ link[d] # "ok" \/ slave.conn # d => toSlave'[d] = toSlave[d]
        /\ link[d] = "ok" /\ slave.conn = d =>
             \E j \in DOMAIN toSlave'[d] : toSlave'[d][j].type = "eof" /\ toSlave'[d][j].age = 0
    <2> DEFINE types == last \o <<"eof">>
    <2>1. types \in Seq({"ack", "nack", "pong", "eof"}) /\ \E k \in DOMAIN types : types[k] = "eof"
      <3> DEFINE Types == {"ack", "nack", "pong", "eof"}
      <3>1. /\ last \in Seq(Types) /\ <<"eof">> \in Seq(Types) /\ Len(<<"eof">>) = 1 /\ <<"eof">>[1] = "eof"
            /\ Len(last) \in Nat
        <4>1. CASE last = <<>>
          BY <4>1
        <4>2. CASE last = <<"nack">>
          BY <4>2
        <4>3. QED
          BY <4>1, <4>2
      <3>2. /\ types \in Seq(Types) /\ Len(types) = Len(last) + Len(<<"eof">>)
            /\ \A i \in 1 .. Len(last) + Len(<<"eof">>) :
                 types[i] = IF i <= Len(last) THEN last[i] ELSE <<"eof">>[i - Len(last)]
        BY <3>1, ConcatProperties
      <3> DEFINE n == Len(last)
      <3> HIDE DEF types, n
      <3>3. DOMAIN types = 1..n + 1 /\ n \in Nat
        BY <3>1, <3>2, LenProperties DEF n
      <3>4. types[n + 1] = "eof"
        <4>1. types[n + 1] = <<"eof">>[n + 1 - n]
          BY <3>1, <3>2, <3>3 DEF n
        <4>2. n + 1 - n = 1
          BY <3>3
        <4>3. QED
          BY <3>1, <4>1, <4>2
      <3>5. QED
        BY <3>2, <3>3, <3>4
    <2>2. toSlave' = SendToSlave(d, types)
      BY <1>2
    <2> HIDE DEF types
    <2>3. PICK k \in DOMAIN types : types[k] = "eof"
      BY <2>1
    <2>4. /\ toSlave' \in [Conns -> Queue]
          /\ \A c \in Conns \ {d} : toSlave'[c] = toSlave[c]
          /\ \A i \in DOMAIN toSlave[d] : i \in DOMAIN toSlave'[d] /\ toSlave'[d][i] = toSlave[d][i]
          /\ link[d] # "ok" \/ slave.conn # d => toSlave'[d] = toSlave[d]
          /\ link[d] = "ok" /\ slave.conn = d =>
               /\ Len(toSlave[d]) + k \in DOMAIN toSlave'[d]
               /\ toSlave'[d][Len(toSlave[d]) + k] = Message(types[k])
      BY <1>1, <2>1, <2>2, WrittenToSlave
    <2>5. Message(types[k]).type = "eof" /\ Message(types[k]).age = 0
      BY <2>3, MessageIs
    <2>6. QED
      BY <2>4, <2>5
  <1>9. \A c \in Conns \ {d} : ConnOK(c)'
    <2> SUFFICES ASSUME NEW c \in Conns \ {d} PROVE ConnOK(c)'
      OBVIOUS
    <2>1. /\ link'[c] = link[c] /\ deadFor'[c] = deadFor[c] /\ handler'[c] = handler[c] /\ UNCHANGED <<slave, stalled>>
          /\ toMaster'[c] = toMaster[c] /\ toSlave'[c] = toSlave[c] /\ reports' = reports /\ ConnOK(c)
      BY <1>1, <1>2, <1>3, <1>5, <1>7, <1>8
    <2>2. QED
      BY <2>1, Untouched
  <1>10. LinkOK(d) /\ SlaveClock(d) /\ HandlerHears(d) /\ SlaveHears(d)
    BY <1>1 DEF ConnOK
  <1>11. LinkOK(d)' /\ HandlerClock(d)' /\ SlaveClock(d)' /\ HandlerHears(d)'
    <2>1. AsOld(<<>>, deadFor[d])
      BY DEF AsOld
    <2>2. LinkOK(d)'
      BY <1>2, <1>3, <1>5, <1>7, <1>8, <1>10, <2>1 DEF LinkOK
    <2>3. HandlerClock(d)' /\ HandlerHears(d)'
      BY <1>3 DEF HandlerClock, HandlerHears
    <2>4. SlaveClock(d)'
      BY <1>2, <1>7, <1>8, <1>10 DEF SlaveClock
    <2>5. QED
      BY <2>2, <2>3, <2>4
  <1>12. SlaveHears(d)'
    <2> SUFFICES ASSUME slave.conn = d, link[d] = "ok" PROVE SlaveHears(d)'
      BY <1>2, <1>7 DEF SlaveHears
    <2>1. PICK j \in DOMAIN toSlave'[d] : toSlave'[d][j].type = "eof" /\ toSlave'[d][j].age = 0
      BY <1>8
    <2>2. slave.phase = "up" =>
            \E k \in DOMAIN toSlave'[d] : slave.timer <= AnsweredBy(stalled) + toSlave'[d][k].age
      <3> SUFFICES ASSUME slave.phase = "up"
                   PROVE  \E k \in DOMAIN toSlave'[d] : slave.timer <= AnsweredBy(stalled) + toSlave'[d][k].age
        OBVIOUS
      <3>1. slave.timer <= AnsweredBy(stalled) \/ \E k \in DOMAIN toSlave[d] : slave.timer <= AnsweredBy(stalled) + toSlave[d][k].age
        BY <1>1, HeardOf
      <3>2. slave.timer <= AnsweredBy(stalled) => slave.timer <= AnsweredBy(stalled) + toSlave'[d][j].age
        BY <1>1, <1>10, <2>1, AnsweredByIs DEF SlaveClock, RegistryOK
      <3>3. QED
        BY <1>8, <3>1, <3>2
    <2>3. QED
      BY <1>2, <1>3, <2>1, <2>2 DEF SlaveHears
  <1>13. ArraysOK' /\ RegistryOK' /\ DownClock'
    <2>1. ArraysOK'
      BY <1>1, <1>2, <1>5, <1>7, <1>8 DEF ArraysOK
    <2>2. RegistryOK'
      <3>1. registry' = None \/ (registry' = registry /\ registry # d)
        BY <1>2 DEF RemoveIfMatch
      <3>2. QED
        BY <1>1, <1>2, <1>3, <3>1, Parameters DEF RegistryOK
    <2>3. DownClock'
      <3>1. \A c \in Conns : handler'[c].phase # "none" =>
              handler[c].phase # "none" /\ link'[c] = link[c] /\ deadFor'[c] = deadFor[c]
        BY <1>2, <1>3, <1>7
      <3>2. QED
        BY <1>1, <1>2, <3>1 DEF DownClock
    <2>4. QED
      BY <2>1, <2>2, <2>3
  <1>14. QED
    BY <1>9, <1>11, <1>12, <1>13 DEF ConnOK

\* Steps of a slave without a connection, and those that change no clock.
LEMMA QuietClocks ==
  ASSUME TimeInv, DialFails \/ Wakes \/ SlaveStart \/ MasterStart \/ Stop
  PROVE  /\ ArraysOK' /\ RegistryOK' /\ DownClock'
         /\ \A c \in Conns : ConnOK(c)'
  <1>1. /\ ArraysOK /\ RegistryOK /\ DownClock /\ (\A c \in Conns : ConnOK(c))
    BY DEF TimeInv
  <1>2. UNCHANGED <<handler, registry, lastSeen, deadFor, reports, stalled, link, toMaster, toSlave>>
    BY DEF DialFails, Fails, Wakes, SlaveStart, MasterStart, Stop, masterVars, timeVars, wireVars
  <1>3. slave' = slave \/ (slave.phase \in {"dialing", "sleeping", "down"} /\ slave'.conn = None)
    <2>1. CASE DialFails
      BY <2>1, EndOnceIs DEF DialFails, Fails
    <2>2. CASE Wakes
      <3>1. slave' = Idle("stopped") \/ slave' = Idle("dialing")
        <4>1. CASE stopping
          BY <2>2, <4>1 DEF Wakes
        <4>2. CASE ~stopping
          BY <2>2, <4>2 DEF Wakes
        <4>3. QED
          BY <4>1, <4>2
      <3>2. QED
        BY <2>2, <3>1 DEF Wakes, Idle
    <2>3. CASE SlaveStart
      BY <2>3 DEF SlaveStart, Idle
    <2>4. CASE MasterStart \/ Stop
      BY <2>4 DEF MasterStart, Stop, slaveVars
    <2>5. QED
      BY <2>1, <2>2, <2>3, <2>4
  <1>4. ASSUME NEW c \in Conns PROVE ConnOK(c)'
    <2>1. (slave' = slave /\ stalled' = stalled) \/ (slave.conn # c /\ slave'.conn # c)
      BY <1>1, <1>2, <1>3, Parameters DEF ConnOK, SlaveClock
    <2>2. QED
      BY <1>1, <1>2, <2>1, Untouched
  <1>5. DownClock'
    <2>1. CASE SlaveStart
      <3>1. slave'.phase = "dialing" /\ goneFor' = 0
        BY <2>1 DEF SlaveStart, Idle
      <3>2. QED
        BY <3>1 DEF DownClock
    <2>2. CASE ~SlaveStart
      <3>1. goneFor' = goneFor
        BY <2>2 DEF DialFails, Fails, Wakes, MasterStart, Stop, timeVars
      <3>2. slave' = slave \/ (slave.phase # "down" /\ slave'.phase # "down")
        <4>1. CASE DialFails
          BY <4>1, EndOnceIs DEF DialFails, Fails
        <4>2. CASE Wakes /\ stopping
          BY <4>2 DEF Wakes, Idle
        <4>3. CASE Wakes /\ ~stopping
          BY <4>3 DEF Wakes, Idle
        <4>4. CASE MasterStart \/ Stop
          BY <4>4 DEF MasterStart, Stop, slaveVars
        <4>5. QED
          BY <2>2, <4>1, <4>2, <4>3, <4>4
      <3>3. QED
        BY <1>1, <1>2, <3>1, <3>2 DEF DownClock
    <2>3. QED
      BY <2>1, <2>2
  <1>6. ArraysOK' /\ RegistryOK'
    BY <1>1, <1>2 DEF ArraysOK, RegistryOK
  <1>7. QED
    BY <1>4, <1>5, <1>6

\* A link dies, with some of what is on the way.
LEMMA CutClocks ==
  ASSUME TimeInv, NEW d \in Conns, Cut(d)
  PROVE  /\ ArraysOK' /\ RegistryOK' /\ DownClock'
         /\ \A c \in Conns : ConnOK(c)'
  <1>1. /\ ArraysOK /\ RegistryOK /\ DownClock /\ (\A c \in Conns : ConnOK(c)) /\ SessionInv
    BY DEF TimeInv
  <1>2. /\ UNCHANGED <<slave, handler, registry, lastSeen, deadFor, goneFor, reports, stalled>>
        /\ link[d] = "ok" /\ link' = [link EXCEPT ![d] = "dead"]
    BY DEF Cut, slaveVars, masterVars
  <1>3. PICK m \in 0..Len(toMaster[d]), n \in 0..Len(toSlave[d]) :
          /\ toMaster' = [toMaster EXCEPT ![d] = SubSeq(@, 1, m)]
          /\ toSlave' = [toSlave EXCEPT ![d] = SubSeq(@, 1, n)]
    BY DEF Cut
  <1>4. toMaster[d] \in Queue /\ toSlave[d] \in Queue
    BY <1>1 DEF ArraysOK
  <1> DEFINE q == SubSeq(toMaster[d], 1, m)
             r == SubSeq(toSlave[d], 1, n)
  <1>5. /\ q \in Queue /\ r \in Queue
        /\ \A i \in DOMAIN q : i \in DOMAIN toMaster[d] /\ q[i] = toMaster[d][i]
    BY <1>4, PrefixIs
  <1> HIDE DEF q, r
  <1>6. /\ toMaster'[d] = q /\ toSlave'[d] = r /\ link'[d] = "dead"
        /\ \A c \in Conns \ {d} : toMaster'[c] = toMaster[c] /\ toSlave'[c] = toSlave[c] /\ link'[c] = link[c]
    BY <1>1, <1>2, <1>3 DEF ArraysOK, q, r
  <1>7. ArraysOK'
    BY <1>1, <1>2, <1>3, <1>5 DEF ArraysOK, q, r
  <1>8. \A c \in Conns \ {d} : ConnOK(c)'
    BY <1>1, <1>2, <1>6, Untouched
  <1>9. LinkOK(d) /\ HandlerClock(d) /\ SlaveClock(d) /\ deadFor[d] = 0
    BY <1>1, <1>2 DEF ConnOK, LinkOK
  <1>10. AsOld(q, 0) /\ AsOld(r, 0)
    BY <1>5, QueueIs, Parameters DEF AsOld
  <1>11. LinkOK(d)' /\ HandlerHears(d)' /\ SlaveHears(d)'
    BY <1>2, <1>6, <1>9, <1>10 DEF LinkOK, HandlerHears, SlaveHears
  <1>12. SlaveClock(d)'
    BY <1>2, <1>9, Parameters DEF SlaveClock
  <1>13. HandlerClock(d)'
    <2> SUFFICES ASSUME handler[d].phase # "none" PROVE HandlerClock(d)'
      BY <1>2 DEF HandlerClock
    <2> DEFINE k == reports - ReportsIn(toMaster[d])
               l == reports - ReportsIn(q)
    <2>1. ReportPlaces(q) \subseteq ReportPlaces(toMaster[d])
      BY <1>5 DEF ReportPlaces
    <2>2. ReportsIn(q) <= ReportsIn(toMaster[d]) /\ ReportsIn(q) \in Nat
      BY <1>4, <1>5, <2>1, FewerReports, ReportsType
    <2>3. /\ reports \in 0..MaxReports /\ ReportsIn(toMaster[d]) \in 0..reports
          /\ Spent(d) \in Nat /\ handler[d].busy \in Nat
          /\ handler[d].timer \in 0..IdleDeadline
      BY <1>1, SpentIs
    <2>4. k \in Nat /\ l \in Nat /\ k <= l /\ ReportsIn(q) <= reports
      BY <2>2, <2>3, Parameters
    <2>5. Cost(k) \in Nat /\ Cost(l) \in Nat /\ Cost(k) <= Cost(l)
      BY <2>4, CostIs
    <2>6. Spent(d) = Cost(k) - handler[d].busy
      BY DEF Spent
    <2>7. Spent(d)' = Cost(l) - handler[d].busy
      BY <1>2, <1>6 DEF Spent, Cost
    <2>8. Spent(d)' \in Nat
      BY <2>3, <2>5, <2>6, <2>7
    <2>9. ReportsIn(toMaster'[d]) <= reports'
      <3>1. ReportsIn(toMaster'[d]) = ReportsIn(q)
        BY <1>6
      <3>2. QED
        BY <1>2, <2>4, <3>1
    <2>10. /\ 0 <= Spent(d)' /\ deadFor'[d] <= Delay + Spent(d)'
           /\ deadFor'[d] <= Delay + Spent(d)' + handler'[d].timer
      BY <1>2, <1>9, <2>3, <2>8, Parameters
    <2>11. QED
      BY <1>2, <2>3, <2>9, <2>10 DEF HandlerClock
  <1>14. RegistryOK'
    BY <1>1, <1>2 DEF RegistryOK
  <1>15. DownClock'
    <2>1. \A c \in Conns : link[c] = "dead" => link'[c] = "dead"
      BY <1>6
    <2>2. QED
      BY <1>1, <1>2, <2>1 DEF DownClock
  <1>16. QED
    BY <1>7, <1>8, <1>11, <1>12, <1>13, <1>14, <1>15 DEF ConnOK

\* The master dies: the connections that the slave still holds are dead.
LEMMA CrashClocks ==
  ASSUME TimeInv, MasterCrash
  PROVE  /\ ArraysOK' /\ RegistryOK' /\ DownClock'
         /\ \A c \in Conns : ConnOK(c)'
  <1>1. /\ ArraysOK /\ RegistryOK /\ DownClock /\ (\A c \in Conns : ConnOK(c)) /\ SessionInv
    BY DEF TimeInv
  <1>2. /\ UNCHANGED <<slave, toSlave, deadFor, goneFor, reports, stalled>> /\ registry' = None
        /\ \A c \in Conns : /\ handler'[c].phase = "none" /\ toMaster'[c] = <<>>
                            /\ link'[c] = IF slave.conn = c THEN "dead" ELSE "free"
        /\ lastSeen' \in IF lastSeen = None THEN {None} ELSE lastSeen .. OfflineAfter + 1
    BY DEF MasterCrash, slaveVars, Gone
  <1>3. <<>> \in Queue
    BY EmptySeq DEF Queue
  <1>4. ArraysOK'
    BY <1>1, <1>3 DEF MasterCrash, ArraysOK
  <1>5. ASSUME NEW c \in Conns PROVE ConnOK(c)'
    <2>1. LinkOK(c) /\ SlaveClock(c) /\ toSlave[c] \in Queue /\ deadFor[c] \in Nat
          /\ link[c] \in {"free", "ok", "dead"}
      BY <1>1 DEF ConnOK, ArraysOK
    <2>2. HandlerClock(c)' /\ HandlerHears(c)' /\ SlaveHears(c)'
      BY <1>2 DEF HandlerClock, HandlerHears, SlaveHears
    <2>3. AsOld(toSlave[c], 0) /\ \A n : AsOld(<<>>, n)
      BY <2>1, QueueIs, Parameters DEF AsOld
    <2>4. slave.conn = c => link[c] = "dead" \/ deadFor[c] = 0
      BY <2>1 DEF LinkOK
    <2>5. LinkOK(c)'
      BY <1>2, <2>1, <2>3, <2>4 DEF LinkOK
    <2>6. SlaveClock(c)'
      BY <1>2, <2>1, <2>4, Parameters DEF SlaveClock
    <2>7. QED
      BY <2>2, <2>5, <2>6 DEF ConnOK
  <1>6. /\ lastSeen' # None => lastSeen # None /\ lastSeen' \in Nat /\ lastSeen \in Nat /\ lastSeen <= lastSeen'
    <2>1. CASE lastSeen = None
      BY <1>2, <2>1
    <2>2. CASE lastSeen # None
      <3>1. lastSeen \in Nat
        BY <1>1, <2>2 DEF RegistryOK
      <3>2. lastSeen' \in lastSeen .. OfflineAfter + 1
        BY <1>2, <2>2
      <3>3. QED
        BY <2>2, <3>1, <3>2, Parameters
    <2>3. QED
      BY <2>1, <2>2
  <1>7. RegistryOK'
    BY <1>1, <1>2, <1>6 DEF RegistryOK
  <1>8. DownClock'
    <2>1. slave.phase = "down" /\ lastSeen' # None =>
            lastSeen' > OfflineAfter \/ goneFor <= lastSeen' + Delay + Cost(MaxReports)
      <3> SUFFICES ASSUME slave.phase = "down", lastSeen' # None
                   PROVE  lastSeen' > OfflineAfter \/ goneFor <= lastSeen' + Delay + Cost(MaxReports)
        OBVIOUS
      <3>1. /\ lastSeen > OfflineAfter \/ goneFor <= lastSeen + Delay + Cost(MaxReports)
            /\ goneFor \in Nat
        BY <1>1, <1>6 DEF DownClock
      <3>2. QED
        BY <1>6, <3>1, AllReportsCost, Parameters
    <2>2. QED
      BY <1>1, <1>2, <2>1 DEF DownClock
  <1>9. QED
    BY <1>4, <1>5, <1>7, <1>8

\* The slave's host goes down: the connections that the master still holds are dead.
LEMMA SlaveDownClocks ==
  ASSUME TimeInv, SlaveDown
  PROVE  /\ ArraysOK' /\ RegistryOK' /\ DownClock'
         /\ \A c \in Conns : ConnOK(c)'
  <1>1. /\ ArraysOK /\ RegistryOK /\ DownClock /\ (\A c \in Conns : ConnOK(c)) /\ SessionInv
    BY DEF TimeInv
  <1>2. /\ UNCHANGED <<handler, registry, lastSeen, toMaster, deadFor, reports, stalled>> /\ goneFor' = 0
        /\ slave'.conn = None /\ slave'.phase = "down"
        /\ \A c \in Conns : /\ toSlave'[c] = <<>>
                            /\ link'[c] = IF handler[c].phase = "none" THEN "free" ELSE "dead"
    BY DEF SlaveDown, masterVars, Idle
  <1>3. <<>> \in Queue
    BY EmptySeq DEF Queue
  <1>4. ArraysOK'
    BY <1>1, <1>3 DEF SlaveDown, masterVars, ArraysOK
  <1>5. ASSUME NEW c \in Conns PROVE ConnOK(c)'
    <2>1. /\ LinkOK(c) /\ HandlerClock(c) /\ toMaster[c] \in Queue /\ deadFor[c] \in Nat
          /\ link[c] \in {"free", "ok", "dead"} /\ slave'.conn # c
      BY <1>1, <1>2, Parameters DEF ConnOK, ArraysOK
    <2>2. SlaveClock(c)' /\ HandlerHears(c)' /\ SlaveHears(c)'
      BY <2>1 DEF SlaveClock, HandlerHears, SlaveHears
    <2>3. AsOld(toMaster[c], 0) /\ \A n : AsOld(<<>>, n)
      BY <2>1, QueueIs, Parameters DEF AsOld
    <2>4. handler[c].phase # "none" => link[c] = "dead" \/ deadFor[c] = 0
      BY <2>1 DEF LinkOK
    <2>5. LinkOK(c)'
      BY <1>2, <2>1, <2>3, <2>4 DEF LinkOK
    <2>6. Spent(c)' = Spent(c)
      BY <1>2 DEF Spent
    <2>7. HandlerClock(c)'
      <3> SUFFICES ASSUME handler[c].phase # "none" PROVE HandlerClock(c)'
        BY <1>2 DEF HandlerClock
      <3>1. Spent(c) \in Nat /\ handler[c].timer \in 0..IdleDeadline
        BY <1>1, SpentIs
      <3>2. /\ deadFor[c] = 0 => deadFor[c] <= Delay + Spent(c)
            /\ deadFor[c] = 0 => deadFor[c] <= Delay + Spent(c) + handler[c].timer
        BY <3>1, Parameters
      <3>3. QED
        BY <1>2, <2>1, <2>4, <2>6, <3>2 DEF HandlerClock
    <2>8. QED
      BY <2>2, <2>5, <2>7 DEF ConnOK
  <1>6. RegistryOK'
    BY <1>1, <1>2 DEF RegistryOK
  <1>7. DownClock'
    <2>1. lastSeen # None => 0 <= lastSeen + Delay + Cost(MaxReports)
      BY <1>1, AllReportsCost, Parameters DEF RegistryOK
    <2>2. \A c \in Conns : 0 <= deadFor[c]
      <3> TAKE c \in Conns
      <3>1. deadFor[c] \in Nat
        BY <1>1 DEF ArraysOK
      <3>2. \A n \in Nat : 0 <= n
        OBVIOUS
      <3>3. QED
        BY <3>1, <3>2
    <2>3. QED
      BY <1>2, <2>1, <2>2 DEF DownClock
  <1>8. QED
    BY <1>4, <1>5, <1>6, <1>7

(***************************************************************************)
(* Time passes.                                                            *)
(***************************************************************************)
LEMMA LongGoneIs ==
  /\ LongGone \in Nat
  /\ LongGone > IdleDeadline + Cost(MaxReports) + Delay
  /\ LongGone > OfflineAfter + Cost(MaxReports) + Delay
  <1>1. MaxReports * MaxBusy = Cost(MaxReports)
    BY Parameters DEF Cost
  <1>2. Cost(MaxReports) \in Nat
    BY AllReportsCost
  <1> DEFINE max == IF IdleDeadline > OfflineAfter THEN IdleDeadline ELSE OfflineAfter
  <1>3. max \in Nat /\ max >= IdleDeadline /\ max >= OfflineAfter
    BY Parameters
  <1>4. LongGone = max + Cost(MaxReports) + Delay + 1
    BY <1>1 DEF LongGone
  <1> HIDE DEF max
  <1>5. QED
    BY <1>2, <1>3, <1>4, Parameters

LEMMA CountIs ==
  ASSUME NEW m \in Nat, NEW n \in Nat, NEW limit \in Nat
  PROVE  /\ Count(m, limit) \in Nat /\ m <= Count(m, limit) /\ Count(m, limit) <= m + 1
         /\ m < limit => Count(m, limit) = m + 1
         /\ m <= n => Count(m, limit) <= Count(n, limit)
  BY DEF Count

\* Messages stay as old as the silence on their link.
LEMMA AgedAsOld ==
  ASSUME NEW q \in Queue, NEW n \in Nat, NEW m \in Nat, m <= n + 1, AsOld(q, n)
  PROVE  AsOld(Aged(q), m)
  <1> SUFFICES ASSUME NEW i \in DOMAIN q PROVE Aged(q)[i].age = Delay \/ Aged(q)[i].age >= m
    BY AgedIs DEF AsOld
  <1>1. q[i].age \in 0..Delay /\ (q[i].age = Delay \/ q[i].age >= n)
    BY QueueIs DEF AsOld
  <1>2. Aged(q)[i].age = IF q[i].age < Delay THEN q[i].age + 1 ELSE q[i].age
    BY AgedIs
  <1>3. QED
    BY <1>1, <1>2, Parameters

\* When the oldest message is not due, none is, and all get older.
LEMMA NoneDue ==
  ASSUME NEW q \in Queue, q # <<>> => Head(q).age < Delay
  PROVE  \A i \in DOMAIN q : q[i].age < Delay /\ Aged(q)[i].age = q[i].age + 1
  <1> SUFFICES ASSUME NEW i \in DOMAIN q
               PROVE  q[i].age < Delay /\ Aged(q)[i].age = q[i].age + 1
    OBVIOUS
  <1>1. q # <<>>
    BY QueueIs
  <1>2. 1 \in DOMAIN q /\ q[1].age < Delay /\ DOMAIN q = 1..Len(q) /\ Len(q) \in Nat
    BY <1>1, QueueIs
  <1>3. q[1].age \in 0..Delay /\ q[i].age \in 0..Delay
    BY <1>2, QueueIs
  <1>4. q[1].age >= q[i].age
    <2>1. CASE i = 1
      BY <1>3, <2>1, Parameters
    <2>2. CASE 1 < i
      BY <1>2, <2>2, QueueIs
    <2>3. QED
      BY <1>2, <2>1, <2>2
  <1>5. q[i].age < Delay
    BY <1>2, <1>3, <1>4, Parameters
  <1>6. QED
    BY <1>5, AgedIs

LEMMA TickSlave ==
  ASSUME SessionInv, Tick PROVE slave'.conn = slave.conn /\ slave'.phase = slave.phase
  <1>1. slave = [phase |-> slave.phase, conn |-> slave.conn, timer |-> slave.timer, ping |-> slave.ping]
    BY DEF SessionInv, ShapeOK, SlaveType
  <1>2. slave' = CASE slave.phase = "sleeping" -> [slave EXCEPT !.timer = @ - 1]
                   [] slave.phase = "up" -> [slave EXCEPT !.timer = @ + 1, !.ping = @ + 1]
                   [] slave.phase \in {"dialing", "registering"} -> [slave EXCEPT !.timer = @ + 1]
                   [] OTHER -> slave
    BY DEF Tick
  <1>3. CASE slave.phase = "sleeping"
    BY <1>1, <1>2, <1>3
  <1>4. CASE slave.phase = "up"
    BY <1>1, <1>2, <1>4
  <1>5. CASE slave.phase \in {"dialing", "registering"}
    BY <1>1, <1>2, <1>5
  <1>6. CASE slave.phase \notin {"sleeping", "up", "dialing", "registering"}
    BY <1>2, <1>6
  <1>7. QED
    BY <1>3, <1>4, <1>5, <1>6

\* What a tick does to one connection.
LEMMA TickIs ==
  ASSUME TimeInv, Tick, NEW c \in Conns
  PROVE  /\ link' = link /\ reports' = reports /\ registry' = registry
         /\ slave'.conn = slave.conn /\ slave'.phase = slave.phase
         /\ toMaster'[c] = Aged(toMaster[c]) /\ toSlave'[c] = Aged(toSlave[c])
         /\ ReportsIn(toMaster'[c]) = ReportsIn(toMaster[c])
         /\ deadFor[c] \in Nat /\ deadFor'[c] \in Nat
         /\ link[c] = "dead" => deadFor'[c] <= deadFor[c] + 1
         /\ link[c] # "dead" => deadFor'[c] = 0
         /\ handler'[c].phase = handler[c].phase
  <1>1. ArraysOK /\ SessionInv
    BY DEF TimeInv
  <1>2. toMaster[c] \in Queue /\ deadFor[c] \in Nat
    BY <1>1 DEF ArraysOK
  <1>3. toMaster'[c] = Aged(toMaster[c]) /\ toSlave'[c] = Aged(toSlave[c])
    BY DEF Tick, Older, Aged
  <1>4. ReportsIn(toMaster'[c]) = ReportsIn(toMaster[c])
    <2>1. Aged(toMaster[c]) \in Queue
      BY <1>2, AgedIs
    <2>2. ReportPlaces(Aged(toMaster[c])) = ReportPlaces(toMaster[c])
      BY <1>2, AgedIs DEF ReportPlaces
    <2>3. ReportsIn(Aged(toMaster[c])) = ReportsIn(toMaster[c])
      BY <1>2, <2>1, <2>2, FewerReports
    <2>4. QED
      BY <1>3, <2>3
  <1>5. slave'.conn = slave.conn /\ slave'.phase = slave.phase
    BY <1>1, TickSlave
  <1>6. handler'[c].phase = handler[c].phase
    <2>1. handler[c] \in HandlerType
      BY <1>1 DEF SessionInv, ShapeOK
    <2>2. QED
      BY <2>1 DEF Tick, Gone, HandlerType
  <1>7. /\ deadFor'[c] \in Nat
        /\ link[c] = "dead" => deadFor'[c] <= deadFor[c] + 1
        /\ link[c] # "dead" => deadFor'[c] = 0
    <2>1. deadFor'[c] = IF link[c] = "dead" THEN Count(deadFor[c], LongGone) ELSE 0
      BY DEF Tick
    <2>2. LongGone \in Nat
      BY LongGoneIs
    <2>3. Count(deadFor[c], LongGone) \in Nat /\ Count(deadFor[c], LongGone) <= deadFor[c] + 1
      BY <1>2, <2>2, CountIs
    <2>4. QED
      BY <2>1, <2>3
  <1>8. QED
    BY <1>2, <1>3, <1>4, <1>5, <1>6, <1>7 DEF Tick

\* The clocks of the two ends: a deadline that is due does not let time pass.
LEMMA TickTimers ==
  ASSUME TimeInv, Tick, NEW c \in Conns
  PROVE  /\ handler[c].phase # "none" =>
              /\ handler'[c].timer \in 0..IdleDeadline /\ handler'[c].busy \in Nat
              /\ handler'[c].timer <= handler[c].timer + 1
              /\ handler[c].busy # 0 => handler'[c].timer = handler[c].timer /\ Spent(c)' = Spent(c) + 1
              /\ handler[c].busy = 0 => handler'[c].timer = handler[c].timer + 1 /\ Spent(c)' = Spent(c)
         /\ slave.conn = c =>
              /\ slave'.timer = slave.timer + 1 /\ slave'.timer \in 0..IdleDeadline
              /\ slave'.ping \in 0..PingInterval
              /\ slave.phase = "up" => slave'.ping = slave.ping + 1
  <1>1. /\ ArraysOK /\ RegistryOK /\ ConnOK(c) /\ SessionInv
    BY DEF TimeInv
  <1>2. ASSUME handler[c].phase # "none"
        PROVE  /\ handler'[c].timer \in 0..IdleDeadline /\ handler'[c].busy \in Nat
               /\ handler'[c].timer <= handler[c].timer + 1
               /\ handler[c].busy # 0 => handler'[c].timer = handler[c].timer /\ Spent(c)' = Spent(c) + 1
               /\ handler[c].busy = 0 => handler'[c].timer = handler[c].timer + 1 /\ Spent(c)' = Spent(c)
    <2> DEFINE h == handler[c]
               cost == Cost(reports - ReportsIn(toMaster[c]))
    <2>1. h \in HandlerType
      BY <1>1 DEF SessionInv, ShapeOK
    <2>2. h.timer \in 0..IdleDeadline /\ h.busy \in Nat /\ Spent(c) \in Nat
      BY <1>1, <1>2, SpentIs
    <2>3. handler'[c] = IF h.busy > 0 THEN [h EXCEPT !.busy = @ - 1] ELSE [h EXCEPT !.timer = @ + 1]
      BY <1>2 DEF Tick
    <2>4. Spent(c) = cost - h.busy /\ Spent(c)' = cost - handler'[c].busy
      BY TickIs DEF Spent, Cost
    <2>5. cost \in Int
      <3>1. ReportsIn(toMaster[c]) \in 0..reports /\ reports \in 0..MaxReports
        BY <1>1, <1>2, SpentIs
      <3>2. reports - ReportsIn(toMaster[c]) \in Nat
        BY <3>1, Parameters
      <3>3. QED
        BY <3>2, CostIs
    <2> HIDE DEF cost
    <2>6. CASE h.busy # 0
      <3>1. handler'[c].timer = h.timer /\ handler'[c].busy = h.busy - 1
        BY <2>1, <2>2, <2>3, <2>6 DEF HandlerType
      <3>2. QED
        BY <2>2, <2>4, <2>5, <2>6, <3>1, Parameters
    <2>7. CASE h.busy = 0
      <3>1. handler'[c].timer = h.timer + 1 /\ handler'[c].busy = 0
        BY <2>1, <2>2, <2>3, <2>7 DEF HandlerType
      <3>2. ~HandlerIdle(c) /\ h.phase # "closed"
        BY <2>7 DEF Tick, MayPass
      <3>3. h.timer < IdleDeadline
        BY <1>2, <2>1, <2>2, <3>2, DeadlineAssumption, Parameters DEF HandlerIdle, HandlerType
      <3>4. QED
        BY <2>2, <2>4, <2>5, <2>7, <3>1, <3>3, Parameters
    <2>8. QED
      BY <2>6, <2>7
  <1>3. ASSUME slave.conn = c
        PROVE  /\ slave'.timer = slave.timer + 1 /\ slave'.timer \in 0..IdleDeadline
               /\ slave'.ping \in 0..PingInterval
               /\ slave.phase = "up" => slave'.ping = slave.ping + 1
    <2>1. /\ slave = [phase |-> slave.phase, conn |-> slave.conn, timer |-> slave.timer, ping |-> slave.ping]
          /\ slave.phase \in {"registering", "up"}
          /\ slave.timer \in 0..IdleDeadline /\ slave.ping \in 0..PingInterval
      BY <1>1, <1>3 DEF SessionInv, ShapeOK, SlaveType, ConnOK, SlaveClock
    <2>2. CASE slave.phase = "registering"
      <3>1. slave.timer < AckDeadline
        BY <2>2 DEF Tick, MayPass
      <3>2. slave' = [slave EXCEPT !.timer = @ + 1]
        BY <2>2 DEF Tick
      <3>3. slave'.timer = slave.timer + 1 /\ slave'.ping = slave.ping
        BY <2>1, <3>2
      <3>4. QED
        BY <2>1, <2>2, <3>1, <3>3, DeadlineAssumption, Parameters
    <2>3. CASE slave.phase = "up"
      <3>1. slave.timer < 3 * PingInterval /\ slave.ping < PingInterval
        BY <2>3 DEF Tick, MayPass, readIdleTimeout
      <3>2. slave' = [slave EXCEPT !.timer = @ + 1, !.ping = @ + 1]
        BY <2>3 DEF Tick
      <3>3. slave'.timer = slave.timer + 1 /\ slave'.ping = slave.ping + 1
        BY <2>1, <3>2
      <3>4. QED
        BY <2>1, <2>3, <3>1, <3>3, DeadlineAssumption, Parameters
    <2>4. QED
      BY <2>1, <2>2, <2>3
  <1>4. QED
    BY <1>2, <1>3

LEMMA TickClocksOf ==
  ASSUME TimeInv, Tick, NEW c \in Conns
  PROVE  LinkOK(c)' /\ HandlerClock(c)' /\ SlaveClock(c)'
  <1>1. /\ ArraysOK /\ RegistryOK /\ ConnOK(c) /\ SessionInv
    BY DEF TimeInv
  <1>2. /\ link' = link /\ reports' = reports
        /\ slave'.conn = slave.conn /\ slave'.phase = slave.phase
        /\ toMaster'[c] = Aged(toMaster[c]) /\ toSlave'[c] = Aged(toSlave[c])
        /\ ReportsIn(toMaster'[c]) = ReportsIn(toMaster[c])
        /\ deadFor[c] \in Nat /\ deadFor'[c] \in Nat
        /\ link[c] = "dead" => deadFor'[c] <= deadFor[c] + 1
        /\ link[c] # "dead" => deadFor'[c] = 0
        /\ handler'[c].phase = handler[c].phase
    BY TickIs
  <1>3. toMaster[c] \in Queue /\ toSlave[c] \in Queue
    BY <1>1 DEF ArraysOK
  <1>4. LinkOK(c)'
    <2>1. ASSUME link[c] = "dead"
          PROVE  AsOld(Aged(toMaster[c]), deadFor'[c]) /\ AsOld(Aged(toSlave[c]), deadFor'[c])
      <3>1. AsOld(toMaster[c], deadFor[c]) /\ AsOld(toSlave[c], deadFor[c])
        BY <1>1, <2>1 DEF ConnOK, LinkOK
      <3>2. QED
        BY <1>2, <1>3, <2>1, <3>1, AgedAsOld
    <2>2. QED
      BY <1>1, <1>2, <2>1 DEF ConnOK, LinkOK
  <1>5. HandlerClock(c)'
    <2> SUFFICES ASSUME handler[c].phase # "none" PROVE HandlerClock(c)'
      BY <1>2 DEF HandlerClock
    <2>1. /\ handler[c].timer \in 0..IdleDeadline /\ handler[c].busy \in Nat /\ Spent(c) \in Nat
          /\ handler'[c].timer \in 0..IdleDeadline /\ handler'[c].busy \in Nat
          /\ handler[c].busy # 0 => handler'[c].timer = handler[c].timer /\ Spent(c)' = Spent(c) + 1
          /\ handler[c].busy = 0 => handler'[c].timer = handler[c].timer + 1 /\ Spent(c)' = Spent(c)
      BY <1>1, SpentIs, TickTimers
    <2>2. Spent(c)' \in Nat
      BY <2>1
    <2>3. ASSUME link[c] = "dead"
          PROVE  deadFor'[c] <= Delay + Spent(c)' + handler'[c].timer
      <3>1. deadFor[c] <= Delay + Spent(c) + handler[c].timer
        BY <1>1, <2>3 DEF ConnOK, HandlerClock
      <3>2. QED
        BY <1>2, <2>1, <2>2, <2>3, <3>1, Parameters
    <2>4. ASSUME link[c] = "dead", toMaster'[c] # <<>>
          PROVE  deadFor'[c] <= Delay + Spent(c)'
      <3>1. toMaster[c] # <<>>
        BY <1>2, <1>3, <2>4, AgedIs, QueueIs
      <3>2. CASE handler[c].busy # 0
        <4>1. deadFor[c] <= Delay + Spent(c)
          BY <1>1, <2>4, <3>1 DEF ConnOK, HandlerClock
        <4>2. QED
          BY <1>2, <2>1, <2>2, <2>4, <3>2, <4>1, Parameters
      <3>3. CASE handler[c].busy = 0
        <4>1. Head(toMaster[c]).age < Delay
          BY <3>1, <3>3 DEF Tick, MayPass
        <4>2. 1 \in DOMAIN toMaster[c] /\ Head(toMaster[c]) = toMaster[c][1] /\ toMaster[c][1].age \in 0..Delay
          BY <1>3, <3>1, QueueIs
        <4>3. toMaster[c][1].age = Delay \/ toMaster[c][1].age >= deadFor[c]
          BY <1>1, <2>4, <4>2 DEF ConnOK, LinkOK, AsOld
        <4>4. deadFor[c] < Delay
          BY <1>2, <4>1, <4>2, <4>3, Parameters
        <4>5. QED
          BY <1>2, <2>2, <2>4, <4>4, Parameters
      <3>4. QED
        BY <3>2, <3>3
    <2>5. ReportsIn(toMaster'[c]) <= reports'
      BY <1>1, <1>2 DEF ConnOK, HandlerClock
    <2>6. QED
      BY <1>2, <2>1, <2>2, <2>3, <2>4, <2>5 DEF HandlerClock
  <1>6. SlaveClock(c)'
    <2> SUFFICES ASSUME slave.conn = c PROVE SlaveClock(c)'
      BY <1>2 DEF SlaveClock
    <2>1. /\ slave'.timer = slave.timer + 1 /\ slave'.timer \in 0..IdleDeadline
          /\ slave'.ping \in 0..PingInterval
      BY TickTimers
    <2>2. slave.phase \in {"registering", "up"} /\ slave.timer \in 0..IdleDeadline
      BY <1>1 DEF ConnOK, SlaveClock
    <2>3. ASSUME link[c] = "dead" PROVE deadFor'[c] <= Delay + slave'.timer
      <3>1. deadFor[c] <= Delay + slave.timer
        BY <1>1, <2>3 DEF ConnOK, SlaveClock
      <3>2. QED
        BY <1>2, <2>1, <2>2, <2>3, <3>1, Parameters
    <2>4. ASSUME link[c] = "dead", toSlave'[c] # <<>> PROVE deadFor'[c] <= Delay
      <3>1. toSlave[c] # <<>>
        BY <1>2, <1>3, <2>4, AgedIs, QueueIs
      <3>2. Head(toSlave[c]).age < Delay
        BY <3>1 DEF Tick, MayPass
      <3>3. 1 \in DOMAIN toSlave[c] /\ Head(toSlave[c]) = toSlave[c][1] /\ toSlave[c][1].age \in 0..Delay
        BY <1>3, <3>1, QueueIs
      <3>4. toSlave[c][1].age = Delay \/ toSlave[c][1].age >= deadFor[c]
        BY <1>1, <2>4, <3>3 DEF ConnOK, LinkOK, AsOld
      <3>5. QED
        BY <1>2, <2>4, <3>2, <3>3, <3>4, Parameters
    <2>5. QED
      BY <1>2, <2>1, <2>2, <2>3, <2>4 DEF SlaveClock
  <1>7. QED
    BY <1>4, <1>5, <1>6

LEMMA TickHandlerHears ==
  ASSUME TimeInv, Tick, NEW c \in Conns PROVE HandlerHears(c)'
  <1>1. /\ ArraysOK /\ RegistryOK /\ ConnOK(c) /\ SessionInv
    BY DEF TimeInv
  <1>2. /\ link' = link
        /\ slave'.conn = slave.conn /\ slave'.phase = slave.phase
        /\ toMaster'[c] = Aged(toMaster[c]) /\ toSlave'[c] = Aged(toSlave[c])
        /\ handler'[c].phase = handler[c].phase
    BY TickIs
  <1>3. toMaster[c] \in Queue /\ toSlave[c] \in Queue
    BY <1>1 DEF ArraysOK
  <1> SUFFICES ASSUME slave.conn = c, link[c] = "ok", handler[c].phase # "none" PROVE HandlerHears(c)'
    BY <1>2 DEF HandlerHears
  <1>4. HandlerHears(c) /\ SlaveClock(c)
    BY <1>1 DEF ConnOK
  <1>5. /\ handler[c].timer \in 0..IdleDeadline /\ handler'[c].timer \in 0..IdleDeadline
        /\ handler'[c].timer <= handler[c].timer + 1
        /\ handler[c].busy # 0 => handler'[c].timer = handler[c].timer
        /\ slave.phase = "up" => slave'.ping = slave.ping + 1
    BY <1>1, SpentIs, TickTimers
  <1>6. /\ DOMAIN Aged(toMaster[c]) = DOMAIN toMaster[c]
        /\ \A i \in DOMAIN toMaster[c] :
             /\ Aged(toMaster[c])[i].type = toMaster[c][i].type
             /\ toMaster[c][i].age \in 0..Delay
             /\ Aged(toMaster[c])[i].age \in 0..Delay
             /\ Aged(toMaster[c])[i].age >= toMaster[c][i].age
             /\ handler[c].busy = 0 => Aged(toMaster[c])[i].age = toMaster[c][i].age + 1
    <2>1. handler[c].busy = 0 /\ toMaster[c] # <<>> => Head(toMaster[c]).age < Delay
      BY DEF Tick, MayPass
    <2>2. ASSUME handler[c].busy = 0
          PROVE  \A i \in DOMAIN toMaster[c] : Aged(toMaster[c])[i].age = toMaster[c][i].age + 1
      BY <1>3, <2>1, <2>2, NoneDue
    <2>3. ASSUME NEW i \in DOMAIN toMaster[c]
          PROVE  /\ Aged(toMaster[c])[i].type = toMaster[c][i].type
                 /\ toMaster[c][i].age \in 0..Delay
                 /\ Aged(toMaster[c])[i].age \in 0..Delay
                 /\ Aged(toMaster[c])[i].age >= toMaster[c][i].age
      <3>1. toMaster[c][i].age \in 0..Delay
        BY <1>3, QueueIs
      <3>2. Aged(toMaster[c])[i].age =
              IF toMaster[c][i].age < Delay THEN toMaster[c][i].age + 1 ELSE toMaster[c][i].age
        BY <1>3, AgedIs
      <3>3. Aged(toMaster[c])[i].type = toMaster[c][i].type
        BY <1>3, AgedIs
      <3>4. QED
        BY <3>1, <3>2, <3>3, Parameters
    <2>4. QED
      BY <1>3, <2>2, <2>3, AgedIs
  \* A message that accounts for the handler's clock still does.
  <1>7. ASSUME NEW i \in DOMAIN toMaster[c], NEW n \in Nat,
               handler[c].timer <= n + toMaster[c][i].age
        PROVE  handler'[c].timer <= n + toMaster'[c][i].age
    <2>1. /\ toMaster[c][i].age \in Nat /\ toMaster'[c][i].age \in Nat
          /\ toMaster'[c][i].age >= toMaster[c][i].age
          /\ handler[c].busy = 0 => toMaster'[c][i].age = toMaster[c][i].age + 1
      BY <1>2, <1>6, Parameters
    <2>2. QED
      BY <1>5, <1>7, <2>1, Parameters
  <1>8. ASSUME handler[c].phase = "handshake"
        PROVE  /\ slave.phase = "registering" /\ toSlave'[c] = <<>>
               /\ toMaster'[c] # <<>> /\ handler'[c].timer <= toMaster'[c][1].age
    <2>1. /\ slave.phase = "registering" /\ toSlave[c] = <<>>
          /\ toMaster[c] # <<>> /\ handler[c].timer <= toMaster[c][1].age
      BY <1>4, <1>8 DEF HandlerHears
    <2>2. 1 \in DOMAIN toMaster[c]
      BY <1>3, <2>1, QueueIs
    <2>3. toMaster[c][1].age \in Nat /\ toMaster'[c][1].age \in Nat
      BY <1>2, <1>6, <2>2, Parameters
    <2>4. handler[c].timer <= 0 + toMaster[c][1].age
      BY <1>5, <2>1, <2>3, Parameters
    <2>5. handler'[c].timer <= 0 + toMaster'[c][1].age
      BY <1>7, <2>2, <2>4
    <2>6. handler'[c].timer <= toMaster'[c][1].age
      BY <2>3, <2>5
    <2>7. toSlave'[c] = <<>> /\ toMaster'[c] # <<>>
      BY <1>2, <1>3, <2>1, AgedIs, QueueIs
    <2>8. QED
      BY <2>1, <2>6, <2>7
  <1>9. ASSUME handler[c].phase = "serving", slave.phase = "registering"
        PROVE  toSlave'[c] # <<>> /\ handler'[c].timer <= toSlave'[c][1].age
    <2>1. toSlave[c] # <<>> /\ handler[c].timer <= toSlave[c][1].age
      BY <1>4, <1>9 DEF HandlerHears
    <2>2. 1 \in DOMAIN toSlave[c] /\ toSlave[c][1].age \in Nat
      BY <1>3, <2>1, QueueIs, Parameters
    <2>3. Head(toSlave[c]).age < Delay
      BY <2>1 DEF Tick, MayPass
    <2>4. toSlave'[c][1].age = toSlave[c][1].age + 1
      BY <1>2, <1>3, <2>2, <2>3, NoneDue
    <2>5. toSlave'[c] # <<>>
      BY <1>2, <1>3, <2>1, AgedIs, QueueIs
    <2>6. QED
      BY <1>5, <2>1, <2>2, <2>4, <2>5, Parameters
  <1>10. ASSUME handler[c].phase = "serving", slave.phase = "up"
         PROVE  \/ handler'[c].timer <= slave'.ping + Delay
                \/ \E i \in DOMAIN toMaster'[c] :
                     /\ toMaster'[c][i].type = "ping"
                     /\ handler'[c].timer <= PingInterval + Delay + toMaster'[c][i].age
    <2>1. CASE handler[c].timer <= slave.ping + Delay
      <3>1. slave.ping \in 0..PingInterval
        BY <1>4 DEF SlaveClock
      <3>2. QED
        BY <1>5, <1>10, <2>1, <3>1, Parameters
    <2>2. CASE \E i \in DOMAIN toMaster[c] :
                 /\ toMaster[c][i].type = "ping"
                 /\ handler[c].timer <= PingInterval + Delay + toMaster[c][i].age
      <3>1. PICK i \in DOMAIN toMaster[c] :
              /\ toMaster[c][i].type = "ping"
              /\ handler[c].timer <= PingInterval + Delay + toMaster[c][i].age
        BY <2>2
      <3>2. PingInterval + Delay \in Nat
        BY Parameters
      <3>3. handler'[c].timer <= PingInterval + Delay + toMaster'[c][i].age
        BY <1>7, <3>1, <3>2
      <3>4. i \in DOMAIN toMaster'[c] /\ toMaster'[c][i].type = "ping"
        BY <1>2, <1>6, <3>1
      <3>5. QED
        BY <3>3, <3>4
    <2>3. QED
      BY <1>4, <1>10, <2>1, <2>2 DEF HandlerHears
  <1>11. QED
    BY <1>2, <1>8, <1>9, <1>10 DEF HandlerHears

LEMMA TickSlaveHears ==
  ASSUME TimeInv, Tick, NEW c \in Conns PROVE SlaveHears(c)'
  <1>1. /\ ArraysOK /\ RegistryOK /\ ConnOK(c) /\ SessionInv
    BY DEF TimeInv
  <1>2. /\ link' = link
        /\ slave'.conn = slave.conn /\ slave'.phase = slave.phase
        /\ toMaster'[c] = Aged(toMaster[c]) /\ toSlave'[c] = Aged(toSlave[c])
        /\ handler'[c].phase = handler[c].phase
    BY TickIs
  <1>3. toMaster[c] \in Queue /\ toSlave[c] \in Queue
    BY <1>1 DEF ArraysOK
  <1> SUFFICES ASSUME slave.conn = c, link[c] = "ok" PROVE SlaveHears(c)'
    BY <1>2 DEF SlaveHears
  <1>4. SlaveHears(c) /\ SlaveClock(c)
    BY <1>1 DEF ConnOK
  <1>5. /\ slave'.timer = slave.timer + 1 /\ slave.timer \in 0..IdleDeadline
        /\ slave.ping \in 0..PingInterval
        /\ slave.phase = "up" => slave'.ping = slave.ping + 1
    BY <1>4, TickTimers DEF SlaveClock
  <1>6. \A j \in DOMAIN toSlave[c] :
          /\ j \in DOMAIN toSlave'[c] /\ toSlave'[c][j].type = toSlave[c][j].type
          /\ toSlave[c][j].age \in Nat /\ toSlave'[c][j].age = toSlave[c][j].age + 1
    <2>1. toSlave[c] # <<>> => Head(toSlave[c]).age < Delay
      BY DEF Tick, MayPass
    <2>2. \A j \in DOMAIN toSlave[c] : Aged(toSlave[c])[j].age = toSlave[c][j].age + 1
      BY <1>3, <2>1, NoneDue
    <2>3. \A j \in DOMAIN toSlave[c] : toSlave[c][j].age \in Nat
      BY <1>3, QueueIs, Parameters
    <2>4. \A j \in DOMAIN toSlave[c] :
            j \in DOMAIN toSlave'[c] /\ toSlave'[c][j].type = toSlave[c][j].type
      BY <1>2, <1>3, AgedIs
    <2>5. QED
      BY <1>2, <2>2, <2>3, <2>4
  <1>7. handler[c].phase = "none" => \E j \in DOMAIN toSlave'[c] : toSlave'[c][j].type = "eof"
    BY <1>4, <1>6 DEF SlaveHears
  <1>10. /\ stalled \in Nat /\ stalled' \in Nat /\ stalled <= stalled'
         /\ stalled' = IF handler[c].busy > 0 THEN stalled + 1 ELSE stalled
    <2>1. stalled \in Nat /\ slave.conn # None
      BY <1>1, Parameters DEF RegistryOK
    <2>2. stalled' = IF handler[c].busy > 0 THEN stalled + 1 ELSE stalled
      BY <2>1 DEF Tick
    <2>3. QED
      BY <2>1, <2>2
  <1>8. ASSUME slave.phase = "up"
        PROVE  \/ handler[c].phase # "none" /\ slave'.timer <= slave'.ping
               \/ handler[c].phase # "none" /\ \E i \in DOMAIN toMaster'[c] :
                    /\ toMaster'[c][i].type = "ping"
                    /\ slave'.timer <= PingInterval + toMaster'[c][i].age + stalled'
               \/ \E j \in DOMAIN toSlave'[c] : slave'.timer <= AnsweredBy(stalled') + toSlave'[c][j].age
    <2>1. CASE handler[c].phase # "none" /\ slave.timer <= slave.ping
      BY <1>5, <1>8, <2>1, Parameters
    <2>2. CASE handler[c].phase # "none" /\ \E i \in DOMAIN toMaster[c] :
                 /\ toMaster[c][i].type = "ping"
                 /\ slave.timer <= PingInterval + toMaster[c][i].age + stalled
      <3>1. PICK i \in DOMAIN toMaster[c] :
              /\ toMaster[c][i].type = "ping"
              /\ slave.timer <= PingInterval + toMaster[c][i].age + stalled
        BY <2>2
      <3>2. i \in DOMAIN toMaster'[c] /\ toMaster'[c][i].type = "ping"
        BY <1>2, <1>3, <3>1, AgedIs
      <3>3. handler[c].busy # 0 => stalled' = stalled + 1
        BY <1>1, <1>10, <2>2, SpentIs
      <3>4. /\ toMaster[c][i].age \in Nat /\ toMaster'[c][i].age \in Nat
            /\ toMaster[c][i].age <= toMaster'[c][i].age
        <4>1. toMaster[c][i].age \in 0..Delay
          BY <1>3, QueueIs
        <4>2. toMaster'[c][i].age =
                IF toMaster[c][i].age < Delay THEN toMaster[c][i].age + 1 ELSE toMaster[c][i].age
          BY <1>2, <1>3, AgedIs
        <4>3. QED
          BY <4>1, <4>2, Parameters
      <3>5. handler[c].busy = 0 => toMaster'[c][i].age = toMaster[c][i].age + 1
        <4> SUFFICES ASSUME handler[c].busy = 0 PROVE toMaster'[c][i].age = toMaster[c][i].age + 1
          OBVIOUS
        <4>1. toMaster[c] # <<>> => Head(toMaster[c]).age < Delay
          BY <2>2 DEF Tick, MayPass
        <4>2. QED
          BY <1>2, <1>3, <4>1, NoneDue
      <3>6. slave'.timer <= PingInterval + toMaster'[c][i].age + stalled'
        BY <1>5, <1>10, <3>1, <3>3, <3>4, <3>5, Parameters
      <3>7. QED
        BY <2>2, <3>2, <3>6
    <2>3. CASE \E j \in DOMAIN toSlave[c] : slave.timer <= AnsweredBy(stalled) + toSlave[c][j].age
      <3>1. PICK j \in DOMAIN toSlave[c] : slave.timer <= AnsweredBy(stalled) + toSlave[c][j].age
        BY <2>3
      <3>2. slave'.timer <= AnsweredBy(stalled') + toSlave'[c][j].age
        BY <1>5, <1>6, <1>10, <3>1, AnsweredByIs, Parameters
      <3>3. QED
        BY <1>6, <3>2
    <2>4. QED
      BY <1>4, <1>8, <2>1, <2>2, <2>3 DEF SlaveHears
  <1>9. QED
    BY <1>2, <1>7, <1>8 DEF SlaveHears

LEMMA TickClocks ==
  ASSUME TimeInv, Tick
  PROVE  /\ ArraysOK' /\ RegistryOK' /\ DownClock'
         /\ \A c \in Conns : ConnOK(c)'
  <1>1. /\ ArraysOK /\ RegistryOK /\ DownClock /\ SessionInv
    BY DEF TimeInv
  <1>2. \A c \in Conns : ConnOK(c)'
    BY TickClocksOf, TickHandlerHears, TickSlaveHears DEF ConnOK
  <1>3. ArraysOK'
    <2>1. \A q \in Queue : Aged(q) \in Queue
      BY AgedIs
    <2>2. \A c \in Conns : toMaster[c] \in Queue /\ toSlave[c] \in Queue /\ deadFor'[c] \in Nat
      BY <1>1, TickIs DEF ArraysOK
    <2>3. /\ toMaster' = [c \in Conns |-> Aged(toMaster[c])] /\ toSlave' = [c \in Conns |-> Aged(toSlave[c])]
          /\ link' = link
      BY DEF Tick, Older, Aged
    <2>4. deadFor' = [c \in Conns |-> deadFor'[c]]
      BY DEF Tick
    <2>5. /\ toMaster' \in [Conns -> Queue] /\ toSlave' \in [Conns -> Queue]
      BY <2>1, <2>2, <2>3
    <2>6. deadFor' \in [Conns -> Nat]
      BY <2>2, <2>4
    <2>7. QED
      BY <1>1, <2>3, <2>5, <2>6 DEF ArraysOK
  <1>4. /\ lastSeen = None => lastSeen' = None
        /\ lastSeen # None =>
             /\ lastSeen \in Nat /\ lastSeen' \in Nat
             /\ lastSeen > OfflineAfter => lastSeen' > OfflineAfter
             /\ lastSeen <= OfflineAfter => lastSeen' = lastSeen + 1
    <2>1. CASE lastSeen = None
      BY <2>1 DEF Tick
    <2>2. CASE lastSeen # None
      <3>1. lastSeen \in Nat /\ OfflineAfter + 1 \in Nat
        BY <1>1, <2>2, Parameters DEF RegistryOK
      <3>2. lastSeen' = Count(lastSeen, OfflineAfter + 1)
        BY <2>2 DEF Tick
      <3>3. QED
        BY <2>2, <3>1, <3>2, Parameters DEF Count
    <2>3. QED
      BY <2>1, <2>2
  <1>5. /\ registry' = registry /\ reports' = reports
        /\ \A c \in Conns : handler'[c].phase = handler[c].phase
    BY TickIs DEF Tick
  <1>6. RegistryOK'
    <2>1. stalled' \in Nat
      BY <1>1 DEF Tick, RegistryOK
    <2>2. QED
      BY <1>1, <1>4, <1>5, <2>1 DEF RegistryOK
  <1>7. DownClock'
    <2>1. slave'.phase = slave.phase /\ link' = link
      <3>1. slave'.phase = slave.phase
        BY <1>1, TickSlave
      <3>2. QED
        BY <3>1 DEF Tick
    <2>2. CASE slave.phase # "down"
      <3>1. goneFor' = 0
        BY <2>2 DEF Tick
      <3>2. QED
        BY <2>1, <2>2, <3>1 DEF DownClock
    <2>3. CASE slave.phase = "down"
      <3>1. goneFor' = Count(goneFor, LongGone)
        BY <2>3 DEF Tick
      <3>2. goneFor \in Nat /\ LongGone \in Nat
        BY <1>1, LongGoneIs DEF DownClock
      <3>3. goneFor' \in Nat /\ goneFor' <= goneFor + 1
        BY <3>1, <3>2, CountIs
      <3>4. ASSUME NEW c \in Conns, handler'[c].phase # "none"
            PROVE  link'[c] = "dead" /\ goneFor' <= deadFor'[c]
        <4>1. link[c] = "dead" /\ goneFor <= deadFor[c] /\ deadFor[c] \in Nat
          BY <1>1, <1>5, <2>3, <3>4 DEF DownClock, ArraysOK
        <4>2. deadFor'[c] = Count(deadFor[c], LongGone)
          BY <4>1 DEF Tick
        <4>3. Count(goneFor, LongGone) <= Count(deadFor[c], LongGone)
          BY <3>2, <4>1, CountIs
        <4>4. QED
          BY <2>1, <3>1, <4>1, <4>2, <4>3
      <3>5. ASSUME lastSeen' # None
            PROVE  lastSeen' > OfflineAfter \/ goneFor' <= lastSeen' + Delay + Cost(MaxReports)
        <4>1. lastSeen # None
          BY <1>4, <3>5
        <4>2. lastSeen > OfflineAfter \/ goneFor <= lastSeen + Delay + Cost(MaxReports)
          BY <1>1, <2>3, <4>1 DEF DownClock
        <4>3. QED
          BY <1>4, <3>2, <3>3, <4>1, <4>2, AllReportsCost, Parameters
      <3>6. QED
        BY <2>1, <2>3, <3>3, <3>4, <3>5 DEF DownClock
    <2>4. QED
      BY <2>2, <2>3
  <1>8. QED
    BY <1>2, <1>3, <1>6, <1>7

(***************************************************************************)
(* TimeInv is an invariant.                                                *)
(***************************************************************************)
LEMMA TimeInit == Init => TimeInv
  <1> SUFFICES ASSUME Init PROVE TimeInv
    OBVIOUS
  <1>1. SessionInv
    BY SessionInit
  <1>2. <<>> \in Queue
    BY EmptySeq DEF Queue
  <1>3. ArraysOK
    BY <1>2 DEF Init, ArraysOK
  <1>4. RegistryOK /\ DownClock
    BY Parameters DEF Init, RegistryOK, DownClock, Idle
  <1>5. \A c \in Conns : ConnOK(c)
    BY Parameters DEF Init, Idle, Gone, ConnOK, LinkOK, HandlerClock, SlaveClock, HandlerHears, SlaveHears
  <1>6. QED
    BY <1>1, <1>3, <1>4, <1>5 DEF TimeInv

LEMMA SlaveClocks ==
  ASSUME TimeInv, NEW d \in Conns, RegisterFails(d) \/ SessionEnds(d) \/ Registered(d) \/ Pong(d)
  PROVE  /\ ArraysOK' /\ RegistryOK' /\ DownClock'
         /\ \A c \in Conns : ConnOK(c)'
  <1>1. CASE RegisterFails(d)
    <2>1. /\ slave.conn = d /\ slave.phase \in {"registering", "up"}
          /\ EndOnce /\ SlaveCloses(d) /\ UNCHANGED <<masterVars, timeVars>>
      BY <1>1, Parameters DEF RegisterFails, Fails
    <2>2. QED
      BY <2>1, CloseClocks
  <1>2. CASE SessionEnds(d)
    <2>1. /\ slave.conn = d /\ slave.phase \in {"registering", "up"}
          /\ EndOnce /\ SlaveCloses(d) /\ UNCHANGED <<masterVars, timeVars>>
      BY <1>2 DEF SessionEnds
    <2>2. QED
      BY <2>1, CloseClocks
  <1>3. CASE Registered(d)
    <2>1. /\ slave.conn = d /\ toSlave[d] # <<>> /\ Head(toSlave[d]).type # "eof"
          /\ slave'.conn = d /\ slave'.phase = "up" /\ slave'.timer = 0
          /\ slave.phase = "registering" /\ slave'.ping = 0
          /\ toSlave' = [toSlave EXCEPT ![d] = Tail(@)]
          /\ stalled' = 0 /\ UNCHANGED <<masterVars, link, toMaster, deadFor, goneFor, reports>>
      BY <1>3 DEF Registered, SlaveReceives, Idle
    <2>2. QED
      BY <2>1, HearClocks
  <1>4. CASE Pong(d)
    <2>1. slave = [phase |-> slave.phase, conn |-> slave.conn, timer |-> slave.timer, ping |-> slave.ping]
      BY DEF TimeInv, SessionInv, ShapeOK, SlaveType
    <2>2. /\ slave.conn = d /\ toSlave[d] # <<>> /\ Head(toSlave[d]).type # "eof"
          /\ slave'.conn = d /\ slave'.phase = "up" /\ slave'.timer = 0
          /\ slave.phase = "up" /\ slave'.ping = slave.ping
          /\ toSlave' = [toSlave EXCEPT ![d] = Tail(@)]
          /\ stalled' = 0 /\ UNCHANGED <<masterVars, link, toMaster, deadFor, goneFor, reports>>
      BY <1>4, <2>1 DEF Pong, SlaveReceives
    <2>3. QED
      BY <2>2, HearClocks
  <1>5. QED
    BY <1>1, <1>2, <1>3, <1>4

LEMMA HandlerClocks ==
  ASSUME TimeInv, NEW d \in Conns, Reject(d) \/ HandlerEnds(d)
  PROVE  /\ ArraysOK' /\ RegistryOK' /\ DownClock'
         /\ \A c \in Conns : ConnOK(c)'
  <1>1. PICK last \in {<<>>, <<"nack">>} : handler[d].phase # "none" /\ HandlerReturns(d, last)
    BY DEF Reject, HandlerEnds, HandlerReads
  <1>2. QED
    BY <1>1, ReturnClocks

LEMMA TimeStep == TimeInv /\ [Next]_vars => TimeInv'
  <1> SUFFICES ASSUME TimeInv, [Next]_vars PROVE TimeInv'
    OBVIOUS
  <1>1. SessionInv'
    BY SessionStep DEF TimeInv
  <1>2. CASE UNCHANGED vars
    <2>1. UNCHANGED <<slave, handler, registry, lastSeen, link, toMaster, toSlave, deadFor, goneFor, reports, stalled>>
      BY <1>2 DEF vars, slaveVars, masterVars, wireVars, timeVars
    <2>2. \A c \in Conns : ConnOK(c)'
      BY <2>1, Untouched DEF TimeInv
    <2>3. ArraysOK' /\ RegistryOK' /\ DownClock'
      BY <2>1 DEF TimeInv, ArraysOK, RegistryOK, DownClock
    <2>4. QED
      BY <1>1, <2>2, <2>3 DEF TimeInv
  <1>3. CASE Next
    <2>1. /\ ArraysOK' /\ RegistryOK' /\ DownClock'
          /\ \A c \in Conns : ConnOK(c)'
      <3>1. CASE DialFails \/ Wakes \/ SlaveStart \/ MasterStart \/ Stop
        BY <3>1, QuietClocks
      <3>2. CASE Tick
        BY <3>2, TickClocks
      <3>3. CASE MasterCrash \/ SlaveDown
        BY <3>3, CrashClocks, SlaveDownClocks
      <3>4. ASSUME NEW d \in Conns, Dial(d) \/ runPingLoop(d) \/ Report(d)
            PROVE  ArraysOK' /\ RegistryOK' /\ DownClock' /\ \A c \in Conns : ConnOK(c)'
        BY <3>4, DialClocks, PingClocks, ReportClocks
      <3>5. ASSUME NEW d \in Conns, RegisterFails(d) \/ SessionEnds(d) \/ Registered(d) \/ Pong(d)
            PROVE  ArraysOK' /\ RegistryOK' /\ DownClock' /\ \A c \in Conns : ConnOK(c)'
        BY <3>5, SlaveClocks
      <3>6. ASSUME NEW d \in Conns, Accept(d) \/ Ping(d) \/ ShutdownAck(d)
            PROVE  ArraysOK' /\ RegistryOK' /\ DownClock' /\ \A c \in Conns : ConnOK(c)'
        BY <3>6, AcceptClocks, ServeClocks
      <3>7. ASSUME NEW d \in Conns, Reject(d) \/ HandlerEnds(d) \/ Cut(d)
            PROVE  ArraysOK' /\ RegistryOK' /\ DownClock' /\ \A c \in Conns : ConnOK(c)'
        BY <3>7, HandlerClocks, CutClocks
      <3>8. QED
        BY <1>3, <3>1, <3>2, <3>3, <3>4, <3>5, <3>6, <3>7 DEF Next, SystemStep
    <2>2. QED
      BY <1>1, <2>1 DEF TimeInv
  <1>4. QED
    BY <1>2, <1>3

\* Every end knows the time since it last heard of the other, up to what is on
\* the wire and what its reports cost a handler.
THEOREM TimeCorrect == Spec => []TimeInv
  BY TimeInit, TimeStep, PTL DEF Spec

\* A half-open connection is given up by both ends within LongGone ticks, and a
\* node whose host has been down that long is not reported online, for any number
\* of connections, cuts, crashes and reports (Session!SilenceIsNoticed).
THEOREM SilenceNoticed == Spec => []SilenceIsNoticed
  <1>1. TimeInv => SilenceIsNoticed
    <2> SUFFICES ASSUME TimeInv PROVE SilenceIsNoticed
      OBVIOUS
    <2>1. /\ ArraysOK /\ RegistryOK /\ DownClock /\ (\A c \in Conns : ConnOK(c)) /\ SessionInv
      BY DEF TimeInv
    <2>2. /\ LongGone \in Nat
          /\ LongGone > IdleDeadline + Cost(MaxReports) + Delay
          /\ LongGone > OfflineAfter + Cost(MaxReports) + Delay
          /\ Cost(MaxReports) \in Nat
      BY LongGoneIs, AllReportsCost
    <2>3. ASSUME NEW c \in Conns, deadFor[c] >= LongGone
          PROVE  slave.conn # c /\ handler[c].phase = "none"
      <3>1. deadFor[c] \in Nat /\ link[c] \in {"free", "ok", "dead"}
        BY <2>1 DEF ArraysOK
      <3>2. deadFor[c] > 0
        BY <2>2, <2>3, <3>1, Parameters
      <3>3. link[c] # "ok"
        BY <2>1, <3>2 DEF ConnOK, LinkOK
      <3>4. CASE link[c] = "free"
        BY <2>1, <3>4 DEF ConnOK, LinkOK
      <3>5. CASE link[c] = "dead"
        <4>1. slave.conn # c
          <5> SUFFICES ASSUME slave.conn = c PROVE FALSE
            OBVIOUS
          <5>1. deadFor[c] <= Delay + slave.timer /\ slave.timer \in 0..IdleDeadline
            BY <2>1, <3>5 DEF ConnOK, SlaveClock
          <5>2. QED
            BY <2>2, <2>3, <3>1, <5>1, Parameters
        <4>2. handler[c].phase = "none"
          <5> SUFFICES ASSUME handler[c].phase # "none" PROVE FALSE
            OBVIOUS
          <5>1. deadFor[c] <= Delay + Spent(c) + handler[c].timer
            BY <2>1, <3>5 DEF ConnOK, HandlerClock
          <5>2. Spent(c) \in Nat /\ Spent(c) <= Cost(MaxReports) /\ handler[c].timer \in 0..IdleDeadline
            BY <2>1, SpentIs
          <5>3. QED
            BY <2>2, <2>3, <3>1, <5>1, <5>2, Parameters
        <4>3. QED
          BY <4>1, <4>2
      <3>6. QED
        BY <3>1, <3>3, <3>4, <3>5
    <2>4. ASSUME goneFor >= LongGone PROVE nodeState # "online"
      <3>1. goneFor \in Nat /\ goneFor > 0
        BY <2>1, <2>2, <2>4, Parameters DEF DownClock
      <3>2. slave.phase = "down"
        BY <2>1, <3>1 DEF DownClock
      <3>3. registry = None
        <4> SUFFICES ASSUME registry # None PROVE FALSE
          OBVIOUS
        <4>1. registry \in Conns /\ handler[registry].phase # "none"
          BY <2>1 DEF RegistryOK
        <4>2. goneFor <= deadFor[registry] /\ deadFor[registry] \in Nat
          BY <2>1, <3>2, <4>1 DEF DownClock, ArraysOK
        <4>3. deadFor[registry] >= LongGone
          BY <2>2, <2>4, <3>1, <4>2
        <4>4. QED
          BY <2>3, <4>1, <4>3
      <3>4. lastSeen # None => lastSeen > OfflineAfter /\ lastSeen \in Nat
        <4> SUFFICES ASSUME lastSeen # None PROVE lastSeen > OfflineAfter /\ lastSeen \in Nat
          OBVIOUS
        <4>1. lastSeen \in Nat /\ (lastSeen > OfflineAfter \/ goneFor <= lastSeen + Delay + Cost(MaxReports))
          BY <2>1, <3>2 DEF DownClock, RegistryOK
        <4>2. QED
          BY <2>2, <2>4, <3>1, <4>1, Parameters
      <3>5. lastSeen # None => ~(lastSeen <= OfflineAfter)
        BY <3>4, Parameters
      <3>6. QED
        BY <3>3, <3>5 DEF nodeState
    <2>5. QED
      BY <2>3, <2>4 DEF SilenceIsNoticed
  <1>2. QED
    BY <1>1, TimeCorrect, PTL

\* A ping and its way there and back fit into the slave's read deadline.
LinkIsFast == PingInterval + 2 * Delay < readIdleTimeout

\* On a link that is fast enough the master's read deadline does not expire while
\* the slave holds the connection, and the slave's expires only after the handler
\* was busy with a local shutdown command for all the leeway since the slave last
\* heard from it: however long such a command takes, and however many messages
\* wait behind it (Session!HealthyStaysUp).
THEOREM HealthyUp == ASSUME LinkIsFast PROVE Spec => []HealthyStaysUp
  <1>1. TimeInv => HealthyStaysUp
    <2> SUFFICES ASSUME TimeInv, NEW c \in Conns, link[c] = "ok"
                 PROVE  /\ SessionIdle(c) => stalled >= Leeway
                        /\ slave.conn = c => ~HandlerIdle(c)
      BY DEF HealthyStaysUp
    <2>1. /\ ArraysOK /\ RegistryOK /\ ConnOK(c) /\ SessionInv
      BY DEF TimeInv
    <2>2. toMaster[c] \in Queue /\ toSlave[c] \in Queue
      BY <2>1 DEF ArraysOK
    <2>3. /\ \A i \in DOMAIN toMaster[c] : toMaster[c][i].age \in 0..Delay
          /\ \A j \in DOMAIN toSlave[c] : toSlave[c][j].age \in 0..Delay
      BY <2>2, QueueIs
    <2>4. /\ PingInterval + 2 * Delay < 3 * PingInterval
          /\ Leeway = 3 * PingInterval - PingInterval - 2 * Delay
          /\ stalled \in Nat /\ AnsweredBy(stalled) = PingInterval + Delay + stalled
      BY <2>1, AnsweredByIs DEF LinkIsFast, readIdleTimeout, Leeway, RegistryOK
    <2>5. SessionIdle(c) => stalled >= Leeway
      <3> SUFFICES ASSUME slave.phase = "up", slave.conn = c, slave.timer >= 3 * PingInterval
                   PROVE  stalled >= Leeway
        BY DEF SessionIdle, readIdleTimeout
      <3>1. slave.timer \in Nat /\ slave.ping \in 0..PingInterval
        BY <2>1, Parameters DEF ConnOK, SlaveClock
      <3>2. CASE slave.timer <= slave.ping
        BY <2>4, <3>1, <3>2, Parameters
      <3>3. CASE handler[c].phase # "none" /\ \E i \in DOMAIN toMaster[c] :
                   slave.timer <= PingInterval + toMaster[c][i].age + stalled
        <4>1. PICK i \in DOMAIN toMaster[c] : slave.timer <= PingInterval + toMaster[c][i].age + stalled
          BY <3>3
        <4>2. toMaster[c][i].age \in 0..Delay
          BY <2>3
        <4>3. QED
          BY <2>4, <3>1, <4>1, <4>2, Parameters
      <3>4. CASE \E j \in DOMAIN toSlave[c] : slave.timer <= AnsweredBy(stalled) + toSlave[c][j].age
        <4>1. PICK j \in DOMAIN toSlave[c] : slave.timer <= AnsweredBy(stalled) + toSlave[c][j].age
          BY <3>4
        <4>2. toSlave[c][j].age \in 0..Delay
          BY <2>3
        <4>3. QED
          BY <2>4, <3>1, <4>1, <4>2, Parameters
      <3>5. QED
        BY <2>1, <3>2, <3>3, <3>4 DEF ConnOK, SlaveHears
    <2>6. ASSUME slave.conn = c PROVE ~HandlerIdle(c)
      <3>1. HandlerHears(c) /\ SlaveClock(c)
        BY <2>1 DEF ConnOK
      <3>2. ASSUME handler[c].phase = "handshake" PROVE ~(handler[c].timer >= Handshake)
        <4>1. toMaster[c] # <<>> /\ handler[c].timer <= toMaster[c][1].age
          BY <2>6, <3>1, <3>2 DEF HandlerHears
        <4>2. toMaster[c][1].age \in 0..Delay
          BY <2>2, <2>3, <4>1, QueueIs
        <4>3. handler[c].timer \in Nat
          BY <2>1, <3>2, SpentIs, Parameters
        <4>4. QED
          BY <4>1, <4>2, <4>3, SessionAssumption, Parameters
      <3>3. ASSUME handler[c].phase = "serving" PROVE ~(handler[c].timer >= IdleDeadline)
        <4>1. handler[c].timer \in Nat /\ slave.ping \in 0..PingInterval /\ slave.phase \in {"registering", "up"}
          BY <2>1, <2>6, <3>1, <3>3, SpentIs, Parameters DEF SlaveClock
        <4>2. PingInterval + 2 * Delay < IdleDeadline
          BY <2>4, DeadlineAssumption, Parameters
        <4>3. CASE slave.phase = "registering"
          <5>1. toSlave[c] # <<>> /\ handler[c].timer <= toSlave[c][1].age
            BY <2>6, <3>1, <3>3, <4>3 DEF HandlerHears
          <5>2. toSlave[c][1].age \in 0..Delay
            BY <2>2, <2>3, <5>1, QueueIs
          <5>3. QED
            BY <4>1, <4>2, <5>1, <5>2, Parameters
        <4>4. CASE slave.phase = "up"
          <5>1. \/ handler[c].timer <= slave.ping + Delay
                \/ \E i \in DOMAIN toMaster[c] : handler[c].timer <= PingInterval + Delay + toMaster[c][i].age
            BY <2>6, <3>1, <3>3, <4>4 DEF HandlerHears
          <5>2. handler[c].timer <= PingInterval + 2 * Delay
            <6>1. CASE handler[c].timer <= slave.ping + Delay
              BY <4>1, <6>1, Parameters
            <6>2. CASE \E i \in DOMAIN toMaster[c] :
                         handler[c].timer <= PingInterval + Delay + toMaster[c][i].age
              <7>1. PICK i \in DOMAIN toMaster[c] :
                      handler[c].timer <= PingInterval + Delay + toMaster[c][i].age
                BY <6>2
              <7>2. toMaster[c][i].age \in 0..Delay
                BY <2>3
              <7>3. QED
                BY <4>1, <7>1, <7>2, Parameters
            <6>3. QED
              BY <5>1, <6>1, <6>2
          <5>3. QED
            BY <4>1, <4>2, <5>2, Parameters
        <4>5. QED
          BY <4>1, <4>3, <4>4
      <3>4. QED
        BY <3>2, <3>3 DEF HandlerIdle
    <2>7. QED
      BY <2>5, <2>6
  <1>2. QED
    BY <1>1, TimeCorrect, PTL

=============================================================================
