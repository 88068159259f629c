-------------------------- MODULE ServerLifecycle --------------------------
(***************************************************************************)
(* The master process from start to end (Server.Run): the accept loop, the *)
(* connection handlers it tracks, the polling loop and the command         *)
(* watcher, the admin HTTP server, and the shutdown when the context is    *)
(* cancelled, with what each goroutine may still write to the state file.  *)
(***************************************************************************)
EXTENDS Integers, FiniteSets

CONSTANTS
  Conns,      \* connections of slaves; a connection that ended can be made again
  Requests,   \* requests to the admin API, likewise
  MinRetry,   \* minAcceptRetryDelay
  MaxRetry    \* maxAcceptRetryDelay

ASSUME LifecycleAssumption == MinRetry \in Nat \ {0} /\ MaxRetry >= MinRetry

VARIABLES
  pc,           \* where Run is
  cancelled,    \* its context
  listener,     \* "none", "open" or "closed"
  acceptDelay,
  ready,        \* what /readyz answers
  handler,      \* per connection: "none", "reading" or "writing" the state file
  closed,       \* connections that closeActiveConns or the peer has closed
  tracked,      \* s.conns
  connWG,       \* handlers counted by connWG
  loop,         \* the goroutines counted by wg: "none", "waiting", "working", "done"
  request,      \* per request: "none", "handling", "writing"
  answered,     \* the last answer of /readyz, "none" before the first
  late          \* history: who wrote to the state file after Run returned

vars == <<pc, cancelled, listener, acceptDelay, ready, handler, closed, tracked,
          connWG, loop, request, answered, late>>
connVars  == <<handler, closed, tracked, connWG>>
adminVars == <<request, answered>>

Loops == {"poll", "watcher", "admin"}

Init ==
  /\ pc = "start"
  /\ cancelled = FALSE
  /\ listener = "none"
  /\ acceptDelay = 0
  /\ ready = FALSE
  /\ handler = [c \in Conns |-> "none"]
  /\ closed = {}
  /\ tracked = {}
  /\ connWG = {}
  /\ loop = [l \in Loops |-> "none"]
  /\ request = [r \in Requests |-> "none"]
  /\ answered = "none"
  /\ late = {}

Late(who) == late' = IF pc = "returned" THEN late \cup {who} ELSE late

(***************************************************************************)
(* Run.                                                                    *)
(***************************************************************************)
\* The TLS material or the address is not usable.
StartFails ==
  /\ pc = "start"
  /\ pc' = "failed"
  /\ UNCHANGED <<cancelled, listener, acceptDelay, ready, connVars, loop, adminVars, late>>

\* The self-check has reported, the listener is open, the goroutines are started.
Start ==
  /\ pc = "start"
  /\ pc' = "accept"
  /\ listener' = "open"
  /\ ready' = TRUE
  /\ loop' = [l \in Loops |-> "waiting"]
  /\ UNCHANGED <<cancelled, acceptDelay, connVars, adminVars, late>>

Accept_Bug(c) ==
  /\ pc = "accept" /\ listener = "open"
  /\ handler[c] = "none"
  /\ acceptDelay' = 0
  /\ tracked' = tracked \cup {c}
  /\ closed' = closed \ {c}
  /\ handler' = [handler EXCEPT ![c] = "reading"]
  /\ UNCHANGED <<connWG, pc, cancelled, listener, ready, loop, adminVars, late>>

\* trackConn and connWG.Add come before the goroutine starts.
Accept(c) ==
  /\ pc = "accept" /\ listener = "open"
  /\ handler[c] = "none"
  /\ acceptDelay' = 0
  /\ tracked' = tracked \cup {c}
  /\ connWG' = connWG \cup {c}
  /\ closed' = closed \ {c}
  /\ handler' = [handler EXCEPT ![c] = "reading"]
  /\ UNCHANGED <<pc, cancelled, listener, ready, loop, adminVars, late>>

nextAcceptRetryDelay(current) ==
  IF current = 0 THEN MinRetry
  ELSE IF current * 2 < MaxRetry THEN current * 2 ELSE MaxRetry

\* A transient error, such as no file descriptor: try again after a delay.
AcceptFails ==
  /\ pc = "accept" /\ listener = "open" /\ ~cancelled
  /\ acceptDelay' = nextAcceptRetryDelay(acceptDelay)
  /\ pc' = "retry"
  /\ UNCHANGED <<cancelled, listener, ready, connVars, loop, adminVars, late>>

AcceptRetries ==
  /\ pc = "retry"
  /\ pc' = "accept"
  /\ UNCHANGED <<cancelled, listener, acceptDelay, ready, connVars, loop, adminVars, late>>

AcceptEnds_Bug ==
  /\ pc = "accept"
  /\ cancelled \/ listener = "closed"
  /\ pc' = "wait_conns"
  /\ UNCHANGED <<cancelled, listener, acceptDelay, ready, connVars, loop, adminVars, late>>

\* An error once the context is cancelled or the listener closed; closeActiveConns.
AcceptEnds ==
  /\ pc = "accept"
  /\ cancelled \/ listener = "closed"
  /\ closed' = closed \cup tracked
  /\ pc' = "wait_conns"
  /\ UNCHANGED <<cancelled, listener, acceptDelay, ready, handler, tracked, connWG, loop, adminVars, late>>

WaitConns ==
  /\ pc = "wait_conns" /\ connWG = {}
  /\ pc' = "wait_loops"
  /\ UNCHANGED <<cancelled, listener, acceptDelay, ready, connVars, loop, adminVars, late>>

\* wg.Wait, and the deferred calls.
Return ==
  /\ pc = "wait_loops" /\ \A l \in Loops : loop[l] = "done"
  /\ pc' = "returned"
  /\ ready' = FALSE
  /\ listener' = "closed"
  /\ UNCHANGED <<cancelled, acceptDelay, connVars, loop, adminVars, late>>

Cancel ==
  /\ ~cancelled
  /\ cancelled' = TRUE
  /\ UNCHANGED <<pc, listener, acceptDelay, ready, connVars, loop, adminVars, late>>

\* The goroutine that waits for the context.
CloseListener ==
  /\ cancelled /\ listener = "open"
  /\ listener' = "closed"
  /\ UNCHANGED <<pc, cancelled, acceptDelay, ready, connVars, loop, adminVars, late>>

(***************************************************************************)
(* Connection handlers: read a message, write what it changed, read again. *)
(***************************************************************************)
HandlerReads(c) ==
  /\ handler[c] = "reading" /\ c \notin closed
  /\ handler' = [handler EXCEPT ![c] = "writing"]
  /\ UNCHANGED <<pc, cancelled, listener, acceptDelay, ready, closed, tracked, connWG, loop, adminVars, late>>

HandlerWrites(c) ==
  /\ handler[c] = "writing"
  /\ handler' = [handler EXCEPT ![c] = "reading"]
  /\ Late("handler")
  /\ UNCHANGED <<pc, cancelled, listener, acceptDelay, ready, closed, tracked, connWG, loop, adminVars>>

PeerCloses(c) ==
  /\ handler[c] # "none" /\ c \notin closed
  /\ closed' = closed \cup {c}
  /\ UNCHANGED <<pc, cancelled, listener, acceptDelay, ready, handler, tracked, connWG, loop, adminVars, late>>

\* A read error ends the handler: untrackConn, connWG.Done.
HandlerEnds(c) ==
  /\ handler[c] = "reading" /\ c \in closed
  /\ handler' = [handler EXCEPT ![c] = "none"]
  /\ tracked' = tracked \ {c}
  /\ connWG' = connWG \ {c}
  /\ UNCHANGED <<pc, cancelled, listener, acceptDelay, ready, closed, loop, adminVars, late>>

(***************************************************************************)
(* The polling loop and the command watcher.                               *)
(***************************************************************************)
LoopTick(l) ==
  /\ l # "admin" /\ loop[l] = "waiting"
  /\ loop' = [loop EXCEPT ![l] = "working"]
  /\ UNCHANGED <<pc, cancelled, listener, acceptDelay, ready, connVars, adminVars, late>>

\* The tick's work, a UPS read or a shutdown command included, is bounded.
LoopWrites(l) ==
  /\ loop[l] = "working"
  /\ loop' = [loop EXCEPT ![l] = "waiting"]
  /\ Late("loop")
  /\ UNCHANGED <<pc, cancelled, listener, acceptDelay, ready, connVars, adminVars>>

\* The select can take ctx.Done; ListenAndServe returns as soon as Shutdown is
\* called, or because the address is in use.
LoopEnds(l) ==
  /\ loop[l] = "waiting"
  /\ cancelled \/ l = "admin"
  /\ loop' = [loop EXCEPT ![l] = "done"]
  /\ UNCHANGED <<pc, cancelled, listener, acceptDelay, ready, connVars, adminVars, late>>

(***************************************************************************)
(* The admin API: a handler runs in a goroutine that nobody waits for.     *)
(***************************************************************************)
Request(r) ==
  /\ loop["admin"] = "waiting" /\ request[r] = "none"
  /\ request' = [request EXCEPT ![r] = "handling"]
  /\ UNCHANGED <<pc, cancelled, listener, acceptDelay, ready, connVars, loop, answered, late>>

\* A command, a directory or a token operation saves the state.
RequestChanges(r) ==
  /\ request[r] = "handling"
  /\ request' = [request EXCEPT ![r] = "writing"]
  /\ UNCHANGED <<pc, cancelled, listener, acceptDelay, ready, connVars, loop, answered, late>>

RequestWrites(r) ==
  /\ request[r] = "writing"
  /\ request' = [request EXCEPT ![r] = "none"]
  /\ Late("admin")
  /\ UNCHANGED <<pc, cancelled, listener, acceptDelay, ready, connVars, loop, answered>>

handleReadyz(r) ==
  /\ request[r] = "handling"
  /\ request' = [request EXCEPT ![r] = "none"]
  /\ answered' = IF ready THEN "ready" ELSE "not ready"
  /\ UNCHANGED <<pc, cancelled, listener, acceptDelay, ready, connVars, loop, late>>

RunStep   == Start \/ StartFails \/ AcceptRetries \/ AcceptEnds \/ WaitConns \/ Return
HandlerStep(c) == HandlerWrites(c) \/ HandlerEnds(c)

Next ==
  \/ RunStep \/ AcceptFails \/ Cancel \/ CloseListener
  \/ \E c \in Conns : Accept(c) \/ HandlerReads(c) \/ PeerCloses(c) \/ HandlerStep(c)
  \/ \E l \in Loops : LoopTick(l) \/ LoopWrites(l) \/ LoopEnds(l)
  \/ \E r \in Requests :
       Request(r) \/ RequestChanges(r) \/ RequestWrites(r) \/ handleReadyz(r)

Spec == Init /\ [][Next]_vars

\* Goroutines run; a select whose context is done takes that branch in the end
\* (ctx.Done stays ready and a ticker's channel does not), and an Accept of a
\* closed listener fails.
FairSpec ==
  /\ Spec
  /\ WF_vars(RunStep) /\ WF_vars(CloseListener)
  /\ \A c \in Conns : WF_vars(HandlerStep(c))
  /\ \A l \in Loops : WF_vars(LoopWrites(l)) /\ SF_vars(cancelled /\ LoopEnds(l))

----------------------------------------------------------------------------
\* Run drains what it started: no connection handler and no loop writes to the
\* state file after Run has returned.
HandlersAreDrained == late \cap {"handler", "loop"} = {}

\* A cancelled master ends, however many slaves are connected and talking.
RunEnds == cancelled ~> (pc \in {"returned", "failed"})

\* "wait for any pending state writes to flush before returning".
AllWritesAreFlushed == late = {}

\* "503 before startup or during shutdown": /readyz answers ready only while
\* the listener accepts connections.
ReadyMeansAccepting == [][answered' # answered /\ answered' = "ready" => listener = "open"]_vars
=============================================================================
