------------------------------ MODULE Enrollment ------------------------------
(***************************************************************************)
(* How one node gets and keeps its token: the master's half of the         *)
(* registration (internal/master/enrollment.go, conn.go) and the slave's   *)
(* (internal/slave/client.go, state.go), over connections that break.      *)
(*                                                                         *)
(* The master handles every connection in a goroutine of its own and may   *)
(* still be busy with an old one when the slave has made the next.  What   *)
(* the slave sent before a connection broke may be read after it.  An      *)
(* administrator revokes, reissues and deletes meanwhile.  Either program  *)
(* may be restarted at any point, and the slave's writes may fail.         *)
(***************************************************************************)
EXTENDS Integers

CONSTANTS
  Token, NoToken,   \* tokens the master generates, and no token ("")
  EnrollToken,      \* the enrollment token, in the slave's configuration
  Conn, NoConn,     \* bound: connections the master handles at a time
  MaxFaults         \* bound: broken connections, restarts and failed writes

ASSUME EnrollmentAssumption ==
  /\ NoToken \notin Token
  /\ EnrollToken \notin Token \cup {NoToken}
  /\ NoConn \notin Conn
  /\ MaxFaults \in Nat

VARIABLES
  enrollmentOpen,  \* the master's setting enrollment: open
  nodeToken,     \* the master's token of the node
  directory,     \* the master's directory entry: absent, unseen or seen
  registry,      \* the registered connection
  conns,         \* the connections and their handlers
  admin,         \* the administrator's request in progress
  script,        \* token in an install script that was not yet run
  masterFile,    \* the master's state file
  cfgToken,      \* the token in the slave's configuration
  issuedToken,   \* the slave's issued token
  slave,         \* where the slave's connection loop is
  slaveFile,     \* the issued token in the slave's state file
  minted,        \* tokens generated so far
  faults,        \* how many faults there were
  stored,        \* observer: tokens the slave has stored and synced
  revoked,       \* observer: tokens whose revocation was answered
  deleted        \* observer: tokens removed with a directory entry

masterVars == <<enrollmentOpen, nodeToken, directory, registry, masterFile>>
adminVars  == <<admin, script, revoked, deleted>>
slaveVars  == <<cfgToken, issuedToken, slave, slaveFile, stored>>
vars       == <<masterVars, conns, adminVars, slaveVars, minted, faults>>

FreeConn  == [pc |-> "free", token |-> NoToken, hash |-> NoToken, issued |-> NoToken,
              bound |-> NoToken, reply |-> "none", stored |-> FALSE, open |-> FALSE]
IdleAdmin == [pc |-> "idle", then |-> "idle", token |-> NoToken, issue |-> NoToken]
Away      == [pc |-> "off", conn |-> NoConn, issued |-> FALSE, previous |-> NoToken]

Init ==
  /\ enrollmentOpen \in BOOLEAN
  /\ nodeToken = NoToken
  /\ directory = "absent"
  /\ registry = NoConn
  /\ masterFile = [token |-> NoToken, directory |-> "absent"]
  /\ conns = [k \in Conn |-> FreeConn]
  /\ admin = IdleAdmin
  /\ script = NoToken
  /\ cfgToken = EnrollToken
  /\ issuedToken = NoToken
  /\ slave = Away
  /\ slaveFile = NoToken
  /\ minted = {}
  /\ faults = 0
  /\ stored = {}
  /\ revoked = {}
  /\ deleted = {}

Fault == faults < MaxFaults /\ faults' = faults + 1

(***************************************************************************)
(* Connections.                                                            *)
(***************************************************************************)

\* conns' is f, without the connections that both sides have left; the slave is
\* at connection at.
SetConns(f, at) ==
  conns' = [k \in Conn |-> IF f[k].pc = "free" /\ at # k THEN FreeConn ELSE f[k]]

\* conns with connection k closed.
Closed(k) == IF k = NoConn THEN conns ELSE [conns EXCEPT ![k] = [@ EXCEPT !.open = FALSE]]

\* An answer that is on its way may be lost.
Break(k) ==
  /\ Fault
  /\ conns[k].open
  /\ \E reply \in {conns[k].reply, "none"} :
       conns' = [conns EXCEPT ![k] = [@ EXCEPT !.open = FALSE, !.reply = reply]]
  /\ UNCHANGED <<masterVars, adminVars, slaveVars, minted>>

(***************************************************************************)
(* The slave's connection loop (runOnce).                                  *)
(***************************************************************************)
registerToken == IF issuedToken # NoToken THEN issuedToken ELSE cfgToken

Dial(k) ==
  /\ slave.pc = "off"
  /\ conns[k] = FreeConn
  /\ conns' = [conns EXCEPT ![k] = [@ EXCEPT !.pc = "new", !.token = registerToken, !.open = TRUE]]
  /\ slave' = [Away EXCEPT !.pc = "register", !.conn = k, !.issued = (issuedToken # NoToken)]
  /\ UNCHANGED <<masterVars, adminVars, cfgToken, issuedToken, slaveFile, stored, minted, faults>>

\* runOnce returns, and closes the connection.
LeaveConn ==
  /\ slave' = Away
  /\ SetConns(Closed(slave.conn), NoConn)

\* The slave finds its connection broken, or closed by the master, when it has
\* read what there was to read.
ConnectionLost ==
  /\ slave.pc = "up" \/ (slave.pc = "register" /\ conns[slave.conn].reply = "none")
  /\ ~conns[slave.conn].open
  /\ LeaveConn
  /\ UNCHANGED <<masterVars, adminVars, cfgToken, issuedToken, slaveFile, stored, minted, faults>>

\* setIssuedToken, up to the write.
SetIssuedToken(token, next) ==
  /\ issuedToken' = token
  /\ slave' = [slave EXCEPT !.pc = next, !.previous = issuedToken]
  /\ UNCHANGED conns

DropsIssuedToken_Bug(c) == FALSE

\* The master does not know the issued token.
DropsIssuedToken(c) == slave.issued /\ c.reply = "invalid token"

ReadRegisterAck ==
  /\ slave.pc = "register"
  /\ LET c == conns[slave.conn]
     IN  \/ /\ c.reply = "accepted" /\ c.issued = NoToken
            /\ slave' = [slave EXCEPT !.pc = "up"]
            /\ UNCHANGED <<issuedToken, conns>>
         \/ /\ c.reply = "accepted" /\ c.issued # NoToken
            /\ SetIssuedToken(c.issued, "store")
         \/ /\ DropsIssuedToken(c)
            /\ SetIssuedToken(NoToken, "clear")
         \/ /\ c.reply \in {"invalid token", "enrollment closed"} /\ ~DropsIssuedToken(c)
            /\ LeaveConn
            /\ UNCHANGED issuedToken
  /\ UNCHANGED <<masterVars, adminVars, cfgToken, slaveFile, stored, minted, faults>>

\* The issued token is in the file.
TokenWritten ==
  /\ slave.pc = "store"
  /\ slaveFile' = issuedToken
  /\ stored' = stored \cup {issuedToken}
  /\ slave' = [slave EXCEPT !.pc = "confirm", !.previous = NoToken]
  /\ UNCHANGED <<masterVars, conns, adminVars, cfgToken, issuedToken, minted, faults>>

TokenWriteFails_Bug ==
  /\ Fault
  /\ slave.pc = "store"
  /\ slaveFile' \in {slaveFile, issuedToken}
  /\ issuedToken' = slave.previous
  /\ slave' = [slave EXCEPT !.pc = "confirm", !.previous = NoToken]
  /\ UNCHANGED <<masterVars, conns, adminVars, cfgToken, stored, minted>>

\* The write fails, before or after the new file is in place; the slave goes on
\* with its previous token and stays registered.
TokenWriteFails ==
  /\ Fault
  /\ slave.pc = "store"
  /\ slaveFile' \in {slaveFile, issuedToken}
  /\ issuedToken' = slave.previous
  /\ slave' = [slave EXCEPT !.pc = "up", !.previous = NoToken]
  /\ UNCHANGED <<masterVars, conns, adminVars, cfgToken, stored, minted>>

\* token_stored is sent; on a broken connection it is lost, noticed or not.
SendTokenStored ==
  /\ slave.pc = "confirm"
  /\ \/ /\ slave' = [slave EXCEPT !.pc = "up"]
        /\ conns' = [conns EXCEPT ![slave.conn] = [@ EXCEPT !.stored = conns[slave.conn].open]]
     \/ ~conns[slave.conn].open /\ LeaveConn
  /\ UNCHANGED <<masterVars, adminVars, cfgToken, issuedToken, slaveFile, stored, minted, faults>>

\* A rejected token is removed from the file, and the slave reconnects with the
\* token of its configuration.
TokenCleared ==
  /\ slave.pc = "clear"
  /\ slaveFile' = NoToken
  /\ LeaveConn
  /\ UNCHANGED <<masterVars, adminVars, cfgToken, issuedToken, stored, minted, faults>>

ClearFails ==
  /\ Fault
  /\ slave.pc = "clear"
  /\ slaveFile' \in {slaveFile, NoToken}
  /\ issuedToken' = slave.previous
  /\ LeaveConn
  /\ UNCHANGED <<masterVars, adminVars, cfgToken, stored, minted>>

\* An execution writes a command state, and the token with it.
SaveCommandState ==
  /\ slaveFile' = issuedToken
  /\ UNCHANGED <<masterVars, conns, adminVars, cfgToken, issuedToken, slave, stored, minted, faults>>

SlaveStarts ==
  /\ issuedToken' = slaveFile
  /\ LeaveConn
  /\ UNCHANGED slaveFile

SlaveRestart ==
  /\ Fault
  /\ SlaveStarts
  /\ UNCHANGED <<masterVars, adminVars, cfgToken, stored, minted>>

\* The install script writes its token into the configuration and restarts the
\* slave.
RunInstallScript ==
  /\ script # NoToken
  /\ cfgToken' = script
  /\ script' = NoToken
  /\ SlaveStarts
  /\ UNCHANGED <<masterVars, admin, revoked, deleted, stored, minted, faults>>

(***************************************************************************)
(* The master's handler of a connection (handleConn).                      *)
(***************************************************************************)

\* The answer reaches the slave if the connection is open.
Answer(k, reply) == IF conns[k].open THEN reply ELSE "none"

\* The handler answers and returns.
Reject(k, reply) ==
  SetConns([conns EXCEPT ![k] = [@ EXCEPT !.pc = "free", !.reply = Answer(k, reply),
                                          !.open = FALSE]], slave.conn)

\* authenticateNode
authenticateNode(k) ==
  /\ conns[k].pc = "new"
  /\ \/ /\ nodeToken # NoToken /\ conns[k].token = nodeToken
        /\ conns' = [conns EXCEPT ![k] = [@ EXCEPT !.pc = "authenticated", !.hash = nodeToken]]
        /\ UNCHANGED minted
     \/ /\ nodeToken # NoToken /\ conns[k].token # nodeToken
        /\ Reject(k, "invalid token")
        /\ UNCHANGED minted
     \/ /\ nodeToken = NoToken /\ ~enrollmentOpen
        /\ Reject(k, "enrollment closed")
        /\ UNCHANGED minted
     \/ /\ nodeToken = NoToken /\ enrollmentOpen /\ conns[k].token # EnrollToken
        /\ Reject(k, "invalid token")
        /\ UNCHANGED minted
     \/ /\ nodeToken = NoToken /\ enrollmentOpen /\ conns[k].token = EnrollToken
        /\ \E t \in Token \ minted :
             /\ conns' = [conns EXCEPT ![k] = [@ EXCEPT !.pc = "authenticated", !.issued = t]]
             /\ minted' = minted \cup {t}
  /\ UNCHANGED <<masterVars, adminVars, slaveVars, faults>>

registerIfTokenUnchanged_Bug(k) ==
  /\ conns[k].pc = "authenticated"
  /\ conns' = [Closed(registry) EXCEPT ![k] = [@ EXCEPT !.pc = "registered"]]
  /\ registry' = k
  /\ UNCHANGED <<enrollmentOpen, nodeToken, directory, masterFile, adminVars, slaveVars, minted, faults>>

\* A newer connection closes the one it replaces.
registerIfTokenUnchanged(k) ==
  /\ conns[k].pc = "authenticated"
  /\ \/ /\ conns[k].hash = nodeToken
        /\ conns' = [Closed(registry) EXCEPT ![k] = [@ EXCEPT !.pc = "registered"]]
        /\ registry' = k
     \/ /\ conns[k].hash # nodeToken
        /\ Reject(k, "invalid token")
        /\ UNCHANGED registry
  /\ UNCHANGED <<enrollmentOpen, nodeToken, directory, masterFile, adminVars, slaveVars, minted, faults>>

Observe(k) ==
  /\ conns[k].pc = "registered"
  /\ directory' = "seen"
  /\ conns' = [conns EXCEPT ![k] = [@ EXCEPT !.pc = "observed"]]
  /\ UNCHANGED <<enrollmentOpen, nodeToken, registry, masterFile, adminVars, slaveVars, minted, faults>>

Snapshot == [token |-> nodeToken, directory |-> directory]

\* The directory is saved and the registration acknowledged.
SendRegisterAck(k) ==
  /\ conns[k].pc = "observed"
  /\ masterFile' = Snapshot
  /\ conns' = [conns EXCEPT ![k] = [@ EXCEPT !.pc = "read", !.reply = Answer(k, "accepted")]]
  /\ UNCHANGED <<enrollmentOpen, nodeToken, directory, registry, adminVars, slaveVars, minted, faults>>

\* The handler returns: RemoveIfMatch.
HandlerEnds(k) ==
  /\ registry' = IF registry = k THEN NoConn ELSE registry
  /\ SetConns([conns EXCEPT ![k] = [@ EXCEPT !.pc = "free", !.open = FALSE, !.stored = FALSE]],
              slave.conn)

\* The token becomes the node's, unless it got another one meanwhile.
confirmIssuedToken(k) ==
  \/ /\ nodeToken = NoToken
     /\ nodeToken' = conns[k].issued
     /\ conns' = [conns EXCEPT ![k] = [@ EXCEPT !.pc = "save", !.stored = FALSE, !.issued = NoToken,
                                             !.bound = conns[k].issued]]
     /\ UNCHANGED registry
  \/ /\ nodeToken # NoToken
     /\ HandlerEnds(k)
     /\ UNCHANGED nodeToken

ReadTokenStored(k) ==
  /\ conns[k].pc = "read" /\ conns[k].stored
  /\ confirmIssuedToken(k)
  /\ UNCHANGED <<enrollmentOpen, directory, masterFile, adminVars, slaveVars, minted, faults>>

\* saveStateForDirectoryChange, after a token was confirmed
SaveConfirmed(k) ==
  /\ conns[k].pc = "save"
  /\ masterFile' = Snapshot
  /\ conns' = [conns EXCEPT ![k] = [@ EXCEPT !.pc = "read"]]
  /\ UNCHANGED <<enrollmentOpen, nodeToken, directory, registry, adminVars, slaveVars, minted, faults>>

ReadFails(k) ==
  /\ conns[k].pc = "read" /\ ~conns[k].open
  /\ HandlerEnds(k)
  /\ UNCHANGED <<enrollmentOpen, nodeToken, directory, masterFile, adminVars, slaveVars, minted, faults>>

\* Somebody else writes the state file: a command, an ack, another node.
SaveState ==
  /\ masterFile' = Snapshot
  /\ UNCHANGED <<enrollmentOpen, nodeToken, directory, registry, conns, adminVars, slaveVars, minted, faults>>

MasterRestart ==
  /\ Fault
  /\ nodeToken' = masterFile.token
  /\ directory' = masterFile.directory
  /\ registry' = NoConn
  /\ conns' = [k \in Conn |-> IF slave.conn = k
                              THEN [conns[k] EXCEPT !.pc = "free", !.open = FALSE, !.stored = FALSE]
                              ELSE FreeConn]
  /\ admin' = IdleAdmin
  /\ UNCHANGED <<enrollmentOpen, masterFile, script, revoked, deleted, slaveVars, minted>>

(***************************************************************************)
(* The administrator.  Each request is answered before the next.           *)
(***************************************************************************)
Expected == IF directory = "absent" THEN "unseen" ELSE directory

ExpectNode ==
  /\ admin.pc = "idle"
  /\ directory' = Expected
  /\ admin' = [IdleAdmin EXCEPT !.pc = "save"]
  /\ UNCHANGED <<enrollmentOpen, nodeToken, registry, masterFile, conns, script, revoked, deleted, slaveVars,
                 minted, faults>>

\* handleRevokeToken
RevokeToken ==
  /\ admin.pc = "idle" /\ nodeToken # NoToken
  /\ nodeToken' = NoToken
  /\ admin' = [IdleAdmin EXCEPT !.pc = "save", !.then = "disconnect", !.token = nodeToken]
  /\ UNCHANGED <<enrollmentOpen, directory, registry, masterFile, conns, script, revoked, deleted, slaveVars,
                 minted, faults>>

\* The install script: the node is expected and gets a new token.
issueNodeToken ==
  /\ admin.pc = "idle"
  /\ \E t \in Token \ minted :
       /\ nodeToken' = t
       /\ minted' = minted \cup {t}
       /\ admin' = [pc |-> "save", then |-> "disconnect", token |-> nodeToken, issue |-> t]
  /\ directory' = Expected
  /\ UNCHANGED <<enrollmentOpen, registry, masterFile, conns, script, revoked, deleted, slaveVars, faults>>

\* handleDeleteNode: only an entry that was never seen is deleted, ...
DeleteNode ==
  /\ admin.pc = "idle" /\ directory = "unseen"
  /\ directory' = "absent"
  /\ admin' = [IdleAdmin EXCEPT !.pc = "remove"]
  /\ UNCHANGED <<enrollmentOpen, nodeToken, registry, masterFile, conns, script, revoked, deleted, slaveVars,
                 minted, faults>>

\* ... and then its token.
removeNodeToken ==
  /\ admin.pc = "remove"
  /\ nodeToken' = NoToken
  /\ deleted' = deleted \cup ({nodeToken} \ {NoToken})
  /\ admin' = [IdleAdmin EXCEPT !.pc = "save", !.token = nodeToken]
  /\ UNCHANGED <<enrollmentOpen, directory, registry, masterFile, conns, script, revoked, slaveVars, minted, faults>>

AdminSaves_Bug ==
  /\ admin.pc = "save"
  /\ masterFile' = IF admin.then = "disconnect" /\ admin.issue = NoToken THEN masterFile ELSE Snapshot
  /\ admin' = [admin EXCEPT !.pc = IF admin.then = "idle" THEN "answer" ELSE "disconnect"]
  /\ UNCHANGED <<enrollmentOpen, nodeToken, directory, registry, conns, script, revoked, deleted, slaveVars,
                 minted, faults>>

\* saveStateForDirectoryChange
AdminSaves ==
  /\ admin.pc = "save"
  /\ masterFile' = Snapshot
  /\ admin' = [admin EXCEPT !.pc = IF admin.then = "idle" THEN "answer" ELSE "disconnect"]
  /\ UNCHANGED <<enrollmentOpen, nodeToken, directory, registry, conns, script, revoked, deleted, slaveVars,
                 minted, faults>>

disconnectNode ==
  /\ admin.pc = "disconnect"
  /\ conns' = Closed(registry)
  /\ admin' = [admin EXCEPT !.pc = "answer"]
  /\ UNCHANGED <<masterVars, script, revoked, deleted, slaveVars, minted, faults>>

AdminAnswers ==
  /\ admin.pc = "answer"
  /\ revoked' = revoked \cup ({admin.token} \ {NoToken})
  /\ script' = IF admin.issue # NoToken THEN admin.issue ELSE script
  /\ admin' = IdleAdmin
  /\ UNCHANGED <<masterVars, conns, deleted, slaveVars, minted, faults>>

HandlerStep(k) ==
  \/ authenticateNode(k)
  \/ registerIfTokenUnchanged(k)
  \/ Observe(k)
  \/ SendRegisterAck(k)
  \/ ReadTokenStored(k)
  \/ SaveConfirmed(k)
  \/ ReadFails(k)

SlaveStep ==
  \/ \E k \in Conn : Dial(k)
  \/ ConnectionLost
  \/ ReadRegisterAck
  \/ TokenWritten
  \/ SendTokenStored
  \/ TokenCleared

AdminStep ==
  \/ removeNodeToken
  \/ AdminSaves
  \/ disconnectNode
  \/ AdminAnswers

Next ==
  \/ \E k \in Conn : HandlerStep(k) \/ Break(k)
  \/ SlaveStep
  \/ TokenWriteFails
  \/ ClearFails
  \/ SaveCommandState
  \/ SlaveRestart
  \/ RunInstallScript
  \/ SaveState
  \/ MasterRestart
  \/ ExpectNode
  \/ RevokeToken
  \/ issueNodeToken
  \/ DeleteNode
  \/ AdminStep

Spec == Init /\ [][Next]_vars

\* The goroutines run, reads have deadlines, the slave reconnects for ever, a
\* request is answered and an install script that was handed out is run.
Fairness ==
  /\ \A k \in Conn : WF_vars(HandlerStep(k))
  /\ WF_vars(SlaveStep)
  /\ WF_vars(AdminStep)
  /\ WF_vars(RunInstallScript)

FairSpec == Spec /\ Fairness

----------------------------------------------------------------------------
(***************************************************************************)
(* Properties.                                                             *)
(***************************************************************************)
AnyToken   == Token \cup {NoToken}
Directory  == {"absent", "unseen", "seen"}
ConnType   ==
  [pc : {"free", "new", "authenticated", "registered", "observed", "read", "save"},
   token : AnyToken \cup {EnrollToken}, hash : AnyToken, issued : AnyToken, bound : AnyToken,
   reply : {"none", "accepted", "invalid token", "enrollment closed"},
   stored : BOOLEAN, open : BOOLEAN]
AdminType  ==
  [pc : {"idle", "remove", "save", "disconnect", "answer"}, then : {"idle", "disconnect"},
   token : AnyToken, issue : AnyToken]
SlaveType  ==
  [pc : {"off", "register", "store", "confirm", "clear", "up"}, conn : Conn \cup {NoConn},
   issued : BOOLEAN, previous : AnyToken]

\* The variables hold values of their types, the slave is off exactly when it has
\* no connection, and it stores and confirms tokens, never the absence of one.
TypeOK ==
  /\ enrollmentOpen \in BOOLEAN
  /\ nodeToken \in AnyToken
  /\ directory \in Directory
  /\ registry \in Conn \cup {NoConn}
  /\ masterFile \in [token : AnyToken, directory : Directory]
  /\ conns \in [Conn -> ConnType]
  /\ admin \in AdminType
  /\ script \in AnyToken
  /\ cfgToken \in Token \cup {EnrollToken}
  /\ issuedToken \in AnyToken
  /\ slave \in SlaveType
  /\ slave.pc = "off" <=> slave.conn = NoConn
  /\ slave.pc \in {"store", "confirm"} => issuedToken # NoToken
  /\ slaveFile \in AnyToken
  /\ minted \subseteq Token
  /\ faults \in 0..MaxFaults
  /\ stored \subseteq Token
  /\ revoked \subseteq Token
  /\ deleted \subseteq Token

\* A request that changed the token has yet to disconnect the node.
Disconnecting == admin.then = "disconnect" /\ admin.pc # "answer"

\* The connection on which the master sends shutdown commands belongs to the
\* token the node has now, if it was accepted for a node token or confirmed one,
\* unless a request is about to disconnect it.  (Deleting a directory entry
\* disconnects nobody, and a connection that is enrolling has no token yet.)
RegisteredIsCurrent ==
  registry # NoConn /\ conns[registry].open /\ ~Disconnecting =>
    \A t \in {conns[registry].hash, conns[registry].bound} \ {NoToken} :
      t = nodeToken \/ t \in deleted

\* A token whose revocation or replacement was answered is not the node's token
\* again, also not after a restart from the state file.
RevokedIsGone == revoked \cap {nodeToken, masterFile.token} = {}

\* The master binds the node to an issued token only after the slave stored it:
\* a token that came neither from the slave's file nor from a script would lock
\* the node out.
BoundWasStored ==
  \A k \in Conn : conns[k].bound # NoToken => conns[k].bound \in stored

\* The slave has no token the master accepts, or the master accepts none.
LockedOut ==
  IF nodeToken = NoToken
  THEN ~enrollmentOpen \/ cfgToken # EnrollToken \/ minted = Token
  ELSE nodeToken \notin {issuedToken, cfgToken}

\* When faults and requests end, the slave is registered again and again, or has
\* no token that fits: it does not go round between its tokens for ever.
NodeComesBack ==
  \/ <>[]LockedOut
  \/ []<>(slave.pc = "up" /\ registry = slave.conn)

(***************************************************************************)
(* What a comment says and the code does not keep.                         *)
(***************************************************************************)

\* runOnce: the master "must never bind a token we could lose".
BoundIsHeld ==
  \A k \in Conn : conns[k].bound # NoToken /\ conns[k].bound = nodeToken => nodeToken = slaveFile
==============================================================================
