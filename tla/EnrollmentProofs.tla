--------------------------- MODULE EnrollmentProofs ---------------------------
(***************************************************************************)
(* Proofs about Enrollment: types, and the three safety invariants of the  *)
(* token handshake.                                                        *)
(***************************************************************************)
EXTENDS Enrollment, TLAPS

\* Replacing a connection keeps the types of the connections.
LEMMA UpdateType ==
  ASSUME NEW f \in [Conn -> ConnType], NEW k \in Conn, NEW r \in ConnType
  PROVE  [f EXCEPT ![k] = r] \in [Conn -> ConnType]
  OBVIOUS

\* So does closing one.
LEMMA ClosedType ==
  ASSUME TypeOK, NEW k \in Conn \cup {NoConn}
  PROVE  Closed(k) \in [Conn -> ConnType]
<1>1. conns \in [Conn -> ConnType]
  BY DEF TypeOK
<1>2. ASSUME NEW c \in ConnType PROVE [c EXCEPT !.open = FALSE] \in ConnType
  BY DEF ConnType
<1>3. QED
  BY <1>1, <1>2, UpdateType DEF Closed

\* So does releasing the connections both sides have left.
LEMMA SetConnsType ==
  ASSUME NEW f \in [Conn -> ConnType], NEW at, SetConns(f, at)
  PROVE  conns' \in [Conn -> ConnType]
  BY EnrollmentAssumption DEF SetConns, FreeConn, ConnType, AnyToken

\* The initial state has its types.
LEMMA TypeInit == Init => TypeOK
  BY EnrollmentAssumption
     DEF Init, TypeOK, FreeConn, IdleAdmin, Away, AnyToken, Directory, ConnType, AdminType, SlaveType

\* The master's handler of a connection keeps the types.
LEMMA TypeHandler ==
  ASSUME TypeOK, NEW k \in Conn, HandlerStep(k)
  PROVE  TypeOK'
<1> USE EnrollmentAssumption
<1>c. conns \in [Conn -> ConnType] /\ conns[k] \in ConnType
  BY DEF TypeOK
<1>n. nodeToken \in AnyToken /\ NoToken \in AnyToken /\ Token \subseteq AnyToken
  BY DEF TypeOK, AnyToken
<1>r. ASSUME NEW reply \in {"invalid token", "enrollment closed"}, Reject(k, reply)
      PROVE  conns' \in [Conn -> ConnType]
  <2>1. Answer(k, reply) \in {"none", "invalid token", "enrollment closed"}
    BY DEF Answer
  <2>2. [conns[k] EXCEPT !.pc = "free", !.reply = Answer(k, reply), !.open = FALSE] \in ConnType
    BY <1>c, <2>1 DEF ConnType
  <2>3. QED
    BY <1>c, <1>r, <2>2, UpdateType, SetConnsType DEF Reject
<1>e. ASSUME HandlerEnds(k)
      PROVE  conns' \in [Conn -> ConnType] /\ registry' \in Conn \cup {NoConn}
  <2>1. [conns[k] EXCEPT !.pc = "free", !.open = FALSE, !.stored = FALSE] \in ConnType
    BY <1>c DEF ConnType
  <2>2. registry' \in Conn \cup {NoConn}
    BY <1>e DEF HandlerEnds, TypeOK
  <2>3. QED
    BY <1>c, <1>e, <2>1, <2>2, UpdateType, SetConnsType DEF HandlerEnds
<1>1. CASE authenticateNode(k)
  <2>1. [conns[k] EXCEPT !.pc = "authenticated", !.hash = nodeToken] \in ConnType
    BY <1>c, <1>n DEF ConnType
  <2>2. ASSUME NEW t \in Token
        PROVE  [conns[k] EXCEPT !.pc = "authenticated", !.issued = t] \in ConnType
    <3>1. t \in AnyToken
      BY <1>n
    <3>2. QED
      BY <1>c, <3>1 DEF ConnType
  <2>3. conns' \in [Conn -> ConnType]
    BY <1>1, <1>c, <1>r, <2>1, <2>2, UpdateType DEF authenticateNode
  <2>4. minted' \subseteq Token
    BY <1>1 DEF authenticateNode, TypeOK
  <2>5. QED
    BY <1>1, <2>3, <2>4 DEF authenticateNode, TypeOK, masterVars, adminVars, slaveVars
<1>2. CASE registerIfTokenUnchanged(k)
  <2>1. Closed(registry) \in [Conn -> ConnType]
    BY ClosedType DEF TypeOK
  <2>2. [Closed(registry)[k] EXCEPT !.pc = "registered"] \in ConnType
    BY <2>1 DEF ConnType
  <2>r. [Closed(registry) EXCEPT ![k] = [@ EXCEPT !.pc = "registered"]] \in [Conn -> ConnType]
    BY <2>1, <2>2, UpdateType
  <2>3. conns' \in [Conn -> ConnType]
    BY <1>2, <1>r, <2>r DEF registerIfTokenUnchanged
  <2>4. registry' \in Conn \cup {NoConn}
    BY <1>2 DEF registerIfTokenUnchanged, TypeOK
  <2>5. QED
    BY <1>2, <2>3, <2>4 DEF registerIfTokenUnchanged, TypeOK, adminVars, slaveVars
<1>3. CASE Observe(k)
  <2>1. [conns[k] EXCEPT !.pc = "observed"] \in ConnType
    BY <1>c DEF ConnType
  <2>2. conns' \in [Conn -> ConnType]
    BY <1>3, <1>c, <2>1, UpdateType DEF Observe
  <2>3. QED
    BY <1>3, <2>2 DEF Observe, TypeOK, Directory, adminVars, slaveVars
<1>4. CASE SendRegisterAck(k)
  <2>1. Answer(k, "accepted") \in {"none", "accepted"}
    BY DEF Answer
  <2>2. [conns[k] EXCEPT !.pc = "read", !.reply = Answer(k, "accepted")] \in ConnType
    BY <1>c, <2>1 DEF ConnType
  <2>3. conns' \in [Conn -> ConnType]
    BY <1>4, <1>c, <2>2, UpdateType DEF SendRegisterAck
  <2>4. QED
    BY <1>4, <2>3 DEF SendRegisterAck, Snapshot, TypeOK, adminVars, slaveVars
<1>5. CASE ReadTokenStored(k)
  <2>1. conns[k].issued \in AnyToken
    BY <1>c DEF ConnType
  <2>2. [conns[k] EXCEPT !.pc = "save", !.stored = FALSE, !.issued = NoToken,
                         !.bound = conns[k].issued] \in ConnType
    BY <1>c, <1>n, <2>1 DEF ConnType
  <2>3. CASE HandlerEnds(k) /\ UNCHANGED nodeToken
    BY <1>5, <2>3, <1>e DEF ReadTokenStored, TypeOK, adminVars, slaveVars
  <2>4. CASE /\ nodeToken' = conns[k].issued
             /\ conns' = [conns EXCEPT ![k] = [@ EXCEPT !.pc = "save", !.stored = FALSE,
                                              !.issued = NoToken, !.bound = conns[k].issued]]
             /\ UNCHANGED registry
    <3>1. conns' \in [Conn -> ConnType]
      BY <1>c, <2>2, <2>4, UpdateType
    <3>2. QED
      BY <1>5, <2>1, <2>4, <3>1 DEF ReadTokenStored, TypeOK, adminVars, slaveVars
  <2>5. QED
    BY <1>5, <2>3, <2>4 DEF ReadTokenStored, confirmIssuedToken
<1>6. CASE SaveConfirmed(k)
  <2>1. [conns[k] EXCEPT !.pc = "read"] \in ConnType
    BY <1>c DEF ConnType
  <2>2. conns' \in [Conn -> ConnType]
    BY <1>6, <1>c, <2>1, UpdateType DEF SaveConfirmed
  <2>3. QED
    BY <1>6, <2>2 DEF SaveConfirmed, Snapshot, TypeOK, adminVars, slaveVars
<1>7. CASE ReadFails(k)
  BY <1>7, <1>e DEF ReadFails, TypeOK, adminVars, slaveVars
<1>8. QED
  BY <1>1, <1>2, <1>3, <1>4, <1>5, <1>6, <1>7 DEF HandlerStep

\* A slave that leaves its connection.
LEMMA LeaveType ==
  ASSUME TypeOK, LeaveConn
  PROVE  /\ conns' \in [Conn -> ConnType]
         /\ slave' \in SlaveType
         /\ slave'.pc = "off" /\ slave'.conn = NoConn
  <1>1. Closed(slave.conn) \in [Conn -> ConnType]
    BY ClosedType DEF TypeOK, SlaveType
  <1>2. conns' \in [Conn -> ConnType]
    BY <1>1, SetConnsType DEF LeaveConn
  <1>3. QED
    BY <1>2, EnrollmentAssumption DEF LeaveConn, Away, SlaveType, AnyToken

\* The slave's connection loop, its failing writes and its restarts keep the types.
LEMMA TypeSlave ==
  ASSUME TypeOK,
         SlaveStep \/ TokenWriteFails \/ ClearFails \/ SaveCommandState \/ SlaveRestart
           \/ RunInstallScript
  PROVE  TypeOK'
<1> USE EnrollmentAssumption
<1>f. ASSUME Fault PROVE faults' \in 0..MaxFaults
  BY <1>f DEF Fault, TypeOK
<1>1. ASSUME NEW k \in Conn, Dial(k) PROVE TypeOK'
  <2>1. registerToken \in Token \cup {EnrollToken}
    BY DEF registerToken, TypeOK, AnyToken
  <2>0. conns \in [Conn -> ConnType]
    BY DEF TypeOK
  <2>r. \A c \in ConnType, t \in Token \cup {EnrollToken} :
          [c EXCEPT !.pc = "new", !.token = t, !.open = TRUE] \in ConnType
    BY DEF ConnType, AnyToken
  <2>2. conns' \in [Conn -> ConnType]
    BY <1>1, <2>0, <2>1, <2>r, UpdateType DEF Dial
  <2>3. slave' \in SlaveType /\ slave'.pc = "register" /\ slave'.conn \in Conn
    BY <1>1 DEF Dial, Away, SlaveType, AnyToken
  <2>4. QED
    BY <1>1, <2>2, <2>3 DEF Dial, TypeOK, masterVars, adminVars
<1>2. CASE ConnectionLost
  BY <1>2, LeaveType DEF ConnectionLost, TypeOK, masterVars, adminVars
<1>3. CASE ReadRegisterAck
  <2> DEFINE c == conns[slave.conn]
  <2>1. slave.conn \in Conn /\ c \in ConnType
    BY <1>3 DEF ReadRegisterAck, TypeOK, SlaveType
  <2>2. /\ conns' \in [Conn -> ConnType]
        /\ slave' \in SlaveType
        /\ slave'.pc = "off" <=> slave'.conn = NoConn
        /\ slave'.pc \in {"store", "confirm"} => issuedToken' # NoToken
        /\ issuedToken' \in AnyToken
    <3>1. CASE c.reply = "accepted" /\ c.issued = NoToken
                 /\ slave' = [slave EXCEPT !.pc = "up"] /\ UNCHANGED <<issuedToken, conns>>
      BY <3>1, <2>1 DEF TypeOK, SlaveType
    <3>2. CASE c.issued # NoToken /\ SetIssuedToken(c.issued, "store")
      <4>1. c.issued \in AnyToken
        BY <2>1 DEF ConnType
      <4>2. QED
        BY <3>2, <2>1, <4>1 DEF SetIssuedToken, TypeOK, SlaveType
    <3>3. CASE SetIssuedToken(NoToken, "clear")
      BY <3>3, <2>1 DEF SetIssuedToken, TypeOK, SlaveType, AnyToken
    <3>4. CASE LeaveConn /\ UNCHANGED issuedToken
      BY <3>4, LeaveType DEF TypeOK
    <3>5. QED
      BY <1>3, <3>1, <3>2, <3>3, <3>4 DEF ReadRegisterAck
  <2>3. QED
    BY <1>3, <2>2 DEF ReadRegisterAck, TypeOK, masterVars, adminVars
<1>4. CASE TokenWritten
  <2>1. issuedToken \in AnyToken /\ slave \in SlaveType
    BY DEF TypeOK
  <2>2. QED
    BY <1>4 DEF TokenWritten, TypeOK, SlaveType, AnyToken, masterVars, adminVars
<1>5. CASE SendTokenStored
  <2>1. slave.conn \in Conn
    BY <1>5 DEF SendTokenStored, TypeOK, SlaveType
  <2>2. /\ conns' \in [Conn -> ConnType]
        /\ slave' \in SlaveType
        /\ slave'.pc = "off" <=> slave'.conn = NoConn
    <3>1. CASE LeaveConn
      BY <3>1, LeaveType
    <3>2. CASE /\ slave' = [slave EXCEPT !.pc = "up"]
               /\ conns' = [conns EXCEPT ![slave.conn] = [@ EXCEPT !.stored = conns[slave.conn].open]]
      <4>1. conns \in [Conn -> ConnType] /\ conns[slave.conn].open \in BOOLEAN
        BY <2>1 DEF TypeOK, ConnType
      <4>2. \A c \in ConnType, b \in BOOLEAN : [c EXCEPT !.stored = b] \in ConnType
        BY DEF ConnType
      <4>3. conns' \in [Conn -> ConnType]
        BY <3>2, <2>1, <4>1, <4>2, UpdateType
      <4>4. QED
        BY <3>2, <2>1, <4>3 DEF TypeOK, SlaveType
    <3>3. QED
      BY <1>5, <3>1, <3>2 DEF SendTokenStored
  <2>3. QED
    BY <1>5, <2>2 DEF SendTokenStored, TypeOK, masterVars, adminVars
<1>6. CASE TokenCleared
  BY <1>6, LeaveType DEF TokenCleared, TypeOK, AnyToken, masterVars, adminVars
<1>7. CASE TokenWriteFails
  BY <1>7, <1>f DEF TokenWriteFails, TypeOK, SlaveType, AnyToken, masterVars, adminVars
<1>8. CASE ClearFails
  BY <1>8, <1>f, LeaveType DEF ClearFails, TypeOK, SlaveType, AnyToken, masterVars, adminVars
<1>9. CASE SaveCommandState
  BY <1>9 DEF SaveCommandState, TypeOK, masterVars, adminVars
<1>10. CASE SlaveRestart
  BY <1>10, <1>f, LeaveType DEF SlaveRestart, SlaveStarts, TypeOK, masterVars, adminVars
<1>11. CASE RunInstallScript
  BY <1>11, LeaveType DEF RunInstallScript, SlaveStarts, TypeOK, AnyToken, masterVars
<1>12. QED
  BY <1>1, <1>2, <1>3, <1>4, <1>5, <1>6, <1>7, <1>8, <1>9, <1>10, <1>11 DEF SlaveStep

\* Broken connections, the master's file, its restarts and the administrator keep
\* the types.
LEMMA TypeOthers ==
  ASSUME TypeOK,
         (\E k \in Conn : Break(k)) \/ SaveState \/ MasterRestart \/ ExpectNode \/ RevokeToken
           \/ issueNodeToken \/ DeleteNode \/ AdminStep
  PROVE  TypeOK'
<1> USE EnrollmentAssumption
<1>f. ASSUME Fault PROVE faults' \in 0..MaxFaults
  BY <1>f DEF Fault, TypeOK
<1>n. /\ nodeToken \in AnyToken /\ NoToken \in AnyToken /\ Token \subseteq AnyToken
      /\ AnyToken \ {NoToken} = Token
  BY DEF TypeOK, AnyToken
<1>a. IdleAdmin \in AdminType /\ admin \in AdminType
  BY DEF IdleAdmin, AdminType, AnyToken, TypeOK
<1>d. directory \in Directory /\ Expected \in Directory
  BY DEF Expected, Directory, TypeOK
<1>1. ASSUME NEW k \in Conn, Break(k) PROVE TypeOK'
  <2>1. conns \in [Conn -> ConnType]
    BY DEF TypeOK
  <2>2. PICK reply \in {conns[k].reply, "none"} :
          conns' = [conns EXCEPT ![k] = [@ EXCEPT !.open = FALSE, !.reply = reply]]
    BY <1>1 DEF Break
  <2>3. [conns[k] EXCEPT !.open = FALSE, !.reply = reply] \in ConnType
    BY <2>1 DEF ConnType
  <2>4. conns' \in [Conn -> ConnType]
    BY <2>1, <2>2, <2>3, UpdateType
  <2>5. QED
    BY <1>1, <1>f, <2>4 DEF Break, TypeOK, masterVars, adminVars, slaveVars
<1>2. CASE SaveState
  BY <1>2, <1>n, <1>d DEF SaveState, Snapshot, TypeOK, adminVars, slaveVars
<1>3. CASE MasterRestart
  <2>1. conns \in [Conn -> ConnType] /\ FreeConn \in ConnType
    BY DEF TypeOK, FreeConn, ConnType, AnyToken
  <2>2. ASSUME NEW k \in Conn
        PROVE  [conns[k] EXCEPT !.pc = "free", !.open = FALSE, !.stored = FALSE] \in ConnType
    BY <2>1 DEF ConnType
  <2>3. conns' \in [Conn -> ConnType]
    BY <1>3, <2>1, <2>2 DEF MasterRestart
  <2>4. QED
    BY <1>3, <1>f, <1>a, <2>3 DEF MasterRestart, TypeOK, slaveVars
<1>4. CASE ExpectNode
  <2>1. admin' \in AdminType
    BY <1>4, <1>a DEF ExpectNode, AdminType
  <2>2. QED
    BY <1>4, <1>d, <2>1 DEF ExpectNode, TypeOK, slaveVars
<1>5. CASE RevokeToken
  <2>1. admin' \in AdminType
    BY <1>5, <1>a, <1>n DEF RevokeToken, AdminType
  <2>2. QED
    BY <1>5, <1>n, <2>1 DEF RevokeToken, TypeOK, slaveVars
<1>6. CASE issueNodeToken
  <2>1. PICK t \in Token \ minted :
          /\ nodeToken' = t
          /\ minted' = minted \cup {t}
          /\ admin' = [pc |-> "save", then |-> "disconnect", token |-> nodeToken, issue |-> t]
    BY <1>6 DEF issueNodeToken
  <2>2. admin' \in AdminType
    BY <2>1, <1>n DEF AdminType
  <2>3. QED
    BY <1>6, <1>d, <1>n, <2>1, <2>2 DEF issueNodeToken, TypeOK, slaveVars
<1>7. CASE DeleteNode
  <2>1. admin' \in AdminType
    BY <1>7, <1>a DEF DeleteNode, AdminType
  <2>2. QED
    BY <1>7, <2>1 DEF DeleteNode, TypeOK, Directory, slaveVars
<1>8. CASE removeNodeToken
  <2>1. admin' \in AdminType
    BY <1>8, <1>a, <1>n DEF removeNodeToken, AdminType
  <2>2. QED
    BY <1>8, <1>n, <2>1 DEF removeNodeToken, TypeOK, slaveVars
<1>9. CASE AdminSaves
  <2>1. admin' \in AdminType
    BY <1>9, <1>a DEF AdminSaves, AdminType
  <2>2. QED
    BY <1>9, <1>n, <1>d, <2>1 DEF AdminSaves, Snapshot, TypeOK, slaveVars
<1>10. CASE disconnectNode
  <2>1. admin' \in AdminType
    BY <1>10, <1>a DEF disconnectNode, AdminType
  <2>2. conns' \in [Conn -> ConnType]
    BY <1>10, ClosedType DEF disconnectNode, TypeOK
  <2>3. QED
    BY <1>10, <2>1, <2>2 DEF disconnectNode, TypeOK, masterVars, slaveVars
<1>11. CASE AdminAnswers
  <2>1. admin.token \in AnyToken /\ admin.issue \in AnyToken
    BY <1>a DEF AdminType
  <2>2. QED
    BY <1>11, <1>a, <1>n, <2>1 DEF AdminAnswers, TypeOK, masterVars, slaveVars
<1>12. QED
  BY <1>1, <1>2, <1>3, <1>4, <1>5, <1>6, <1>7, <1>8, <1>9, <1>10, <1>11 DEF AdminStep

\* Every variable of the handshake keeps its type (Enrollment!TypeOK).
THEOREM TypeCorrect == Spec => []TypeOK
<1>1. TypeOK /\ [Next]_vars => TypeOK'
  <2> SUFFICES ASSUME TypeOK, [Next]_vars PROVE TypeOK'
    OBVIOUS
  <2>1. CASE Next
    BY <2>1, TypeHandler, TypeSlave, TypeOthers DEF Next
  <2>2. CASE UNCHANGED vars
    BY <2>2 DEF vars, masterVars, adminVars, slaveVars, TypeOK
  <2>3. QED
    BY <2>1, <2>2
<1>2. QED
  BY <1>1, TypeInit, PTL DEF Spec

----------------------------------------------------------------------------
(***************************************************************************)
(* Revoked tokens.  A token could come back through a handler that has     *)
(* issued it and not yet confirmed it, or through the file.                *)
(***************************************************************************)

\* Tokens that are, were, or will again be the node's.
Bound == {nodeToken, masterFile.token, admin.token} \cup revoked

\* A handler has issued a token and waits for its confirmation.
Pending(k) == conns[k].pc # "free" /\ conns[k].issued # NoToken

\* A pending token is known to nobody else at the master.
PendingIsNew ==
  /\ Bound \subseteq minted \cup {NoToken}
  /\ \A k \in Conn : Pending(k) => conns[k].issued \in minted \ Bound
  /\ \A j, k \in Conn :
       Pending(j) /\ Pending(k) /\ conns[j].issued = conns[k].issued => j = k

\* What a request takes away is gone from memory at once, and from the file once
\* that is saved.
Taken ==
  admin.token # NoToken => /\ nodeToken # admin.token
                           /\ admin.pc # "save" => masterFile.token # admin.token

GoneInv == RevokedIsGone /\ PendingIsNew /\ Taken

\* Pending tokens stay new when none is added and the master learns no token.
LEMMA PendingStep ==
  ASSUME PendingIsNew,
         \A k \in Conn : Pending(k)' => Pending(k) /\ conns'[k].issued = conns[k].issued,
         Bound' \subseteq Bound \cup {NoToken}, minted' = minted
  PROVE  PendingIsNew'
<1>1. Bound' \subseteq minted' \cup {NoToken}
  BY DEF PendingIsNew
<1>2. ASSUME NEW k \in Conn, Pending(k)' PROVE conns'[k].issued \in minted' \ Bound'
  BY <1>2 DEF PendingIsNew, Pending
<1>3. ASSUME NEW j \in Conn, NEW k \in Conn, Pending(j)', Pending(k)',
             conns'[j].issued = conns'[k].issued
      PROVE  j = k
  BY <1>3 DEF PendingIsNew
<1>4. QED
  BY <1>1, <1>2, <1>3 DEF PendingIsNew

\* Closing a connection, or leaving it, makes no token pending.
LEMMA PendingClosed ==
  ASSUME TypeOK, NEW c \in Conn \cup {NoConn}, NEW at,
         conns' = Closed(c) \/ SetConns(Closed(c), at), NEW k \in Conn, Pending(k)'
  PROVE  Pending(k) /\ conns'[k].issued = conns[k].issued
<1>1. conns \in [Conn -> ConnType]
  BY DEF TypeOK
<1>2. Closed(c)[k].pc = conns[k].pc /\ Closed(c)[k].issued = conns[k].issued
  BY <1>1 DEF Closed, ConnType
<1>3. QED
  BY <1>2 DEF Pending, SetConns, FreeConn

\* A connection that changes keeps its token, or has none pending.
LEMMA PendingUpdate ==
  ASSUME TypeOK, NEW k \in Conn, NEW r, NEW at,
         r.pc # "free" /\ r.issued # NoToken => conns[k].pc # "free" /\ r.issued = conns[k].issued,
         conns' = [conns EXCEPT ![k] = r] \/ SetConns([conns EXCEPT ![k] = r], at),
         NEW j \in Conn, Pending(j)'
  PROVE  Pending(j) /\ conns'[j].issued = conns[j].issued
<1>1. conns \in [Conn -> ConnType]
  BY DEF TypeOK
<1>2. [conns EXCEPT ![k] = r][j] = IF j = k THEN r ELSE conns[j]
  BY <1>1
<1>3. ASSUME NEW f, SetConns(f, at) PROVE conns'[j] = f[j] \/ conns'[j].pc = "free"
  BY <1>3 DEF SetConns, FreeConn
<1>4. conns'[j] = [conns EXCEPT ![k] = r][j] \/ conns'[j].pc = "free"
  BY <1>3
<1>5. QED
  BY <1>2, <1>4 DEF Pending

\* A handler's step keeps revoked tokens away.
LEMMA GoneHandler ==
  ASSUME TypeOK, GoneInv, NEW k \in Conn, HandlerStep(k)
  PROVE  GoneInv'
<1> USE EnrollmentAssumption
<1>c. conns \in [Conn -> ConnType]
  BY DEF TypeOK
<1>r. ASSUME NEW reply, Reject(k, reply), NEW j \in Conn, Pending(j)'
      PROVE  Pending(j) /\ conns'[j].issued = conns[j].issued
  <2>1. [conns[k] EXCEPT !.pc = "free", !.reply = Answer(k, reply), !.open = FALSE].pc = "free"
    BY <1>c DEF ConnType
  <2>2. QED
    BY <1>r, <2>1, PendingUpdate DEF Reject
<1>e. ASSUME HandlerEnds(k), NEW j \in Conn, Pending(j)'
      PROVE  Pending(j) /\ conns'[j].issued = conns[j].issued
  <2>1. [conns[k] EXCEPT !.pc = "free", !.open = FALSE, !.stored = FALSE].pc = "free"
    BY <1>c DEF ConnType
  <2>2. QED
    BY <1>e, <2>1, PendingUpdate DEF HandlerEnds
<1>1. CASE authenticateNode(k)
  <2>1. RevokedIsGone' /\ Taken' /\ Bound' = Bound
    BY <1>1 DEF authenticateNode, masterVars, adminVars, RevokedIsGone, Taken, GoneInv, Bound
  <2>2. CASE UNCHANGED minted
    <3>1. ASSUME NEW j \in Conn, Pending(j)'
          PROVE  Pending(j) /\ conns'[j].issued = conns[j].issued
      <4>1. CASE conns' = [conns EXCEPT ![k] = [@ EXCEPT !.pc = "authenticated", !.hash = nodeToken]]
                 /\ conns[k].pc = "new"
        BY <3>1, <4>1, <1>c DEF Pending, ConnType
      <4>2. CASE Reject(k, "invalid token") \/ Reject(k, "enrollment closed")
        BY <3>1, <4>2, <1>r
      <4>3. ~(\E t \in Token \ minted : minted' = minted \cup {t})
        BY <2>2
      <4>4. QED
        BY <1>1, <4>1, <4>2, <4>3 DEF authenticateNode
    <3>2. QED
      BY <2>1, <2>2, <3>1, PendingStep DEF GoneInv
  <2>3. ASSUME NEW t \in Token \ minted,
               conns' = [conns EXCEPT ![k] = [@ EXCEPT !.pc = "authenticated", !.issued = t]],
               minted' = minted \cup {t}
        PROVE  PendingIsNew'
    <3>1. t \notin Bound /\ t # NoToken
      BY DEF GoneInv, PendingIsNew
    <3>2. /\ conns'[k].issued = t
          /\ \A j \in Conn \ {k} : conns'[j] = conns[j]
      BY <1>c, <2>3 DEF ConnType
    <3>3. \A j \in Conn \ {k} : Pending(j)' => Pending(j) /\ conns'[j].issued \in minted \ Bound
      BY <3>2 DEF Pending, GoneInv, PendingIsNew
    <3>4. \A i, j \in Conn : Pending(i)' /\ Pending(j)' /\ conns'[i].issued = conns'[j].issued => i = j
      BY <3>2, <3>3 DEF GoneInv, PendingIsNew
    <3>5. \A j \in Conn : Pending(j)' => conns'[j].issued \in minted' \ Bound'
      BY <2>1, <2>3, <3>1, <3>2, <3>3
    <3>6. Bound' \subseteq minted' \cup {NoToken}
      BY <2>1, <2>3 DEF GoneInv, PendingIsNew
    <3>7. QED
      BY <3>4, <3>5, <3>6 DEF PendingIsNew
  <2>4. QED
    BY <1>1, <2>1, <2>2, <2>3 DEF authenticateNode, GoneInv
<1>2. CASE registerIfTokenUnchanged(k)
  <2>1. RevokedIsGone' /\ Taken' /\ Bound' = Bound /\ minted' = minted
    BY <1>2 DEF registerIfTokenUnchanged, adminVars, RevokedIsGone, Taken, GoneInv, Bound
  <2>2. Closed(registry) \in [Conn -> ConnType]
    BY ClosedType DEF TypeOK
  <2>3. \A j \in Conn : Closed(registry)[j].pc = conns[j].pc /\ Closed(registry)[j].issued = conns[j].issued
    BY <1>c DEF Closed, ConnType
  <2>4. ASSUME NEW j \in Conn, Pending(j)'
        PROVE  Pending(j) /\ conns'[j].issued = conns[j].issued
    <3>1. CASE conns' = [Closed(registry) EXCEPT ![k] = [@ EXCEPT !.pc = "registered"]]
      BY <1>2, <2>2, <2>3, <2>4, <3>1 DEF registerIfTokenUnchanged, Pending, ConnType
    <3>2. QED
      BY <1>2, <1>r, <2>4, <3>1 DEF registerIfTokenUnchanged
  <2>5. QED
    BY <2>1, <2>4, PendingStep DEF GoneInv
<1>3. CASE Observe(k) \/ SendRegisterAck(k) \/ SaveConfirmed(k)
  <2>1. RevokedIsGone' /\ Taken' /\ Bound' \subseteq Bound /\ minted' = minted
    BY <1>3 DEF Observe, SendRegisterAck, SaveConfirmed, Snapshot, adminVars, RevokedIsGone, Taken,
                GoneInv, Bound
  <2>2. ASSUME NEW j \in Conn, Pending(j)'
        PROVE  Pending(j) /\ conns'[j].issued = conns[j].issued
    <3>1. conns[k].pc # "free"
      BY <1>3 DEF Observe, SendRegisterAck, SaveConfirmed
    <3>2. \A c \in ConnType : \A pc, reply :
            /\ [c EXCEPT !.pc = pc].issued = c.issued
            /\ [c EXCEPT !.pc = pc, !.reply = reply].issued = c.issued
      BY DEF ConnType
    <3>3. CASE Observe(k)
      BY <1>c, <2>2, <3>1, <3>2, <3>3, PendingUpdate DEF Observe
    <3>4. CASE SendRegisterAck(k)
      <4>1. PICK reply : conns' = [conns EXCEPT ![k] = [@ EXCEPT !.pc = "read", !.reply = reply]]
        BY <3>4 DEF SendRegisterAck
      <4>2. [conns[k] EXCEPT !.pc = "read", !.reply = reply].issued = conns[k].issued
        BY <1>c, <3>2
      <4>3. QED
        BY <2>2, <3>1, <4>1, <4>2, PendingUpdate
    <3>5. CASE SaveConfirmed(k)
      BY <1>c, <2>2, <3>1, <3>2, <3>5, PendingUpdate DEF SaveConfirmed
    <3>6. QED
      BY <1>3, <3>3, <3>4, <3>5
  <2>3. QED
    BY <2>1, <2>2, PendingStep DEF GoneInv
<1>4. CASE ReadFails(k) \/ (ReadTokenStored(k) /\ HandlerEnds(k) /\ UNCHANGED nodeToken)
  <2>1. RevokedIsGone' /\ Taken' /\ Bound' = Bound /\ minted' = minted /\ HandlerEnds(k)
    BY <1>4 DEF ReadFails, ReadTokenStored, adminVars, RevokedIsGone, Taken, GoneInv, Bound
  <2>2. QED
    BY <2>1, <1>e, PendingStep DEF GoneInv
<1>5. CASE /\ ReadTokenStored(k)
           /\ nodeToken' = conns[k].issued
           /\ conns' = [conns EXCEPT ![k] = [@ EXCEPT !.pc = "save", !.stored = FALSE,
                                            !.issued = NoToken, !.bound = conns[k].issued]]
  <2>1. UNCHANGED <<masterFile, admin, revoked, minted>> /\ conns[k].pc = "read"
    BY <1>5 DEF ReadTokenStored, adminVars
  <2>2. conns[k].issued # NoToken => Pending(k) /\ conns[k].issued \in minted \ Bound
    BY <2>1 DEF Pending, GoneInv, PendingIsNew
  <2>3. /\ conns'[k].issued = NoToken
        /\ \A j \in Conn \ {k} : conns'[j] = conns[j]
    BY <1>5, <1>c DEF ConnType
  <2>4. RevokedIsGone' /\ Taken'
    BY <1>5, <2>1, <2>2 DEF RevokedIsGone, Taken, GoneInv, Bound, TypeOK
  <2>5. Bound' \subseteq Bound \cup {conns[k].issued}
    BY <1>5, <2>1 DEF Bound
  <2>6. \A j \in Conn : Pending(j)' => j # k /\ Pending(j) /\ conns'[j].issued = conns[j].issued
    BY <2>3 DEF Pending
  <2>7. \A j \in Conn : Pending(j)' => conns'[j].issued # conns[k].issued
    BY <2>2, <2>6 DEF GoneInv, PendingIsNew, Pending
  <2>8. \A j \in Conn : Pending(j)' => conns'[j].issued \in minted' \ Bound'
    BY <2>1, <2>5, <2>6, <2>7 DEF GoneInv, PendingIsNew
  <2>9. \A i, j \in Conn : Pending(i)' /\ Pending(j)' /\ conns'[i].issued = conns'[j].issued => i = j
    BY <2>6 DEF GoneInv, PendingIsNew
  <2>10. Bound' \subseteq minted' \cup {NoToken}
    BY <2>1, <2>2, <2>5 DEF GoneInv, PendingIsNew
  <2>11. QED
    BY <2>4, <2>8, <2>9, <2>10 DEF GoneInv, PendingIsNew
<1>6. QED
  BY <1>1, <1>2, <1>3, <1>4, <1>5 DEF HandlerStep, ReadTokenStored, confirmIssuedToken

\* Nothing the slave does, or that happens to a connection, makes a token pending.
LEMMA GoneSlave ==
  ASSUME TypeOK, GoneInv,
         SlaveStep \/ TokenWriteFails \/ ClearFails \/ SaveCommandState \/ SlaveRestart
           \/ RunInstallScript \/ \E k \in Conn : Break(k)
  PROVE  GoneInv'
<1>c. conns \in [Conn -> ConnType] /\ slave.conn \in Conn \cup {NoConn}
  BY DEF TypeOK, SlaveType
<1>m. UNCHANGED <<nodeToken, masterFile, admin, revoked, minted>>
  BY DEF SlaveStep, Dial, ConnectionLost, ReadRegisterAck, TokenWritten, SendTokenStored, TokenCleared,
         TokenWriteFails, ClearFails, SaveCommandState, SlaveRestart, RunInstallScript, Break,
         masterVars, adminVars
<1>1. RevokedIsGone' /\ Taken' /\ Bound' = Bound
  BY <1>m DEF RevokedIsGone, Taken, GoneInv, Bound
<1>2. ASSUME NEW j \in Conn, Pending(j)'
      PROVE  Pending(j) /\ conns'[j].issued = conns[j].issued
  <2>1. CASE LeaveConn
    BY <1>c, <1>2, <2>1, PendingClosed DEF LeaveConn
  <2>2. CASE UNCHANGED conns
    BY <1>2, <2>2 DEF Pending
  <2>3. ASSUME NEW k \in Conn, Dial(k) \/ Break(k)
        PROVE  Pending(j) /\ conns'[j].issued = conns[j].issued
    <3>1. CASE Dial(k)
      <4>1. [conns[k] EXCEPT !.pc = "new", !.token = registerToken, !.open = TRUE].issued = NoToken
        BY <3>1 DEF Dial, FreeConn
      <4>2. QED
        BY <1>2, <3>1, <4>1, PendingUpdate DEF Dial
    <3>2. CASE Break(k)
      <4>1. PICK reply : conns' = [conns EXCEPT ![k] = [@ EXCEPT !.open = FALSE, !.reply = reply]]
        BY <3>2 DEF Break
      <4>2. /\ [conns[k] EXCEPT !.open = FALSE, !.reply = reply].pc = conns[k].pc
            /\ [conns[k] EXCEPT !.open = FALSE, !.reply = reply].issued = conns[k].issued
        BY <1>c DEF ConnType
      <4>3. QED
        BY <1>2, <4>1, <4>2, PendingUpdate
    <3>3. QED
      BY <2>3, <3>1, <3>2
  <2>4. CASE SendTokenStored /\ ~LeaveConn
    <3>1. slave.conn \in Conn
      BY <1>c, <2>4 DEF SendTokenStored, TypeOK
    <3>2. \A c \in ConnType : \A b : /\ [c EXCEPT !.stored = b].pc = c.pc
                                     /\ [c EXCEPT !.stored = b].issued = c.issued
      BY DEF ConnType
    <3>3. conns' = [conns EXCEPT ![slave.conn] = [@ EXCEPT !.stored = conns[slave.conn].open]]
      BY <2>4 DEF SendTokenStored
    <3>4. conns[slave.conn] \in ConnType
      BY <1>c, <3>1
    <3>5. QED
      BY <1>2, <3>1, <3>2, <3>3, <3>4, PendingUpdate
  <2>5. QED
    BY <2>1, <2>2, <2>3, <2>4
       DEF SlaveStep, ConnectionLost, ReadRegisterAck, SetIssuedToken, TokenWritten, TokenCleared,
           TokenWriteFails, ClearFails, SaveCommandState, SlaveRestart, RunInstallScript, SlaveStarts
<1>3. QED
  BY <1>1, <1>2, <1>m, PendingStep DEF GoneInv

\* What the administrator takes away is not saved again.
LEMMA GoneAdmin ==
  ASSUME TypeOK, GoneInv,
         SaveState \/ MasterRestart \/ ExpectNode \/ RevokeToken \/ issueNodeToken \/ DeleteNode
           \/ AdminStep
  PROVE  GoneInv'
<1> USE EnrollmentAssumption
<1>c. conns \in [Conn -> ConnType] /\ revoked \subseteq Token /\ admin \in AdminType
  BY DEF TypeOK
<1>p. ASSUME NEW j \in Conn, Pending(j)'
      PROVE  Pending(j) /\ conns'[j].issued = conns[j].issued
  <2>1. CASE UNCHANGED conns
    BY <1>p, <2>1 DEF Pending
  <2>2. CASE MasterRestart
    <3>1. \A c \in ConnType :
            [c EXCEPT !.pc = "free", !.open = FALSE, !.stored = FALSE].pc = "free"
      BY DEF ConnType
    <3>2. conns'[j].pc = "free"
      BY <1>c, <2>2, <3>1 DEF MasterRestart, FreeConn
    <3>3. QED
      BY <1>p, <3>2 DEF Pending
  <2>3. CASE disconnectNode
    <3>1. registry \in Conn \cup {NoConn} /\ conns' = Closed(registry)
      BY <2>3 DEF disconnectNode, TypeOK
    <3>2. QED
      BY <1>p, <3>1, PendingClosed
  <2>4. QED
    BY <2>1, <2>2, <2>3 DEF SaveState, ExpectNode, RevokeToken, issueNodeToken, DeleteNode, AdminStep,
                            removeNodeToken, AdminSaves, AdminAnswers
<1>1. CASE issueNodeToken
  <2>1. PICK t \in Token \ minted :
          /\ nodeToken' = t
          /\ minted' = minted \cup {t}
          /\ admin' = [pc |-> "save", then |-> "disconnect", token |-> nodeToken, issue |-> t]
    BY <1>1 DEF issueNodeToken
  <2>2. t \notin Bound /\ t # NoToken
    BY DEF GoneInv, PendingIsNew
  <2>3. UNCHANGED <<masterFile, revoked, conns>>
    BY <1>1 DEF issueNodeToken
  <2>4. RevokedIsGone' /\ Taken' /\ Bound' \subseteq Bound \cup {t}
    BY <2>1, <2>2, <2>3 DEF RevokedIsGone, Taken, GoneInv, Bound
  <2>5. PendingIsNew'
    BY <2>1, <2>3, <2>4 DEF GoneInv, PendingIsNew, Pending
  <2>6. QED
    BY <2>4, <2>5 DEF GoneInv
<1>2. CASE ~issueNodeToken
  <2>1. minted' = minted
    BY <1>2 DEF SaveState, MasterRestart, ExpectNode, RevokeToken, DeleteNode, AdminStep,
                removeNodeToken, AdminSaves, AdminAnswers, disconnectNode
  <2>2. RevokedIsGone' /\ Taken' /\ Bound' \subseteq Bound \cup {NoToken}
    <3>1. CASE SaveState \/ AdminSaves
      BY <1>c, <3>1 DEF SaveState, AdminSaves, Snapshot, adminVars, AdminType, RevokedIsGone, Taken,
                  GoneInv, Bound
    <3>2. CASE MasterRestart
      BY <3>2 DEF MasterRestart, IdleAdmin, RevokedIsGone, Taken, GoneInv, Bound
    <3>3. CASE ExpectNode \/ DeleteNode
      BY <3>3 DEF ExpectNode, DeleteNode, IdleAdmin, RevokedIsGone, Taken, GoneInv, Bound
    <3>4. CASE RevokeToken \/ removeNodeToken
      BY <1>c, <3>4 DEF RevokeToken, removeNodeToken, IdleAdmin, RevokedIsGone, Taken, GoneInv, Bound
    <3>5. CASE disconnectNode
      BY <1>c, <3>5 DEF disconnectNode, masterVars, AdminType, RevokedIsGone, Taken, GoneInv, Bound
    <3>6. CASE AdminAnswers
      BY <1>c, <3>6 DEF AdminAnswers, IdleAdmin, masterVars, AdminType, RevokedIsGone, Taken, GoneInv, Bound
    <3>7. QED
      BY <1>2, <3>1, <3>2, <3>3, <3>4, <3>5, <3>6 DEF AdminStep
  <2>3. QED
    BY <1>p, <2>1, <2>2, PendingStep DEF GoneInv
<1>3. QED
  BY <1>1, <1>2

\* A token whose revocation or replacement was answered is never the node's token
\* again, in memory or in the state file, whatever handlers, restarts and failed
\* writes are in between (Enrollment!RevokedIsGone).
THEOREM RevokedGone == Spec => []RevokedIsGone
<1>1. Init => GoneInv
  BY EnrollmentAssumption
     DEF Init, GoneInv, RevokedIsGone, PendingIsNew, Pending, Bound, Taken, FreeConn, IdleAdmin
<1>2. TypeOK /\ GoneInv /\ [Next]_vars => GoneInv'
  <2> SUFFICES ASSUME TypeOK, GoneInv, [Next]_vars PROVE GoneInv'
    OBVIOUS
  <2>1. CASE Next
    BY <2>1, GoneHandler, GoneSlave, GoneAdmin DEF Next
  <2>2. CASE UNCHANGED vars
    BY <2>2 DEF vars, masterVars, adminVars, GoneInv, RevokedIsGone, PendingIsNew, Pending, Bound, Taken
  <2>3. QED
    BY <2>1, <2>2
<1>3. GoneInv => RevokedIsGone
  BY DEF GoneInv
<1>4. QED
  BY <1>1, <1>2, <1>3, TypeCorrect, PTL DEF Spec

(***************************************************************************)
(* Stored tokens.  A token_stored in flight is about a token that is in    *)
(* the slave's file, also when the slave has gone on to another connection.*)
(***************************************************************************)
Handshaking == slave.pc \in {"register", "store", "confirm"}

\* A connection before its registration is acknowledged has nothing to confirm;
\* later, what it confirms and what was bound is stored.
ConnSound(c) ==
  /\ c.pc \in {"new", "authenticated", "registered", "observed"} =>
       c.reply = "none" /\ ~c.stored /\ c.bound = NoToken
  /\ c.stored => c.issued \in stored
  /\ c.bound # NoToken => c.bound \in stored

\* The slave stores and confirms the token of the connection it is at.
SlaveSound(c) ==
  /\ Handshaking => ~c.stored /\ c.pc # "save"
  /\ slave.pc \in {"store", "confirm"} => c.issued = issuedToken /\ c.pc \in {"read", "free"}
  /\ slave.pc = "confirm" => issuedToken \in stored

HandshakeInv ==
  /\ \A k \in Conn : ConnSound(conns[k])
  /\ slave.conn # NoConn => SlaveSound(conns[slave.conn])

\* A sound change of one connection by the master keeps the handshake.
LEMMA SoundUpdate ==
  ASSUME TypeOK, HandshakeInv, UNCHANGED <<slave, issuedToken, stored>>, NEW k \in Conn, NEW r,
         conns' = [conns EXCEPT ![k] = r] \/ SetConns([conns EXCEPT ![k] = r], slave.conn),
         ConnSound(r), slave.conn = k => SlaveSound(r)
  PROVE  HandshakeInv'
<1>0. conns \in [Conn -> ConnType]
  BY DEF TypeOK
<1>1. \A j \in Conn : \/ conns'[j] = IF j = k THEN r ELSE conns[j]
                      \/ conns'[j] = FreeConn /\ j # slave.conn
  <2>1. ASSUME NEW f, SetConns(f, slave.conn), NEW j \in Conn
        PROVE  conns'[j] = f[j] \/ (conns'[j] = FreeConn /\ j # slave.conn)
    BY <2>1 DEF SetConns
  <2>2. \A j \in Conn : [conns EXCEPT ![k] = r][j] = IF j = k THEN r ELSE conns[j]
    BY <1>0
  <2>3. QED
    BY <2>1, <2>2
<1>2. ConnSound(FreeConn)
  BY DEF ConnSound, FreeConn
<1>3. \A j \in Conn : ConnSound(conns'[j])
  BY <1>1, <1>2 DEF HandshakeInv
<1>4. slave.conn # NoConn => SlaveSound(conns'[slave.conn])
  <2>1. slave.conn \in Conn \cup {NoConn}
    BY DEF TypeOK, SlaveType
  <2>2. QED
    BY <1>1, <2>1 DEF HandshakeInv
<1>5. (\A j \in Conn : ConnSound(conns[j])') /\ (slave'.conn # NoConn => SlaveSound(conns[slave.conn])')
  BY <1>3, <1>4 DEF ConnSound, SlaveSound, Handshaking
<1>6. QED
  BY <1>5 DEF HandshakeInv

\* The master's handler keeps the handshake.
LEMMA SoundHandler ==
  ASSUME TypeOK, HandshakeInv, NEW k \in Conn, HandlerStep(k)
  PROVE  HandshakeInv'
<1> USE EnrollmentAssumption
<1>c. conns \in [Conn -> ConnType] /\ conns[k] \in ConnType
  BY DEF TypeOK
<1>s. ConnSound(conns[k]) /\ (slave.conn = k => SlaveSound(conns[k]))
  BY DEF HandshakeInv, TypeOK
<1>u. UNCHANGED <<slave, issuedToken, stored>>
  BY DEF HandlerStep, authenticateNode, registerIfTokenUnchanged, Observe, SendRegisterAck,
         ReadTokenStored, SaveConfirmed, ReadFails, slaveVars
<1>r. ASSUME NEW reply, Reject(k, reply), conns[k].pc \in {"new", "authenticated"}
      PROVE  HandshakeInv'
  <2> DEFINE r == [conns[k] EXCEPT !.pc = "free", !.reply = Answer(k, reply), !.open = FALSE]
  <2>1. /\ r.pc = "free" /\ r.stored = conns[k].stored /\ r.issued = conns[k].issued
        /\ r.bound = conns[k].bound
    BY <1>c DEF ConnType
  <2>2. ConnSound(r)
    BY <1>s, <2>1 DEF ConnSound
  <2>3. slave.conn = k => SlaveSound(r)
    BY <1>s, <2>1 DEF SlaveSound
  <2>4. SetConns([conns EXCEPT ![k] = r], slave.conn)
    BY <1>r DEF Reject
  <2>5. QED
    BY <1>u, <2>2, <2>3, <2>4, SoundUpdate
<1>e. ASSUME HandlerEnds(k), conns[k].pc = "read" PROVE HandshakeInv'
  <2> DEFINE r == [conns[k] EXCEPT !.pc = "free", !.open = FALSE, !.stored = FALSE]
  <2>1. r.pc = "free" /\ r.stored = FALSE /\ r.issued = conns[k].issued /\ r.bound = conns[k].bound
    BY <1>c DEF ConnType
  <2>2. ConnSound(r)
    BY <1>s, <2>1 DEF ConnSound
  <2>3. slave.conn = k => SlaveSound(r)
    BY <1>s, <2>1 DEF SlaveSound
  <2>4. SetConns([conns EXCEPT ![k] = r], slave.conn)
    BY <1>e DEF HandlerEnds
  <2>5. QED
    BY <1>u, <2>2, <2>3, <2>4, SoundUpdate
<1>1. CASE authenticateNode(k)
  <2>1. ASSUME conns' = [conns EXCEPT ![k] = [@ EXCEPT !.pc = "authenticated", !.hash = nodeToken]]
        PROVE  HandshakeInv'
    <3> DEFINE r == [conns[k] EXCEPT !.pc = "authenticated", !.hash = nodeToken]
    <3>1. /\ r.pc = "authenticated" /\ r.stored = conns[k].stored /\ r.reply = conns[k].reply
          /\ r.bound = conns[k].bound /\ r.issued = conns[k].issued
      BY <1>c DEF ConnType
    <3>2. ConnSound(r) /\ (slave.conn = k => SlaveSound(r))
      BY <1>1, <1>s, <3>1 DEF authenticateNode, ConnSound, SlaveSound
    <3>3. conns' = [conns EXCEPT ![k] = r]
      BY <2>1
    <3>4. QED
      BY <1>u, <3>2, <3>3, SoundUpdate
  <2>2. ASSUME NEW t \in Token,
               conns' = [conns EXCEPT ![k] = [@ EXCEPT !.pc = "authenticated", !.issued = t]]
        PROVE  HandshakeInv'
    <3> DEFINE r == [conns[k] EXCEPT !.pc = "authenticated", !.issued = t]
    <3>1. /\ r.pc = "authenticated" /\ r.stored = conns[k].stored /\ r.reply = conns[k].reply
          /\ r.bound = conns[k].bound
      BY <1>c DEF ConnType
    <3>2. ConnSound(r) /\ (slave.conn = k => SlaveSound(r))
      BY <1>1, <1>s, <3>1 DEF authenticateNode, ConnSound, SlaveSound
    <3>3. conns' = [conns EXCEPT ![k] = r]
      BY <2>2
    <3>4. QED
      BY <1>u, <3>2, <3>3, SoundUpdate
  <2>3. QED
    BY <1>1, <1>r, <2>1, <2>2 DEF authenticateNode
<1>2. CASE registerIfTokenUnchanged(k)
  <2>1. CASE conns' = [Closed(registry) EXCEPT ![k] = [@ EXCEPT !.pc = "registered"]]
    <3>1. \A j \in Conn :
            /\ conns'[j].pc = IF j = k THEN "registered" ELSE conns[j].pc
            /\ conns'[j].stored = conns[j].stored /\ conns'[j].issued = conns[j].issued
            /\ conns'[j].reply = conns[j].reply /\ conns'[j].bound = conns[j].bound
      <4>1. Closed(registry) \in [Conn -> ConnType]
        BY ClosedType DEF TypeOK
      <4>2. \A c \in ConnType : /\ c.pc = [c EXCEPT !.open = FALSE].pc
                                /\ c.stored = [c EXCEPT !.open = FALSE].stored
                                /\ c.issued = [c EXCEPT !.open = FALSE].issued
                                /\ c.reply = [c EXCEPT !.open = FALSE].reply
                                /\ c.bound = [c EXCEPT !.open = FALSE].bound
        BY DEF ConnType
      <4>3. \A j \in Conn :
              /\ Closed(registry)[j].pc = conns[j].pc
              /\ Closed(registry)[j].stored = conns[j].stored
              /\ Closed(registry)[j].issued = conns[j].issued
              /\ Closed(registry)[j].reply = conns[j].reply
              /\ Closed(registry)[j].bound = conns[j].bound
        BY <1>c, <4>2 DEF Closed
      <4>4. \A c \in ConnType : /\ [c EXCEPT !.pc = "registered"].pc = "registered"
                                /\ c.stored = [c EXCEPT !.pc = "registered"].stored
                                /\ c.issued = [c EXCEPT !.pc = "registered"].issued
                                /\ c.reply = [c EXCEPT !.pc = "registered"].reply
                                /\ c.bound = [c EXCEPT !.pc = "registered"].bound
        BY DEF ConnType
      <4>5. QED
        BY <2>1, <4>1, <4>3, <4>4
    <3>2. conns[k].pc = "authenticated"
      BY <1>2 DEF registerIfTokenUnchanged
    <3>3. \A j \in Conn : ConnSound(conns[j])'
      BY <1>u, <3>1, <3>2 DEF HandshakeInv, ConnSound
    <3>4. slave.conn # NoConn => SlaveSound(conns[slave.conn])'
      <4>1. slave.conn \in Conn \cup {NoConn}
        BY DEF TypeOK, SlaveType
      <4>2. QED
        BY <1>u, <3>1, <3>2, <4>1 DEF HandshakeInv, SlaveSound, Handshaking
    <3>5. QED
      BY <1>u, <3>3, <3>4 DEF HandshakeInv
  <2>2. QED
    BY <1>2, <1>r, <2>1 DEF registerIfTokenUnchanged
<1>3. CASE Observe(k) \/ SaveConfirmed(k)
  <2>1. PICK pc \in {"observed", "read"} :
          /\ conns' = [conns EXCEPT ![k] = [@ EXCEPT !.pc = pc]]
          /\ pc = "observed" => conns[k].pc = "registered"
          /\ pc = "read" => conns[k].pc = "save"
    BY <1>3 DEF Observe, SaveConfirmed
  <2> DEFINE r == [conns[k] EXCEPT !.pc = pc]
  <2>2. /\ r.pc = pc /\ r.stored = conns[k].stored /\ r.reply = conns[k].reply
        /\ r.bound = conns[k].bound /\ r.issued = conns[k].issued
    BY <1>c DEF ConnType
  <2>3. ConnSound(r) /\ (slave.conn = k => SlaveSound(r))
    BY <1>s, <2>1, <2>2 DEF ConnSound, SlaveSound, Handshaking
  <2>4. conns' = [conns EXCEPT ![k] = r]
    BY <2>1
  <2>5. QED
    BY <1>u, <2>3, <2>4, SoundUpdate
<1>4. CASE SendRegisterAck(k)
  <2> DEFINE r == [conns[k] EXCEPT !.pc = "read", !.reply = Answer(k, "accepted")]
  <2>1. /\ r.pc = "read" /\ r.stored = conns[k].stored /\ r.bound = conns[k].bound
        /\ r.issued = conns[k].issued
    BY <1>c DEF ConnType
  <2>2. ConnSound(r) /\ (slave.conn = k => SlaveSound(r))
    BY <1>4, <1>s, <2>1 DEF SendRegisterAck, ConnSound, SlaveSound, Handshaking
  <2>3. conns' = [conns EXCEPT ![k] = r]
    BY <1>4 DEF SendRegisterAck
  <2>4. QED
    BY <1>u, <2>2, <2>3, SoundUpdate
<1>5. CASE ReadTokenStored(k)
  <2>1. CASE conns' = [conns EXCEPT ![k] = [@ EXCEPT !.pc = "save", !.stored = FALSE,
                                            !.issued = NoToken, !.bound = conns[k].issued]]
    <3> DEFINE r == [conns[k] EXCEPT !.pc = "save", !.stored = FALSE, !.issued = NoToken,
                                     !.bound = conns[k].issued]
    <3>1. r.pc = "save" /\ r.stored = FALSE /\ r.bound = conns[k].issued
      BY <1>c DEF ConnType
    <3>2. conns[k].stored
      BY <1>5 DEF ReadTokenStored
    <3>3. ConnSound(r)
      BY <1>s, <3>1, <3>2 DEF ConnSound
    <3>4. slave.conn = k => SlaveSound(r)
      BY <1>s, <3>2 DEF SlaveSound, Handshaking
    <3>5. conns' = [conns EXCEPT ![k] = r]
      BY <2>1
    <3>6. QED
      BY <1>u, <3>3, <3>4, <3>5, SoundUpdate
  <2>2. QED
    BY <1>5, <1>e, <2>1 DEF ReadTokenStored, confirmIssuedToken
<1>6. CASE ReadFails(k)
  BY <1>6, <1>e DEF ReadFails
<1>7. QED
  BY <1>1, <1>2, <1>3, <1>4, <1>5, <1>6 DEF HandlerStep

\* A slave that leaves its connection owes nothing on it.
LEMMA SoundLeave ==
  ASSUME TypeOK, HandshakeInv, LeaveConn, UNCHANGED stored
  PROVE  HandshakeInv'
<1>c. conns \in [Conn -> ConnType]
  BY DEF TypeOK
<1>1. ConnSound(FreeConn)
  BY DEF ConnSound, FreeConn
<1>2. ASSUME NEW c \in ConnType, ConnSound(c) PROVE ConnSound([c EXCEPT !.open = FALSE])
  BY <1>2 DEF ConnSound, ConnType
<1>3. ASSUME NEW j \in Conn PROVE ConnSound(Closed(slave.conn)[j])
  BY <1>c, <1>2 DEF Closed, HandshakeInv
<1>4. \A j \in Conn : conns'[j] = FreeConn \/ conns'[j] = Closed(slave.conn)[j]
  BY DEF LeaveConn, SetConns
<1>5. \A j \in Conn : ConnSound(conns'[j])
  BY <1>1, <1>3, <1>4
<1>6. \A j \in Conn : ConnSound(conns[j])'
  BY <1>5 DEF ConnSound
<1>7. slave'.conn = NoConn
  BY DEF LeaveConn, Away
<1>8. QED
  BY <1>6, <1>7 DEF HandshakeInv

\* The slave confirms only what it has stored.
LEMMA SoundSlave ==
  ASSUME TypeOK, HandshakeInv,
         SlaveStep \/ TokenWriteFails \/ ClearFails \/ SaveCommandState \/ SlaveRestart
           \/ RunInstallScript
  PROVE  HandshakeInv'
<1> USE EnrollmentAssumption
<1>c. conns \in [Conn -> ConnType] /\ slave \in SlaveType
  BY DEF TypeOK
<1>1. ASSUME NEW k \in Conn, Dial(k) PROVE HandshakeInv'
  <2> DEFINE r == [FreeConn EXCEPT !.pc = "new", !.token = registerToken, !.open = TRUE]
  <2>1. r.pc = "new" /\ r.reply = "none" /\ ~r.stored /\ r.bound = NoToken
    BY DEF FreeConn
  <2>2. conns' = [conns EXCEPT ![k] = r]
    BY <1>1, <1>c DEF Dial
  <2>3. \A j \in Conn : conns'[j] = IF j = k THEN r ELSE conns[j]
    BY <1>c, <2>2
  <2>4. slave'.pc = "register" /\ slave'.conn = k /\ UNCHANGED stored
    BY <1>1 DEF Dial, Away
  <2>5. \A j \in Conn : ConnSound(conns[j])'
    BY <2>1, <2>3, <2>4 DEF HandshakeInv, ConnSound
  <2>6. SlaveSound(conns[slave.conn])'
    BY <2>1, <2>3, <2>4 DEF SlaveSound, Handshaking
  <2>7. QED
    BY <2>5, <2>6 DEF HandshakeInv
<1>2. CASE /\ ConnectionLost \/ ReadRegisterAck \/ SendTokenStored \/ TokenCleared \/ ClearFails
                \/ SlaveRestart \/ RunInstallScript
           /\ LeaveConn
  <2>1. UNCHANGED stored
    BY <1>2 DEF ConnectionLost, ReadRegisterAck, SendTokenStored, TokenCleared, ClearFails,
                SlaveRestart, RunInstallScript
  <2>2. QED
    BY <1>2, <2>1, SoundLeave
<1>3. CASE ReadRegisterAck /\ ~LeaveConn
  <2> DEFINE c == conns[slave.conn]
  <2>1. slave.conn \in Conn /\ c \in ConnType
    BY <1>3, <1>c DEF ReadRegisterAck, TypeOK, SlaveType
  <2>2. ConnSound(c) /\ SlaveSound(c) /\ slave.pc = "register" /\ UNCHANGED <<stored, conns>>
    BY <1>3, <2>1 DEF HandshakeInv, ReadRegisterAck, SetIssuedToken
  <2>3. \A j \in Conn : ConnSound(conns[j])'
    BY <2>2 DEF HandshakeInv, ConnSound
  <2>4. slave'.conn = slave.conn
    BY <1>3, <1>c DEF ReadRegisterAck, SetIssuedToken, SlaveType
  <2>5. CASE slave' = [slave EXCEPT !.pc = "up"] \/ SetIssuedToken(NoToken, "clear")
    <3>1. slave'.pc \in {"up", "clear"}
      BY <1>c, <2>5 DEF SetIssuedToken, SlaveType
    <3>2. SlaveSound(conns[slave.conn])'
      BY <3>1 DEF SlaveSound, Handshaking
    <3>3. QED
      BY <2>3, <3>2 DEF HandshakeInv
  <2>6. CASE c.reply = "accepted" /\ SetIssuedToken(c.issued, "store")
    <3>1. slave'.pc = "store" /\ issuedToken' = c.issued
      BY <1>c, <2>6 DEF SetIssuedToken, SlaveType
    <3>2. c.pc \in {"read", "free"}
      BY <2>1, <2>2, <2>6 DEF ConnSound, SlaveSound, Handshaking, ConnType
    <3>3. SlaveSound(conns[slave.conn])'
      BY <2>2, <2>4, <3>1, <3>2 DEF SlaveSound, Handshaking
    <3>4. QED
      BY <2>3, <3>3 DEF HandshakeInv
  <2>7. QED
    BY <1>3, <2>5, <2>6 DEF ReadRegisterAck
<1>4. CASE TokenWritten
  <2>1. /\ slave'.pc = "confirm" /\ slave'.conn = slave.conn /\ UNCHANGED <<conns, issuedToken>>
        /\ stored' = stored \cup {issuedToken} /\ slave.pc = "store"
    BY <1>4, <1>c DEF TokenWritten, SlaveType
  <2>2. \A j \in Conn : ConnSound(conns[j])'
    BY <2>1 DEF HandshakeInv, ConnSound
  <2>3. slave.conn # NoConn => SlaveSound(conns[slave.conn])'
    BY <2>1 DEF HandshakeInv, SlaveSound, Handshaking
  <2>4. QED
    BY <2>1, <2>2, <2>3 DEF HandshakeInv
<1>5. CASE TokenWriteFails
  <2>1. slave'.pc = "up" /\ slave'.conn = slave.conn /\ UNCHANGED <<conns, stored>>
    BY <1>5, <1>c DEF TokenWriteFails, SlaveType
  <2>2. \A j \in Conn : ConnSound(conns[j])'
    BY <2>1 DEF HandshakeInv, ConnSound
  <2>3. SlaveSound(conns[slave.conn])'
    BY <2>1 DEF SlaveSound, Handshaking
  <2>4. QED
    BY <2>2, <2>3 DEF HandshakeInv
<1>6. CASE SendTokenStored /\ ~LeaveConn
  <2>1. slave.conn \in Conn /\ conns[slave.conn] \in ConnType /\ slave.pc = "confirm"
    BY <1>6, <1>c DEF SendTokenStored, TypeOK, SlaveType
  <2> DEFINE r == [conns[slave.conn] EXCEPT !.stored = conns[slave.conn].open]
  <2>2. conns' = [conns EXCEPT ![slave.conn] = r] /\ slave' = [slave EXCEPT !.pc = "up"]
         /\ UNCHANGED stored
    BY <1>6 DEF SendTokenStored
  <2>3. r.pc = conns[slave.conn].pc /\ r.issued = conns[slave.conn].issued
        /\ r.bound = conns[slave.conn].bound
    <3>1. \A c \in ConnType : \A b : LET d == [c EXCEPT !.stored = b]
                                     IN  d.pc = c.pc /\ d.issued = c.issued /\ d.bound = c.bound
      BY DEF ConnType
    <3>2. QED
      BY <2>1, <3>1
  <2>4. ConnSound(r)
    BY <2>1, <2>3 DEF HandshakeInv, ConnSound, SlaveSound, TypeOK
  <2>5. \A j \in Conn : conns'[j] = IF j = slave.conn THEN r ELSE conns[j]
    BY <1>c, <2>2
  <2>6. \A j \in Conn : ConnSound(conns'[j])
    BY <2>4, <2>5 DEF HandshakeInv
  <2>7. \A j \in Conn : ConnSound(conns[j])'
    BY <2>2, <2>6 DEF ConnSound
  <2>8. slave'.pc = "up"
    BY <1>c, <2>2 DEF SlaveType
  <2>9. SlaveSound(conns[slave.conn])'
    BY <2>8 DEF SlaveSound, Handshaking
  <2>10. QED
    BY <2>7, <2>9 DEF HandshakeInv
<1>7. CASE SaveCommandState
  BY <1>7 DEF SaveCommandState, HandshakeInv, ConnSound, SlaveSound, Handshaking
<1>8. LeaveConn \/ ~(ConnectionLost \/ TokenCleared \/ ClearFails \/ SlaveRestart \/ RunInstallScript)
  BY DEF ConnectionLost, TokenCleared, ClearFails, SlaveRestart, RunInstallScript, SlaveStarts
<1>9. QED
  BY <1>1, <1>2, <1>3, <1>4, <1>5, <1>6, <1>7, <1>8 DEF SlaveStep

\* Broken connections, restarts of the master and requests confirm nothing.
LEMMA SoundOthers ==
  ASSUME TypeOK, HandshakeInv,
         (\E k \in Conn : Break(k)) \/ SaveState \/ MasterRestart \/ ExpectNode \/ RevokeToken
           \/ issueNodeToken \/ DeleteNode \/ AdminStep
  PROVE  HandshakeInv'
<1> USE EnrollmentAssumption
<1>c. conns \in [Conn -> ConnType] /\ slave.conn \in Conn \cup {NoConn}
  BY DEF TypeOK, SlaveType
<1>u. UNCHANGED <<slave, issuedToken, stored>>
  BY DEF Break, SaveState, MasterRestart, ExpectNode, RevokeToken, issueNodeToken, DeleteNode,
         AdminStep, removeNodeToken, AdminSaves, disconnectNode, AdminAnswers, slaveVars
<1>1. ASSUME NEW k \in Conn, Break(k) PROVE HandshakeInv'
  <2>1. PICK reply \in {conns[k].reply, "none"} :
          conns' = [conns EXCEPT ![k] = [@ EXCEPT !.open = FALSE, !.reply = reply]]
    BY <1>1 DEF Break
  <2> DEFINE r == [conns[k] EXCEPT !.open = FALSE, !.reply = reply]
  <2>2. /\ r.pc = conns[k].pc /\ r.stored = conns[k].stored /\ r.issued = conns[k].issued
        /\ r.bound = conns[k].bound /\ r.reply \in {conns[k].reply, "none"}
    BY <1>c DEF ConnType
  <2>3. ConnSound(r)
    BY <2>2 DEF HandshakeInv, ConnSound
  <2>4. slave.conn = k => SlaveSound(r)
    BY <2>2 DEF HandshakeInv, SlaveSound
  <2>5. conns' = [conns EXCEPT ![k] = r]
    BY <2>1
  <2>6. QED
    BY <1>u, <2>3, <2>4, <2>5, SoundUpdate
<1>2. CASE MasterRestart
  <2>1. ASSUME NEW c \in ConnType, NEW d, d = [c EXCEPT !.pc = "free", !.open = FALSE, !.stored = FALSE]
        PROVE  d.pc = "free" /\ d.stored = FALSE /\ d.issued = c.issued /\ d.bound = c.bound
    BY <2>1 DEF ConnType
  <2>2. \A j \in Conn :
          \/ conns'[j] = FreeConn /\ j # slave.conn
          \/ /\ conns'[j].pc = "free" /\ ~conns'[j].stored
             /\ conns'[j].issued = conns[j].issued /\ conns'[j].bound = conns[j].bound
    BY <1>2, <1>c, <2>1 DEF MasterRestart
  <2>3. \A j \in Conn : ConnSound(conns[j])'
    BY <1>u, <2>2 DEF HandshakeInv, ConnSound, FreeConn
  <2>4. slave.conn # NoConn => SlaveSound(conns[slave.conn])'
    BY <1>c, <1>u, <2>2 DEF HandshakeInv, SlaveSound, Handshaking
  <2>5. QED
    BY <1>u, <2>3, <2>4 DEF HandshakeInv
<1>3. CASE disconnectNode
  <2>1. registry \in Conn \cup {NoConn} /\ conns' = Closed(registry)
    BY <1>3 DEF disconnectNode, TypeOK
  <2>2. ASSUME NEW c \in ConnType, NEW d, d = [c EXCEPT !.open = FALSE]
        PROVE  /\ d.pc = c.pc /\ d.stored = c.stored /\ d.issued = c.issued
               /\ d.bound = c.bound /\ d.reply = c.reply
    BY <2>2 DEF ConnType
  <2>3. \A j \in Conn :
          /\ conns'[j].pc = conns[j].pc /\ conns'[j].stored = conns[j].stored
          /\ conns'[j].issued = conns[j].issued /\ conns'[j].bound = conns[j].bound
          /\ conns'[j].reply = conns[j].reply
    BY <1>c, <2>1, <2>2 DEF Closed
  <2>4. \A j \in Conn : ConnSound(conns[j])'
    BY <1>u, <2>3 DEF HandshakeInv, ConnSound
  <2>5. slave.conn # NoConn => SlaveSound(conns[slave.conn])'
    BY <1>c, <1>u, <2>3 DEF HandshakeInv, SlaveSound, Handshaking
  <2>6. QED
    BY <1>u, <2>4, <2>5 DEF HandshakeInv
<1>4. CASE UNCHANGED conns
  BY <1>4, <1>u DEF HandshakeInv, ConnSound, SlaveSound, Handshaking
<1>5. QED
  BY <1>1, <1>2, <1>3, <1>4
     DEF SaveState, ExpectNode, RevokeToken, issueNodeToken, DeleteNode, AdminStep, removeNodeToken,
         AdminSaves, AdminAnswers

\* The handshake is an invariant of the specification.
LEMMA HandshakeHolds == Spec => []HandshakeInv
<1>1. Init => HandshakeInv
  BY DEF Init, HandshakeInv, ConnSound, FreeConn, Away
<1>2. TypeOK /\ HandshakeInv /\ [Next]_vars => HandshakeInv'
  <2> SUFFICES ASSUME TypeOK, HandshakeInv, [Next]_vars PROVE HandshakeInv'
    OBVIOUS
  <2>1. CASE Next
    BY <2>1, SoundHandler, SoundSlave, SoundOthers DEF Next
  <2>2. CASE UNCHANGED vars
    BY <2>2 DEF vars, slaveVars, HandshakeInv, ConnSound, SlaveSound, Handshaking
  <2>3. QED
    BY <2>1, <2>2
<1>3. QED
  BY <1>1, <1>2, TypeCorrect, PTL DEF Spec

\* The master binds a node only to a token the slave has stored, whichever writes
\* fail and however late a token_stored is read (Enrollment!BoundWasStored).
THEOREM BoundStored == Spec => []BoundWasStored
<1>1. HandshakeInv => BoundWasStored
  BY DEF HandshakeInv, ConnSound, BoundWasStored
<1>2. QED
  BY <1>1, HandshakeHolds, PTL

(***************************************************************************)
(* The registered connection.  Between a check of the token and the        *)
(* registration the token may change; after it, a request disconnects.     *)
(***************************************************************************)
Active == {"registered", "observed", "read", "save"}

RegistryInv ==
  /\ RegisteredIsCurrent
  /\ registry # NoConn => conns[registry].pc \in Active
  /\ admin.pc \in {"idle", "remove"} => admin.then = "idle"

\* The registered connection c, changed to d, gets no other token and is not
\* opened again.
Carries(c, d) ==
  /\ d.pc \in Active
  /\ d.open => c.open
  /\ d.hash = c.hash
  /\ d.bound = c.bound

\* Steps that change no token and no request.
LEMMA RegistryFrame ==
  ASSUME RegistryInv, UNCHANGED <<nodeToken, deleted, admin>>,
         registry' = NoConn \/ (registry' = registry /\ Carries(conns[registry], conns'[registry]))
  PROVE  RegistryInv'
<1>1. admin'.pc \in {"idle", "remove"} => admin'.then = "idle"
  BY DEF RegistryInv
<1>2. CASE registry' = NoConn
  BY <1>1, <1>2 DEF RegistryInv, RegisteredIsCurrent
<1>3. CASE registry' = registry /\ Carries(conns[registry], conns'[registry])
  BY <1>1, <1>3 DEF RegistryInv, RegisteredIsCurrent, Disconnecting, Carries
<1>4. QED
  BY <1>2, <1>3

\* Another connection than the registered one changes, or both sides leave it.
LEMMA RegistryOther ==
  ASSUME TypeOK, RegistryInv, UNCHANGED <<nodeToken, deleted, admin, registry>>,
         NEW k \in Conn, NEW r, NEW at,
         conns' = [conns EXCEPT ![k] = r] \/ SetConns([conns EXCEPT ![k] = r], at),
         registry = k => Carries(conns[k], r)
  PROVE  RegistryInv'
<1>c. conns \in [Conn -> ConnType] /\ registry \in Conn \cup {NoConn}
  BY DEF TypeOK
<1>1. CASE registry = NoConn
  BY <1>1, RegistryFrame
<1>2. CASE registry \in Conn
  <2>1. registry # NoConn
    BY <1>2, EnrollmentAssumption
  <2>2. conns[registry].pc \in Active
    BY <2>1 DEF RegistryInv
  <2>3. [conns EXCEPT ![k] = r][registry] = IF registry = k THEN r ELSE conns[registry]
    BY <1>c, <1>2
  <2>4. Carries(conns[registry], [conns EXCEPT ![k] = r][registry])
    BY <2>2, <2>3 DEF Carries
  <2>5. ASSUME NEW f, SetConns(f, at), f[registry].pc # "free" PROVE conns'[registry] = f[registry]
    BY <1>2, <2>5 DEF SetConns
  <2>6. [conns EXCEPT ![k] = r][registry].pc # "free"
    BY <2>4 DEF Carries, Active
  <2>7. conns'[registry] = [conns EXCEPT ![k] = r][registry]
    BY <2>5, <2>6
  <2>8. QED
    BY <2>4, <2>7, RegistryFrame
<1>3. QED
  BY <1>c, <1>1, <1>2

\* The slave leaves a connection.
LEMMA RegistryLeave ==
  ASSUME TypeOK, RegistryInv, UNCHANGED <<nodeToken, deleted, admin, registry>>, LeaveConn
  PROVE  RegistryInv'
<1>c. conns \in [Conn -> ConnType] /\ registry \in Conn \cup {NoConn}
  BY DEF TypeOK
<1>1. CASE registry = NoConn
  BY <1>1, RegistryFrame
<1>2. CASE registry \in Conn
  <2>1. conns[registry] \in ConnType /\ conns[registry].pc \in Active
    BY <1>c, <1>2, EnrollmentAssumption DEF RegistryInv
  <2>2. \A c \in ConnType : c.pc \in Active => Carries(c, c) /\ Carries(c, [c EXCEPT !.open = FALSE])
    BY DEF Carries, ConnType
  <2>3. Carries(conns[registry], Closed(slave.conn)[registry])
    BY <1>c, <1>2, <2>1, <2>2 DEF Closed
  <2>4. conns'[registry] = Closed(slave.conn)[registry]
    BY <1>2, <2>3 DEF LeaveConn, SetConns, Carries, Active
  <2>5. QED
    BY <2>3, <2>4, RegistryFrame
<1>3. QED
  BY <1>c, <1>1, <1>2

\* A handler registers, confirms and leaves.
LEMMA RegistryHandler ==
  ASSUME TypeOK, HandshakeInv, RegistryInv, NEW k \in Conn, HandlerStep(k)
  PROVE  RegistryInv'
<1> USE EnrollmentAssumption
<1>c. conns \in [Conn -> ConnType] /\ conns[k] \in ConnType /\ registry \in Conn \cup {NoConn}
  BY DEF TypeOK
<1>r. ASSUME NEW reply, Reject(k, reply), conns[k].pc \in {"new", "authenticated"},
             UNCHANGED <<nodeToken, deleted, admin, registry>>
      PROVE  RegistryInv'
  <2>1. registry # k
    BY <1>r DEF RegistryInv, Active
  <2>2. QED
    BY <1>r, <2>1, RegistryOther DEF Reject
<1>e. ASSUME HandlerEnds(k), UNCHANGED <<nodeToken, deleted, admin>>
      PROVE  RegistryInv'
  <2>1. CASE registry = k \/ registry = NoConn
    <3>1. registry' = NoConn
      BY <1>e, <2>1 DEF HandlerEnds
    <3>2. QED
      BY <1>e, <3>1, RegistryFrame
  <2>2. CASE registry # k /\ registry # NoConn
    <3>1. registry' = registry
      BY <1>e, <2>2 DEF HandlerEnds
    <3>2. QED
      BY <1>e, <2>2, <3>1, RegistryOther DEF HandlerEnds
  <2>3. QED
    BY <2>1, <2>2
<1>1. CASE authenticateNode(k)
  <2>1. conns[k].pc = "new" /\ UNCHANGED <<nodeToken, deleted, admin, registry>>
    BY <1>1 DEF authenticateNode, masterVars, adminVars
  <2>2. registry # k
    BY <2>1 DEF RegistryInv, Active
  <2>3. CASE conns' = [conns EXCEPT ![k] = [@ EXCEPT !.pc = "authenticated", !.hash = nodeToken]]
    BY <2>1, <2>2, <2>3, RegistryOther
  <2>4. ASSUME NEW t,
               conns' = [conns EXCEPT ![k] = [@ EXCEPT !.pc = "authenticated", !.issued = t]]
        PROVE  RegistryInv'
    BY <2>1, <2>2, <2>4, RegistryOther
  <2>5. QED
    BY <1>1, <1>r, <2>1, <2>3, <2>4 DEF authenticateNode
<1>2. CASE registerIfTokenUnchanged(k)
  <2>1. /\ conns[k].pc = "authenticated" /\ conns[k].bound = NoToken
        /\ UNCHANGED <<nodeToken, deleted, admin>>
    BY <1>2 DEF registerIfTokenUnchanged, adminVars, HandshakeInv, ConnSound
  <2>2. CASE /\ conns[k].hash = nodeToken /\ registry' = k
             /\ conns' = [Closed(registry) EXCEPT ![k] = [@ EXCEPT !.pc = "registered"]]
    <3>1. registry # k
      BY <2>1 DEF RegistryInv, Active
    <3>2. Closed(registry) \in [Conn -> ConnType] /\ Closed(registry)[k] = conns[k]
      BY <1>c, <3>1, ClosedType DEF Closed
    <3>3. conns'[k] = [conns[k] EXCEPT !.pc = "registered"]
      BY <2>2, <3>2
    <3>4. conns'[k].pc = "registered" /\ conns'[k].hash = nodeToken /\ conns'[k].bound = NoToken
      <4>1. \A c \in ConnType : LET d == [c EXCEPT !.pc = "registered"]
                                IN  d.pc = "registered" /\ d.hash = c.hash /\ d.bound = c.bound
        BY DEF ConnType
      <4>2. QED
        BY <1>c, <2>1, <2>2, <3>3, <4>1
    <3>5. QED
      BY <2>1, <2>2, <3>4 DEF RegistryInv, RegisteredIsCurrent, Active
  <2>3. QED
    BY <1>2, <1>r, <2>1, <2>2 DEF registerIfTokenUnchanged
<1>3. CASE Observe(k) \/ SaveConfirmed(k) \/ SendRegisterAck(k)
  <2>1. UNCHANGED <<nodeToken, deleted, admin, registry>>
    BY <1>3 DEF Observe, SaveConfirmed, SendRegisterAck, adminVars
  <2>2. \A c \in ConnType, pc \in Active : \A reply :
          /\ Carries(c, [c EXCEPT !.pc = pc])
          /\ Carries(c, [c EXCEPT !.pc = pc, !.reply = reply])
    <3> SUFFICES ASSUME NEW c \in ConnType, NEW pc \in Active, NEW reply
                 PROVE  /\ Carries(c, [c EXCEPT !.pc = pc])
                        /\ Carries(c, [c EXCEPT !.pc = pc, !.reply = reply])
      OBVIOUS
    <3>1. Carries(c, [c EXCEPT !.pc = pc])
      BY DEF Carries, ConnType
    <3>2. Carries(c, [c EXCEPT !.pc = pc, !.reply = reply])
      BY DEF Carries, ConnType
    <3>3. QED
      BY <3>1, <3>2
  <2>3. CASE Observe(k)
    <3>1. Carries(conns[k], [conns[k] EXCEPT !.pc = "observed"])
      BY <1>c, <2>2 DEF Active
    <3>2. QED
      BY <2>1, <2>3, <3>1, RegistryOther DEF Observe
  <2>4. CASE SaveConfirmed(k)
    <3>1. Carries(conns[k], [conns[k] EXCEPT !.pc = "read"])
      BY <1>c, <2>2 DEF Active
    <3>2. QED
      BY <2>1, <2>4, <3>1, RegistryOther DEF SaveConfirmed
  <2>5. CASE SendRegisterAck(k)
    <3>1. PICK reply : conns' = [conns EXCEPT ![k] = [@ EXCEPT !.pc = "read", !.reply = reply]]
      BY <2>5 DEF SendRegisterAck
    <3>2. Carries(conns[k], [conns[k] EXCEPT !.pc = "read", !.reply = reply])
      BY <1>c, <2>2 DEF Active
    <3>3. QED
      BY <2>1, <3>1, <3>2, RegistryOther
  <2>6. QED
    BY <1>3, <2>3, <2>4, <2>5
<1>4. CASE ReadFails(k) \/ (ReadTokenStored(k) /\ HandlerEnds(k) /\ UNCHANGED nodeToken)
  <2>1. HandlerEnds(k) /\ UNCHANGED <<nodeToken, deleted, admin>>
    BY <1>4 DEF ReadFails, ReadTokenStored, adminVars
  <2>2. QED
    BY <1>e, <2>1
<1>5. CASE /\ ReadTokenStored(k) /\ nodeToken = NoToken /\ nodeToken' = conns[k].issued
           /\ conns' = [conns EXCEPT ![k] = [@ EXCEPT !.pc = "save", !.stored = FALSE,
                                            !.issued = NoToken, !.bound = conns[k].issued]]
           /\ UNCHANGED registry
  <2>1. UNCHANGED <<deleted, admin, registry>>
    BY <1>5 DEF ReadTokenStored, adminVars
  <2>2. CASE registry = NoConn
    BY <2>1, <2>2 DEF RegistryInv, RegisteredIsCurrent
  <2>3. CASE registry \in Conn
    <3>1. CASE registry = k
      <4>1. /\ conns'[k].pc = "save" /\ conns'[k].bound = conns[k].issued
            /\ conns'[k].hash = conns[k].hash /\ conns'[k].open = conns[k].open
        BY <1>5, <1>c DEF ConnType
      <4>2. QED
        BY <1>5, <2>1, <3>1, <4>1 DEF RegistryInv, RegisteredIsCurrent, Disconnecting, Active
    <3>2. CASE registry # k
      <4>1. conns'[registry] = conns[registry]
        BY <1>5, <1>c, <2>3, <3>2
      <4>2. QED
        BY <1>5, <2>1, <4>1 DEF RegistryInv, RegisteredIsCurrent, Disconnecting
    <3>3. QED
      BY <3>1, <3>2
  <2>4. QED
    BY <1>c, <2>2, <2>3
<1>6. QED
  BY <1>1, <1>2, <1>3, <1>4, <1>5 DEF HandlerStep, ReadTokenStored, confirmIssuedToken

\* The slave and the network open no registered connection and change no token.
LEMMA RegistrySlave ==
  ASSUME TypeOK, RegistryInv,
         SlaveStep \/ TokenWriteFails \/ ClearFails \/ SaveCommandState \/ SlaveRestart
           \/ RunInstallScript \/ \E k \in Conn : Break(k)
  PROVE  RegistryInv'
<1> USE EnrollmentAssumption
<1>c. conns \in [Conn -> ConnType] /\ registry \in Conn \cup {NoConn}
  BY DEF TypeOK
<1>u. UNCHANGED <<nodeToken, deleted, admin, registry>>
  BY DEF SlaveStep, Dial, ConnectionLost, ReadRegisterAck, TokenWritten, SendTokenStored, TokenCleared,
         TokenWriteFails, ClearFails, SaveCommandState, SlaveRestart, RunInstallScript, Break,
         masterVars, adminVars
<1>1. CASE LeaveConn
  BY <1>1, <1>u, RegistryLeave
<1>2. CASE UNCHANGED conns
  BY <1>2, <1>u DEF RegistryInv, RegisteredIsCurrent, Disconnecting
<1>3. ASSUME NEW k \in Conn, Dial(k) PROVE RegistryInv'
  <2>1. registry # k
    BY <1>3 DEF Dial, RegistryInv, FreeConn, Active
  <2>2. QED
    BY <1>3, <1>u, <2>1, RegistryOther DEF Dial
<1>4. ASSUME NEW k \in Conn, Break(k) PROVE RegistryInv'
  <2>1. PICK reply : conns' = [conns EXCEPT ![k] = [@ EXCEPT !.open = FALSE, !.reply = reply]]
    BY <1>4 DEF Break
  <2>2. \A c \in ConnType :
          c.pc \in Active => Carries(c, [c EXCEPT !.open = FALSE, !.reply = reply])
    BY DEF Carries, ConnType
  <2>3. registry = k => Carries(conns[k], [conns[k] EXCEPT !.open = FALSE, !.reply = reply])
    BY <1>c, <2>2 DEF RegistryInv
  <2>4. QED
    BY <1>u, <2>1, <2>3, RegistryOther
<1>5. CASE SendTokenStored /\ ~LeaveConn
  <2>1. slave.conn \in Conn /\ conns[slave.conn] \in ConnType
    BY <1>5, <1>c DEF SendTokenStored, TypeOK, SlaveType
  <2>2. conns' = [conns EXCEPT ![slave.conn] = [@ EXCEPT !.stored = conns[slave.conn].open]]
    BY <1>5 DEF SendTokenStored
  <2>3. \A c \in ConnType : \A b : c.pc \in Active => Carries(c, [c EXCEPT !.stored = b])
    BY DEF Carries, ConnType
  <2>4. registry = slave.conn =>
          Carries(conns[slave.conn], [conns[slave.conn] EXCEPT !.stored = conns[slave.conn].open])
    BY <2>1, <2>3 DEF RegistryInv
  <2>5. QED
    BY <1>u, <2>1, <2>2, <2>4, RegistryOther
<1>6. QED
  BY <1>1, <1>2, <1>3, <1>4, <1>5
     DEF SlaveStep, ConnectionLost, ReadRegisterAck, SetIssuedToken, TokenWritten, TokenCleared,
         TokenWriteFails, ClearFails, SaveCommandState, SlaveRestart, RunInstallScript, SlaveStarts

\* A request that takes the token away disconnects, or deletes.
LEMMA RegistryAdmin ==
  ASSUME TypeOK, RegistryInv,
         SaveState \/ MasterRestart \/ ExpectNode \/ RevokeToken \/ issueNodeToken \/ DeleteNode
           \/ AdminStep
  PROVE  RegistryInv'
<1> USE EnrollmentAssumption
<1>c. conns \in [Conn -> ConnType] /\ registry \in Conn \cup {NoConn} /\ admin \in AdminType
  BY DEF TypeOK
<1>1. CASE SaveState
  BY <1>1 DEF SaveState, adminVars, RegistryInv, RegisteredIsCurrent, Disconnecting
<1>2. CASE MasterRestart
  BY <1>2 DEF MasterRestart, IdleAdmin, RegistryInv, RegisteredIsCurrent
<1>3. CASE ExpectNode \/ DeleteNode
  BY <1>3 DEF ExpectNode, DeleteNode, IdleAdmin, RegistryInv, RegisteredIsCurrent, Disconnecting
<1>4. CASE RevokeToken \/ issueNodeToken
  <2>1. admin'.pc = "save" /\ admin'.then = "disconnect" /\ UNCHANGED <<registry, conns>>
    <3>1. CASE RevokeToken
      BY <3>1 DEF RevokeToken, IdleAdmin
    <3>2. CASE issueNodeToken
      BY <3>2 DEF issueNodeToken
    <3>3. QED
      BY <1>4, <3>1, <3>2
  <2>2. QED
    BY <2>1 DEF RegistryInv, RegisteredIsCurrent, Disconnecting
<1>5. CASE removeNodeToken
  BY <1>5 DEF removeNodeToken, IdleAdmin, RegistryInv, RegisteredIsCurrent, Disconnecting
<1>6. CASE AdminSaves
  <2>1. /\ UNCHANGED <<nodeToken, registry, conns, deleted>> /\ admin.pc = "save"
        /\ admin'.then = admin.then
        /\ admin'.pc = IF admin.then = "idle" THEN "answer" ELSE "disconnect"
    BY <1>6, <1>c DEF AdminSaves, AdminType
  <2>2. admin.then \in {"idle", "disconnect"}
    BY <1>c DEF AdminType
  <2>3. Disconnecting' = Disconnecting
    BY <2>1, <2>2 DEF Disconnecting
  <2>4. QED
    BY <2>1, <2>3 DEF RegistryInv, RegisteredIsCurrent
<1>7. CASE disconnectNode
  <2>1. /\ UNCHANGED <<nodeToken, registry, deleted>> /\ conns' = Closed(registry)
        /\ admin'.pc = "answer"
    BY <1>7, <1>c DEF disconnectNode, masterVars, AdminType
  <2>2. \A c \in ConnType : /\ [c EXCEPT !.open = FALSE].open = FALSE
                            /\ [c EXCEPT !.open = FALSE].pc = c.pc
    BY DEF ConnType
  <2>3. registry # NoConn => ~conns'[registry].open /\ conns'[registry].pc = conns[registry].pc
    BY <1>c, <2>1, <2>2 DEF Closed
  <2>4. QED
    BY <2>1, <2>3 DEF RegistryInv, RegisteredIsCurrent
<1>8. CASE AdminAnswers
  BY <1>8 DEF AdminAnswers, IdleAdmin, masterVars, RegistryInv, RegisteredIsCurrent, Disconnecting
<1>9. QED
  BY <1>1, <1>2, <1>3, <1>4, <1>5, <1>6, <1>7, <1>8 DEF AdminStep

\* The connection commands are sent on belongs to the node's present token, though
\* the check of the token and the registration are two steps and a revocation may
\* fall between them (Enrollment!RegisteredIsCurrent).
THEOREM RegisteredCurrent == Spec => []RegisteredIsCurrent
<1>1. Init => RegistryInv
  BY DEF Init, RegistryInv, RegisteredIsCurrent, IdleAdmin
<1>2. TypeOK /\ HandshakeInv /\ RegistryInv /\ [Next]_vars => RegistryInv'
  <2> SUFFICES ASSUME TypeOK, HandshakeInv, RegistryInv, [Next]_vars PROVE RegistryInv'
    OBVIOUS
  <2>1. CASE Next
    BY <2>1, RegistryHandler, RegistrySlave, RegistryAdmin DEF Next
  <2>2. CASE UNCHANGED vars
    BY <2>2 DEF vars, masterVars, adminVars, RegistryInv, RegisteredIsCurrent, Disconnecting
  <2>3. QED
    BY <2>1, <2>2
<1>3. RegistryInv => RegisteredIsCurrent
  BY DEF RegistryInv
<1>4. QED
  BY <1>1, <1>2, <1>3, TypeCorrect, HandshakeHolds, PTL DEF Spec
==============================================================================
