---------------------------- MODULE ServerProofs ----------------------------
(***************************************************************************)
(* The program from its configuration file to the end of Run, checked by   *)
(* TLAPS: what an accepted file means, for any file, and what Run waits    *)
(* for, for any number of connections and requests.                        *)
(***************************************************************************)
EXTENDS Configuration, ServerLifecycle, SequenceTheorems, TLAPS

(***************************************************************************)
(* Run returns after the handlers and loops it started.                    *)
(***************************************************************************)

\* What Run has waited for stays over: a handler that is at work is counted by
\* connWG, and no connection is accepted and no loop started once Run waits.
Drained ==
  /\ handler \in [Conns -> {"none", "reading", "writing"}]
  /\ loop \in [Loops -> {"none", "waiting", "working", "done"}]
  /\ \A c \in Conns : handler[c] # "none" => c \in connWG
  /\ pc \in {"wait_loops", "returned"} => connWG = {}
  /\ pc = "returned" => \A l \in Loops : loop[l] = "done"
  /\ HandlersAreDrained

LEMMA DrainedInit == Init => Drained
  BY DEF Init, Drained, HandlersAreDrained

\* The steps of Run, and the cancellation.
LEMMA RunDrains ==
  ASSUME Drained, RunStep \/ AcceptFails \/ Cancel \/ CloseListener
  PROVE  Drained'
  <1>start. CASE Start \/ StartFails
    BY <1>start DEF Start, StartFails, Drained, HandlersAreDrained, connVars
  <1>conns. CASE WaitConns
    BY <1>conns DEF WaitConns, Drained, HandlersAreDrained, connVars
  <1>return. CASE Return
    BY <1>return DEF Return, Drained, HandlersAreDrained, connVars
  <1>accept. CASE AcceptFails \/ AcceptRetries \/ AcceptEnds
    BY <1>accept DEF AcceptFails, AcceptRetries, AcceptEnds, Drained, HandlersAreDrained, connVars
  <1>cancel. CASE Cancel \/ CloseListener
    BY <1>cancel DEF Cancel, CloseListener, Drained, HandlersAreDrained, connVars
  <1> QED
    BY <1>start, <1>conns, <1>return, <1>accept, <1>cancel DEF RunStep

\* A handler writes while it is counted, so not after WaitConns.
LEMMA HandlerDrains ==
  ASSUME Drained, NEW c \in Conns,
         Accept(c) \/ HandlerReads(c) \/ PeerCloses(c) \/ HandlerStep(c)
  PROVE  Drained'
  <1>accept. CASE Accept(c)
    BY <1>accept DEF Accept, Drained, HandlersAreDrained
  <1>reads. CASE HandlerReads(c)
    BY <1>reads DEF HandlerReads, Drained, HandlersAreDrained
  <1>writes. CASE HandlerWrites(c)
    <2>1. pc # "returned"
      BY <1>writes DEF HandlerWrites, Drained
    <2>2. late' = late
      BY <1>writes, <2>1 DEF HandlerWrites, Late
    <2> QED
      BY <1>writes, <2>2 DEF HandlerWrites, Drained, HandlersAreDrained
  <1>closes. CASE PeerCloses(c)
    BY <1>closes DEF PeerCloses, Drained, HandlersAreDrained
  <1>ends. CASE HandlerEnds(c)
    BY <1>ends DEF HandlerEnds, Drained, HandlersAreDrained
  <1> QED
    BY <1>accept, <1>reads, <1>writes, <1>closes, <1>ends DEF HandlerStep

\* A loop that is done does nothing any more, and Run returns when all are done.
LEMMA LoopDrains ==
  ASSUME Drained, NEW l \in Loops, LoopTick(l) \/ LoopWrites(l) \/ LoopEnds(l)
  PROVE  Drained'
  <1>0. pc # "returned"
    BY DEF LoopTick, LoopWrites, LoopEnds, Drained
  <1>1. late' = late
    BY <1>0 DEF LoopTick, LoopWrites, LoopEnds, Late
  <1> QED
    BY <1>0, <1>1 DEF LoopTick, LoopWrites, LoopEnds, Drained, HandlersAreDrained, connVars, adminVars

\* The admin API writes late, but under its own name.
LEMMA RequestDrains ==
  ASSUME Drained, NEW r \in Requests,
         Request(r) \/ RequestChanges(r) \/ RequestWrites(r) \/ handleReadyz(r)
  PROVE  Drained'
  <1>1. late' \in {late, late \cup {"admin"}}
    BY DEF Request, RequestChanges, RequestWrites, handleReadyz, Late
  <1>2. UNCHANGED <<handler, loop, connWG, pc>>
    BY DEF Request, RequestChanges, RequestWrites, handleReadyz, connVars
  <1> QED
    BY <1>1, <1>2 DEF Drained, HandlersAreDrained

\* No connection handler and no loop writes to the state file after Run has
\* returned (Server.Run), for any number of connections and requests.
THEOREM RunDrainsHandlers == Spec => []HandlersAreDrained
  <1>init. Init => Drained
    BY DrainedInit
  <1>step. Drained /\ [Next]_vars => Drained'
    <2>1. ASSUME Drained, UNCHANGED vars PROVE Drained'
      BY <2>1 DEF vars, Drained, HandlersAreDrained
    <2> QED
      BY <2>1, RunDrains, HandlerDrains, LoopDrains, RequestDrains DEF Next
  <1>safe. Drained => HandlersAreDrained
    BY DEF Drained
  <1> QED
    BY <1>init, <1>step, <1>safe, PTL DEF Spec

(***************************************************************************)
(* Any file.                                                               *)
(***************************************************************************)
IntKey  == [set : BOOLEAN, value : Int]
FlagKey == [set : BOOLEAN, value : BOOLEAN]

\* Any string; the ones that the code puts in are spelled out for the provers.
Text == STRING \cup {"open", "default", "2c", "3", "minutes", "seconds", "timeticks", "all"}

CommandBlock ==
  [key : Text, argv : {Sudo(args) : args \in Seq(Words)} \cup {Bare(file) : file \in File}
                          \cup {defaultShutdownCommand.argv}]
SecretsBlock   == [enrollment : Text, admin : Text, tokens : SUBSET Text]
IntervalsBlock == [poll : Int, command : Int, offline : Int]
LocalBlock ==
  [enabled : BOOLEAN, command : CommandBlock, maxWait : IntKey, emergency : IntKey,
   commandTimeout : Int, unreachableAfter : Int]
TLSBlock ==
  [enabled : BOOLEAN, disabled : BOOLEAN, cert : BOOLEAN, key : BOOLEAN, ca : BOOLEAN,
   require : BOOLEAN, bind : BOOLEAN, serverName : BOOLEAN, insecure : BOOLEAN]
AdminTLSBlock == [cert : BOOLEAN, key : BOOLEAN]
RuntimeBlock  == [oid : Text, unit : Text]
SNMPBlock ==
  [set : BOOLEAN, target : BOOLEAN, version : Text, community : BOOLEAN, username : BOOLEAN,
   level : Text, auth : Text, authLength : Nat, priv : Text, privLength : Nat,
   timeout : Int, profile : Text, onBattery : Text, charge : Text, runtime : RuntimeBlock]
NUTBlock == [set : BOOLEAN, host : Text, ups : Text, timeout : Int]
PolicyBlock ==
  [name : Text, charge : IntKey, runtime : IntKey, low : FlagKey, unreachable : IntKey,
   duration : Int, target : Text]
SlaveBlock ==
  [node : BOOLEAN, master : BOOLEAN, token : Text, reconnect : Int, command : CommandBlock,
   commandTimeout : Int]

Config ==
  [role : {"master", "slave"}, dryRun : BOOLEAN, secrets : SecretsBlock,
   intervals : IntervalsBlock, local : LocalBlock, tls : TLSBlock, adminTLS : AdminTLSBlock,
   installCA : Text, snmp : SNMPBlock, nut : NUTBlock, policies : Seq(PolicyBlock),
   slave : SlaveBlock]

\* A key that is not set has no value.
Files ==
  {f \in Config : /\ ~f.local.maxWait.set => f.local.maxWait.value = 0
                  /\ ~f.local.emergency.set => f.local.emergency.value = 0}

(***************************************************************************)
(* The invariant: what each stage that was passed has established.         *)
(***************************************************************************)
AfterPolicies    == {"loaded", "checked", "serving"}
AfterUnreachable == AfterPolicies \cup {"policies"}
AfterSource      == AfterUnreachable \cup {"unreachable"}
AfterTLS         == AfterSource \cup {"source"}
AfterLocal       == AfterTLS \cup {"tls"}
AfterIntervals   == AfterLocal \cup {"local"}
BeforeLocal      == {"master", "intervals", "local"}
BeforeSource     == BeforeLocal \cup {"tls", "source"}
BeforePolicies   == BeforeSource \cup {"unreachable", "policies"}

\* A stage completes its own block only.
Untouched ==
  /\ cfg.tls = raw.tls /\ cfg.nut = raw.nut
  /\ stage \in BeforeLocal => cfg.local = raw.local
  /\ stage \in BeforeSource => cfg.snmp = raw.snmp
  /\ stage \in BeforePolicies => cfg.policies = raw.policies

TimersPositive ==
  stage \in AfterIntervals => \A k \in DOMAIN cfg.intervals : cfg.intervals[k] > 0

FallbacksArmed ==
  /\ stage \in AfterLocal =>
       /\ cfg.local.maxWait.value > 0 /\ cfg.local.emergency.value > 0
       /\ cfg.local.commandTimeout > 0 /\ cfg.local.command.key # "empty"
  /\ stage \in AfterUnreachable => cfg.local.unreachableAfter > 0

TLSValid ==
  /\ stage \in AfterTLS => ValidateServer(raw.tls)
  /\ stage \in {"check", "dial", "dialed"} => ValidateClient(raw.tls)

\* The fields of SNMPv3 are as they were read, and valid for the version.
SourceValid ==
  stage \in AfterSource =>
    /\ cfg.snmp.set = raw.snmp.set
    /\ raw.snmp.set =>
         /\ cfg.snmp.version = SNMPVersion(raw.snmp)
         /\ cfg.snmp.level = raw.snmp.level /\ cfg.snmp.auth = raw.snmp.auth
         /\ cfg.snmp.priv = raw.snmp.priv
         /\ normalizeSNMPVersion(raw.snmp)
         /\ ResolveSNMPVars(raw.snmp)
         /\ cfg.snmp.runtime.unit = IF raw.snmp.runtime.oid = "profile"
                                    THEN ProfileUnit(raw.snmp.profile) ELSE raw.snmp.runtime.unit

\* Every policy is the one of the file, and passed its validation.
PoliciesValid ==
  stage \in AfterPolicies =>
    /\ cfg.policies # <<>> /\ DOMAIN cfg.policies = DOMAIN raw.policies
    /\ \A i \in DOMAIN raw.policies :
         /\ validatePolicyConditions(raw.policies[i])
         /\ raw.policies[i].low.value => raw.nut.set
         /\ cfg.policies[i] = [raw.policies[i] EXCEPT !.target = IF @ = "none" THEN "all" ELSE @]

\* Who registered has passed the handshake and the comparison of names.
PeersPassed ==
  /\ stage \notin {"serving", "dialed"} => peers = {}
  /\ stage = "serving" => \A p \in peers : Handshake(p) /\ verifyPeerIdentity(p)
  /\ stage = "dialed" => peers = {[tls |-> EnabledForClient(raw.tls), certificate |-> "none"]}

ClientProtects ==
  stage = "serving" /\ raw.snmp.set =>
    client = IF SNMPVersion(raw.snmp) = "3" THEN raw.snmp.level ELSE "plain"

ConfigInv ==
  /\ raw \in Files /\ cfg \in Config
  /\ Untouched /\ TimersPositive /\ FallbacksArmed /\ TLSValid /\ SourceValid /\ PoliciesValid
  /\ PeersPassed /\ ClientProtects

\* What the code puts in for a key that is empty.
LEMMA TextHas ==
  /\ {"open", "default", "2c", "3", "minutes", "seconds", "timeticks", "all"} \subseteq Text
  /\ "given" # "empty" /\ "default" # "empty"
  BY DEF Text

\* A load begins with the file as it is.
LEMMA ConfigInit == raw \in Files /\ Load(raw, host) => ConfigInv
  <1> SUFFICES ASSUME raw \in Files, Load(raw, host) PROVE ConfigInv
    OBVIOUS
  <1>1. raw.role \in {"master", "slave"} /\ raw \in Config
    BY DEF Files, Config
  <1>2. cfg = raw /\ stage \in {"master", "slave"} /\ peers = {}
    BY <1>1 DEF Load
  <1> QED
    BY <1>1, <1>2
    DEF ConfigInv, Untouched, TimersPositive, FallbacksArmed, TLSValid, SourceValid, PoliciesValid,
        PeersPassed, ClientProtects, AfterIntervals, AfterLocal, AfterTLS, AfterSource,
        AfterUnreachable, AfterPolicies

\* A stage that refuses the file ends the load.
LEMMA Refused ==
  ASSUME ConfigInv, cfg' = cfg, stage' = "rejected", UNCHANGED <<raw, host, verdict, client, peers>>,
         stage \notin {"serving", "dialed"}
  PROVE  ConfigInv'
  BY DEF ConfigInv, Untouched, TimersPositive, FallbacksArmed, TLSValid, SourceValid, PoliciesValid,
         PeersPassed, ClientProtects, AfterIntervals, AfterLocal, AfterTLS, AfterSource,
         AfterUnreachable, AfterPolicies, BeforeLocal, BeforeSource, BeforePolicies

LEMMA SecretsKeep == ASSUME ConfigInv, Secrets PROVE ConfigInv'
  <1> DEFINE s == cfg.secrets
             mode == IF s.enrollment = "" THEN "open" ELSE s.enrollment
  <1>0. stage = "master" /\ UNCHANGED <<raw, host, verdict, client, peers>>
    BY DEF Secrets, Stage
  <1>1. CASE cfg' = cfg /\ stage' = "rejected"
    BY <1>0, <1>1, Refused
  <1>2. CASE cfg' = [cfg EXCEPT !.secrets.enrollment = mode] /\ stage' = "intervals"
    <2>1. cfg' = [cfg EXCEPT !.secrets = [cfg.secrets EXCEPT !.enrollment = mode]]
      BY <1>2
    <2>2. [cfg.secrets EXCEPT !.enrollment = mode] \in SecretsBlock
      <3>1. cfg.secrets \in SecretsBlock
        BY DEF ConfigInv, Config
      <3>2. mode \in Text
        <4>1. cfg.secrets.enrollment \in Text /\ "open" \in Text
          BY <3>1, TextHas DEF SecretsBlock
        <4> QED
          BY <4>1, Zenon
      <3> HIDE DEF mode
      <3>3. /\ cfg.secrets = [enrollment |-> cfg.secrets.enrollment, admin |-> cfg.secrets.admin,
                              tokens |-> cfg.secrets.tokens]
            /\ cfg.secrets.admin \in Text /\ cfg.secrets.tokens \in SUBSET Text
        BY <3>1 DEF SecretsBlock
      <3>4. [cfg.secrets EXCEPT !.enrollment = mode]
              = [enrollment |-> mode, admin |-> cfg.secrets.admin, tokens |-> cfg.secrets.tokens]
        BY <3>3
      <3> QED
        BY <3>2, <3>3, <3>4 DEF SecretsBlock
    <2>3. /\ cfg' \in Config /\ UNCHANGED <<cfg.tls, cfg.nut, cfg.local, cfg.snmp, cfg.policies>>
      BY <2>1, <2>2 DEF ConfigInv, Config
    <2> QED
      BY <1>0, <1>2, <2>3
      DEF ConfigInv, Untouched, TimersPositive, FallbacksArmed, TLSValid, SourceValid, PoliciesValid,
          PeersPassed, ClientProtects, AfterIntervals, AfterLocal, AfterTLS, AfterSource,
          AfterUnreachable, AfterPolicies, BeforeLocal, BeforeSource, BeforePolicies
  <1> QED
    BY <1>1, <1>2 DEF Secrets, Stage

LEMMA IntervalsKeep == ASSUME ConfigInv, Intervals PROVE ConfigInv'
  <1> DEFINE d == [k \in DOMAIN cfg.intervals |-> Default(cfg.intervals[k], 30)]
  <1>0. stage = "intervals" /\ UNCHANGED <<raw, host, verdict, client, peers>>
    BY DEF Intervals, Stage
  <1>1. CASE cfg' = cfg /\ stage' = "rejected"
    BY <1>0, <1>1, Refused
  <1>2. CASE cfg' = [cfg EXCEPT !.intervals = d] /\ stage' = "local"
             /\ \A k \in DOMAIN d : d[k] > 0
    <2>1. d \in IntervalsBlock
      <3>1. cfg.intervals \in IntervalsBlock
        BY DEF ConfigInv, Config
      <3> QED
        BY <3>1 DEF IntervalsBlock, Default
    <2> HIDE DEF d
    <2>2. /\ cfg' \in Config /\ UNCHANGED <<cfg.tls, cfg.nut, cfg.local, cfg.snmp, cfg.policies>>
          /\ cfg'.intervals = d
      BY <1>2, <2>1 DEF ConfigInv, Config
    <2> QED
      BY <1>0, <1>2, <2>2
      DEF ConfigInv, Untouched, TimersPositive, FallbacksArmed, TLSValid, SourceValid, PoliciesValid,
          PeersPassed, ClientProtects, AfterIntervals, AfterLocal, AfterTLS, AfterSource,
          AfterUnreachable, AfterPolicies, BeforeLocal, BeforeSource, BeforePolicies
  <1> QED
    BY <1>1, <1>2 DEF Intervals, Stage

LEMMA LocalKeeps == ASSUME ConfigInv, LocalShutdown PROVE ConfigInv'
  <1> DEFINE l == cfg.local
             command == IF l.command.key = "given" THEN l.command ELSE defaultShutdownCommand
             maxWait == [l.maxWait EXCEPT !.value = Default(l.maxWait.value, 15)]
             emergency == [l.emergency EXCEPT !.value = Default(l.emergency.value, 15)]
             timeout == Default(l.commandTimeout, 2)
             local == [l EXCEPT !.command = command, !.maxWait = maxWait,
                                !.emergency = emergency, !.commandTimeout = timeout]
  <1>0. stage = "local" /\ UNCHANGED <<raw, host, verdict, client, peers>>
    BY DEF LocalShutdown, Stage
  <1>1. CASE cfg' = cfg /\ stage' = "rejected"
    BY <1>0, <1>1, Refused
  <1>2. CASE /\ cfg' = [cfg EXCEPT !.local.command = IF @.key = "given" THEN @
                                                     ELSE defaultShutdownCommand,
                                   !.local.maxWait.value = Default(@, 15),
                                   !.local.emergency.value = Default(@, 15),
                                   !.local.commandTimeout = Default(@, 2)]
             /\ stage' = "tls"
             /\ l.maxWait.set => l.maxWait.value > 0
             /\ l.emergency.set => l.emergency.value > 0
             /\ l.commandTimeout >= 0
    <2>1. /\ l \in LocalBlock /\ cfg \in Config
          /\ ~l.maxWait.set => l.maxWait.value = 0
          /\ ~l.emergency.set => l.emergency.value = 0
      BY <1>0 DEF ConfigInv, Config, Untouched, BeforeLocal, Files
    <2>2. l.command \in CommandBlock /\ l.maxWait \in IntKey /\ l.emergency \in IntKey
          /\ l.commandTimeout \in Int
      BY <2>1 DEF LocalBlock
    <2>3. command \in CommandBlock /\ command.key # "empty"
      <3>1. defaultShutdownCommand \in CommandBlock /\ defaultShutdownCommand.key = "default"
        BY TextHas DEF CommandBlock, defaultShutdownCommand
      <3>2. CASE l.command.key = "given"
        BY <2>2, <3>2
      <3>3. CASE l.command.key # "given"
        BY <3>1, <3>3
      <3> QED
        BY <3>2, <3>3
    <2>4. maxWait \in IntKey /\ maxWait.value > 0
      BY <1>2, <2>1, <2>2 DEF IntKey, Default
    <2>5. emergency \in IntKey /\ emergency.value > 0
      BY <1>2, <2>1, <2>2 DEF IntKey, Default
    <2>6. timeout \in Int /\ timeout > 0
      BY <1>2, <2>2 DEF Default
    <2>7. cfg' = [cfg EXCEPT !.local = local]
      BY <1>2, <2>1, <2>2 DEF Config, LocalBlock, IntKey
    <2> HIDE DEF command, maxWait, emergency, timeout
    <2>8. /\ local \in LocalBlock
          /\ local.maxWait = maxWait /\ local.emergency = emergency
          /\ local.commandTimeout = timeout /\ local.command = command
      BY <2>1, <2>3, <2>4, <2>5, <2>6 DEF LocalBlock
    <2> HIDE DEF local
    <2>9. /\ cfg' \in Config /\ UNCHANGED <<cfg.tls, cfg.nut, cfg.snmp, cfg.policies, cfg.intervals>>
          /\ cfg'.local = local
      BY <2>1, <2>7, <2>8 DEF Config
    <2> QED
      BY <1>0, <1>2, <2>3, <2>4, <2>5, <2>6, <2>8, <2>9
      DEF ConfigInv, Untouched, TimersPositive, FallbacksArmed, TLSValid, SourceValid, PoliciesValid,
          PeersPassed, ClientProtects, AfterIntervals, AfterLocal, AfterTLS, AfterSource,
          AfterUnreachable, AfterPolicies, BeforeLocal, BeforeSource, BeforePolicies
  <1> QED
    BY <1>1, <1>2 DEF LocalShutdown, Stage

LEMMA TransportKeeps == ASSUME ConfigInv, TransportSecurity PROVE ConfigInv'
  <1>0. stage = "tls" /\ UNCHANGED <<raw, host, verdict, client, peers>> /\ cfg' = cfg
    BY DEF TransportSecurity, Stage
  <1>1. CASE cfg' = cfg /\ stage' = "rejected"
    BY <1>0, <1>1, Refused
  <1>2. CASE stage' = "source" /\ ValidateServer(cfg.tls)
    <2>1. ValidateServer(raw.tls)
      BY <1>2 DEF ConfigInv, Untouched
    <2> QED
      BY <1>0, <1>2, <2>1
      DEF ConfigInv, Untouched, TimersPositive, FallbacksArmed, TLSValid, SourceValid, PoliciesValid,
          PeersPassed, ClientProtects, AfterIntervals, AfterLocal, AfterTLS, AfterSource,
          AfterUnreachable, AfterPolicies, BeforeLocal, BeforeSource, BeforePolicies
  <1> QED
    BY <1>1, <1>2 DEF TransportSecurity, Stage

LEMMA UnreachableKeeps == ASSUME ConfigInv, UnreachableAfter PROVE ConfigInv'
  <1> DEFINE after == Default(cfg.local.unreachableAfter, cfg.local.maxWait.value)
  <1>0. stage = "unreachable" /\ UNCHANGED <<raw, host, verdict, client, peers>>
    BY DEF UnreachableAfter, Stage
  <1>1. CASE cfg' = cfg /\ stage' = "rejected"
    BY <1>0, <1>1, Refused
  <1>2. CASE /\ cfg' = [cfg EXCEPT !.local.unreachableAfter
                                     = Default(@, cfg.local.maxWait.value)]
             /\ stage' = "policies" /\ cfg.local.unreachableAfter >= 0
    <2>1. cfg.local \in LocalBlock /\ cfg \in Config /\ cfg.local.maxWait.value > 0
      BY <1>0 DEF ConfigInv, Config, FallbacksArmed, AfterLocal, AfterTLS, AfterSource
    <2>2. cfg.local.unreachableAfter \in Int /\ cfg.local.maxWait.value \in Int
      BY <2>1 DEF LocalBlock, IntKey
    <2>3. after \in Int /\ after > 0
      BY <1>2, <2>1, <2>2 DEF Default
    <2>4. cfg' = [cfg EXCEPT !.local = [cfg.local EXCEPT !.unreachableAfter = after]]
      BY <1>2, <2>1 DEF Config, LocalBlock
    <2> HIDE DEF after
    <2>5. [cfg.local EXCEPT !.unreachableAfter = after] \in LocalBlock
      BY <2>1, <2>3 DEF LocalBlock
    <2>6. /\ cfg' \in Config /\ UNCHANGED <<cfg.tls, cfg.nut, cfg.snmp, cfg.policies, cfg.intervals>>
          /\ cfg'.local = [cfg.local EXCEPT !.unreachableAfter = after]
      BY <2>1, <2>4, <2>5 DEF Config
    <2>7. /\ cfg'.local.unreachableAfter > 0
          /\ UNCHANGED <<cfg.local.maxWait, cfg.local.emergency, cfg.local.commandTimeout,
                         cfg.local.command>>
      BY <2>1, <2>3, <2>6 DEF LocalBlock
    <2> QED
      BY <1>0, <1>2, <2>6, <2>7
      DEF ConfigInv, Untouched, TimersPositive, FallbacksArmed, TLSValid, SourceValid, PoliciesValid,
          PeersPassed, ClientProtects, AfterIntervals, AfterLocal, AfterTLS, AfterSource,
          AfterUnreachable, AfterPolicies, BeforeLocal, BeforeSource, BeforePolicies
  <1> QED
    BY <1>1, <1>2 DEF UnreachableAfter, Stage

\* A configuration of the UPS source that is accepted: NUT, or one SNMP agent.
LEMMA SourceKeeps == ASSUME ConfigInv, normalizeUPSSource PROVE ConfigInv'
  <1> DEFINE s == cfg.snmp
             unit == IF s.set /\ s.runtime.oid = "profile" THEN ProfileUnit(s.profile)
                     ELSE s.runtime.unit
             snmp == [s EXCEPT !.version = SNMPVersion(s),
                               !.runtime = [s.runtime EXCEPT !.unit = unit]]
  <1>0. stage = "source" /\ UNCHANGED <<raw, host, verdict, client, peers>>
    BY DEF normalizeUPSSource, Stage
  <1>1. CASE cfg' = cfg /\ stage' = "rejected"
    BY <1>0, <1>1, Refused
  <1>2. CASE /\ cfg' = [cfg EXCEPT !.snmp.version = SNMPVersion(s),
                                   !.snmp.runtime.unit = IF s.set /\ s.runtime.oid = "profile"
                                                         THEN ProfileUnit(s.profile) ELSE @]
             /\ stage' = "unreachable"
             /\ s.set => normalizeSNMPVersion(s) /\ ResolveSNMPVars(s)
    <2>1. s \in SNMPBlock /\ cfg \in Config /\ s = raw.snmp /\ s.runtime \in RuntimeBlock
      BY <1>0 DEF ConfigInv, Config, Untouched, BeforeSource, SNMPBlock
    <2>2. SNMPVersion(s) \in Text
      <3>1. s.version \in Text /\ "2c" \in Text /\ "3" \in Text
        BY <2>1, TextHas DEF SNMPBlock
      <3>2. SNMPVersion(s) \in {s.version, "2c", "3"}
        BY DEF SNMPVersion
      <3> QED
        BY <3>1, <3>2
    <2>3. unit \in Text
      <3>1. CASE s.set /\ s.runtime.oid = "profile"
        <4>1. ProfileUnit(s.profile) \in {"minutes", "timeticks", "seconds"}
          BY <1>2, <3>1 DEF ResolveSNMPVars, ProfileUnit
        <4> QED
          BY <3>1, <4>1, TextHas
      <3>2. CASE ~(s.set /\ s.runtime.oid = "profile")
        BY <2>1, <3>2 DEF RuntimeBlock
      <3> QED
        BY <3>1, <3>2
    <2>4. cfg' = [cfg EXCEPT !.snmp = snmp]
      BY <1>2, <2>1 DEF Config, SNMPBlock, RuntimeBlock
    <2> DEFINE version == SNMPVersion(s)
    <2> HIDE DEF unit, version
    <2>5. [s.runtime EXCEPT !.unit = unit] \in RuntimeBlock
          /\ [s.runtime EXCEPT !.unit = unit].unit = unit
      BY <2>1, <2>3 DEF RuntimeBlock
    <2>6. /\ snmp \in SNMPBlock
          /\ snmp.set = s.set /\ snmp.version = SNMPVersion(s) /\ snmp.level = s.level
          /\ snmp.auth = s.auth /\ snmp.priv = s.priv /\ snmp.runtime.unit = unit
      BY <2>1, <2>2, <2>5 DEF SNMPBlock
    <2> HIDE DEF snmp
    <2>7. /\ cfg' \in Config
          /\ UNCHANGED <<cfg.tls, cfg.nut, cfg.local, cfg.policies, cfg.intervals>>
          /\ cfg'.snmp = snmp
      BY <2>1, <2>4, <2>6 DEF Config
    <2>8. SourceValid'
      BY <1>0, <1>2, <2>1, <2>6, <2>7 DEF SourceValid, unit
    <2> QED
      BY <1>0, <1>2, <2>7, <2>8
      DEF ConfigInv, Untouched, TimersPositive, FallbacksArmed, TLSValid, PoliciesValid,
          PeersPassed, ClientProtects, AfterIntervals, AfterLocal, AfterTLS, AfterSource,
          AfterUnreachable, AfterPolicies, BeforeLocal, BeforeSource, BeforePolicies
  <1> QED
    <2>1. CASE cfg' = cfg /\ stage' = "rejected"
      BY <1>1, <2>1
    <2>2. CASE ~(cfg' = cfg /\ stage' = "rejected")
      <3>1. /\ cfg' = [cfg EXCEPT !.snmp.version = SNMPVersion(s),
                                  !.snmp.runtime.unit = IF s.set /\ s.runtime.oid = "profile"
                                                        THEN ProfileUnit(s.profile) ELSE @]
            /\ stage' = "unreachable"
            /\ IF cfg.nut.set THEN ~s.set /\ normalizeNUT(cfg.nut)
               ELSE /\ s.set /\ s.target
                    /\ normalizeSNMPVersion(s)
                    /\ TimeoutOK(s.timeout)
                    /\ ResolveSNMPVars(s)
        BY <2>2, Zenon DEF normalizeUPSSource, Stage
      <3>2. s.set => normalizeSNMPVersion(s) /\ ResolveSNMPVars(s)
        BY <3>1
      <3> QED
        BY <1>2, <3>1, <3>2
    <2> QED
      BY <2>1, <2>2

\* A policy of the file is validated, and its target completed.
LEMMA PoliciesKeep == ASSUME ConfigInv, normalizeShutdownPolicies PROVE ConfigInv'
  <1> DEFINE ps == cfg.policies
             completed == [i \in DOMAIN ps |->
                             [ps[i] EXCEPT !.target = IF @ = "none" THEN "all" ELSE @]]
  <1>0. stage = "policies" /\ UNCHANGED <<raw, host, verdict, client, peers>>
    BY DEF normalizeShutdownPolicies, Stage
  <1>1. CASE cfg' = cfg /\ stage' = "rejected"
    BY <1>0, <1>1, Refused
  <1>2. CASE /\ cfg' = [cfg EXCEPT !.policies = completed] /\ stage' = "loaded"
             /\ ps # <<>>
             /\ \A i \in DOMAIN ps : validatePolicyConditions(ps[i])
                                     /\ (ps[i].low.value => UsesNUT(cfg))
    <2>1. ps \in Seq(PolicyBlock) /\ cfg \in Config /\ ps = raw.policies /\ cfg.nut = raw.nut
      BY <1>0 DEF ConfigInv, Config, Untouched, BeforePolicies
    <2>2. /\ ps \in [1..Len(ps) -> PolicyBlock] /\ Len(ps) \in Nat /\ DOMAIN ps = 1..Len(ps)
      BY <2>1, LenProperties
    <2>3. \A i \in 1..Len(ps) :
            [ps[i] EXCEPT !.target = IF @ = "none" THEN "all" ELSE @] \in PolicyBlock
      <3> SUFFICES ASSUME NEW i \in 1..Len(ps), NEW p, p = ps[i]
                   PROVE  [p EXCEPT !.target = IF @ = "none" THEN "all" ELSE @] \in PolicyBlock
        OBVIOUS
      <3>1. p \in PolicyBlock
        BY <2>2
      <3> DEFINE t == IF p.target = "none" THEN "all" ELSE p.target
      <3>2. t \in Text
        <4>1. p.target \in Text /\ "all" \in Text
          BY <3>1, TextHas DEF PolicyBlock
        <4> QED
          BY <4>1, Zenon
      <3>3. [p EXCEPT !.target = IF @ = "none" THEN "all" ELSE @] = [p EXCEPT !.target = t]
        OBVIOUS
      <3> HIDE DEF t
      <3>4. [p EXCEPT !.target = t] \in PolicyBlock
        BY <3>1, <3>2 DEF PolicyBlock
      <3> QED
        BY <3>3, <3>4
    <2>4. completed \in [1..Len(ps) -> PolicyBlock] /\ DOMAIN completed = DOMAIN ps
      BY <2>2, <2>3
    <2>5. completed \in Seq(PolicyBlock) /\ completed # <<>>
      <3>1. completed \in Seq(PolicyBlock)
        <4>1. [1..Len(ps) -> PolicyBlock] \subseteq Seq(PolicyBlock)
          BY <2>2, SeqDef
        <4> QED
          BY <2>4, <4>1
      <3>2. DOMAIN ps # {}
        BY <1>2, <2>1, <2>2, EmptySeq
      <3> HIDE DEF completed
      <3> QED
        BY <2>4, <3>1, <3>2
    <2>6. \A i \in DOMAIN ps : completed[i] = [ps[i] EXCEPT !.target = IF @ = "none" THEN "all"
                                                                       ELSE @]
      OBVIOUS
    <2> HIDE DEF completed
    <2>7. /\ cfg' \in Config
          /\ UNCHANGED <<cfg.tls, cfg.nut, cfg.local, cfg.snmp, cfg.intervals>>
          /\ cfg'.policies = completed
      BY <1>2, <2>1, <2>5 DEF Config
    <2>8. PoliciesValid'
      BY <1>0, <1>2, <2>1, <2>4, <2>5, <2>6, <2>7 DEF PoliciesValid, UsesNUT
    <2> QED
      BY <1>0, <1>2, <2>7, <2>8
      DEF ConfigInv, Untouched, TimersPositive, FallbacksArmed, TLSValid, SourceValid,
          PeersPassed, ClientProtects, AfterIntervals, AfterLocal, AfterTLS, AfterSource,
          AfterUnreachable, AfterPolicies, BeforeLocal, BeforeSource, BeforePolicies
  <1> QED
    <2>1. CASE cfg' = cfg /\ stage' = "rejected"
      BY <1>1, <2>1
    <2>2. CASE ~(cfg' = cfg /\ stage' = "rejected")
      <3>1. /\ cfg' = [cfg EXCEPT !.policies = completed] /\ stage' = "loaded"
            /\ ps # <<>>
            /\ \A i \in DOMAIN ps : validatePolicyConditions(ps[i])
                                    /\ (ps[i].low.value => UsesNUT(cfg))
        BY <2>2, Zenon DEF normalizeShutdownPolicies, Stage
      <3> QED
        BY <1>2, <3>1
    <2> QED
      BY <2>1, <2>2

\* The slave's configuration is in a block of its own.
LEMMA SlaveKeeps == ASSUME ConfigInv, LoadSlaveConfig PROVE ConfigInv'
  <1> DEFINE s == cfg.slave
             command == IF s.command.key = "given" THEN s.command ELSE defaultShutdownCommand
             slave == [s EXCEPT !.reconnect = Default(s.reconnect, 5), !.command = command,
                                !.commandTimeout = Default(s.commandTimeout, 2)]
  <1>0. stage = "slave" /\ UNCHANGED <<raw, host, verdict, client, peers>>
    BY DEF LoadSlaveConfig, Stage
  <1>1. CASE cfg' = cfg /\ stage' = "rejected"
    BY <1>0, <1>1, Refused
  <1>2. CASE /\ cfg' = [cfg EXCEPT !.slave.reconnect = Default(@, 5),
                                   !.slave.command = IF @.key = "given" THEN @
                                                     ELSE defaultShutdownCommand,
                                   !.slave.commandTimeout = Default(@, 2)]
             /\ stage' = "check" /\ ValidateClient(cfg.tls)
    <2>1. s \in SlaveBlock /\ cfg \in Config
      BY DEF ConfigInv, Config
    <2>2. s.command \in CommandBlock /\ Default(s.reconnect, 5) \in Int
          /\ Default(s.commandTimeout, 2) \in Int
      BY <2>1 DEF SlaveBlock, Default
    <2>3. command \in CommandBlock
      <3>1. defaultShutdownCommand \in CommandBlock
        BY TextHas DEF CommandBlock, defaultShutdownCommand
      <3> QED
        BY <2>2, <3>1
    <2>4. cfg' = [cfg EXCEPT !.slave = slave]
      BY <1>2, <2>1 DEF Config, SlaveBlock
    <2> HIDE DEF command
    <2>5. slave \in SlaveBlock
      BY <2>1, <2>2, <2>3 DEF SlaveBlock
    <2> HIDE DEF slave
    <2>6. /\ cfg' \in Config
          /\ UNCHANGED <<cfg.tls, cfg.nut, cfg.local, cfg.snmp, cfg.policies, cfg.intervals>>
      BY <2>1, <2>4, <2>5 DEF Config
    <2>7. ValidateClient(raw.tls)
      BY <1>2 DEF ConfigInv, Untouched
    <2> QED
      BY <1>0, <1>2, <2>6, <2>7
      DEF ConfigInv, Untouched, TimersPositive, FallbacksArmed, TLSValid, SourceValid, PoliciesValid,
          PeersPassed, ClientProtects, AfterIntervals, AfterLocal, AfterTLS, AfterSource,
          AfterUnreachable, AfterPolicies, BeforeLocal, BeforeSource, BeforePolicies
  <1> QED
    BY <1>1, <1>2 DEF LoadSlaveConfig, Stage

\* The self-check, and the dial of a slave.
LEMMA ChecksKeep ==
  ASSUME ConfigInv, runLocalShutdownSelfCheck \/ runShutdownSelfCheck \/ Dial
  PROVE  ConfigInv'
  <1>1. CASE runLocalShutdownSelfCheck \/ runShutdownSelfCheck
    <2>1. /\ \/ stage = "loaded" /\ stage' = "checked"
             \/ stage = "check" /\ stage' = "dial"
          /\ UNCHANGED <<raw, cfg, host, client, peers>>
      BY <1>1 DEF runLocalShutdownSelfCheck, runShutdownSelfCheck, SelfCheck
    <2> QED
      BY <2>1
      DEF ConfigInv, Untouched, TimersPositive, FallbacksArmed, TLSValid, SourceValid, PoliciesValid,
          PeersPassed, ClientProtects, AfterIntervals, AfterLocal, AfterTLS, AfterSource,
          AfterUnreachable, AfterPolicies, BeforeLocal, BeforeSource, BeforePolicies
  <1>2. CASE Dial
    <2>1. peers' = {[tls |-> EnabledForClient(raw.tls), certificate |-> "none"]}
      BY <1>2 DEF Dial, ConfigInv, Untouched
    <2>2. stage = "dial" /\ stage' = "dialed" /\ UNCHANGED <<raw, cfg, host, verdict, client>>
      BY <1>2 DEF Dial
    <2> QED
      BY <2>1, <2>2
      DEF ConfigInv, Untouched, TimersPositive, FallbacksArmed, TLSValid, SourceValid, PoliciesValid,
          PeersPassed, ClientProtects, AfterIntervals, AfterLocal, AfterTLS, AfterSource,
          AfterUnreachable, AfterPolicies, BeforeLocal, BeforeSource, BeforePolicies
  <1> QED
    BY <1>1, <1>2

\* A valid configuration builds a client, with the security level it asks for.
LEMMA ClientKeeps == ASSUME ConfigInv, newSNMPClient PROVE ConfigInv'
  <1>1. stage = "checked" /\ stage' = "serving" /\ UNCHANGED <<raw, cfg, host, verdict, peers>>
    BY DEF newSNMPClient
  <1>2. /\ SourceValid /\ peers = {}
    BY <1>1 DEF ConfigInv, PeersPassed
  <1>3. ClientProtects'
    <2> SUFFICES ASSUME raw.snmp.set
                 PROVE  client' = IF SNMPVersion(raw.snmp) = "3" THEN raw.snmp.level ELSE "plain"
      BY <1>1 DEF ClientProtects
    <2>1. /\ cfg.snmp.set /\ cfg.snmp.version = SNMPVersion(raw.snmp)
          /\ cfg.snmp.level = raw.snmp.level /\ cfg.snmp.auth = raw.snmp.auth
          /\ cfg.snmp.priv = raw.snmp.priv /\ normalizeSNMPVersion(raw.snmp)
      BY <1>1, <1>2 DEF SourceValid, AfterSource, AfterUnreachable, AfterPolicies
    <2>2. CASE SNMPVersion(raw.snmp) # "3"
      BY <2>1, <2>2 DEF newSNMPClient
    <2>3. CASE SNMPVersion(raw.snmp) = "3"
      <3>1. /\ raw.snmp.level \in {"noAuthNoPriv", "authNoPriv", "authPriv"}
            /\ raw.snmp.level # "noAuthNoPriv" => raw.snmp.auth = "known"
            /\ raw.snmp.level = "authPriv" => raw.snmp.priv = "known"
        BY <2>1, <2>3 DEF normalizeSNMPVersion, validateUSM, validateUSMSecret
      <3> QED
        BY <2>1, <2>3, <3>1 DEF newSNMPClient
    <2> QED
      BY <2>2, <2>3
  <1> QED
    BY <1>1, <1>2, <1>3
    DEF ConfigInv, Untouched, TimersPositive, FallbacksArmed, TLSValid, SourceValid, PoliciesValid,
        PeersPassed, AfterIntervals, AfterLocal, AfterTLS, AfterSource,
        AfterUnreachable, AfterPolicies, BeforeLocal, BeforeSource, BeforePolicies

LEMMA RegisterKeeps == ASSUME ConfigInv, NEW p \in Peer, Register(p) PROVE ConfigInv'
  <1>1. stage = "serving" /\ UNCHANGED <<stage, raw, cfg, host, verdict, client>>
        /\ peers' = peers \cup {p} /\ Handshake(p) /\ verifyPeerIdentity(p)
    BY DEF Register
  <1>2. PeersPassed'
    BY <1>1 DEF ConfigInv, PeersPassed, Handshake, verifyPeerIdentity, Presented
  <1> QED
    BY <1>1, <1>2
    DEF ConfigInv, Untouched, TimersPositive, FallbacksArmed, TLSValid, SourceValid, PoliciesValid,
        ClientProtects

LEMMA ConfigStep == ConfigInv /\ [Startup]_config => ConfigInv'
  <1>1. ASSUME ConfigInv, UNCHANGED config PROVE ConfigInv'
    <2>1. UNCHANGED <<stage, raw, cfg, host, verdict, client, peers>>
      BY <1>1 DEF config
    <2> QED
      BY <1>1, <2>1
      DEF ConfigInv, Untouched, TimersPositive, FallbacksArmed, TLSValid, SourceValid, PoliciesValid,
          PeersPassed, ClientProtects, Handshake, verifyPeerIdentity, Presented
  <1> QED
    BY <1>1, SecretsKeep, IntervalsKeep, LocalKeeps, TransportKeeps, SourceKeeps, UnreachableKeeps,
       PoliciesKeep, SlaveKeeps, ChecksKeep, ClientKeeps, RegisterKeeps DEF Startup

\* The invariant, for every file.
LEMMA ConfigCorrect == raw \in Files /\ Load(raw, host) /\ [][Startup]_config => []ConfigInv
  BY ConfigInit, ConfigStep, PTL

\* An accepted configuration is one that the master works with (LoadMasterConfig):
\* for every file, with every block at once as it may be.
THEOREM AcceptedWorks ==
  raw \in Files /\ Load(raw, host) /\ [][Startup]_config => []AcceptedConfigWorks
  <1>1. ASSUME ConfigInv PROVE AcceptedConfigWorks
    <2> SUFFICES ASSUME stage \in {"loaded", "checked", "serving"} PROVE AcceptedConfigWorks
      BY DEF AcceptedConfigWorks, Accepted
    <2>1. /\ cfg.snmp.set = raw.snmp.set
          /\ raw.snmp.set =>
               /\ ResolveSNMPVars(raw.snmp)
               /\ cfg.snmp.runtime.unit = IF raw.snmp.runtime.oid = "profile"
                                          THEN ProfileUnit(raw.snmp.profile)
                                          ELSE raw.snmp.runtime.unit
      BY <1>1 DEF ConfigInv, SourceValid, AfterSource, AfterUnreachable, AfterPolicies
    <2>2. raw.snmp.set =>
            /\ cfg.snmp.runtime.unit = IF raw.snmp.runtime.oid = "override"
                                       THEN raw.snmp.runtime.unit
                                       ELSE ProfileUnit(raw.snmp.profile)
            /\ cfg.snmp.runtime.unit # ""
      <3> SUFFICES ASSUME raw.snmp.set
                   PROVE  /\ cfg.snmp.runtime.unit = IF raw.snmp.runtime.oid = "override"
                                                     THEN raw.snmp.runtime.unit
                                                     ELSE ProfileUnit(raw.snmp.profile)
                          /\ cfg.snmp.runtime.unit # ""
        OBVIOUS
      <3>1. CASE raw.snmp.runtime.oid = "profile"
        <4>1. ProfileUnit(raw.snmp.profile) \in {"minutes", "timeticks", "seconds"}
          BY <2>1 DEF ResolveSNMPVars, ProfileUnit
        <4> QED
          BY <2>1, <3>1, <4>1
      <3>2. CASE raw.snmp.runtime.oid # "profile"
        BY <2>1, <3>2 DEF ResolveSNMPVars
      <3> QED
        BY <3>1, <3>2
    <2>3. /\ \A k \in DOMAIN cfg.intervals : cfg.intervals[k] > 0
          /\ cfg.local.maxWait.value > 0 /\ cfg.local.emergency.value > 0
          /\ cfg.local.unreachableAfter > 0 /\ cfg.local.commandTimeout > 0
          /\ cfg.local.command.key # "empty"
      BY <1>1 DEF ConfigInv, TimersPositive, FallbacksArmed, AfterIntervals, AfterLocal, AfterTLS,
                  AfterSource, AfterUnreachable, AfterPolicies
    <2>4. /\ cfg.policies # <<>> /\ DOMAIN cfg.policies = DOMAIN raw.policies
          /\ \A i \in DOMAIN raw.policies :
               /\ validatePolicyConditions(raw.policies[i])
               /\ raw.policies[i].low.value => raw.nut.set
               /\ cfg.policies[i]
                    = [raw.policies[i] EXCEPT !.target = IF @ = "none" THEN "all" ELSE @]
      BY <1>1 DEF ConfigInv, PoliciesValid, AfterPolicies
    <2>5. ASSUME NEW i \in DOMAIN cfg.policies
          PROVE  /\ (\A c \in Conditions : cfg.policies[i][c].value <= 0)
                      /\ ~cfg.policies[i].low.value
                    => (\A c \in Conditions : ~raw.policies[i][c].set) /\ ~raw.policies[i].low.set
                 /\ cfg.policies[i].low.value => raw.nut.set
                 /\ cfg.policies[i].target # "none"
                 /\ cfg.policies[i].unreachable.value > 0 =>
                      /\ cfg.policies[i].charge.value = 0 /\ cfg.policies[i].runtime.value = 0
                      /\ ~cfg.policies[i].low.value
      <3> DEFINE p == raw.policies[i]
                 q == cfg.policies[i]
      <3>1. p \in PolicyBlock /\ validatePolicyConditions(p) /\ (p.low.value => raw.nut.set)
            /\ q = [p EXCEPT !.target = IF @ = "none" THEN "all" ELSE @]
        <4>1. raw.policies \in Seq(PolicyBlock)
          BY <1>1 DEF ConfigInv, Files, Config
        <4>2. raw.policies \in [DOMAIN raw.policies -> PolicyBlock]
          BY <4>1, LenProperties
        <4> QED
          BY <2>4, <4>2
      <3> HIDE DEF p, q
      <3>2. /\ q.charge = p.charge /\ q.runtime = p.runtime /\ q.unreachable = p.unreachable
            /\ q.low = p.low /\ q.target # "none"
        BY <3>1 DEF PolicyBlock
      <3>3. /\ q["charge"] = p["charge"] /\ q["runtime"] = p["runtime"]
            /\ q["unreachable"] = p["unreachable"]
        BY <3>2
      <3>4. /\ p.charge.value \in Int /\ p.runtime.value \in Int /\ p.unreachable.value \in Int
        BY <3>1 DEF PolicyBlock, IntKey
      <3>5. /\ p.charge.set => p.charge.value > 0
            /\ p.runtime.set => p.runtime.value > 0
            /\ p.unreachable.set => p.unreachable.value > 0
            /\ p.low.set => p.low.value
            /\ p.unreachable.value > 0 =>
                 p.charge.value = 0 /\ p.runtime.value = 0 /\ ~p.low.value
        BY <3>1 DEF validatePolicyConditions, Conditions
      <3>6. ASSUME \A c \in Conditions : q[c].value <= 0, ~q.low.value
            PROVE  (\A c \in Conditions : ~p[c].set) /\ ~p.low.set
        <4>1. q.charge.value <= 0 /\ q.runtime.value <= 0 /\ q.unreachable.value <= 0
          BY <3>6 DEF Conditions
        <4>2. ~p.charge.set /\ ~p.runtime.set /\ ~p.unreachable.set /\ ~p.low.set
          BY <3>2, <3>4, <3>5, <3>6, <4>1
        <4> QED
          BY <4>2 DEF Conditions
      <3>7. /\ q.low.value => raw.nut.set
            /\ q.target # "none"
            /\ q.unreachable.value > 0 =>
                 /\ q.charge.value = 0 /\ q.runtime.value = 0
                 /\ ~q.low.value
        BY <3>1, <3>2, <3>5
      <3> QED
        BY <3>6, <3>7 DEF p, q
    <2> QED
      BY <2>1, <2>2, <2>3, <2>4, <2>5 DEF AcceptedConfigWorks
  <1> QED
    BY <1>1, ConfigCorrect, PTL

\* What the side that reads a setting was told to protect is protected
\* (ValidateServer, ValidateClient, normalizeSNMPVersion, newSNMPClient,
\* verifyPeerIdentity): for every file, and whoever connects.
THEOREM NothingUnprotected ==
  raw \in Files /\ Load(raw, host) /\ [][Startup]_config => []NothingSilentlyUnprotected
  <1>1. ASSUME ConfigInv PROVE NothingSilentlyUnprotected
    <2>1. ASSUME stage = "serving",
                 raw.tls.enabled \/ raw.tls.cert \/ raw.tls.key \/ raw.tls.ca \/ raw.tls.require,
                 NEW p \in peers
          PROVE  p.tls
      BY <1>1, <2>1
      DEF ConfigInv, Untouched, TLSValid, PeersPassed, AfterTLS, AfterSource, AfterUnreachable,
          AfterPolicies, ValidateServer, EnabledForServer, Handshake
    <2>2. ASSUME stage = "serving", raw.tls.bind, NEW p \in peers
          PROVE  p.tls /\ p.certificate = "node"
      BY <1>1, <2>2
      DEF ConfigInv, Untouched, TLSValid, PeersPassed, AfterTLS, AfterSource, AfterUnreachable,
          AfterPolicies, ValidateServer, EnabledForServer, Handshake, verifyPeerIdentity, Presented
    <2>3. ASSUME stage = "dialed",
                 \/ raw.tls.enabled \/ raw.tls.cert \/ raw.tls.key \/ raw.tls.ca
                 \/ raw.tls.serverName \/ raw.tls.insecure,
                 NEW p \in peers
          PROVE  p.tls
      <3>1. EnabledForClient(raw.tls)
        BY <1>1, <2>3 DEF ConfigInv, TLSValid, ValidateClient, EnabledForClient
      <3>2. p = [tls |-> EnabledForClient(raw.tls), certificate |-> "none"]
        BY <1>1, <2>3 DEF ConfigInv, PeersPassed
      <3>3. p.tls = EnabledForClient(raw.tls)
        BY <3>2
      <3> QED
        BY <3>1, <3>3
    <2>4. ASSUME stage = "serving", raw.snmp.set
          PROVE  /\ client # "error"
                 /\ raw.snmp.authLength > 0 => client \in {"authNoPriv", "authPriv"}
                 /\ raw.snmp.privLength > 0 => client = "authPriv"
      <3>1. /\ client = IF SNMPVersion(raw.snmp) = "3" THEN raw.snmp.level ELSE "plain"
            /\ normalizeSNMPVersion(raw.snmp)
        BY <1>1, <2>4 DEF ConfigInv, ClientProtects, SourceValid, AfterSource, AfterUnreachable,
                          AfterPolicies
      <3>2. CASE SNMPVersion(raw.snmp) = "3"
        <4>1. /\ client = raw.snmp.level
              /\ raw.snmp.level \in {"noAuthNoPriv", "authNoPriv", "authPriv"}
              /\ raw.snmp.level = "noAuthNoPriv" => raw.snmp.authLength = 0
              /\ raw.snmp.level # "authPriv" => raw.snmp.privLength = 0
          BY <3>1, <3>2 DEF normalizeSNMPVersion, validateUSM, validateUSMSecret
        <4>2. client # "error"
          BY <4>1
        <4>3. raw.snmp.authLength > 0 => client \in {"authNoPriv", "authPriv"}
          BY <4>1
        <4>4. raw.snmp.privLength > 0 => client = "authPriv"
          BY <4>1
        <4> QED
          BY <4>2, <4>3, <4>4
      <3>3. CASE SNMPVersion(raw.snmp) # "3"
        <4>1. client = "plain" /\ raw.snmp.authLength = 0 /\ raw.snmp.privLength = 0
          BY <3>1, <3>3 DEF normalizeSNMPVersion, rejectUSMSettings
        <4> QED
          BY <4>1
      <3> QED
        BY <3>2, <3>3
    <2> QED
      BY <2>1, <2>2, <2>3, <2>4 DEF NothingSilentlyUnprotected
  <1> QED
    BY <1>1, ConfigCorrect, PTL
=============================================================================
