--------------------------- MODULE Configuration ----------------------------
(***************************************************************************)
(* What a configuration file means (internal/config): how LoadMasterConfig *)
(* and LoadSlaveConfig validate and complete it, stage by stage, and what  *)
(* the program then makes of it: the verdict on its shutdown command, the  *)
(* SNMP client it builds and the peers it lets in on its listener.         *)
(*                                                                         *)
(* A key that must be told apart from its zero value is a record [set,     *)
(* value]; strings are reduced to the cases the code distinguishes.        *)
(***************************************************************************)
EXTENDS ShutdownCheck

CONSTANTS
  MaxPercent,    \* maxChargePercent
  MaxTimeout,    \* maxSNMPTimeoutSeconds, maxNUTTimeoutSeconds
  MinPassphrase  \* minUSMPassphraseLength

VARIABLES
  stage,    \* the stage of the load, or what became of it
  raw,      \* the file
  cfg,      \* the configuration, completed so far
  host,     \* the host the program runs on, for its shutdown command
  verdict,  \* the self-check's: "unknown", "yes" or "no"
  client,   \* the SNMP client: none, built (with its flags), or "error"
  peers     \* the peers that were let in

config == <<stage, raw, cfg, host, verdict, client, peers>>

Unset == [set |-> FALSE, value |-> 0]

\* The argv of packaging/sudoers, and the host it is shipped for.
defaultShutdownCommand == [key |-> "default", argv |-> Sudo(<<NoPrompt, Plain("shutdown")>>)]
PackagedHost ==
  [root |-> FALSE, rule |-> [Invalid EXCEPT !.valid = TRUE, !.target = <<Plain("shutdown")>>],
   password |-> FALSE, freeRule |-> TRUE]

\* The program is started with a file, on a host.
Load(file, machine) ==
  /\ raw = file
  /\ stage = file.role
  /\ cfg = file
  /\ host = machine
  /\ verdict = "unknown"
  /\ client = "none"
  /\ peers = {}

\* A stage refuses the file, or completes the configuration and goes on.
Stage(name, ok, completed, next) ==
  /\ stage = name
  /\ IF ok THEN cfg' = completed /\ stage' = next
           ELSE cfg' = cfg /\ stage' = "rejected"
  /\ UNCHANGED <<raw, host, verdict, client, peers>>

Default(value, default) == IF value = 0 THEN default ELSE value

(***************************************************************************)
(* LoadMasterConfig.                                                       *)
(***************************************************************************)
validateSecret(s) == s \notin {"blank", "placeholder"}

\* Enrollment is open unless it says otherwise, and needs a token then.
Secrets ==
  LET s    == cfg.secrets
      mode == IF s.enrollment = "" THEN "open" ELSE s.enrollment
  IN  Stage("master",
            /\ \A t \in s.tokens : validateSecret(t)
            /\ mode \in {"open", "closed"}
            /\ mode = "open" => s.tokens # {}
            /\ s.admin # "" /\ validateSecret(s.admin),
            [cfg EXCEPT !.secrets.enrollment = mode], "intervals")

Intervals ==
  LET d == [k \in DOMAIN cfg.intervals |-> Default(cfg.intervals[k], 30)]
  IN  Stage("intervals", \A k \in DOMAIN d : d[k] > 0, [cfg EXCEPT !.intervals = d], "local")

\* An explicit zero is refused where it could mean something else than the default.
LocalShutdown ==
  LET l == cfg.local
  IN  Stage("local",
            /\ ~(l.enabled /\ l.command.key = "empty")
            /\ l.maxWait.set => l.maxWait.value > 0
            /\ l.emergency.set => l.emergency.value > 0
            /\ l.commandTimeout >= 0,
            [cfg EXCEPT !.local.command = IF @.key = "given" THEN @ ELSE defaultShutdownCommand,
                        !.local.maxWait.value = Default(@, 15),
                        !.local.emergency.value = Default(@, 15),
                        !.local.commandTimeout = Default(@, 2)], "tls")

EnabledForServer(t) ==
  ~t.disabled /\ (t.enabled \/ t.cert \/ t.key \/ t.ca \/ t.require)

EnabledForClient(t) ==
  ~t.disabled /\ (t.enabled \/ t.cert \/ t.key \/ t.ca \/ t.serverName \/ t.insecure)

ValidateServer_Bug(t) ==
  IF t.disabled THEN ~(t.enabled \/ t.cert \/ t.key \/ t.ca \/ t.require)
  ELSE EnabledForServer(t) => t.cert /\ t.key /\ (t.require <=> t.ca)

ValidateServer(t) ==
  /\ t.bind => t.require
  /\ IF t.disabled THEN ~(t.enabled \/ t.cert \/ t.key \/ t.ca \/ t.require)
     ELSE EnabledForServer(t) => t.cert /\ t.key /\ (t.require <=> t.ca)

ValidateClient(t) ==
  IF t.disabled THEN ~(t.enabled \/ t.cert \/ t.key \/ t.ca \/ t.serverName \/ t.insecure)
  ELSE EnabledForClient(t) => (t.cert <=> t.key) /\ ~(t.insecure /\ t.ca)

\* install_ca_file: served to slaves, so it must hold certificates and nothing else.
validateInstallCAFile(c) ==
  c.installCA = "none" \/ (EnabledForServer(c.tls) /\ c.installCA = "certificates")

TransportSecurity ==
  Stage("tls", /\ ValidateServer(cfg.tls)
               /\ cfg.adminTLS.cert <=> cfg.adminTLS.key
               /\ validateInstallCAFile(cfg), cfg, "source")

(***************************************************************************)
(* The UPS source: the key that is present decides.                        *)
(***************************************************************************)
UsesNUT(c) == c.nut.set /\ c.nut.host = "name"

TimeoutOK(t) == Default(t, 2) \in 1..MaxTimeout

normalizeNUT(n) == n.host = "name" /\ n.ups = "name" /\ TimeoutOK(n.timeout)

SNMPVersion(s) ==
  CASE s.version = "" -> "2c" [] s.version = "v3" -> "3" [] OTHER -> s.version

\* A protocol or passphrase that the security level does not use is refused.
validateUSMSecret(used, protocol, length) ==
  IF used THEN protocol = "known" /\ length >= MinPassphrase
          ELSE protocol = "" /\ length = 0

validateUSM(s) ==
  /\ ~s.community
  /\ s.username
  /\ s.level \in {"noAuthNoPriv", "authNoPriv", "authPriv"}
  /\ validateUSMSecret(s.level # "noAuthNoPriv", s.auth, s.authLength)
  /\ validateUSMSecret(s.level = "authPriv", s.priv, s.privLength)

rejectUSMSettings(s) ==
  ~s.username /\ s.level = "" /\ s.auth = "" /\ s.authLength = 0 /\ s.priv = "" /\ s.privLength = 0

normalizeSNMPVersion(s) ==
  /\ SNMPVersion(s) \in {"1", "2c", "3"}
  /\ IF SNMPVersion(s) = "3" THEN validateUSM(s) ELSE rejectUSMSettings(s) /\ s.community

ProfileUnit(profile) ==
  CASE profile \in {"", "ups-mib"} -> "minutes"
    [] profile \in {"apc", "cyberpower"} -> "timeticks"
    [] profile = "eaton" -> "seconds"

\* Each variable comes from the profile or from a complete override; a runtime
\* override has no default unit.
ResolveSNMPVars(s) ==
  /\ s.profile \in {"", "ups-mib", "apc", "cyberpower", "eaton"}
  /\ s.onBattery \in {"profile", "override"}
  /\ s.charge \in {"profile", "override"}
  /\ \/ s.runtime.oid = "profile"
     \/ s.runtime.oid = "override" /\ s.runtime.unit \in {"minutes", "seconds", "timeticks"}

normalizeUPSSource ==
  LET s == cfg.snmp
  IN  Stage("source",
            IF cfg.nut.set THEN ~s.set /\ normalizeNUT(cfg.nut)
            ELSE /\ s.set /\ s.target
                 /\ normalizeSNMPVersion(s)
                 /\ TimeoutOK(s.timeout)
                 /\ ResolveSNMPVars(s),
            [cfg EXCEPT !.snmp.version = SNMPVersion(s),
                        !.snmp.runtime.unit = IF s.set /\ s.runtime.oid = "profile"
                                              THEN ProfileUnit(s.profile) ELSE @],
            "unreachable")

\* It defaults to max_wait.
UnreachableAfter ==
  Stage("unreachable", cfg.local.unreachableAfter >= 0,
        [cfg EXCEPT !.local.unreachableAfter = Default(@, cfg.local.maxWait.value)], "policies")

(***************************************************************************)
(* Shutdown policies.                                                      *)
(***************************************************************************)
Conditions == {"charge", "runtime", "unreachable"}

validatePolicyConditions_Bug(p) ==
  /\ p.charge.value \in 0..MaxPercent /\ p.runtime.value >= 0
  /\ p.duration >= 0 /\ p.unreachable.value >= 0
  /\ p.unreachable.value > 0 =>
       p.charge.value = 0 /\ p.runtime.value = 0 /\ ~p.low.value /\ p.duration = 0

validatePolicyConditions(p) ==
  /\ \A c \in Conditions : p[c].set => p[c].value > 0
  /\ p.low.set => p.low.value
  /\ p.charge.value \in 0..MaxPercent /\ p.runtime.value >= 0
  /\ p.duration >= 0 /\ p.unreachable.value >= 0
  /\ p.unreachable.value > 0 =>
       p.charge.value = 0 /\ p.runtime.value = 0 /\ ~p.low.value /\ p.duration = 0

\* A policy without a target is for every node.
normalizeShutdownPolicies ==
  LET ps == cfg.policies
  IN  Stage("policies",
            /\ ps # <<>>
            /\ \A i \in DOMAIN ps :
                 /\ ps[i].name # ""
                 /\ \A j \in DOMAIN ps : ps[j].name = ps[i].name => i = j
                 /\ validatePolicyConditions(ps[i])
                 /\ ps[i].low.value => UsesNUT(cfg),
            [cfg EXCEPT !.policies = [i \in DOMAIN ps |->
               [ps[i] EXCEPT !.target = IF @ = "none" THEN "all" ELSE @]]],
            "loaded")

(***************************************************************************)
(* LoadSlaveConfig.                                                        *)
(***************************************************************************)
LoadSlaveConfig ==
  LET s == cfg.slave
  IN  Stage("slave",
            /\ s.node /\ s.master
            /\ s.token # "" /\ validateSecret(s.token)
            /\ ValidateClient(cfg.tls)
            /\ s.command.key # "empty"
            /\ s.commandTimeout >= 0,
            [cfg EXCEPT !.slave.reconnect = Default(@, 5),
                        !.slave.command = IF @.key = "given" THEN @ ELSE defaultShutdownCommand,
                        !.slave.commandTimeout = Default(@, 2)], "check")

(***************************************************************************)
(* What the program makes of it.                                           *)
(***************************************************************************)
SelfCheck(from, skipped, command, to) ==
  /\ stage = from
  /\ verdict' = IF skipped THEN verdict ELSE IF Check(command, host) THEN "yes" ELSE "no"
  /\ stage' = to
  /\ UNCHANGED <<raw, cfg, host, client, peers>>

\* A command that will not be run is not checked; a failure is reported and the
\* program goes on.
runLocalShutdownSelfCheck ==
  SelfCheck("loaded", ~cfg.local.enabled \/ cfg.dryRun, cfg.local.command.argv, "checked")

runShutdownSelfCheck ==
  SelfCheck("check", cfg.dryRun, cfg.slave.command.argv, "dial")

\* newSNMPClient: the client of every poll, with what it protects.
newSNMPClient ==
  /\ stage = "checked"
  /\ client' = IF ~cfg.snmp.set THEN "none"
               ELSE IF cfg.snmp.version # "3" THEN "plain"
               ELSE IF \/ cfg.snmp.level \notin {"noAuthNoPriv", "authNoPriv", "authPriv"}
                       \/ cfg.snmp.level # "noAuthNoPriv" /\ cfg.snmp.auth # "known"
                       \/ cfg.snmp.level = "authPriv" /\ cfg.snmp.priv # "known"
                    THEN "error" ELSE cfg.snmp.level
  /\ stage' = "serving"
  /\ UNCHANGED <<raw, cfg, host, verdict, peers>>

Peer == [tls : BOOLEAN, certificate : {"none", "node", "other", "forged"}]

\* The handshake of crypto/tls: a TLS listener speaks TLS only; it asks for a
\* client certificate, and verifies it, only if it is required.
Handshake(p) ==
  IF ~EnabledForServer(cfg.tls) THEN ~p.tls
  ELSE p.tls /\ (cfg.tls.require => p.certificate \in {"node", "other"})

\* The certificates the server sees.
Presented(p) == IF p.tls /\ cfg.tls.require THEN p.certificate ELSE "none"

\* verifyPeerIdentity, matchCertIdentity: nothing to match is no mismatch.
verifyPeerIdentity(p) ==
  \/ ~cfg.tls.bind
  \/ ~p.tls
  \/ Presented(p) \in {"none", "node"}

\* A peer that holds a valid token registers.
Register(p) ==
  /\ stage = "serving"
  /\ p \notin peers
  /\ Handshake(p) /\ verifyPeerIdentity(p)
  /\ peers' = peers \cup {p}
  /\ UNCHANGED <<stage, raw, cfg, host, verdict, client>>

\* The slave dials, with TLS or without.
Dial ==
  /\ stage = "dial"
  /\ peers' = {[tls |-> EnabledForClient(cfg.tls), certificate |-> "none"]}
  /\ stage' = "dialed"
  /\ UNCHANGED <<raw, cfg, host, verdict, client>>

Startup ==
  \/ Secrets \/ Intervals \/ LocalShutdown \/ TransportSecurity
  \/ normalizeUPSSource \/ UnreachableAfter \/ normalizeShutdownPolicies
  \/ LoadSlaveConfig \/ runLocalShutdownSelfCheck \/ runShutdownSelfCheck
  \/ newSNMPClient \/ Dial
  \/ \E p \in Peer : Register(p)

----------------------------------------------------------------------------
Accepted == stage \in {"loaded", "checked", "serving"}

\* An accepted configuration is one the master works with.  A policy fires on any
\* battery reading only if its author wrote no condition at all: a condition that
\* is zero, false or empty is refused, never dropped.  Timers are positive
\* (a ticker panics otherwise), the fallbacks of a silent UPS and of a critical
\* runtime are armed, there is a command to run, and every policy can fire: no
\* low_battery policy on a source that never reports it, no condition on a
\* reading next to one on the absence of readings, and no runtime in a unit that
\* is guessed: it is the profile's for the profile's OID, the author's for the
\* author's OID.
AcceptedConfigWorks ==
  Accepted =>
    /\ \A i \in DOMAIN cfg.policies :
         (\A c \in Conditions : cfg.policies[i][c].value <= 0) /\ ~cfg.policies[i].low.value
           => (\A c \in Conditions : ~raw.policies[i][c].set) /\ ~raw.policies[i].low.set
    /\ \A k \in DOMAIN cfg.intervals : cfg.intervals[k] > 0
    /\ cfg.local.maxWait.value > 0 /\ cfg.local.emergency.value > 0
    /\ cfg.local.unreachableAfter > 0 /\ cfg.local.commandTimeout > 0
    /\ cfg.local.command.key # "empty"
    /\ cfg.policies # <<>>
    /\ \A i \in DOMAIN cfg.policies :
         LET p == cfg.policies[i]
         IN  /\ p.low.value => raw.nut.set
             /\ p.target # "none"
             /\ p.unreachable.value > 0 =>
                  p.charge.value = 0 /\ p.runtime.value = 0 /\ ~p.low.value
    /\ raw.snmp.set =>
         cfg.snmp.runtime.unit = IF raw.snmp.runtime.oid = "override" THEN raw.snmp.runtime.unit
                                 ELSE ProfileUnit(raw.snmp.profile)
    /\ cfg.snmp.set => cfg.snmp.runtime.unit # ""

\* What the side that reads a setting was told to protect is protected.  A master
\* with any of tls.enabled, cert_file, key_file, ca_file and require_client_cert
\* serves nobody in plaintext, and with bind_node_id_to_cert every node that
\* registered has shown a verified certificate for its ID, although
\* verifyPeerIdentity lets a connection without a certificate pass.  A slave with
\* any of enabled, cert_file, key_file, ca_file, server_name and
\* insecure_skip_verify dials no master in plaintext.  An SNMP configuration with a
\* passphrase never talks without using it.  Nothing is claimed of the settings of
\* the other side: require_client_cert and bind_node_id_to_cert on a slave, and
\* server_name and insecure_skip_verify on a master, are accepted and ignored.
NothingSilentlyUnprotected ==
  /\ stage = "serving"
       /\ (raw.tls.enabled \/ raw.tls.cert \/ raw.tls.key \/ raw.tls.ca \/ raw.tls.require)
       => \A p \in peers : p.tls
  /\ stage = "serving" /\ raw.tls.bind => \A p \in peers : p.tls /\ p.certificate = "node"
  /\ stage = "dialed"
       /\ (\/ raw.tls.enabled \/ raw.tls.cert \/ raw.tls.key \/ raw.tls.ca
           \/ raw.tls.serverName \/ raw.tls.insecure)
       => \A p \in peers : p.tls
  /\ stage = "serving" /\ raw.snmp.set =>
       /\ client # "error"
       /\ raw.snmp.authLength > 0 => client \in {"authNoPriv", "authPriv"}
       /\ raw.snmp.privLength > 0 => client = "authPriv"

\* The command that the program would run.
Command == IF raw.role = "master" THEN cfg.local.command.argv ELSE cfg.slave.command.argv

\* The command is found ready only if it runs when it is needed: the question put
\* to sudo is about the same target, user and group, in whatever order, spelling
\* and number the options are written.  The check is blind in two ways only: it
\* passes a command that sudo lists but asks a password for, when another rule
\* has NOPASSWD (check.go documents that), and a file whose x bit is not for the
\* service's user.  And there is no false alarm, except for what the check does not
\* support: a command that runs is found ready if it is an absolute path, or
\* behind sudo with -n, -u, -g.
ReadyIfItRuns ==
  /\ verdict = "yes" /\ ~Unusual(Command) /\ ~Unseen(Command, host) => Runs(Command, host)
  /\ verdict = "no" /\ Runs(Command, host) =>
       IF Command.sudo THEN \E i \in DOMAIN Command.args : Command.args[i].kind = "other"
                       ELSE ~Command.file.absolute

----------------------------------------------------------------------------
(***************************************************************************)
(* What comments and messages say and the code does not do.                *)
(***************************************************************************)
\* "tls.disabled cannot be combined with other tls.* settings", on either side.
DisabledStandsAlone ==
  stage \in {"serving", "dialed"} /\ raw.tls.disabled =>
    ~( \/ raw.tls.enabled \/ raw.tls.cert \/ raw.tls.key \/ raw.tls.ca \/ raw.tls.require
       \/ raw.tls.bind \/ raw.tls.serverName \/ raw.tls.insecure )

\* "Check verifies argv can be executed", of a command without sudo.
ReadyIsExecutable == verdict = "yes" /\ ~Command.sudo => Runs(Command, host)
=============================================================================
