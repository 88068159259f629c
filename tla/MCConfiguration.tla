-------------------------- MODULE MCConfiguration ---------------------------
\* Every block of the file in all its combinations, the other blocks being good:
\* no stage reads more than one block, except that a policy depends on the
\* source and install_ca_file on TLS, and these vary together.
EXTENDS Configuration, TLC, SequencesExt

CONSTANTS MaxWords, FewWords   \* bounds: words behind sudo, and where it takes a password

Key(values) == {Unset} \cup [set : {TRUE}, value : values]

TLS == [enabled : BOOLEAN, disabled : BOOLEAN, cert : BOOLEAN, key : BOOLEAN, ca : BOOLEAN,
        require : BOOLEAN, bind : BOOLEAN, serverName : BOOLEAN, insecure : BOOLEAN]
NoTLS == [enabled |-> FALSE, disabled |-> FALSE, cert |-> FALSE, key |-> FALSE, ca |-> FALSE,
          require |-> FALSE, bind |-> FALSE, serverName |-> FALSE, insecure |-> FALSE]

SecretKind == {"", "blank", "placeholder", "good"}
SecretBlock == [enrollment : {"", "open", "closed", "other"}, admin : SecretKind,
                tokens : SUBSET {"blank", "placeholder", "good"}]
IntervalBlock == [poll : -1..1, command : -1..1, offline : -1..1]
NotGiven    == [key : {"none", "empty"}, argv : {Sudo(<<>>)}]
Given(argv) == [key |-> "given", argv |-> argv]
GoodBare    == Bare([absolute |-> TRUE, regular |-> TRUE, x |-> "me", rootOnly |-> FALSE])

LocalBlock == [enabled : BOOLEAN, command : NotGiven \cup {Given(GoodBare)}, maxWait : Key(-1..1),
               emergency : Key(-1..1), commandTimeout : -1..1, unreachableAfter : -1..1]
NUTBlock == [set : {TRUE}, host : {"", "space", "name"}, ups : {"", "other", "name"}, timeout : {-1, 0, 60, 61}]
GoodNUT == [set |-> TRUE, host |-> "name", ups |-> "name", timeout |-> 0]
NoNUT   == [set |-> FALSE, host |-> "", ups |-> "", timeout |-> 0]

ProfileRuntime == [oid |-> "profile", unit |-> ""]
GoodSNMP == [set |-> TRUE, target |-> TRUE, version |-> "", community |-> TRUE, username |-> FALSE,
             level |-> "", auth |-> "", authLength |-> 0, priv |-> "", privLength |-> 0, timeout |-> 0,
             profile |-> "", onBattery |-> "profile", charge |-> "profile", runtime |-> ProfileRuntime]
NoSNMP == [GoodSNMP EXCEPT !.set = FALSE, !.target = FALSE, !.community = FALSE]
SNMPAccess ==
  [version : {"", "1", "3", "v3", "4"}, community : BOOLEAN, username : BOOLEAN,
   level : {"", "noAuthNoPriv", "authNoPriv", "authPriv"}, auth : {"", "known", "other"},
   authLength : {0, 7, 8}, priv : {"", "known", "other"}, privLength : {0, 7, 8}]
SNMPVars ==
  [target : BOOLEAN, timeout : {-1, 0, 60, 61}, profile : {"", "apc", "eaton", "other"},
   onBattery : {"profile", "override", "incomplete"}, charge : {"profile", "override", "incomplete"},
   runtime : {ProfileRuntime} \cup [oid : {"override", "empty"}, unit : {"", "seconds", "hours"}]]

NoLow == [set : {FALSE}, value : {FALSE}]
PolicyBlock ==
  [name : {"", "a"}, charge : Key({-1, 0, 30, 101}), runtime : Key({0, 5}), low : NoLow \cup [set : {TRUE}, value : BOOLEAN],
   unreachable : Key({0, 2}), duration : -1..1, target : {"none", "all", "some"}]
GoodPolicy ==
  [name |-> "a", charge |-> Unset, runtime |-> Unset, low |-> [set |-> FALSE, value |-> FALSE],
   unreachable |-> Unset, duration |-> 0, target |-> "all"]

SlaveBlock == [node : BOOLEAN, master : BOOLEAN, token : SecretKind, reconnect : -1..1,
               command : NotGiven \cup {Given(GoodBare)}, commandTimeout : -1..1]
GoodSlave == [node |-> TRUE, master |-> TRUE, token |-> "good", reconnect |-> 1,
              command |-> Given(GoodBare), commandTimeout |-> 0]

Good ==
  [role |-> "master", dryRun |-> FALSE,
   secrets |-> [enrollment |-> "", admin |-> "good", tokens |-> {"good"}],
   intervals |-> [poll |-> 0, command |-> 0, offline |-> 0],
   local |-> [enabled |-> TRUE, command |-> Given(GoodBare), maxWait |-> Unset, emergency |-> Unset,
              commandTimeout |-> 0, unreachableAfter |-> 0],
   tls |-> NoTLS, adminTLS |-> [cert |-> FALSE, key |-> FALSE], installCA |-> "none",
   snmp |-> NoSNMP, nut |-> GoodNUT, policies |-> <<GoodPolicy>>, slave |-> GoodSlave]
Polled(s) == [Good EXCEPT !.snmp = s, !.nut = NoNUT]
Slave     == [Good EXCEPT !.role = "slave"]

LoadHere(file) == Load(file, PackagedHost)

Host == [root : BOOLEAN, rule : {Invalid}, password : {FALSE}, freeRule : {FALSE}]
SudoHost == [root : {FALSE}, rule : SudoRequests, password : {FALSE}, freeRule : {FALSE}]
PasswordHost == [root : {FALSE}, rule : SudoRequests, password : {TRUE}, freeRule : BOOLEAN]

MCInit ==
  \/ \E b \in SecretBlock : LoadHere([Good EXCEPT !.secrets = b])
  \/ \E b \in IntervalBlock : LoadHere([Good EXCEPT !.intervals = b])
  \/ \E b \in LocalBlock : LoadHere([Good EXCEPT !.local = b])
  \/ \E t \in TLS, i \in {"none", "unreadable", "key", "certificates"} :
       LoadHere([Good EXCEPT !.tls = t, !.installCA = i])
  \/ \E a \in [cert : BOOLEAN, key : BOOLEAN] : LoadHere([Good EXCEPT !.adminTLS = a])
  \/ \E b \in NUTBlock : LoadHere([Good EXCEPT !.nut = b])
  \/ \E c \in {[Good EXCEPT !.snmp = GoodSNMP], [Good EXCEPT !.nut = NoNUT]} : LoadHere(c)
  \/ \E a \in SNMPAccess : LoadHere(Polled(a @@ GoodSNMP))
  \/ \E v \in SNMPVars : LoadHere(Polled(v @@ GoodSNMP))
  \/ \E c \in {Good, Polled(GoodSNMP)} :
       \/ \E p \in PolicyBlock : LoadHere([c EXCEPT !.policies = <<p>>])
       \/ \E ps \in {<<>>, <<GoodPolicy, GoodPolicy>>} : LoadHere([c EXCEPT !.policies = ps])
  \/ \E b \in SlaveBlock : LoadHere([Slave EXCEPT !.slave = b])
  \/ \E t \in TLS : LoadHere([Slave EXCEPT !.tls = t])
  \/ \E f \in File, h \in Host, d \in BOOLEAN :
       \/ Load([Good EXCEPT !.local.command = Given(Bare(f)), !.dryRun = d], h)
       \/ Load([Slave EXCEPT !.slave.command = Given(Bare(f)), !.dryRun = d], h)
  \/ \E args \in BoundedSeq(Words, FewWords), h \in PasswordHost :
       Load([Slave EXCEPT !.slave.command = Given(Sudo(args))], h)
  \/ \E args \in BoundedSeq(Words, MaxWords), h \in SudoHost :
       Load([Slave EXCEPT !.slave.command = Given(Sudo(args))], h)

MCSpec == MCInit /\ [][Startup]_config
=============================================================================
