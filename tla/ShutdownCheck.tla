---------------------------- MODULE ShutdownCheck ----------------------------
(***************************************************************************)
(* The self-check of a shutdown command (internal/shutdowncheck): it must  *)
(* find out, without running the command, whether it would run when the    *)
(* power fails.  For a sudo command it asks sudo -l about the command it   *)
(* finds behind sudo's options.                                            *)
(*                                                                         *)
(* A word of the command line is classified by how it is written: -n, --,  *)
(* a run-as option (-u, --user, -g, --group) with its value attached or in *)
(* the next word, another option, or a plain word.                         *)
(***************************************************************************)
EXTENDS Integers, Sequences

CONSTANTS
  Accounts,    \* values of run-as options
  Commands     \* plain words

Word(kind, opt, value) == [kind |-> kind, opt |-> opt, value |-> value]

Plain(v)     == Word("plain", "", v)
RunAs(o)     == Word("runas", o, "")
NoPrompt     == Word("n", "", "")
List         == Word("l", "", "")
EndOfOptions == Word("end", "", "")
Words ==
  {NoPrompt, EndOfOptions, Word("other", "", ""), RunAs("-u"), RunAs("-g")}
    \cup {Word("attached", "-u", v) : v \in Accounts}
    \cup {Plain(v) : v \in Accounts \cup Commands}

\* The file a command line without sudo names, as far as running it goes: x says for
\* whom its mode has an x bit, for nobody, only for others or for the service's user.
File == [absolute : BOOLEAN, regular : BOOLEAN, x : {"nobody", "others", "me"}, rootOnly : BOOLEAN]
NoFile == [absolute |-> FALSE, regular |-> FALSE, x |-> "nobody", rootOnly |-> FALSE]

\* Command lines.
Sudo(args) == [sudo |-> TRUE, file |-> NoFile, args |-> args]
Bare(file) == [sudo |-> FALSE, file |-> file, args |-> <<>>]

(***************************************************************************)
(* sudo, as its manual describes it: options up to the first word that is  *)
(* none, the last of each counts, the target is what remains.  A host is   *)
(* [root, rule, password, freeRule]: whether the process runs as root, the *)
(* request that sudoers allows it, whether it must give a password for     *)
(* that, and whether another rule for its user has NOPASSWD.               *)
(***************************************************************************)
SudoRequests == [valid : {TRUE}, user : {"root"} \cup Accounts, group : {""} \cup Accounts,
             target : {<<Plain(c)>> : c \in Commands}]

Invalid == [valid |-> FALSE, user |-> "root", group |-> "", target |-> <<>>]

\* Whether word i is the value of the option before it.
Values(args) ==
  LET isValue[i \in 0..Len(args)] == i > 1 /\ args[i - 1].kind = "runas" /\ ~isValue[i - 1]
  IN  {i \in DOMAIN args : isValue[i]}

sudo(args) ==
  LET options == DOMAIN args \ Values(args)
      ends    == {i \in options : args[i].kind \in {"plain", "end"}}
      start   == CHOOSE i \in ends : \A j \in ends : i <= j
      Given(o)  == {i \in options : i < start /\ args[i].opt = o}
      Value(i)  == IF args[i].kind = "attached" THEN args[i].value ELSE args[i + 1].value
      Last_(o, default) == IF Given(o) = {} THEN default
                           ELSE Value(CHOOSE i \in Given(o) : \A j \in Given(o) : j <= i)
  IN  IF ends = {} \/ (\E i \in options : i < start /\ args[i].kind = "other") THEN Invalid
      ELSE [valid |-> TRUE, user |-> Last_("-u", "root"), group |-> Last_("-g", ""),
            target |-> SubSeq(args, IF args[start].kind = "end" THEN start + 1 ELSE start, Len(args))]

Allows(host, request) == request.valid /\ request.target # <<>> /\ request = host.rule

\* sudo -n: what is allowed runs unless a password is due.
RunsUnasked(host, request) == Allows(host, request) /\ ~host.password

\* sudo -n -l: with listpw=any the list itself takes no password as soon as any
\* rule of the user takes none, and says yes to whatever is allowed.
Lists(host, request) == Allows(host, request) /\ (host.password => host.freeRule)

(***************************************************************************)
(* The check.                                                              *)
(***************************************************************************)
Split(ok, kept, target) == [ok |-> ok, kept |-> kept, target |-> target]
Unsupported == Split(FALSE, <<>>, <<>>)

\* Options that are kept in front of what was found behind them.
Keep(options, split) == IF split.ok THEN [split EXCEPT !.kept = options \o @] ELSE split

\* The run-as options, with their values behind them, and the target.
splitSudoArgs(args) ==
  LET n == Len(args)
      from[i \in 1..(n + 1)] ==
        IF i > n THEN Split(TRUE, <<>>, <<>>)
        ELSE LET a == args[i]
             IN  CASE a.kind = "end"      -> Split(TRUE, <<>>, SubSeq(args, i + 1, n))
                   [] a.kind = "plain"    -> Split(TRUE, <<>>, SubSeq(args, i, n))
                   [] a.kind = "n"        -> from[i + 1]
                   [] a.kind = "runas"    -> IF i = n THEN Unsupported
                                             ELSE Keep(<<a, args[i + 1]>>, from[i + 2])
                   [] a.kind = "attached" -> Keep(<<RunAs(a.opt), Plain(a.value)>>, from[i + 1])
                   [] OTHER               -> Unsupported
  IN  from[1]

\* sudo -n -l, the kept options and the target.
checkSudo(args, host) ==
  LET split == splitSudoArgs(args)
  IN  /\ split.ok /\ split.target # <<>>
      /\ Lists(host, sudo(<<NoPrompt, List>> \o split.kept \o split.target))

\* Any x bit will do, whoever it is for.
checkExecutable(f) == f.absolute /\ f.regular /\ f.x # "nobody"

Check_Bug(c, host) ==
  IF c.sudo THEN checkSudo(c.args, host) ELSE checkExecutable(c.file)

Check(c, host) ==
  IF c.sudo THEN checkSudo(c.args, host)
  ELSE ~(c.file.rootOnly /\ ~host.root) /\ checkExecutable(c.file)

----------------------------------------------------------------------------
\* Whether the command runs when the power fails, with nobody to type a password
\* (CommandShutdownExecutor.Execute).
Runs(c, host) ==
  IF c.sudo THEN RunsUnasked(host, sudo(c.args))
  ELSE /\ c.file.regular
       /\ c.file.x = "me" \/ (c.file.x = "others" /\ host.root)
       /\ c.file.rootOnly => host.root

\* What the check cannot see: a password for a command that sudo lists without
\* one, and an x bit that is not for the user of the service.
Unseen(c, host) ==
  IF c.sudo THEN Allows(host, sudo(c.args)) /\ host.password /\ host.freeRule
  ELSE c.file.x = "others" /\ ~host.root

\* A target that begins with a dash is no command.
Unusual(c) ==
  LET t == sudo(c.args).target IN t # <<>> /\ t[1].kind # "plain"
=============================================================================
