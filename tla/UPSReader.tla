------------------------------ MODULE UPSReader ------------------------------
(***************************************************************************)
(* One poll of the UPS (internal/master/nut.go, snmp.go): the conversation *)
(* with a NUT upsd, line by line, or one SNMP GET, and how the answer is   *)
(* turned into a reading.  The server may answer anything, stop in the     *)
(* middle of an answer, or never stop.                                     *)
(*                                                                         *)
(* A line is classified by what the reader makes of it: "bad" is a line    *)
(* that is none of the others (an ERR, another UPS, a value that is not    *)
(* quoted, a line that does not fit the buffer).  Numbers that upsd sends  *)
(* are in tenths, so that decimals exist.                                  *)
(***************************************************************************)
EXTENDS UPSReading, Sequences, FiniteSets, SequencesExt

CONSTANTS
  NotANumber,            \* a value that ParseFloat refuses
  StatusFlags,           \* the flags ups.status may hold, sets of them
  Numbers,               \* the numbers upsd may report, in tenths
  SNMPValues,            \* the values of an SNMP variable
  OnBatteryValues,       \* cfg.OnBattery.Values
  MaxNumber,             \* math.MaxInt32
  MaxNUTVars,            \* maxNUTVars
  MaxLines               \* bound: lines of an answer

ASSUME ReaderAssumption ==
  /\ Absent \notin Nat /\ NotANumber \notin Int
  /\ StatusFlags \subseteq SUBSET {"OL", "OB", "LB", "CHRG"}
  /\ Numbers \subseteq Int /\ SNMPValues \subseteq Int /\ OnBatteryValues \subseteq Int
  /\ MaxNumber \in Nat /\ MaxNUTVars \in Nat /\ MaxLines \in Nat

Unit == {"minutes", "seconds", "timeticks"}
Name == {"ups.status", "battery.charge", "battery.runtime", "other"}

Line ==
  [kind : {"begin", "end", "bad"}, name : {"other"}, flags : {{}}, number : {0}]
    \cup [kind : {"var"}, name : {"ups.status"}, flags : StatusFlags, number : {0}]
    \cup [kind : {"var"}, name : {"battery.charge", "battery.runtime"}, flags : {{}},
          number : Numbers \cup {NotANumber}]
    \cup [kind : {"var"}, name : {"other"}, flags : {{}}, number : {0}]

Variable == [type : {"Integer", "TimeTicks", "Null"}, value : SNMPValues]
Packet   == [error : BOOLEAN, variables : [1..3 -> Variable] \cup [1..2 -> Variable]]

VARIABLES
  pc,         \* where ReadNUTStatus or ReadSNMPStatus is
  unit,       \* cfg.Runtime.Unit
  nutVars,    \* the variables collected by readNUTVarList
  received,   \* observer: the lines read so far
  packet,     \* observer: the answers of the SNMP agent
  returned    \* what the poll returned

state == <<pc, unit, nutVars, received, packet, returned>>

NoVars  == [n \in {} |-> [flags |-> {}, number |-> 0]]
Error   == [ok |-> FALSE, onBattery |-> FALSE, low |-> FALSE, charge |-> Absent, runtime |-> Absent]
Pending == Error

PollInit ==
  /\ pc \in {"dial", "get"}
  /\ unit \in Unit /\ (pc = "dial" => unit = "seconds")   \* a NUT runtime is in seconds
  /\ nutVars = NoVars
  /\ received = <<>>
  /\ packet = <<>>
  /\ returned = Pending

(***************************************************************************)
(* From an answer to a reading.                                            *)
(***************************************************************************)
runtimeToMinutes_Bug(value, u) ==
  CASE u = "seconds"   -> (value + 59) \div 60
    [] u = "timeticks" -> (value + 5999) \div 6000
    [] u = "minutes"   -> value

\* Rounded down.
runtimeToMinutes(value, u) ==
  CASE u = "seconds"   -> value \div 60
    [] u = "timeticks" -> value \div (100 * 60)
    [] u = "minutes"   -> value

\* parseNUTNumber: what is not a number, negative or out of range is an error.
Parses(x) == x # NotANumber /\ x >= 0 /\ x <= 10 * MaxNumber
parseNUTNumber(x) == x \div 10

decodeNUTVars_Bug(v) ==
  LET Reported(n) == n \in DOMAIN v
      flags       == IF Reported("ups.status") THEN v["ups.status"].flags ELSE {}
  IN  IF \E n \in {"battery.charge", "battery.runtime"} : Reported(n) /\ ~Parses(v[n].number)
      THEN Error
      ELSE [ok |-> TRUE, onBattery |-> "OB" \in flags, low |-> "LB" \in flags,
            charge  |-> IF Reported("battery.charge")
                        THEN parseNUTNumber(v["battery.charge"].number) ELSE Absent,
            runtime |-> IF Reported("battery.runtime")
                        THEN runtimeToMinutes(parseNUTNumber(v["battery.runtime"].number), unit)
                        ELSE Absent]

\* ups.status is required and must say OL or OB; charge and runtime are optional.
decodeNUTVars(v) ==
  LET Reported(n) == n \in DOMAIN v
      flags       == IF Reported("ups.status") THEN v["ups.status"].flags ELSE {}
  IN  IF \/ flags \cap {"OL", "OB"} = {}
         \/ \E n \in {"battery.charge", "battery.runtime"} : Reported(n) /\ ~Parses(v[n].number)
      THEN Error
      ELSE [ok |-> TRUE, onBattery |-> "OB" \in flags, low |-> "LB" \in flags,
            charge  |-> IF Reported("battery.charge")
                        THEN parseNUTNumber(v["battery.charge"].number) ELSE Absent,
            runtime |-> IF Reported("battery.runtime")
                        THEN runtimeToMinutes(parseNUTNumber(v["battery.runtime"].number), unit)
                        ELSE Absent]

\* decodeIntVariable: only integer types; TimeTicks is one of them.
IsInteger(variable) == variable.type \in {"Integer", "TimeTicks"}

decodeUPSPacket(p, u) ==
  IF \/ p.error
     \/ Len(p.variables) # 3
     \/ \E i \in 1..3 : ~IsInteger(p.variables[i])
     \/ p.variables[2].value < 0 \/ p.variables[3].value < 0
     \/ p.variables[3].type = "TimeTicks" /\ u # "timeticks"
  THEN Error
  ELSE [ok |-> TRUE, onBattery |-> p.variables[1].value \in OnBatteryValues, low |-> FALSE,
        charge |-> p.variables[2].value, runtime |-> runtimeToMinutes(p.variables[3].value, u)]

(***************************************************************************)
(* ReadNUTStatus.                                                          *)
(***************************************************************************)
Finish(r) == pc' = "done" /\ returned' = r

\* Connect and send LIST VAR, either of which may fail.
Dial ==
  /\ pc = "dial"
  /\ \/ pc' = "begin" /\ UNCHANGED returned
     \/ Finish(Error)
  /\ UNCHANGED <<unit, nutVars, received, packet>>

\* readNUTLine: the server sends another line.
Receive(l) ==
  /\ Len(received) < MaxLines
  /\ received' = Append(received, l)
  /\ UNCHANGED <<unit, packet>>

\* The first line: BEGIN, or the answer is refused.
ReadBegin ==
  /\ pc = "begin"
  /\ \E l \in Line :
       /\ Receive(l)
       /\ IF l.kind = "begin" THEN pc' = "list" /\ UNCHANGED returned ELSE Finish(Error)
  /\ UNCHANGED nutVars

\* A variable: the last value of a name counts.
ReadVariable ==
  /\ pc = "list"
  /\ \E l \in Line :
       /\ l.kind = "var"
       /\ Receive(l)
       /\ IF Cardinality(DOMAIN nutVars) >= MaxNUTVars
          THEN Finish(Error) /\ UNCHANGED nutVars
          ELSE /\ nutVars' = [n \in DOMAIN nutVars \cup {l.name} |->
                                IF n = l.name THEN [flags |-> l.flags, number |-> l.number]
                                ELSE nutVars[n]]
               /\ UNCHANGED <<pc, returned>>

\* END completes the list, and LOGOUT is sent; anything else is an error.
ReadEnd ==
  /\ pc = "list"
  /\ \E l \in Line :
       /\ l.kind # "var"
       /\ Receive(l)
       /\ Finish(IF l.kind = "end" THEN decodeNUTVars(nutVars) ELSE Error)
  /\ UNCHANGED nutVars

Deadline_Bug ==
  /\ pc = "begin"
  /\ Finish(Error)
  /\ UNCHANGED <<unit, nutVars, received, packet>>

\* The server closes the connection, or the deadline of the whole conversation
\* passes (it is set once, not per line).
Deadline ==
  /\ pc \in {"begin", "list"}
  /\ Finish(Error)
  /\ UNCHANGED <<unit, nutVars, received, packet>>

(***************************************************************************)
(* ReadSNMPStatus: one GET for the three variables, or none (timeout).     *)
(***************************************************************************)
GetAnswered ==
  /\ pc = "get"
  /\ \E p \in Packet :
       /\ packet' = <<p>>
       /\ Finish(decodeUPSPacket(p, unit))
  /\ UNCHANGED <<unit, nutVars, received>>

GetTimesOut ==
  /\ pc = "get"
  /\ Finish(Error)
  /\ UNCHANGED <<unit, nutVars, received, packet>>

PollNext ==
  \/ Dial \/ ReadBegin \/ ReadVariable \/ ReadEnd \/ Deadline
  \/ GetAnswered \/ GetTimesOut

\* A dial has a timeout, the connection a deadline, a GET a timeout and one
\* retry.  The server owes nothing.
Fairness == WF_state(Dial) /\ WF_state(Deadline) /\ WF_state(GetTimesOut)

PollSpec == PollInit /\ [][PollNext]_state /\ Fairness

----------------------------------------------------------------------------
\* What the UPS said, read off the answer from outside.
Told(n) == {i \in DOMAIN received : received[i].kind = "var" /\ received[i].name = n}
LastTold(n) == received[CHOOSE i \in Told(n) : \A j \in Told(n) : j <= i]
AskedNUT == packet = <<>>

\* A reading is returned only for a whole answer, and it says line power only if
\* the UPS said so: an answer that was cut short, a driver that is starting (no
\* OL and no OB), an agent error or a value that is no integer must not end an
\* outage, and a value the UPS did not report must not look like an empty battery.
ReadingIsTold ==
  returned.ok =>
    IF AskedNUT
    THEN /\ Last(received).kind = "end" /\ received[1].kind = "begin"
         /\ Told("ups.status") # {}
         /\ returned.onBattery = ("OB" \in LastTold("ups.status").flags)
         /\ returned.onBattery \/ "OL" \in LastTold("ups.status").flags
         /\ returned.charge = Absent <=> Told("battery.charge") = {}
         /\ returned.runtime = Absent <=> Told("battery.runtime") = {}
    ELSE /\ ~packet[1].error
         /\ \A i \in 1..3 : packet[1].variables[i].type # "Null"
         /\ returned.onBattery = (packet[1].variables[1].value \in OnBatteryValues)

\* The runtime an agent told, in time ticks of 1/100 second.  The type of a
\* variable says when it is in time ticks, else the operator says what it is in.
TicksPer(u) == CASE u = "minutes" -> 6000 [] u = "seconds" -> 100 [] u = "timeticks" -> 1
ToldTicks ==
  LET v == packet[1].variables[3]
  IN  v.value * TicksPer(IF v.type = "TimeTicks" THEN "timeticks" ELSE unit)

\* A threshold on the reading fires no later than one on what the device said,
\* and less than a minute (or a percent) earlier; time ticks are never taken for
\* minutes or seconds.
ThresholdsFireInTime ==
  returned.ok =>
    \A limit \in 0..10 :
      IF AskedNUT
      THEN /\ returned.charge # Absent =>
                (returned.charge <= limit <=> LastTold("battery.charge").number < 10 * (limit + 1))
           /\ returned.runtime # Absent =>
                (returned.runtime <= limit <=> LastTold("battery.runtime").number < 600 * (limit + 1))
      ELSE returned.runtime <= limit <=> ToldTicks < 6000 * (limit + 1)

\* A server that stops answering, or that never stops, does not hold the polling
\* loop: without it no silence would ever be noticed.
EveryPollEnds == <>(pc = "done")
=============================================================================
