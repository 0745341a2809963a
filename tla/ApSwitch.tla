------------------------------ MODULE ApSwitch ------------------------------
(***************************************************************************)
(* Switching a Raspberry Pi between wifibroadcast and access point:        *)
(* tx-ap-switch.sh polls a switch and runs switch_flip_wbctxd_apn, which   *)
(* anybody logged in may run beside it; nothing locks one run against the  *)
(* other, and the power may fail in the middle of any.                     *)
(***************************************************************************)
EXTENDS Integers, Sequences

CONSTANTS
  Hands,             \* shells in which the script is run by hand
  MaxFlips,          \* bound: runs by hand
  MaxMoves,          \* bound: movements of the switch
  MaxReboots         \* bound: power failures

ASSUME HandsAssumption == "daemon" \notin Hands

Runs     == Hands \cup {"daemon"}
Modes    == {"apn", "wbctxd"}
Services == {"wbctxd", "isc-dhcp-server", "hostapd"}
Units    == Services \cup {"interfaces", "wlan0"}

VARIABLES
  unit,              \* the services, wlan0 and /etc/network/interfaces
  level,             \* of GPIO 17, the switch
  lastval,           \* of tx-ap-switch.sh
  mode,              \* the parameter of each run of the script
  line,              \* its next command, or 0
  flips, moves, reboots,
  \* History variables:
  modes,             \* parameters of all runs since there was none
  finished,          \* one of them has come to its end
  orderly,           \* no runs at the same time since one came to its end
  byHand,            \* a run by hand since the daemon's last, or beside it
  followed           \* the daemon has run the script since the last boot

bounds  == <<flips, moves, reboots>>
history == <<modes, finished, orderly, byHand, followed>>
vars    == <<unit, level, lastval, mode, line, bounds, history>>

Idle == \A r \in Runs : line[r] = 0

-----------------------------------------------------------------------------
(* The script: what each command sets.                                     *)

Stop(s)  == [of |-> s, to |-> "off"]
Start(s) == [of |-> s, to |-> "on"]
Down     == [of |-> "wlan0", to |-> "down"]      \* ifconfig down and ifdown
Copy(m)  == [of |-> "interfaces", to |-> m]
Up       == [of |-> "wlan0", to |-> "up"]

(* Mutants of Script: the interface goes up before its file is there; a    *)
(* service starts as soon as the interface it uses is up.                  *)
ScriptUpFirst(m) ==
  IF m = "apn"
    THEN <<Stop("wbctxd"), Stop("isc-dhcp-server"), Stop("hostapd"),
           Down, Up, Copy("apn"), Start("hostapd"), Start("isc-dhcp-server")>>
    ELSE <<Stop("isc-dhcp-server"), Stop("hostapd"), Stop("wbctxd"),
           Down, Up, Copy("wbctxd"), Start("wbctxd")>>

ScriptStopsLate(m) ==
  IF m = "apn"
    THEN <<Stop("isc-dhcp-server"), Stop("hostapd"), Down, Copy("apn"), Up,
           Start("hostapd"), Start("isc-dhcp-server"), Stop("wbctxd")>>
    ELSE <<Stop("wbctxd"), Down, Copy("wbctxd"), Up,
           Start("wbctxd"), Stop("isc-dhcp-server"), Stop("hostapd")>>

Script(m) ==
  IF m = "apn"
    THEN <<Stop("wbctxd"), Stop("isc-dhcp-server"), Stop("hostapd"),
           Down, Copy("apn"), Up, Start("hostapd"), Start("isc-dhcp-server")>>
    ELSE <<Stop("isc-dhcp-server"), Stop("hostapd"), Stop("wbctxd"),
           Down, Copy("wbctxd"), Up, Start("wbctxd")>>

(* ifup takes the mode from the file and leaves an interface that is up.   *)
Effect(command) ==
  IF command # Up THEN command.to
  ELSE IF unit["wlan0"] = "down" THEN unit["interfaces"]
  ELSE unit["wlan0"]

Begin(r, m) ==
  /\ line[r] = 0
  /\ line' = [line EXCEPT ![r] = 1]
  /\ mode' = [mode EXCEPT ![r] = m]
  /\ modes' = IF Idle THEN {m} ELSE modes \cup {m}
  /\ finished' = (~ Idle /\ finished)
  /\ orderly' = (Idle /\ orderly)

Command(r) ==
  /\ line[r] > 0
  /\ LET command == Script(mode[r])[line[r]]
         end     == line[r] = Len(Script(mode[r]))
     IN /\ unit' = [unit EXCEPT ![command.of] = Effect(command)]
        /\ line' = [line EXCEPT ![r] = IF end THEN 0 ELSE @ + 1]
        /\ finished' = (finished \/ end)
        /\ orderly' = (orderly \/ (end /\ modes = {mode[r]}))
  /\ UNCHANGED <<level, lastval, mode, bounds, modes, byHand, followed>>

ByHand(r, m) ==
  /\ flips < MaxFlips
  /\ Begin(r, m)
  /\ flips' = flips + 1
  /\ byHand' = TRUE
  /\ UNCHANGED <<unit, level, lastval, moves, reboots, followed>>

-----------------------------------------------------------------------------
(* The daemon, which waits for the end of the script, and its machine.     *)

ModeOf(l) == IF l = 0 THEN "apn" ELSE "wbctxd"

(* Mutant of Noted: only one of the two branches assigns lastval.          *)
NotedOnce(l) == IF l = 0 THEN 0 ELSE lastval

Noted(l) == l

Poll ==
  /\ level # lastval
  /\ Begin("daemon", ModeOf(level))
  /\ lastval' = Noted(level)
  /\ byHand' = (\E r \in Hands : line[r] > 0)
  /\ followed' = TRUE
  /\ UNCHANGED <<unit, level, bounds>>

Move ==
  /\ moves < MaxMoves
  /\ level' = 1 - level
  /\ moves' = moves + 1
  /\ UNCHANGED <<unit, lastval, mode, line, flips, reboots, history>>

(* At boot the file decides on the mode of wlan0, and systemd, which has   *)
(* its own list, on the services.                                          *)
Booted(services, file) ==
  [u \in Units |-> IF u \in Services THEN services[u] ELSE file]

Reboot ==
  /\ reboots < MaxReboots
  /\ \E services \in [Services -> {"on", "off"}] :
       unit' = Booted(services, unit["interfaces"])
  /\ lastval' = 1
  /\ line' = [r \in Runs |-> 0]
  /\ reboots' = reboots + 1
  /\ modes' = {} /\ finished' = FALSE /\ orderly' = FALSE
  /\ byHand' = FALSE /\ followed' = FALSE
  /\ UNCHANGED <<level, mode, flips, moves>>

Init ==
  /\ \E services \in [Services -> {"on", "off"}], file \in Modes :
       unit = Booted(services, file)
  /\ level \in {0, 1} /\ lastval = 1
  /\ mode = [r \in Runs |-> "wbctxd"] /\ line = [r \in Runs |-> 0]
  /\ flips = 0 /\ moves = 0 /\ reboots = 0
  /\ modes = {} /\ finished = FALSE /\ orderly = FALSE
  /\ byHand = FALSE /\ followed = FALSE

Next ==
  \/ \E r \in Hands, m \in Modes : ByHand(r, m)
  \/ \E r \in Runs : Command(r)
  \/ Poll
  \/ Move
  \/ Reboot

(* The daemon's loop and every command come to an end and are run; nobody  *)
(* has to move the switch, run the script or cut the power.                *)
Fairness ==
  /\ WF_vars(Poll)
  /\ \A r \in Runs : WF_vars(Command(r))

Spec == Init /\ [][Next]_vars /\ Fairness

-----------------------------------------------------------------------------

Wanted(u, m) ==
  IF u \in {"interfaces", "wlan0"} THEN m
  ELSE IF (u = "wbctxd") = (m = "wbctxd") THEN "on" ELSE "off"

Coherent(m) == \A u \in Units : unit[u] = Wanted(u, m)

(* "We stop everything for incase it was running anyway, for say you run   *)
(* this script twice with same parameter": runs with one parameter, at the *)
(* same time or one after the other, whatever was running before them,     *)
(* leave the machine in the mode they were given.  Runs with both          *)
(* parameters at the same time may leave any mixture.                      *)
SameFlipsAgree ==
  \A m \in Modes : Idle /\ finished /\ modes = {m} => Coherent(m)

(* While the script is only run one at a time, whatever the order of the   *)
(* modes, the transmitter and the access point never run together on       *)
(* wlan0, not even in the middle of a run.                                 *)
NeverTogether ==
  orderly => ~ (unit["wbctxd"] = "on" /\ unit["hostapd"] = "on")

(* Once the switch rests and nobody interferes by hand, the machine comes  *)
(* to the mode of the switch and stays there.  The daemon starts with      *)
(* lastval=1: with the switch at 1 it must have run the script since the   *)
(* last boot, or the mode of the file is left as it is.                    *)
FollowsSwitch ==
  /\ <>[](level = 0 /\ ~ byHand) => <>[]Coherent("apn")
  /\ <>[](level = 1 /\ ~ byHand /\ followed) => <>[]Coherent("wbctxd")
=============================================================================
