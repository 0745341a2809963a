--------------------------- MODULE ApSwitch_proofs ---------------------------
(***************************************************************************)
(* What holds of the switching script for any number of shells, runs,      *)
(* movements of the switch and power failures.                             *)
(***************************************************************************)
EXTENDS ApSwitch, TLAPS

Length(m) == IF m = "apn" THEN 8 ELSE 7

TypeInv ==
  /\ unit \in [Units -> {"on", "off", "down"} \cup Modes]
  /\ level \in {0, 1}
  /\ mode \in [Runs -> Modes]
  /\ line \in [Runs -> Nat]
  /\ \A r \in Runs : line[r] <= Length(mode[r])
  /\ modes \subseteq Modes
  /\ finished \in BOOLEAN /\ orderly \in BOOLEAN

(* The runs since there was none: one is still to make its command p; one  *)
(* has made it.                                                            *)
Pending(at, p)     == \E r \in Runs : at[r] > 0 /\ at[r] <= p
Passed(end, at, p) == end \/ \E r \in Runs : at[r] > p

Members == \A r \in Runs : line[r] > 0 => mode[r] \in modes

(* The last command about each unit.                                       *)
Last(u, m) ==
  IF u = "interfaces" THEN 5
  ELSE IF u = "wlan0" THEN 6
  ELSE IF u = "hostapd" THEN IF m = "apn" THEN 7 ELSE 2
  ELSE IF u = "isc-dhcp-server" THEN IF m = "apn" THEN 8 ELSE 1
  ELSE IF m = "apn" THEN 1 ELSE 7

(* With one parameter, a unit is right once a run has passed its last      *)
(* command and no run is before it.  Some are right even while others are  *)
(* before it, because no command of the script sets anything else.         *)
Settled(m) ==
  /\ \A u \in Units :
       Passed(finished, line, Last(u, m)) =>
         Pending(line, Last(u, m)) \/ unit[u] = Wanted(u, m)
  /\ Passed(finished, line, 4) => unit["wlan0"] \in {"down", m}
  /\ Passed(finished, line, 5) => unit["interfaces"] = m
  /\ m = "apn" /\ Passed(finished, line, 1) => unit["wbctxd"] = "off"
  /\ m = "wbctxd" /\ Passed(finished, line, 2) => unit["hostapd"] = "off"

Agreed == \A m \in Modes : modes = {m} => Settled(m)

Apart ==
  orderly => /\ \E m \in Modes : modes = {m}
             /\ ~ (unit["wbctxd"] = "on" /\ unit["hostapd"] = "on")

-----------------------------------------------------------------------------

(* The script of each mode, command by command.                            *)
LEMMA Table ==
  ASSUME NEW m \in Modes
  PROVE  /\ Len(Script(m)) = Length(m)
         /\ Script(m)[4] = Down /\ Script(m)[5] = Copy(m) /\ Script(m)[6] = Up
         /\ m = "apn" =>
              /\ Script(m)[1] = Stop("wbctxd")
              /\ Script(m)[2] = Stop("isc-dhcp-server")
              /\ Script(m)[3] = Stop("hostapd")
              /\ Script(m)[7] = Start("hostapd")
              /\ Script(m)[8] = Start("isc-dhcp-server")
         /\ m = "wbctxd" =>
              /\ Script(m)[1] = Stop("isc-dhcp-server")
              /\ Script(m)[2] = Stop("hostapd")
              /\ Script(m)[3] = Stop("wbctxd")
              /\ Script(m)[7] = Start("wbctxd")
<1>1. CASE m = "apn"
  BY <1>1 DEF Script, Length
<1>2. CASE m = "wbctxd"
  BY <1>2 DEF Script, Length
<1> QED BY <1>1, <1>2 DEF Modes

(* What one command of the script does.                                    *)
Does(m, l) ==
  /\ l = 4 => unit' = [unit EXCEPT !["wlan0"] = "down"]
  /\ l = 5 => unit' = [unit EXCEPT !["interfaces"] = m]
  /\ l = 6 => unit' = [unit EXCEPT !["wlan0"] =
                         IF @ = "down" THEN unit["interfaces"] ELSE @]
  /\ m = "apn" =>
       /\ l = 1 => unit' = [unit EXCEPT !["wbctxd"] = "off"]
       /\ l = 2 => unit' = [unit EXCEPT !["isc-dhcp-server"] = "off"]
       /\ l = 3 => unit' = [unit EXCEPT !["hostapd"] = "off"]
       /\ l = 7 => unit' = [unit EXCEPT !["hostapd"] = "on"]
       /\ l = 8 => unit' = [unit EXCEPT !["isc-dhcp-server"] = "on"]
  /\ m = "wbctxd" =>
       /\ l = 1 => unit' = [unit EXCEPT !["isc-dhcp-server"] = "off"]
       /\ l = 2 => unit' = [unit EXCEPT !["hostapd"] = "off"]
       /\ l = 3 => unit' = [unit EXCEPT !["wbctxd"] = "off"]
       /\ l = 7 => unit' = [unit EXCEPT !["wbctxd"] = "on"]

(* What one command of a run does, read off that table.                    *)
LEMMA Commands ==
  ASSUME TypeInv, NEW r \in Runs, Command(r)
  PROVE  /\ line[r] \in 1 .. Length(mode[r])
         /\ mode[r] \in Modes
         /\ Does(mode[r], line[r])
         /\ line' = [line EXCEPT ![r] =
                          IF line[r] = Length(mode[r]) THEN 0 ELSE line[r] + 1]
         /\ finished' = (finished \/ line[r] = Length(mode[r]))
<1> DEFINE m == mode[r]
           l == line[r]
           command == Script(m)[l]
<1>1. m \in Modes /\ l \in 1 .. Length(m) /\ Len(Script(m)) = Length(m)
  BY Table DEF TypeInv, Command
<1>2. unit' = [unit EXCEPT ![command.of] = Effect(command)]
  BY DEF Command
<1>3. /\ line' = [line EXCEPT ![r] = IF l = Length(m) THEN 0 ELSE l + 1]
      /\ finished' = (finished \/ l = Length(m))
  BY <1>1 DEF Command
<1>4. ASSUME NEW u, NEW v, command = [of |-> u, to |-> v], v # "up"
      PROVE  unit' = [unit EXCEPT ![u] = v]
  <2>1. command # Up /\ command.of = u /\ command.to = v
    BY <1>4 DEF Up
  <2> QED BY <1>2, <2>1 DEF Effect
<1>5. command = Up =>
        unit' = [unit EXCEPT !["wlan0"] =
                   IF @ = "down" THEN unit["interfaces"] ELSE @]
  BY <1>2 DEF Effect, Up
<1> HIDE DEF m, l, command
<1>6. ASSUME l = 4 PROVE unit' = [unit EXCEPT !["wlan0"] = "down"]
  BY <1>1, <1>4, <1>6, Table DEF Down, command
<1>7. ASSUME l = 5 PROVE unit' = [unit EXCEPT !["interfaces"] = m]
  BY <1>1, <1>4, <1>7, Table DEF Copy, command, Modes
<1>8. ASSUME l = 6
      PROVE  unit' = [unit EXCEPT !["wlan0"] =
                        IF @ = "down" THEN unit["interfaces"] ELSE @]
  BY <1>1, <1>5, <1>8, Table DEF command
<1>9. ASSUME m = "apn"
      PROVE  /\ l = 1 => unit' = [unit EXCEPT !["wbctxd"] = "off"]
             /\ l = 2 => unit' = [unit EXCEPT !["isc-dhcp-server"] = "off"]
             /\ l = 3 => unit' = [unit EXCEPT !["hostapd"] = "off"]
             /\ l = 7 => unit' = [unit EXCEPT !["hostapd"] = "on"]
             /\ l = 8 => unit' = [unit EXCEPT !["isc-dhcp-server"] = "on"]
  BY <1>1, <1>4, <1>9, Table DEF Start, Stop, command
<1>10. ASSUME m = "wbctxd"
       PROVE  /\ l = 1 => unit' = [unit EXCEPT !["isc-dhcp-server"] = "off"]
              /\ l = 2 => unit' = [unit EXCEPT !["hostapd"] = "off"]
              /\ l = 3 => unit' = [unit EXCEPT !["wbctxd"] = "off"]
              /\ l = 7 => unit' = [unit EXCEPT !["wbctxd"] = "on"]
  BY <1>1, <1>4, <1>10, Table DEF Start, Stop, command
<1>11. Does(m, l)
  BY <1>6, <1>7, <1>8, <1>9, <1>10 DEF Does
<1> QED BY <1>1, <1>3, <1>11 DEF m, l

(* A command p is passed, and no longer pending, only by being made.       *)
LEMMA Progress ==
  ASSUME TypeInv, NEW r \in Runs, Command(r), NEW p \in 1 .. Length(mode[r]),
         line[r] # p
  PROVE  /\ Passed(finished', line', p) => Passed(finished, line, p)
         /\ Pending(line, p) => Pending(line', p)
<1> USE Commands DEF TypeInv, Length
<1>1. Passed(finished', line', p) => Passed(finished, line, p)
  BY DEF Passed
<1>2. Pending(line, p) => Pending(line', p)
  <2>1. ASSUME NEW q \in Runs, line[q] > 0, line[q] <= p
        PROVE  line'[q] > 0 /\ line'[q] <= p
    BY <2>1
  <2> QED BY <2>1 DEF Pending
<1> QED BY <1>1, <1>2

-----------------------------------------------------------------------------

(* Every reachable state has its type.                                     *)
LEMMA Typing == Spec => []TypeInv
<1>1. Init => TypeInv
  <2> SUFFICES ASSUME Init PROVE TypeInv
    OBVIOUS
  <2>1. unit \in [Units -> {"on", "off", "down"} \cup Modes]
    <3>1. PICK services \in [Services -> {"on", "off"}], file \in Modes :
                 unit = Booted(services, file)
      BY DEF Init
    <3> QED BY <3>1 DEF Booted
  <2>2. mode \in [Runs -> Modes] /\ line \in [Runs -> Nat]
        /\ \A r \in Runs : line[r] <= Length(mode[r])
    BY DEF Init, Modes, Length
  <2> QED BY <2>1, <2>2 DEF Init, TypeInv
<1>2. ASSUME TypeInv, [Next]_vars PROVE TypeInv'
  <2> USE DEF TypeInv
  <2> USE DEF bounds, history
  <2>1. ASSUME NEW r \in Runs, NEW m \in Modes, Begin(r, m)
        PROVE  /\ mode' \in [Runs -> Modes] /\ line' \in [Runs -> Nat]
               /\ \A q \in Runs : line'[q] <= Length(mode'[q])
               /\ modes' \subseteq Modes
               /\ finished' \in BOOLEAN /\ orderly' \in BOOLEAN
    <3>1. \A q \in Runs : line'[q] <= Length(mode'[q])
      BY <1>2, <2>1 DEF Begin, Length
    <3>2. finished' \in BOOLEAN /\ orderly' \in BOOLEAN
      BY <1>2, <2>1, Zenon DEF Begin
    <3> QED BY <1>2, <2>1, <3>1, <3>2 DEF Begin
  <2>2. CASE \E r \in Hands, m \in Modes : ByHand(r, m)
    <3>1. PICK r \in Hands, m \in Modes : ByHand(r, m)
      BY <2>2
    <3>2. r \in Runs /\ Begin(r, m) /\ UNCHANGED <<unit, level>>
      BY <3>1 DEF ByHand, Runs
    <3> QED BY <1>2, <3>2, <2>1
  <2>3. CASE \E r \in Runs : Command(r)
    <3>1. PICK r \in Runs : Command(r)
      BY <2>3
    <3>2. line' \in [Runs -> Nat] /\ \A q \in Runs : line'[q] <= Length(mode'[q])
      <4>1. mode' = mode
        BY <3>1 DEF Command
      <4>2. line' = [line EXCEPT ![r] =
                          IF line[r] = Length(mode[r]) THEN 0 ELSE line[r] + 1]
            /\ line[r] \in 1 .. Length(mode[r])
        BY <1>2, <3>1, Commands
      <4>0. line \in [Runs -> Nat] /\ \A q \in Runs : line[q] <= Length(mode[q])
        BY <1>2
      <4>3. line'[r] <= Length(mode[r])
        BY <4>0, <4>2 DEF Length
      <4>4. line' \in [Runs -> Nat]
        BY <1>2, <4>2 DEF Length
      <4>5. ASSUME NEW q \in Runs PROVE line'[q] <= Length(mode'[q])
        BY <4>0, <4>1, <4>2, <4>3
      <4> QED BY <4>4, <4>5
    <3>3. unit' \in [Units -> {"on", "off", "down"} \cup Modes]
      <4>1. Does(mode[r], line[r]) /\ line[r] \in 1 .. 8 /\ mode[r] \in Modes
            /\ (mode[r] = "wbctxd" => line[r] # 8)
        BY <1>2, <3>1, Commands DEF Length
      <4> QED BY <1>2, <4>1 DEF Does, Units, Services, Modes
    <3>4. finished' \in BOOLEAN
      BY <1>2, <3>1, Zenon DEF Command
    <3>5. orderly' \in BOOLEAN
      BY <1>2, <3>1, Zenon DEF Command
    <3> QED BY <1>2, <3>1, <3>2, <3>3, <3>4, <3>5 DEF Command
  <2>4. CASE Poll
    <3>1. Begin("daemon", ModeOf(level)) /\ ModeOf(level) \in Modes
          /\ "daemon" \in Runs /\ UNCHANGED <<unit, level>>
      BY <1>2, <2>4 DEF Poll, Runs, ModeOf, Modes
    <3> QED BY <1>2, <3>1, <2>1
  <2>5. CASE Move
    BY <1>2, <2>5 DEF Move
  <2>6. CASE Reboot
    <3>1. PICK services \in [Services -> {"on", "off"}] :
                 unit' = Booted(services, unit["interfaces"])
      BY <2>6 DEF Reboot
    <3>2. unit' \in [Units -> {"on", "off", "down"} \cup Modes]
      BY <1>2, <3>1 DEF Booted, Units
    <3>3. line' \in [Runs -> Nat] /\ \A r \in Runs : line'[r] <= Length(mode'[r])
      BY <1>2, <2>6 DEF Reboot, Length
    <3>4. /\ mode' \in [Runs -> Modes] /\ level' \in {0, 1}
          /\ modes' \subseteq Modes
          /\ finished' \in BOOLEAN /\ orderly' \in BOOLEAN
      BY <1>2, <2>6 DEF Reboot
    <3> QED BY <3>2, <3>3, <3>4
  <2>7. CASE UNCHANGED vars
    BY <1>2, <2>7 DEF vars
  <2> QED BY <1>2, <2>2, <2>3, <2>4, <2>5, <2>6, <2>7 DEF Next
<1> QED BY <1>1, <1>2, PTL DEF Spec

(* Every run is of a mode that has been asked for.                         *)
LEMMA Membership == Spec => []Members
<1>1. Init => Members
  BY DEF Init, Members
<1>2. ASSUME TypeInv, Members, [Next]_vars PROVE Members'
  <2>1. ASSUME NEW r \in Runs, NEW m \in Modes, Begin(r, m) PROVE Members'
    BY <1>2, <2>1 DEF Begin, Members, TypeInv, Idle
  <2>2. CASE \E r \in Hands, m \in Modes : ByHand(r, m)
    BY <2>1, <2>2 DEF ByHand, Runs
  <2>3. CASE \E r \in Runs : Command(r)
    BY <1>2, <2>3 DEF Command, Members, TypeInv
  <2>4. CASE Poll
    BY <1>2, <2>1, <2>4 DEF Poll, Runs, ModeOf, Modes
  <2>5. CASE Move \/ UNCHANGED vars
    BY <1>2, <2>5 DEF Move, vars, history, Members
  <2>6. CASE Reboot
    BY <2>6 DEF Reboot, Members
  <2> QED BY <1>2, <2>2, <2>3, <2>4, <2>5, <2>6 DEF Next
<1> QED BY <1>1, <1>2, Typing, PTL DEF Spec

(* A run that begins passes nothing, or leaves what is passed, and is      *)
(* pending everywhere.                                                     *)
LEMMA Beginning ==
  ASSUME TypeInv, NEW r \in Runs, NEW m \in Modes, Begin(r, m), unit' = unit,
         Members, Agreed
  PROVE  Agreed'
<1> SUFFICES ASSUME NEW n \in Modes, modes' = {n} PROVE Settled(n)'
  BY DEF Agreed
<1>1. \A p \in Nat \ {0} : Pending(line', p)
  BY DEF Begin, TypeInv, Pending
<1>2. \A u \in Units : Last(u, n) \in Nat \ {0}
  BY DEF Last, Units, Services
<1>3. CASE Idle
  <2>1. \A p \in Nat \ {0} : ~ Passed(finished', line', p)
    <3>1. finished' = FALSE /\ line' = [line EXCEPT ![r] = 1]
      BY <1>3 DEF Begin
    <3> QED BY <1>3, <3>1 DEF TypeInv, Passed, Idle
  <2> QED BY <1>1, <1>2, <2>1 DEF Settled
<1>4. CASE ~ Idle
  <2>1. n = m /\ modes \subseteq {n}
    BY <1>4 DEF Begin
  <2>2. CASE modes = {n}
    <3>1. Settled(n)
      BY <2>2 DEF Agreed
    <3>2. \A p \in Nat \ {0} : Passed(finished', line', p) => Passed(finished, line, p)
      BY <1>4 DEF Begin, TypeInv, Passed
    <3> QED BY <1>1, <1>2, <3>1, <3>2 DEF Settled
  <2>3. CASE modes = {}
    BY <1>4, <2>3 DEF Members, Idle, TypeInv
  <2> QED BY <2>1, <2>2, <2>3
<1> QED BY <1>3, <1>4

(* As long as only one mode has been asked for, every command keeps to     *)
(* it.                                                                     *)
LEMMA OneCommand ==
  ASSUME TypeInv, Members, NEW r \in Runs, Command(r), NEW m \in Modes,
         modes = {m}, Settled(m)
  PROVE  Settled(m)'
<1> DEFINE l == line[r]
<1>1. /\ mode[r] = m /\ l \in 1 .. Length(m) /\ Does(m, l)
      /\ unit \in [Units -> {"on", "off", "down"} \cup Modes]
  BY Commands DEF Members, TypeInv, Command
<1> HIDE DEF l
<1>2. \A p \in 1 .. Length(m) :
        l # p => /\ Passed(finished', line', p) => Passed(finished, line, p)
                 /\ Pending(line, p) => Pending(line', p)
  BY <1>1, Progress DEF l
<1>3. l > 4 => Passed(finished, line, 4)
  BY DEF l, Passed
<1>21. /\ l # 4 => (Passed(finished', line', 4) => Passed(finished, line, 4))
       /\ l # 5 => (Passed(finished', line', 5) => Passed(finished, line, 5))
       /\ l # 1 => (Passed(finished', line', 1) => Passed(finished, line, 1))
       /\ l # 2 => (Passed(finished', line', 2) => Passed(finished, line, 2))
  <2>1. {1, 2, 4, 5} \subseteq 1 .. Length(m)
    BY DEF Length
  <2> QED BY <1>2, <2>1
<1>4. l > 5 => Passed(finished, line, 5)
  BY DEF l, Passed
<1>41. m = "apn" \/ m = "wbctxd"
  BY DEF Modes
<1>42. /\ l = 1 \/ l = 2 \/ l = 3 \/ l = 4 \/ l = 5 \/ l = 6 \/ l = 7 \/ l = 8
       /\ m = "wbctxd" => l # 8
  BY <1>1 DEF Length
<1>43. ASSUME NEW u \in Units, unit'[u] # unit[u]
       PROVE  /\ u = "wlan0" => l \in {4, 6}
              /\ u = "interfaces" => l = 5
              /\ u = "wbctxd" => l \in (IF m = "apn" THEN {1} ELSE {3, 7})
              /\ u = "hostapd" => l \in (IF m = "apn" THEN {3, 7} ELSE {2})
              /\ u = "isc-dhcp-server" => l \in (IF m = "apn" THEN {2, 8} ELSE {1})
  BY <1>1, <1>41, <1>42, <1>43 DEF Does
<1>44. /\ "wlan0" \in Units /\ "interfaces" \in Units
       /\ "wbctxd" \in Units /\ "hostapd" \in Units
       /\ 1 .. 6 \subseteq 1 .. Length(m)
  BY DEF Units, Services, Length
<1>5. Passed(finished', line', 4) => unit'["wlan0"] \in {"down", m}
  <2>1. CASE l = 4
    BY <1>1, <1>44, <2>1 DEF Does
  <2>2. CASE l = 6
    BY <1>1, <1>3, <1>4, <1>44, <2>2 DEF Does, Settled
  <2>3. CASE l \notin {4, 6}
    BY <1>21, <1>43, <1>44, <2>3 DEF Settled
  <2> QED BY <2>1, <2>2, <2>3
<1>6. Passed(finished', line', 5) => unit'["interfaces"] = m
  <2>1. CASE l = 5
    BY <1>1, <1>44, <2>1 DEF Does
  <2>2. CASE l # 5
    BY <1>21, <1>43, <1>44, <2>2 DEF Settled
  <2> QED BY <2>1, <2>2
<1>7. ASSUME m = "apn", Passed(finished', line', 1) PROVE unit'["wbctxd"] = "off"
  <2>1. CASE l = 1
    BY <1>1, <1>7, <1>44, <2>1 DEF Does
  <2>2. CASE l # 1
    BY <1>21, <1>7, <1>43, <1>44, <2>2 DEF Settled
  <2> QED BY <2>1, <2>2
<1>8. ASSUME m = "wbctxd", Passed(finished', line', 2) PROVE unit'["hostapd"] = "off"
  <2>1. CASE l = 2
    BY <1>1, <1>8, <1>44, <2>1 DEF Does
  <2>2. CASE l # 2
    BY <1>21, <1>8, <1>43, <1>44, <2>2 DEF Settled
  <2> QED BY <2>1, <2>2
<1>9. ASSUME NEW u \in Units, Passed(finished', line', Last(u, m))
      PROVE  Pending(line', Last(u, m)) \/ unit'[u] = Wanted(u, m)
  <2>1. Last(u, m) \in 1 .. Length(m)
    BY DEF Last, Length, Modes, Units, Services
  <2>2. CASE l = Last(u, m)
    <3>1. CASE u = "wlan0"
      BY <1>1, <1>3, <1>4, <2>2, <3>1 DEF Does, Units, Settled, Last, Wanted
    <3>2. CASE u # "wlan0"
      BY <1>1, <2>2, <3>2 DEF Does, Units, Services, Modes, Last, Wanted
    <3> QED BY <3>1, <3>2
  <2>3. CASE l # Last(u, m)
    <3>1. Passed(finished, line, Last(u, m)) /\ (Pending(line, Last(u, m)) => Pending(line', Last(u, m)))
      BY <1>2, <1>9, <2>1, <2>3
    <3>2. CASE Pending(line, Last(u, m))
      BY <3>1, <3>2
    <3>3. CASE unit[u] = Wanted(u, m) /\ ~ Pending(line, Last(u, m))
      <4>1. l > Last(u, m)
        BY <1>1, <2>1, <2>3, <3>3 DEF Pending, l, Length
      <4>2. unit'[u] = unit[u]
        BY <1>43, <1>41, <4>1 DEF Units, Services, Last
      <4> QED BY <3>3, <4>2
    <3> QED BY <3>1, <3>2, <3>3 DEF Settled
  <2> QED BY <2>2, <2>3
<1> QED BY <1>5, <1>6, <1>7, <1>8, <1>9 DEF Settled

(* So the units agree with that mode.                                      *)
LEMMA Agreement == Spec => []Agreed
<1>1. Init => Agreed
  BY DEF Init, Agreed
<1>2. ASSUME TypeInv, Members, Agreed, [Next]_vars PROVE Agreed'
  <2>1. CASE \E r \in Hands, m \in Modes : ByHand(r, m)
    BY <1>2, <2>1, Beginning DEF ByHand, Runs
  <2>2. CASE \E r \in Runs : Command(r)
    <3>1. PICK r \in Runs : Command(r)
      BY <2>2
    <3>2. ASSUME NEW m \in Modes, modes = {m} PROVE Settled(m)'
      BY <1>2, <3>1, <3>2, OneCommand DEF Agreed
    <3>3. modes' = modes
      BY <3>1 DEF Command
    <3> QED BY <3>2, <3>3 DEF Agreed
  <2>3. CASE Poll
    BY <1>2, <2>3, Beginning DEF Poll, Runs, ModeOf, Modes
  <2>4. CASE Move \/ UNCHANGED vars
    BY <1>2, <2>4 DEF Move, vars, history, Agreed, Settled, Passed, Pending
  <2>5. CASE Reboot
    BY <2>5 DEF Reboot, Agreed
  <2> QED BY <1>2, <2>1, <2>2, <2>3, <2>4, <2>5 DEF Next
<1> QED BY <1>1, <1>2, Typing, Membership, PTL DEF Spec

-----------------------------------------------------------------------------

(* Runs with one parameter leave the machine in the mode they were given,  *)
(* whatever was running before and however they interleave.                *)
THEOREM Agreeing == Spec => []SameFlipsAgree
<1>1. Agreed => SameFlipsAgree
  <2> SUFFICES ASSUME Agreed, Idle, finished, NEW m \in Modes, modes = {m},
                      NEW u \in Units
               PROVE  unit[u] = Wanted(u, m)
    BY DEF SameFlipsAgree, Coherent
  <2>1. Passed(finished, line, Last(u, m)) /\ ~ Pending(line, Last(u, m))
    BY DEF Passed, Pending, Idle
  <2> QED BY <2>1 DEF Agreed, Settled
<1> QED BY <1>1, Agreement, PTL

(* The transmitter and the access point never run together while runs of   *)
(* the script come one at a time.                                          *)
THEOREM NotTogether == Spec => []NeverTogether
<1>1. Init => Apart
  BY DEF Init, Apart
<1>2. ASSUME TypeInv, Members, Agreed, Agreed', Apart, [Next]_vars PROVE Apart'
  <2>1. ASSUME NEW r \in Runs, NEW m \in Modes, Begin(r, m), unit' = unit
        PROVE  Apart'
    <3>1. orderly' = (Idle /\ orderly)
      BY <2>1 DEF Begin
    <3>2. Idle => modes' = {m}
      BY <2>1 DEF Begin
    <3> QED BY <1>2, <2>1, <3>1, <3>2 DEF Apart
  <2>2. CASE \E r \in Hands, m \in Modes : ByHand(r, m)
    BY <2>1, <2>2 DEF ByHand, Runs
  <2>3. CASE \E r \in Runs : Command(r)
    <3> SUFFICES ASSUME orderly' PROVE Apart'
      BY DEF Apart
    <3>1. PICK r \in Runs : Command(r)
      BY <2>3
    <3>11. PICK m \in Modes : m = mode[r]
      BY <1>2 DEF TypeInv
    <3>2. /\ line[r] \in 1 .. Length(m) /\ Does(m, line[r])
          /\ finished' = (finished \/ line[r] = Length(m))
      BY <1>2, <3>1, <3>11, Commands
    <3>3. orderly' = (orderly \/ (line[r] = Length(m) /\ modes = {m}))
      <4>1. Len(Script(mode[r])) = Length(m)
        BY <3>11, Table
      <4> QED BY <3>1, <3>11, <4>1 DEF Command
    <3>4. modes = {m} /\ modes' = modes
      BY <1>2, <3>1, <3>2, <3>3, <3>11 DEF Apart, Members, Command
    <3>5. Settled(m) /\ Settled(m)'
      BY <1>2, <3>4 DEF Agreed
    <3>6. CASE line[r] = Length(m)
      <4>1. finished'
        BY <3>2, <3>6
      <4>2. Passed(finished', line', 1) /\ Passed(finished', line', 2)
        BY <4>1 DEF Passed
      <4>3. m = "apn" \/ m = "wbctxd"
        BY DEF Modes
      <4>4. unit'["wbctxd"] = "off" \/ unit'["hostapd"] = "off"
        BY <3>5, <4>2, <4>3, Zenon DEF Settled
      <4> QED BY <3>2, <3>4, <4>4 DEF Apart
    <3>7. CASE line[r] # Length(m)
      <4>1. orderly
        BY <3>3, <3>7
      <4>2. line[r] = 7 => m = "apn" /\ Passed(finished, line, 1)
        BY <3>2, <3>7 DEF Length, Passed, Modes
      <4>3. unit \in [Units -> {"on", "off", "down"} \cup Modes]
        BY <1>2 DEF TypeInv
      <4>4. line[r] = 7 => unit["wbctxd"] = "off"
        BY <3>5, <4>2, Zenon DEF Settled
      <4>5. ~ (unit'["wbctxd"] = "on" /\ unit'["hostapd"] = "on")
        BY <1>2, <3>2, <3>7, <4>1, <4>3, <4>4
        DEF Apart, Does, Units, Services, Length, Modes
      <4> QED BY <3>2, <3>4, <4>5 DEF Apart
    <3> QED BY <3>6, <3>7
  <2>4. CASE Poll
    BY <2>1, <2>4 DEF Poll, Runs, ModeOf, Modes
  <2>5. CASE Move \/ UNCHANGED vars
    BY <1>2, <2>5 DEF Move, vars, history, Apart
  <2>6. CASE Reboot
    BY <2>6 DEF Reboot, Apart
  <2> QED BY <1>2, <2>2, <2>3, <2>4, <2>5, <2>6 DEF Next
<1>3. Apart => NeverTogether
  BY DEF Apart, NeverTogether
<1> QED BY <1>1, <1>2, <1>3, Typing, Membership, Agreement, PTL DEF Spec
=============================================================================
