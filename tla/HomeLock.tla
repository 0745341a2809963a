------------------------------ MODULE HomeLock ------------------------------
(***************************************************************************)
(* What the OSD promises a pilot about the home point, without fix types,  *)
(* counters or tolerances.  The home point is found in two phases: the     *)
(* location is taken once, then the altitude is taken once.  Apart from    *)
(* those two steps only the operator moves it, and it is always moved to   *)
(* where the aircraft is at that moment.                                   *)
(***************************************************************************)
EXTENDS Integers

CONSTANT Places     \* the set of [lat, lon, alt] records the aircraft may report

VARIABLES
  phase,            \* "searching", then "levelling", then "locked"
  here,             \* the place reported last
  home              \* the home point

vars == <<phase, here, home>>

Init ==
  /\ phase = "searching"
  /\ here \in Places
  /\ home = here

(* The aircraft reports a place.                                           *)
Move ==
  /\ here' \in Places
  /\ UNCHANGED <<phase, home>>

(* The location is fixed, provisionally with the altitude of that moment.  *)
LockLocation ==
  /\ phase = "searching"
  /\ phase' = "levelling"
  /\ home' = here
  /\ UNCHANGED here

(* The altitude is corrected, and the home point is complete.              *)
LockAltitude ==
  /\ phase = "levelling"
  /\ phase' = "locked"
  /\ home' = [home EXCEPT !.alt = here.alt]
  /\ UNCHANGED here

(* The operator captures the present place as home, in any phase.          *)
Capture ==
  /\ home' = here
  /\ UNCHANGED <<phase, here>>

Next == Move \/ LockLocation \/ LockAltitude \/ Capture

Spec == Init /\ [][Next]_vars
=============================================================================
