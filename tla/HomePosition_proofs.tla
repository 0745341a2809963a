------------------------- MODULE HomePosition_proofs -------------------------
(***************************************************************************)
(* What holds of the home point for every set of coordinates, altitudes    *)
(* and fix types, every tolerance and every number of stable calls.        *)
(***************************************************************************)
EXTENDS HomePosition, TLAPS

USE CoordsAssumption, AltitudesAssumption, FixTypesAssumption,
    ToleranceAssumption, StableCallsAssumption

(* The distance between two points is a natural number, and altitudes near *)
(* the same altitude are within twice the tolerance of each other: what    *)
(* setHomeVars() does with fabs().                                         *)
LEMMA MagnitudeIsNat == \A n \in Int : Magnitude(n) \in Nat
  BY DEF Magnitude

(* Two altitudes near a third are at most twice the tolerance apart.       *)
LEMMA NearIsNearlyTransitive ==
  ASSUME NEW a \in Int, NEW b \in Int, NEW c \in Int, Near(a, c), Near(b, c)
  PROVE  Magnitude(a - b) <= 2 * Tolerance
  BY DEF Near, Magnitude

(* The steps of setHomeVars(), one by one, for the case splits below.      *)
LEMMA StepCases ==
  ASSUME Next
  PROVE  \/ \E fix \in FixTypes, lat, lon \in Coords, alt \in Altitudes :
              GpsRawInt(fix, lat, lon, alt)
         \/ \E alt \in Altitudes : AltitudeReport(alt)
         \/ LockLocation /\ SetHomeVars
         \/ AwaitFix /\ SetHomeVars
         \/ AltitudeMoved /\ SetHomeVars
         \/ AltitudeHeld /\ SetHomeVars
         \/ Track /\ SetHomeVars
         \/ ResetHome
  BY DEF Next, SetHomeVars

-----------------------------------------------------------------------------

(* TypeOK is inductive by itself: no step of telemetry_data_t's home point *)
(* leaves the ranges of its fields.                                        *)
LEMMA TypeOKStep == TypeOK /\ [Next]_vars => TypeOK'
<1> SUFFICES ASSUME TypeOK, [Next]_vars PROVE TypeOK'
  OBVIOUS
<1> USE DEF TypeOK, reported, home, progress
<1>1. ASSUME NEW fix \in FixTypes, NEW lat \in Coords, NEW lon \in Coords,
             NEW alt \in Altitudes, GpsRawInt(fix, lat, lon, alt)
      PROVE  TypeOK'
  BY <1>1 DEF GpsRawInt
<1>2. ASSUME NEW alt \in Altitudes, AltitudeReport(alt) PROVE TypeOK'
  BY <1>2 DEF AltitudeReport
<1>3. CASE LockLocation /\ SetHomeVars
  BY <1>3 DEF LockLocation, SetHomeVars
<1>4. CASE AwaitFix /\ SetHomeVars
  BY <1>4 DEF AwaitFix, SetHomeVars
<1>5. CASE AltitudeMoved /\ SetHomeVars
  <2>1. heard' \in [1..StableCalls -> Altitudes]
    BY <1>5 DEF AltitudeMoved, Levelling
  <2>2. home_altitude_counter' \in 0..StableCalls
    BY <1>5 DEF AltitudeMoved
  <2> QED BY <1>5, <2>1, <2>2 DEF AltitudeMoved, SetHomeVars
<1>6. CASE AltitudeHeld /\ SetHomeVars
  <2>1. heard' \in [1..StableCalls -> Altitudes]
    BY <1>6 DEF AltitudeHeld, Levelling
  <2>2. home_altitude_counter' \in 0..StableCalls
    BY <1>6 DEF AltitudeHeld, Levelling
  <2>3. home_altitude' \in Altitudes /\ home_altitude_set' \in {0, 1}
    BY <1>6 DEF AltitudeHeld
  <2> QED BY <1>6, <2>1, <2>2, <2>3 DEF AltitudeHeld, SetHomeVars
<1>7. CASE Track /\ SetHomeVars
  <2>1. home_distance' \in Nat
    <3>1. /\ Magnitude(home_latitude - latitude) \in Nat
          /\ Magnitude(home_longitude - longitude) \in Nat
      <4>1. /\ home_latitude - latitude \in Int
            /\ home_longitude - longitude \in Int
        OBVIOUS
      <4> QED BY <4>1, MagnitudeIsNat
    <3> QED BY <1>7, <3>1 DEF Track, Distance
  <2> QED BY <1>7, <2>1 DEF Track, SetHomeVars
<1>8. CASE ResetHome
  BY <1>8 DEF ResetHome
<1>9. CASE UNCHANGED vars
  BY <1>9 DEF vars
<1> QED
  BY <1>1, <1>2, <1>3, <1>4, <1>5, <1>6, <1>7, <1>8, <1>9, StepCases

(* The home variables begin with their types.                              *)
LEMMA TypeOKInit == Init => TypeOK
<1> SUFFICES ASSUME Init PROVE TypeOK
  OBVIOUS
<1> USE DEF Init
<1>1. heard \in [1..StableCalls -> Altitudes]
  OBVIOUS
<1>2. home_altitude_counter \in 0..StableCalls
  OBVIOUS
<1> QED BY <1>1, <1>2 DEF TypeOK

(* Every reachable state has the type the module gives it.                 *)
THEOREM Typing == Spec => []TypeOK
<1>1. Init => TypeOK
  BY TypeOKInit
<1> QED BY <1>1, TypeOKStep, PTL DEF Spec

-----------------------------------------------------------------------------

(* The window and the flags support each other: the last step to the lock  *)
(* counts StableCalls exactly because the flag was still 0, and the flag   *)
(* is 0 whenever there is room in the counter.                             *)
IInv == TypeOK /\ CounterIsWindow /\ FlagsAgree

(* Before the first call nothing is counted and no flag is set.            *)
LEMMA IInvInit == Init => IInv
  BY TypeOKInit DEF Init, IInv, CounterIsWindow, FlagsAgree

(* A call with an altitude near the last one adds it to the window.        *)
LEMMA WindowGrows ==
  ASSUME IInv, AltitudeHeld
  PROVE  \A i \in 1..home_altitude_counter' :
            Near(heard'[i], home_last_altitude)
<1> USE DEF IInv, TypeOK, CounterIsWindow, AltitudeHeld, Levelling
<1> TAKE i \in 1..home_altitude_counter'
<1>1. i \in 1..StableCalls
  OBVIOUS
<1>2. heard'[i] = IF i = 1 THEN altitude ELSE heard[i - 1]
  BY <1>1
<1>3. CASE i = 1
  BY <1>2, <1>3 DEF Near, Magnitude
<1>4. CASE i # 1
  <2>1. i - 1 \in 1..home_altitude_counter
    BY <1>4
  <2>2. Near(heard[i - 1], home_last_altitude)
    BY <2>1
  <2> QED BY <1>2, <1>4, <2>2
<1> QED BY <1>3, <1>4

(* Every step preserves it.                                                *)
LEMMA IInvStep == IInv /\ [Next]_vars => IInv'
<1> SUFFICES ASSUME IInv, [Next]_vars PROVE CounterIsWindow' /\ FlagsAgree'
  BY TypeOKStep DEF IInv
<1> USE DEF IInv, TypeOK, CounterIsWindow, FlagsAgree, Near, reported, home, progress
<1>1. ASSUME NEW fix \in FixTypes, NEW lat \in Coords, NEW lon \in Coords,
             NEW alt \in Altitudes, GpsRawInt(fix, lat, lon, alt)
      PROVE  CounterIsWindow' /\ FlagsAgree'
  BY <1>1 DEF GpsRawInt
<1>2. ASSUME NEW alt \in Altitudes, AltitudeReport(alt)
      PROVE  CounterIsWindow' /\ FlagsAgree'
  BY <1>2 DEF AltitudeReport
<1>3. CASE LockLocation /\ SetHomeVars
  BY <1>3 DEF LockLocation
<1>4. CASE AwaitFix /\ SetHomeVars
  BY <1>4 DEF AwaitFix
<1>5. CASE AltitudeMoved /\ SetHomeVars
  BY <1>5 DEF AltitudeMoved, Levelling
<1>6. CASE AltitudeHeld /\ SetHomeVars
  <2>1. CounterIsWindow'
    BY <1>6, WindowGrows DEF AltitudeHeld
  <2>2. FlagsAgree'
    BY <1>6 DEF AltitudeHeld, Levelling
  <2> QED BY <2>1, <2>2
<1>7. CASE Track /\ SetHomeVars
  BY <1>7 DEF Track
<1>8. CASE ResetHome
  BY <1>8 DEF ResetHome
<1>9. CASE UNCHANGED vars
  BY <1>9 DEF vars
<1> QED
  BY <1>1, <1>2, <1>3, <1>4, <1>5, <1>6, <1>7, <1>8, <1>9, StepCases

(* So it holds in every reachable state.                                   *)
LEMMA Invariance == Spec => []IInv
  BY IInvInit, IInvStep, PTL DEF Spec

(* Each call the counter counts saw an altitude near the reference, and    *)
(* the flags follow the counter: the two invariants of setHomeVars().      *)
THEOREM StableWindow == Spec => [](CounterIsWindow /\ FlagsAgree)
<1>1. IInv => CounterIsWindow /\ FlagsAgree
  BY DEF IInv
<1> QED BY <1>1, Invariance, PTL

(* The counter is full exactly when the altitude is set, which it is only  *)
(* with the location.                                                      *)
THEOREM FlagsFollowCounter == Spec => []FlagsAgree
  BY StableWindow, PTL

-----------------------------------------------------------------------------

(* Only AltitudeHeld sets the flag, and it does so with a full window of   *)
(* altitudes near the reference, the locked one among them.                *)
LEMMA OnlyHeldLocks ==
  ASSUME IInv, [Next]_vars, home_altitude_set' # home_altitude_set
  PROVE  AltitudeHeld /\ SetHomeVars
  BY StepCases
     DEF vars, reported, home, progress, GpsRawInt, AltitudeReport,
         LockLocation, AwaitFix, AltitudeMoved, Track, ResetHome

(* The step that locks the altitude has a full window of altitudes near    *)
(* it.                                                                     *)
LEMMA LockStep ==
  ASSUME IInv, [Next]_vars, home_altitude_set' # home_altitude_set
  PROVE  \A i \in 1..StableCalls :
            Magnitude(heard'[i] - home_altitude') <= 2 * Tolerance
<1>1. AltitudeHeld /\ SetHomeVars
  BY OnlyHeldLocks
<1>2. /\ home_altitude_counter' = StableCalls
      /\ home_altitude' = altitude
  BY <1>1 DEF AltitudeHeld, Levelling, IInv, TypeOK
<1>3. TypeOK'
  BY TypeOKStep DEF IInv
<1> TAKE i \in 1..StableCalls
<1>4. Near(heard'[i], home_last_altitude)
  BY <1>1, <1>2, WindowGrows
<1>5. Near(altitude, home_last_altitude)
  BY <1>1 DEF AltitudeHeld, Near, Magnitude, IInv, TypeOK
<1>6. heard'[i] \in Int /\ altitude \in Int /\ home_last_altitude \in Int
  BY <1>3 DEF IInv, TypeOK
<1> QED BY <1>2, <1>4, <1>5, <1>6, NearIsNearlyTransitive

(* The home altitude is locked from StableCalls consecutive calls of       *)
(* setHomeVars() that all saw nearly that altitude.                        *)
THEOREM AltitudeLockIsStable == Spec => LocksFromStableWindow
<1>1. IInv /\ [Next]_vars =>
        [home_altitude_set' # home_altitude_set =>
           \A i \in 1..StableCalls :
             Magnitude(heard'[i] - home_altitude') <= 2 * Tolerance]_vars
  BY LockStep
<1> QED BY <1>1, Invariance, PTL DEF Spec, LocksFromStableWindow

-----------------------------------------------------------------------------

(* HomePosition implements HomeLock: each way through setHomeVars() is one *)
(* of the two locks or leaves the home point and the phase alone.          *)
LEMMA LockInit == Init => Lock!Init
<1> SUFFICES ASSUME Init PROVE Lock!Init
  OBVIOUS
<1> QED BY DEF Init, Lock!Init, Phase, Place

(* Every step is one of the abstract lock or leaves it alone.              *)
LEMMA LockNext == IInv /\ [Next]_vars => [Lock!Next]_(Lock!vars)
<1> SUFFICES ASSUME IInv, [Next]_vars PROVE [Lock!Next]_(Lock!vars)
  OBVIOUS
<1> USE DEF Lock!vars, Lock!Next, Phase, Place, reported, home, progress
<1>0. TypeOK /\ FlagsAgree
  BY DEF IInv
<1>1. ASSUME NEW fix \in FixTypes, NEW lat \in Coords, NEW lon \in Coords,
             NEW alt \in Altitudes, GpsRawInt(fix, lat, lon, alt)
      PROVE  Lock!Move
  BY <1>1 DEF GpsRawInt, Lock!Move
<1>2. ASSUME NEW alt \in Altitudes, AltitudeReport(alt) PROVE Lock!Move
  BY <1>0, <1>2 DEF AltitudeReport, Lock!Move, TypeOK
<1>3. CASE LockLocation /\ SetHomeVars
  <2>1. home_altitude_set = 0
    BY <1>0, <1>3 DEF LockLocation, TypeOK, FlagsAgree
  <2> QED BY <1>3, <2>1 DEF LockLocation, SetHomeVars, Lock!LockLocation
<1>4. CASE AwaitFix /\ SetHomeVars
  BY <1>4 DEF AwaitFix, SetHomeVars
<1>5. CASE AltitudeMoved /\ SetHomeVars
  BY <1>5 DEF AltitudeMoved, SetHomeVars
<1>6. CASE AltitudeHeld /\ SetHomeVars
  <2>1. CASE home_altitude_counter + 1 >= StableCalls
    BY <1>6, <2>1 DEF AltitudeHeld, Levelling, SetHomeVars, Lock!LockAltitude
  <2>2. CASE ~ (home_altitude_counter + 1 >= StableCalls)
    BY <1>6, <2>2 DEF AltitudeHeld, SetHomeVars
  <2> QED BY <2>1, <2>2
<1>7. CASE Track /\ SetHomeVars
  BY <1>7 DEF Track, SetHomeVars
<1>8. CASE ResetHome
  BY <1>8 DEF ResetHome, Lock!Capture
<1>9. CASE UNCHANGED vars
  BY <1>9 DEF vars
<1> QED
  BY <1>1, <1>2, <1>3, <1>4, <1>5, <1>6, <1>7, <1>8, <1>9, StepCases

(* The home point as the pilot may think of it: two locks, each once, and  *)
(* 'h' in between at will.                                                 *)
THEOREM Refinement == Spec => ImplementsHomeLock
  BY LockInit, LockNext, Invariance, PTL DEF Spec, Lock!Spec, ImplementsHomeLock
=============================================================================
