---------------------------- MODULE HomePosition ----------------------------
(***************************************************************************)
(* The home point of the OSD: the part of telemetry_data_t that            *)
(* setHomeVars() (mavlink/osd/mavlink_parse.c) computes from the position  *)
(* messages, and that the 'h' command of handle_toggles() overwrites.      *)
(*                                                                         *)
(* A MAVLink message is the action of its case in mavlink_parse_buffer();  *)
(* SetHomeVars is the call that ends every mavlink_parse_buffer(), also    *)
(* one that completed no message.  Which of them follows which is left     *)
(* open here; OsdLoop orders them as main() does.                          *)
(*                                                                         *)
(* Coordinates and altitudes are small integers.  The altitude unit is     *)
(* arbitrary: Tolerance is the 0.5 m of the source in that unit.           *)
(* home_distance uses the city-block metric in the place of the            *)
(* equirectangular one: what matters is which points it is taken between.  *)
(***************************************************************************)
EXTENDS Integers

CONSTANTS
  Coords,          \* latitudes and longitudes, in either role
  Altitudes,       \* altitudes a message can carry
  FixTypes,        \* values of the fix_type field
  Tolerance,       \* largest change of a "stable" altitude (0.5 m)
  StableCalls      \* setHomeVars() calls an altitude must be stable for (25)

ASSUME CoordsAssumption == Coords \subseteq Int /\ 0 \in Coords
ASSUME AltitudesAssumption == Altitudes \subseteq Int /\ 0 \in Altitudes
ASSUME FixTypesAssumption == FixTypes \subseteq 0..255 /\ 0 \in FixTypes
ASSUME ToleranceAssumption == Tolerance \in Nat
ASSUME StableCallsAssumption == StableCalls \in 1..255

VARIABLES
  fix_type, latitude, longitude, altitude,      \* as reported last
  home_location_set, home_altitude_set,         \* 0 or 1
  home_latitude, home_longitude, home_altitude,
  home_distance,
  home_altitude_counter,                        \* consecutive stable calls
  home_last_altitude,                           \* what they are compared with
  \* A history variable, which the code does not have:
  heard            \* altitudes seen by the latest levelling calls, newest first

reported == <<fix_type, latitude, longitude, altitude>>
home     == <<home_latitude, home_longitude, home_altitude>>
progress == <<home_location_set, home_altitude_set, home_altitude_counter,
              home_last_altitude, heard>>
vars     == <<reported, home, progress, home_distance>>

FIX_3D == 3

Magnitude(n) == IF n < 0 THEN -n ELSE n

(* fabs(a - b) > 0.5, negated.                                             *)
Near(a, b) == Magnitude(a - b) <= Tolerance

(* Mutant of Distance: one of the two fabs() is gone.                      *)
DistanceSigned(lat, lon) ==
  (home_latitude - lat) + Magnitude(home_longitude - lon)

Distance(lat, lon) ==
  Magnitude(home_latitude - lat) + Magnitude(home_longitude - lon)

-----------------------------------------------------------------------------

(* telemetry_init().                                                       *)
Init ==
  /\ fix_type = 0 /\ latitude = 0 /\ longitude = 0 /\ altitude = 0
  /\ home_latitude = 0 /\ home_longitude = 0 /\ home_altitude = 0
  /\ home_location_set = 0 /\ home_altitude_set = 0
  /\ home_distance = 0
  /\ home_altitude_counter = 0 /\ home_last_altitude = 0
  /\ heard = [i \in 1..StableCalls |-> 0]

(* GPS_RAW_INT.  The handler stores the longitude of the message as the    *)
(* latitude and the other way round.                                       *)
GpsRawInt(fix, lat, lon, alt) ==
  /\ fix_type' = fix
  /\ latitude' = lon
  /\ longitude' = lat
  /\ altitude' = alt
  /\ UNCHANGED <<home, progress, home_distance>>

(* VFR_HUD and GLOBAL_POSITION_INT: of the fields modelled here both set   *)
(* the altitude alone.                                                     *)
AltitudeReport(alt) ==
  /\ altitude' = alt
  /\ UNCHANGED <<fix_type, latitude, longitude, home, progress, home_distance>>

-----------------------------------------------------------------------------
(* setHomeVars(), one disjunct for each way through it.                    *)

LockLocation ==
  /\ home_location_set = 0 /\ fix_type = FIX_3D
  /\ home_latitude' = latitude
  /\ home_longitude' = longitude
  /\ home_altitude' = altitude
  /\ home_location_set' = 1
  /\ UNCHANGED <<home_altitude_set, home_altitude_counter, home_last_altitude,
                 heard, home_distance>>

AwaitFix ==
  /\ home_location_set = 0 /\ fix_type # FIX_3D
  /\ UNCHANGED <<home, progress, home_distance>>

Levelling ==
  /\ home_location_set = 1 /\ home_altitude_set = 0
  /\ home_altitude_counter < StableCalls
  /\ heard' = [i \in 1..StableCalls |-> IF i = 1 THEN altitude ELSE heard[i - 1]]

(* Mutant of AltitudeMoved: the count goes on after an outlier.            *)
AltitudeMovedKeepsCount ==
  /\ Levelling
  /\ ~ Near(home_last_altitude, altitude)
  /\ home_last_altitude' = altitude
  /\ UNCHANGED <<home, home_location_set, home_altitude_set,
                 home_altitude_counter, home_distance>>

(* Mutant of AltitudeMoved: the altitude to compare with stays the first.  *)
AltitudeMovedKeepsReference ==
  /\ Levelling
  /\ ~ Near(home_last_altitude, altitude)
  /\ home_altitude_counter' = 0
  /\ UNCHANGED <<home, home_location_set, home_altitude_set,
                 home_last_altitude, home_distance>>

AltitudeMoved ==
  /\ Levelling
  /\ ~ Near(home_last_altitude, altitude)
  /\ home_altitude_counter' = 0
  /\ home_last_altitude' = altitude
  /\ UNCHANGED <<home, home_location_set, home_altitude_set, home_distance>>

(* Mutants of AltitudeHeld: compared with its predecessor, the altitude    *)
(* may drift; the lock is one call late; the altitude locked is not the    *)
(* present one.                                                            *)
AltitudeHeldDrifts ==
  /\ Levelling
  /\ Near(home_last_altitude, altitude)
  /\ home_altitude_counter' = home_altitude_counter + 1
  /\ home_last_altitude' = altitude
  /\ IF home_altitude_counter + 1 >= StableCalls
       THEN /\ home_altitude' = altitude
            /\ home_altitude_set' = 1
       ELSE UNCHANGED <<home_altitude, home_altitude_set>>
  /\ UNCHANGED <<home_latitude, home_longitude, home_location_set,
                 home_distance>>

AltitudeHeldLate ==
  /\ Levelling
  /\ Near(home_last_altitude, altitude)
  /\ home_altitude_counter' = home_altitude_counter + 1
  /\ IF home_altitude_counter + 1 > StableCalls
       THEN /\ home_altitude' = altitude
            /\ home_altitude_set' = 1
       ELSE UNCHANGED <<home_altitude, home_altitude_set>>
  /\ UNCHANGED <<home_latitude, home_longitude, home_location_set,
                 home_last_altitude, home_distance>>

AltitudeHeldLocksOld ==
  /\ Levelling
  /\ Near(home_last_altitude, altitude)
  /\ home_altitude_counter' = home_altitude_counter + 1
  /\ IF home_altitude_counter + 1 >= StableCalls
       THEN /\ home_altitude' = home_last_altitude
            /\ home_altitude_set' = 1
       ELSE UNCHANGED <<home_altitude, home_altitude_set>>
  /\ UNCHANGED <<home_latitude, home_longitude, home_location_set,
                 home_last_altitude, home_distance>>

AltitudeHeld ==
  /\ Levelling
  /\ Near(home_last_altitude, altitude)
  /\ home_altitude_counter' = home_altitude_counter + 1
  /\ IF home_altitude_counter + 1 >= StableCalls
       THEN /\ home_altitude' = altitude
            /\ home_altitude_set' = 1
       ELSE UNCHANGED <<home_altitude, home_altitude_set>>
  /\ UNCHANGED <<home_latitude, home_longitude, home_location_set,
                 home_last_altitude, home_distance>>

Track ==
  /\ home_location_set = 1 /\ home_altitude_set = 1
  /\ home_distance' = Distance(latitude, longitude)
  /\ UNCHANGED <<home, progress>>

SetHomeVars ==
  /\ LockLocation \/ AwaitFix \/ AltitudeMoved \/ AltitudeHeld \/ Track
  /\ UNCHANGED reported

-----------------------------------------------------------------------------

(* The 'h' command of handle_toggles(): neither flag nor counter changes.  *)
ResetHome ==
  /\ home_altitude' = altitude
  /\ home_latitude' = latitude
  /\ home_longitude' = longitude
  /\ UNCHANGED <<reported, progress, home_distance>>

Next ==
  \/ \E fix \in FixTypes, lat, lon \in Coords, alt \in Altitudes :
       GpsRawInt(fix, lat, lon, alt)
  \/ \E alt \in Altitudes : AltitudeReport(alt)
  \/ SetHomeVars
  \/ ResetHome

Spec == Init /\ [][Next]_vars

-----------------------------------------------------------------------------

TypeOK ==
  /\ fix_type \in FixTypes
  /\ latitude \in Coords /\ longitude \in Coords
  /\ home_latitude \in Coords /\ home_longitude \in Coords
  /\ altitude \in Altitudes
  /\ home_altitude \in Altitudes /\ home_last_altitude \in Altitudes
  /\ home_location_set \in {0, 1} /\ home_altitude_set \in {0, 1}
  /\ home_altitude_counter \in 0..StableCalls
  /\ home_distance \in Nat
  /\ heard \in [1..StableCalls -> Altitudes]

(* The stability counter means what its name says: every one of the calls  *)
(* it counts, the latest home_altitude_counter of them, saw an altitude    *)
(* within the tolerance of the one altitude they are all compared with     *)
(* (setHomeVars(), the middle branch).                                     *)
CounterIsWindow ==
  \A i \in 1..home_altitude_counter : Near(heard[i], home_last_altitude)

(* The flags and the counter agree: the altitude is locked exactly when    *)
(* the counter has run full, never before the location, and nothing is     *)
(* counted or measured before its predecessor in that order.  In           *)
(* particular the test "counter < 25" never keeps setHomeVars() from the   *)
(* branches below it.                                                      *)
FlagsAgree ==
  /\ home_altitude_set = 1 <=> home_altitude_counter = StableCalls
  /\ home_altitude_counter > 0 => home_location_set = 1
  /\ home_distance # 0 => home_altitude_set = 1

(* The altitude of the home point is only ever locked from a stable        *)
(* window: every one of the StableCalls calls before the lock saw an       *)
(* altitude within twice the tolerance of the altitude that is locked, so  *)
(* one outlier among them, or a slow climb through them, prevents it.      *)
LocksFromStableWindow ==
  [][home_altitude_set' # home_altitude_set =>
       \A i \in 1..StableCalls :
         Magnitude(heard'[i] - home_altitude') <= 2 * Tolerance]_vars

(* The whole specification implements the abstract home point: a message   *)
(* is a Move, the two assignments of setHomeVars() are the two locks, 'h'  *)
(* is a Capture, and every other call leaves the home point alone.         *)
Place(lat, lon, alt) == [lat |-> lat, lon |-> lon, alt |-> alt]

Phase == IF home_location_set = 0 THEN "searching"
         ELSE IF home_altitude_set = 0 THEN "levelling" ELSE "locked"

Lock == INSTANCE HomeLock WITH
  Places <- [lat : Coords, lon : Coords, alt : Altitudes],
  phase  <- Phase,
  here   <- Place(latitude, longitude, altitude),
  home   <- Place(home_latitude, home_longitude, home_altitude)

ImplementsHomeLock == Lock!Spec

-----------------------------------------------------------------------------
(* What a document says and the code does not do.                          *)

(* The MAVLink headers give GPS_RAW_INT a latitude and a longitude in that *)
(* order, under names telemetry_data_t has too.                            *)
KeepsLatitude ==
  [][\A fix \in FixTypes, lat, lon \in Coords, alt \in Altitudes :
       GpsRawInt(fix, lat, lon, alt) => latitude' = lat /\ longitude' = lon]_vars
=============================================================================
