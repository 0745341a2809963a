--------------------------- MODULE OsdLoop_proofs ---------------------------
(***************************************************************************)
(* What holds of the OSD's loop for all constants: that it is a home point *)
(* in the sense of HomePosition, with all that is proved there, and that   *)
(* a picture pairs a position with its own distance.                       *)
(***************************************************************************)
EXTENDS OsdLoop, TLAPS

HPP == INSTANCE HomePosition_proofs

(* The steps that do anything to telemetry_data_t are steps of             *)
(* HomePosition.                                                           *)
LEMMA ObeyStep ==
  ASSUME NEW c, Obey(c) PROVE [HP!Next]_(HP!vars)
  BY DEF Obey, HP!Next, td, HP!vars, HP!reported, HP!home, HP!progress

(* A message of the telemetry is a step of the home position or none.      *)
LEMMA HandleMessageStep ==
  ASSUME HandleMessage PROVE [HP!Next]_(HP!vars)
<1>1. CASE \E fix \in FixTypes, lat, lon \in Coords, alt \in Altitudes :
             HP!GpsRawInt(fix, lat, lon, alt)
  BY <1>1 DEF HP!Next
<1>2. CASE \E alt \in Altitudes : HP!AltitudeReport(alt)
  BY <1>2 DEF HP!Next
<1>3. CASE UNCHANGED td
  BY <1>3 DEF td, HP!vars, HP!reported, HP!home, HP!progress
<1> QED BY <1>1, <1>2, <1>3 DEF HandleMessage

(* So is every step of the loop.                                           *)
LEMMA HomeStep == [Next]_vars => [HP!Next]_(HP!vars)
<1> SUFFICES ASSUME [Next]_vars PROVE [HP!Next]_(HP!vars)
  OBVIOUS
<1>1. ASSUME UNCHANGED td PROVE UNCHANGED HP!vars
  BY <1>1 DEF td, HP!vars, HP!reported, HP!home, HP!progress
<1>2. CASE HandleToggles
  BY <1>1, <1>2, ObeyStep DEF HandleToggles
<1>3. CASE SelectTimeout \/ SelectRead
  BY <1>1, <1>3 DEF SelectTimeout, SelectRead
<1>4. CASE HandleMessage
  BY <1>4, HandleMessageStep
<1>5. CASE EndParse
  BY <1>5 DEF EndParse, HP!Next
<1>6. CASE Arrive \/ Hangup \/ \E c \in Commands : Command(c)
  BY <1>1, <1>6 DEF Arrive, Hangup, Command
<1>7. CASE UNCHANGED vars
  BY <1>1, <1>7 DEF vars
<1> QED BY <1>2, <1>3, <1>4, <1>5, <1>6, <1>7 DEF Next, Osd

(* Every behaviour of the OSD's loop is one of HomePosition.               *)
THEOREM Refinement == Spec => ImplementsHomePosition
<1>1. Init => HP!Init
  BY DEF Init
<1> QED BY <1>1, HomeStep, PTL DEF Spec, HP!Spec, ImplementsHomePosition

-----------------------------------------------------------------------------

(* HPP is HomePosition once more, with the theorems about it: the two      *)
(* instances are the same specification.                                   *)
LEMMA SameInit == HP!Init => HPP!Init
  BY DEF HP!Init, HPP!Init

(* Both instances have the same calls of setHomeVars().                    *)
LEMMA SameSetHomeVars == HP!SetHomeVars => HPP!SetHomeVars
<1> USE DEF HP!reported, HP!home, HP!progress, HP!Near, HP!Magnitude,
            HP!Levelling, HPP!reported, HPP!home, HPP!progress, HPP!Near,
            HPP!Magnitude, HPP!Levelling
<1>1. HP!LockLocation => HPP!LockLocation
  BY DEF HP!LockLocation, HPP!LockLocation, HP!FIX_3D, HPP!FIX_3D
<1>2. HP!AwaitFix => HPP!AwaitFix
  BY DEF HP!AwaitFix, HPP!AwaitFix, HP!FIX_3D, HPP!FIX_3D
<1>3. HP!AltitudeMoved => HPP!AltitudeMoved
  BY DEF HP!AltitudeMoved, HPP!AltitudeMoved
<1>4. HP!AltitudeHeld => HPP!AltitudeHeld
  BY DEF HP!AltitudeHeld, HPP!AltitudeHeld
<1>5. HP!Track => HPP!Track
  BY DEF HP!Track, HPP!Track, HP!Distance, HPP!Distance
<1> QED BY <1>1, <1>2, <1>3, <1>4, <1>5 DEF HP!SetHomeVars, HPP!SetHomeVars

(* Both have the same steps.                                               *)
LEMMA SameNext == [HP!Next]_(HP!vars) => [HPP!Next]_(HPP!vars)
<1> USE DEF HP!reported, HP!home, HP!progress,
            HPP!reported, HPP!home, HPP!progress
<1>1. ASSUME NEW fix, NEW lat, NEW lon, NEW alt, HP!GpsRawInt(fix, lat, lon, alt)
      PROVE  HPP!GpsRawInt(fix, lat, lon, alt)
  BY <1>1 DEF HP!GpsRawInt, HPP!GpsRawInt
<1>2. ASSUME NEW alt, HP!AltitudeReport(alt) PROVE HPP!AltitudeReport(alt)
  BY <1>2 DEF HP!AltitudeReport, HPP!AltitudeReport
<1>3. HP!ResetHome => HPP!ResetHome
  BY DEF HP!ResetHome, HPP!ResetHome
<1>4. HP!Next => HPP!Next
  BY <1>1, <1>2, <1>3, SameSetHomeVars DEF HP!Next, HPP!Next
<1>5. UNCHANGED HP!vars => UNCHANGED HPP!vars
  BY DEF HP!vars, HPP!vars
<1> QED BY <1>4, <1>5

(* So the behaviours of the loop are behaviours of HPP, too.               *)
LEMMA SameSpec == Spec => HPP!Spec
<1>1. Init => HPP!Init
  BY SameInit DEF Init
<1>2. [Next]_vars => [HPP!Next]_(HPP!vars)
  BY HomeStep, SameNext
<1> QED BY <1>1, <1>2, PTL DEF Spec, HPP!Spec

(* What the proofs about the home position assume of its constants.        *)
LEMMA HomeAssumptions ==
  /\ HPP!CoordsAssumption /\ HPP!AltitudesAssumption
  /\ HPP!FixTypesAssumption /\ HPP!ToleranceAssumption
  /\ HPP!StableCallsAssumption
  BY CoordsAssumption, AltitudesAssumption, FixTypesAssumption,
     ToleranceAssumption, StableCallsAssumption
     DEF HPP!CoordsAssumption, HPP!AltitudesAssumption,
         HPP!FixTypesAssumption, HPP!ToleranceAssumption,
         HPP!StableCallsAssumption

(* What is proved of the home position holds in the loop.                  *)
LEMMA HomeInvariant == Spec => [](HPP!CounterIsWindow /\ HPP!FlagsAgree)
<1>1. HPP!Spec => [](HPP!CounterIsWindow /\ HPP!FlagsAgree)
  BY HPP!StableWindow, HomeAssumptions
<1> QED BY <1>1, SameSpec, PTL

-----------------------------------------------------------------------------

(* At the end of a buffer with the home point locked, setHomeVars() can    *)
(* only measure the distance: that the flag for the altitude is set means  *)
(* that the one for the location is too.                                   *)
LEMMA EndParseTracks ==
  ASSUME HPP!FlagsAgree, EndParse, home_altitude_set = 1
  PROVE  HP!Track /\ UNCHANGED <<latitude, longitude>>
<1>1. home_location_set = 1
  BY StableCallsAssumption DEF HPP!FlagsAgree
<1>2. HP!SetHomeVars
  BY DEF EndParse
<1> QED
  BY <1>1, <1>2 DEF HP!SetHomeVars, HP!LockLocation, HP!AwaitFix, HP!Levelling,
                    HP!AltitudeMoved, HP!AltitudeHeld, HP!reported

(* A picture drawn from a buffer, with the home point locked before it,    *)
(* shows the distance of the position it shows.                            *)
THEOREM PictureIsConsistent == Spec => DistanceIsOfThisPicture
<1>1. HPP!FlagsAgree /\ [Next]_vars =>
        [EndParse /\ new_data /\ home_altitude_set = 1 =>
           home_distance' = HP!Distance(latitude', longitude')]_vars
  BY EndParseTracks DEF HP!Track
<1> QED BY <1>1, HomeInvariant, PTL DEF Spec, DistanceIsOfThisPicture

-----------------------------------------------------------------------------

(* The types of what is the loop's own.                                    *)
OwnTypes ==
  /\ pc \in {"toggles", "select", "parse"}
  /\ link \in {"idle", "data", "eof"}
  /\ left \in 0..MaxBatch
  /\ new_data \in BOOLEAN
  /\ fifo \in Seq(Commands) /\ Len(fifo) <= FifoCap
  /\ display_rx_stats \in {0, 1}
  /\ dirty \in BOOLEAN /\ captured \in BOOLEAN

(* A read of the FIFO leaves what is behind it.                            *)
LEMMA FifoRead ==
  ASSUME OwnTypes, HandleToggles
  PROVE  fifo' \in Seq(Commands) /\ Len(fifo') <= FifoCap
<1>1. CASE fifo = <<>>
  BY <1>1 DEF OwnTypes, HandleToggles
<1>2. CASE fifo # <<>> /\ Len(fifo) <= ReadCmds
  BY <1>2, FifoAssumption DEF OwnTypes, HandleToggles
<1>3. CASE fifo # <<>> /\ Len(fifo) > ReadCmds
  <2>1. fifo' = SubSeq(fifo, ReadCmds + 1, Len(fifo))
    BY <1>3, FifoAssumption DEF OwnTypes, HandleToggles
  <2>2. /\ fifo \in Seq(Commands) /\ ReadCmds \in Nat /\ FifoCap \in Nat
        /\ Len(fifo) \in Nat
    BY FifoAssumption DEF OwnTypes
  <2>3. SubSeq(fifo, ReadCmds + 1, Len(fifo)) \in Seq(Commands)
    BY <1>3, <2>2
  <2>4. Len(SubSeq(fifo, ReadCmds + 1, Len(fifo))) <= Len(fifo)
    BY <1>3, <2>2
  <2> QED BY <2>1, <2>2, <2>3, <2>4 DEF OwnTypes
<1> QED BY <1>1, <1>2, <1>3, FifoAssumption DEF OwnTypes

(* Every step keeps the types of what the loop itself writes.              *)
LEMMA OwnTypesStep == OwnTypes /\ [Next]_vars => OwnTypes'
<1> SUFFICES ASSUME OwnTypes, [Next]_vars PROVE OwnTypes'
  OBVIOUS
<1>1. ASSUME NoRender PROVE dirty' \in BOOLEAN
  BY <1>1, Zenon DEF NoRender, OwnTypes
<1>2. ASSUME Render PROVE dirty' \in BOOLEAN
  BY <1>2 DEF Render
<1>3. CASE HandleToggles
  <2>1. display_rx_stats' \in {0, 1}
    BY <1>3 DEF OwnTypes, HandleToggles, Obey
  <2> QED BY <1>1, <1>3, <2>1, FifoRead DEF OwnTypes, HandleToggles
<1>4. CASE SelectTimeout
  BY <1>2, <1>4 DEF OwnTypes, SelectTimeout
<1>5. CASE SelectRead
  <2>1. left' \in 0..MaxBatch
    BY <1>5, MaxBatchAssumption DEF SelectRead
  <2>2. link' \in {"idle", "data", "eof"}
    BY <1>5 DEF SelectRead
  <2> QED BY <1>1, <1>5, <2>1, <2>2 DEF OwnTypes, SelectRead
<1>6. CASE HandleMessage
  <2>1. left' \in 0..MaxBatch
    BY <1>6, MaxBatchAssumption DEF OwnTypes, HandleMessage
  <2> QED BY <1>1, <1>6, <2>1 DEF OwnTypes, HandleMessage
<1>7. CASE EndParse
  BY <1>1, <1>2, <1>7 DEF OwnTypes, EndParse
<1>8. CASE Arrive \/ Hangup
  BY <1>8 DEF OwnTypes, Arrive, Hangup, osd
<1>9. CASE \E c \in Commands : Command(c)
  BY <1>9, FifoAssumption DEF OwnTypes, Command, osd
<1>10. CASE UNCHANGED vars
  BY <1>10 DEF OwnTypes, vars, osd
<1> QED BY <1>3, <1>4, <1>5, <1>6, <1>7, <1>8, <1>9, <1>10 DEF Next, Osd

(* Every reachable state of the loop has its type, for buffers of any      *)
(* number of messages and any number of commands in the FIFO.              *)
THEOREM Typing == Spec => []TypeOK
<1>1. Init => OwnTypes
  <2>1. Init => fifo \in Seq(Commands) /\ Len(fifo) <= FifoCap
    BY FifoAssumption DEF Init
  <2>2. Init => left \in 0..MaxBatch
    BY MaxBatchAssumption DEF Init
  <2>3. Init => new_data \in BOOLEAN /\ dirty \in BOOLEAN
    BY Zenon DEF Init
  <2> QED BY <2>1, <2>2, <2>3 DEF Init, OwnTypes
<1>2. HPP!Spec => []HPP!TypeOK
  BY HPP!Typing, HomeAssumptions
<1>3. OwnTypes /\ HPP!TypeOK => TypeOK
  BY DEF OwnTypes, TypeOK, HP!TypeOK, HPP!TypeOK
<1> QED BY <1>1, <1>2, <1>3, OwnTypesStep, SameSpec, PTL DEF Spec
=============================================================================
