---------------------------- MODULE NazaTelemetry ----------------------------
(***************************************************************************)
(* naza_telemetry/main.cc: the loop that reads the Naza's line byte by     *)
(* byte, hands each to the decoder of NazaDecoder and writes MAVLink.      *)
(*                                                                         *)
(* Time is what millis() makes it: the wall clock, which may be set.  Only *)
(* the distances of lastsent and lastcompass from it are kept.             *)
(***************************************************************************)
EXTENDS NazaDecoder

CONSTANTS
  Gps, Compass,      \* NAZA_MESSAGE_GPS, NAZA_MESSAGE_COMPASS
  Second,            \* a heartbeat is due after more than this
  MaxSets            \* bound: times the clock is set

ASSUME HeadersDiffer == Header1 # Header2
ASSUME SecondAssumption == Second \in Nat

VARIABLES
  pc,                \* read, check, decode
  buf,               \* the byte read() has put there
  ended,             \* read() has met the end of the input
  since,             \* millis() - lastsent, no more than Second + 1
  sinceCompass,      \* millis() - lastcompass, no more than 1
  written,           \* what the loop wrote last
  sets,
  \* History variable:
  after              \* messages decoded since the input ended

clock     == <<since, sinceCompass, sets>>
converter == <<vars, pc, buf, ended, clock, written, after>>

ConverterInit ==
  /\ Init
  /\ pc = "read" /\ buf = 0 /\ ended = FALSE
  /\ since = 0 /\ sinceCompass = 0 /\ sets = 0
  /\ written = <<>>
  /\ after = 0

Read(b) ==
  /\ pc = "read" /\ ~ ended
  /\ buf' = b
  /\ pc' = "check"
  /\ UNCHANGED <<vars, ended, clock, written, after>>

(* The result of read() is not looked at: at the end of the input the      *)
(* buffer is as it was.  Mutant of LastByte: it is new for every turn.     *)
LastByteUnset == Bytes

LastByte == {buf}

ReadNothing ==
  /\ pc = "read"
  /\ ended' = TRUE
  /\ buf' \in LastByte
  /\ pc' = "check"
  /\ UNCHANGED <<vars, clock, written, after>>

(* Mutant of SinceThen: lastsent is set with every byte.                   *)
SinceThenAlways(due) == 0

SinceThen(due) == IF due THEN 0 ELSE since

Check ==
  LET due == since > Second
  IN /\ pc = "check"
     /\ since' = SinceThen(due)
     /\ written' = IF due THEN <<"heartbeat">> ELSE <<>>
     /\ pc' = "decode"
     /\ UNCHANGED <<vars, buf, ended, sinceCompass, sets, after>>

DecodeByte ==
  /\ pc = "decode"
  /\ Decode(buf)
  /\ written' =
       CASE result' = Gps -> <<"gps_raw_int", "attitude", "global_position_int">>
         [] result' = Compass /\ sinceCompass > 0 -> <<"attitude">>
         [] OTHER -> <<>>
  /\ sinceCompass' = IF result' = Compass /\ sinceCompass > 0 THEN 0 ELSE sinceCompass
  /\ after' = IF ended /\ result' # None THEN after + 1 ELSE after
  /\ pc' = "read"
  /\ UNCHANGED <<buf, ended, since, sets>>

-----------------------------------------------------------------------------

Tick ==
  /\ since' = IF since > Second THEN since ELSE since + 1
  /\ sinceCompass' = IF sinceCompass > 0 THEN sinceCompass ELSE sinceCompass + 1
  /\ UNCHANGED <<vars, pc, buf, ended, sets, written, after>>

(* A clock set forward is a number of ticks.                               *)
SetClockBack ==
  /\ sets < MaxSets
  /\ sets' = sets + 1
  /\ since' = since - Second - 1
  /\ sinceCompass' = sinceCompass - Second - 1
  /\ UNCHANGED <<vars, pc, buf, ended, written, after>>

ConverterNext ==
  \/ \E b \in Bytes : Read(b)
  \/ ReadNothing \/ Check \/ DecodeByte
  \/ Tick \/ SetClockBack

(* The loop runs, and time passes; bytes need not come, but read() does    *)
(* not wait at the end of the input.                                       *)
Fairness ==
  /\ WF_converter(ended /\ ReadNothing)
  /\ WF_converter(Check) /\ WF_converter(DecodeByte)
  /\ WF_converter(Tick)

ConverterSpec == ConverterInit /\ [][ConverterNext]_converter /\ Fairness

-----------------------------------------------------------------------------

(* While bytes keep coming, and for ever after they have ended, heartbeats *)
(* keep being sent, however fast the bytes come and wherever the clock is  *)
(* set.  (While the line is open and silent there are none: the timer is   *)
(* only looked at when read() returns.)                                    *)
HeartbeatsKeepComing ==
  []<>(pc = "check") \/ <>ended => []<>(written = <<"heartbeat">>)

(* After the end of the input the last byte is decoded for ever, but out   *)
(* of it the decoder makes no more than the one message it may complete:   *)
(* the OSD keeps its last position beside heartbeats that tell nothing.    *)
OneMessageAfterTheEnd == after <= 1
=============================================================================
