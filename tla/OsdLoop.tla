------------------------------- MODULE OsdLoop -------------------------------
(***************************************************************************)
(* The OSD process (mavlink/osd and mavlink/osd_android_json): the loop of *)
(* main() with handle_toggles() and mavlink_parse_buffer() inside it,      *)
(* around the home point of HomePosition.                                  *)
(*                                                                         *)
(* The loop looks at the command FIFO, waits at most 2.5 s for the radio   *)
(* link on standard input, and then either redraws (nothing came) or reads *)
(* one buffer, handles the messages completed by it, updates the home      *)
(* point and redraws only if a message was completed.                      *)
(*                                                                         *)
(* The link is a pipe from the receiver: "idle" has no byte to read,       *)
(* "data" has some, "eof" has lost its writer for good.  A buffer of the   *)
(* link completes up to MaxBatch messages, often none.  read() that fails  *)
(* or meets the end is a buffer of none: its result is kept in a size_t,   *)
(* so the error test never succeeds, and as the int argument of the parser *)
(* it is no more than 0.                                                   *)
(***************************************************************************)
EXTENDS Integers, Sequences

CONSTANTS
  Coords, Altitudes, FixTypes, Tolerance, StableCalls,   \* of HomePosition
  MaxBatch,        \* most messages a 256-byte buffer completes
  FifoCap,         \* most commands waiting in /tmp/OSDFIFO
  ReadCmds         \* commands one read of the FIFO takes: 10 bytes, 2 each

ASSUME CoordsAssumption == Coords \subseteq Int /\ 0 \in Coords
ASSUME AltitudesAssumption == Altitudes \subseteq Int /\ 0 \in Altitudes
ASSUME FixTypesAssumption == FixTypes \subseteq 0..255 /\ 0 \in FixTypes
ASSUME ToleranceAssumption == Tolerance \in Nat
ASSUME StableCallsAssumption == StableCalls \in 1..255
ASSUME MaxBatchAssumption == MaxBatch \in Nat \ {0}
ASSUME FifoAssumption == FifoCap \in Nat \ {0} /\ ReadCmds \in Nat \ {0}

VARIABLES
  fix_type, latitude, longitude, altitude,
  home_location_set, home_altitude_set,
  home_latitude, home_longitude, home_altitude,
  home_distance, home_altitude_counter, home_last_altitude,
  heard,                              \* all of HomePosition
  pc,                  \* "toggles", "select" or "parse"
  link,                \* "idle", "data" or "eof"
  left,                \* messages of the buffer not handled yet
  new_data,            \* as in mavlink_parse_buffer()
  fifo,                \* commands written to the FIFO and not read
  display_rx_stats,    \* 0 or 1
  \* History variables, which the code does not have:
  dirty,               \* has anything drawn changed since the latest picture?
  captured             \* has 'h' reset a home point that was there?

HP == INSTANCE HomePosition

(* The variables of HomePosition: telemetry_data_t, as far as it is        *)
(* modelled, with the histories kept about it.                             *)
td == <<fix_type, latitude, longitude, altitude,
        home_location_set, home_altitude_set,
        home_latitude, home_longitude, home_altitude,
        home_distance, home_altitude_counter, home_last_altitude,
        heard>>

Commands == {"d", "h", "t"}

osd  == <<pc, left, new_data, display_rx_stats, dirty, captured>>
vars == <<td, osd, link, fifo>>

Init ==
  /\ HP!Init
  /\ pc = "toggles"
  /\ link = "idle"
  /\ left = 0
  /\ new_data = FALSE
  /\ fifo = <<>>
  /\ display_rx_stats = 1
  /\ dirty = TRUE                  \* nothing is drawn before the first wait
  /\ captured = FALSE

-----------------------------------------------------------------------------

(* What the picture is made from, of the state that is modelled.  The JSON *)
(* form prints the receiver status however it is toggled; there a change   *)
(* of the toggle alone is more than the picture needs to keep up with.     *)
Drawn == <<latitude, longitude, altitude - home_altitude, home_distance,
           home_location_set, home_altitude_set, fix_type, display_rx_stats>>

Render == dirty' = FALSE

NoRender == dirty' = (dirty \/ Drawn' # Drawn)

(* Mutants of Obey: the toggle counts up; 'h' also ends the search for the *)
(* home altitude.                                                          *)
ObeyCountsUp(command) ==
  /\ display_rx_stats' =
       IF command = "d" THEN display_rx_stats + 1 ELSE display_rx_stats
  /\ IF command = "h" THEN HP!ResetHome ELSE UNCHANGED td

ObeyHomeIsFinal(command) ==
  /\ display_rx_stats' =
       IF command = "d" THEN 1 - display_rx_stats ELSE display_rx_stats
  /\ IF command = "h"
       THEN /\ home_altitude' = altitude
            /\ home_latitude' = latitude
            /\ home_longitude' = longitude
            /\ home_altitude_set' = 1
            /\ UNCHANGED <<fix_type, latitude, longitude, altitude,
                           home_location_set, home_distance, heard,
                           home_altitude_counter, home_last_altitude>>
       ELSE UNCHANGED td

(* The first character decides; what one read() took beyond it is lost.    *)
Obey(command) ==
  /\ display_rx_stats' =
       IF command = "d" THEN 1 - display_rx_stats ELSE display_rx_stats
  /\ IF command = "h" THEN HP!ResetHome ELSE UNCHANGED td

HandleToggles ==
  /\ pc = "toggles"
  /\ pc' = "select"
  /\ IF fifo = <<>>
       THEN UNCHANGED <<td, fifo, display_rx_stats>>
       ELSE /\ Obey(Head(fifo))
            /\ fifo' = IF Len(fifo) <= ReadCmds THEN <<>>
                       ELSE SubSeq(fifo, ReadCmds + 1, Len(fifo))
  /\ captured' = (captured \/ (/\ fifo # <<>> /\ Head(fifo) = "h"
                               /\ home_location_set = 1))
  /\ UNCHANGED <<link, left, new_data>>
  /\ NoRender

-----------------------------------------------------------------------------

(* Mutant of SelectTimeout: a silent link is no reason to redraw.          *)
SelectTimeoutSilent ==
  /\ pc = "select" /\ link = "idle"
  /\ pc' = "toggles"
  /\ UNCHANGED <<td, link, left, new_data, fifo, display_rx_stats, captured>>
  /\ NoRender

(* select() gives up after 2.5 s without a byte: redraw.                   *)
SelectTimeout ==
  /\ pc = "select" /\ link = "idle"
  /\ pc' = "toggles"
  /\ Render
  /\ UNCHANGED <<td, link, left, new_data, fifo, display_rx_stats, captured>>

SelectRead ==
  /\ pc = "select" /\ link # "idle"
  /\ pc' = "parse"
  /\ left' \in IF link = "data" THEN 0..MaxBatch ELSE {0}
  /\ link' \in IF link = "data" THEN {"data", "idle"} ELSE {"eof"}
  /\ new_data' = FALSE
  /\ UNCHANGED <<td, fifo, display_rx_stats, captured>>
  /\ NoRender

(* One message of the buffer.  The last disjunct stands for the messages   *)
(* that touch nothing modelled here, the unknown ones among them: they     *)
(* count as new data all the same.                                         *)
HandleMessage ==
  /\ pc = "parse" /\ left > 0
  /\ left' = left - 1
  /\ new_data' = TRUE
  /\ \/ \E fix \in FixTypes, lat, lon \in Coords, alt \in Altitudes :
          HP!GpsRawInt(fix, lat, lon, alt)
     \/ \E alt \in Altitudes : HP!AltitudeReport(alt)
     \/ UNCHANGED td
  /\ UNCHANGED <<pc, link, fifo, display_rx_stats, captured>>
  /\ NoRender

(* Mutants of EndParse: no home point without a fix; none without news.    *)
EndParseIfFixed ==
  /\ pc = "parse" /\ left = 0
  /\ pc' = "toggles"
  /\ IF fix_type = HP!FIX_3D THEN HP!SetHomeVars ELSE UNCHANGED td
  /\ UNCHANGED <<link, left, new_data, fifo, display_rx_stats, captured>>
  /\ IF new_data THEN Render ELSE NoRender

EndParseIfNew ==
  /\ pc = "parse" /\ left = 0
  /\ pc' = "toggles"
  /\ IF new_data THEN HP!SetHomeVars ELSE UNCHANGED td
  /\ UNCHANGED <<link, left, new_data, fifo, display_rx_stats, captured>>
  /\ IF new_data THEN Render ELSE NoRender

(* The end of the buffer: setHomeVars(), and back in main() the picture.   *)
EndParse ==
  /\ pc = "parse" /\ left = 0
  /\ pc' = "toggles"
  /\ HP!SetHomeVars
  /\ UNCHANGED <<link, left, new_data, fifo, display_rx_stats, captured>>
  /\ IF new_data THEN Render ELSE NoRender

Osd == HandleToggles \/ SelectTimeout \/ SelectRead \/ HandleMessage \/ EndParse

-----------------------------------------------------------------------------

(* The radio link delivers bytes, or its receiver dies.                    *)
Arrive ==
  /\ link = "idle"
  /\ link' = "data"
  /\ UNCHANGED <<td, osd, fifo>>

Hangup ==
  /\ link # "eof"
  /\ link' = "eof"
  /\ UNCHANGED <<td, osd, fifo>>

(* The operator echoes a command into the FIFO, or a key of watch_keys.sh  *)
(* does.                                                                   *)
Command(c) ==
  /\ Len(fifo) < FifoCap
  /\ fifo' = Append(fifo, c)
  /\ UNCHANGED <<td, osd, link>>

Next == Osd \/ Arrive \/ Hangup \/ \E c \in Commands : Command(c)

(* select() bounds every wait of the loop, and nothing else in it blocks:  *)
(* the process keeps taking steps.  The link and the operator owe nothing. *)
Spec == Init /\ [][Next]_vars /\ WF_vars(Osd)

-----------------------------------------------------------------------------

TypeOK ==
  /\ HP!TypeOK
  /\ pc \in {"toggles", "select", "parse"}
  /\ link \in {"idle", "data", "eof"}
  /\ left \in 0..MaxBatch
  /\ new_data \in BOOLEAN
  /\ fifo \in Seq(Commands) /\ Len(fifo) <= FifoCap
  /\ display_rx_stats \in {0, 1}
  /\ dirty \in BOOLEAN /\ captured \in BOOLEAN

(* Every step of the loop is a step of HomePosition or leaves its state    *)
(* alone, so what is shown and proved of HomePosition holds of the OSD.    *)
ImplementsHomePosition == HP!Spec

(* A picture drawn from a buffer with the home point locked before it      *)
(* shows the distance from that home to the position in the same picture,  *)
(* however many messages the buffer held: setHomeVars() comes after the    *)
(* last of them and before render().                                       *)
DistanceIsOfThisPicture ==
  [][EndParse /\ new_data /\ home_altitude_set = 1 =>
       home_distance' = HP!Distance(latitude', longitude')]_vars

(* The picture keeps up with the state, whatever the operator does, as     *)
(* long as messages keep completing or the link falls silent.              *)
PictureKeepsUp ==
  ([]<>new_data \/ <>[](link = "idle")) => []<>~dirty

(* An aircraft that has its location fixed and keeps its altitude, any     *)
(* altitude, gets its home altitude, if buffers keep coming, whichever of  *)
(* the three messages report the altitude, whatever outliers the counter   *)
(* and its reference saw before, and with or without messages in a buffer. *)
Steady(a) == home_location_set = 1 /\ altitude = a

AltitudeGetsLocked ==
  \A a \in Altitudes :
    <>[]Steady(a) /\ []<>(pc = "parse") => <>(home_altitude_set = 1)

-----------------------------------------------------------------------------
(* What the documents say and the code does not do.                        *)

(* README: the OSD "displays mavlink telemetry and rx status during        *)
(* flight".  With no byte left to read, the link silent or its receiver    *)
(* gone, a change does not stay off the screen for good.                   *)
PictureNeverFreezes == <>[](link # "data") => []<>~dirty

(* README of the OSD: 'h' is "handy for capturing your take-off point".  A *)
(* home point that has been captured, after there was a location to        *)
(* replace, is only moved by the operator.                                 *)
CaptureSticks ==
  [][captured /\ HP!home' # HP!home => HandleToggles]_vars
=============================================================================
