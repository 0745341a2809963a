----------------------------- MODULE RxService -----------------------------
(***************************************************************************)
(* The receiver as a service: systemd runs rx.sh, which runs the video     *)
(* pipeline in the foreground (rx | player, or rx | tee | player when it   *)
(* records) and the telemetry pipeline (rx | osd) in the background.  A    *)
(* process may crash, the radio link may fall silent, the player may fail  *)
(* or hang, and keys (watch_keys.sh) stop, start and kill.                 *)
(***************************************************************************)
EXTENDS Integers

CONSTANTS
  Capacity,          \* of a pipe, in packets
  MaxCrashes,        \* bound: crashes of a receiver, failures of a set-up
  MaxKeys            \* bound: keys pressed

ASSUME CapacityAssumption == Capacity \in Nat \ {0}

VARIABLES
  unit,              \* of systemd: active, dead (to be restarted), inactive
  sh,                \* rx.sh: none, prepare, video, pkill
  recording,         \* which of its two pipelines it runs
  rx, tee,           \* the processes of the video pipeline that live;
  player,            \* none, starting, hung, reading, decoding, stuck
  toTee, toPlayer,   \* packets in its pipes
  subshell,          \* of the telemetry: none, sleeping, started
  trx, osd,          \* its receiver; its OSDs, by number
  link,              \* packets arrive
  crashes, keys

video     == <<rx, tee, player, toTee, toPlayer>>
telemetry == <<subshell, trx, osd>>
script    == <<unit, sh, recording>>
env       == <<link, crashes, keys>>
vars      == <<script, video, telemetry, env>>

Init ==
  /\ unit = "dead" /\ sh = "none" /\ recording = FALSE
  /\ rx = FALSE /\ tee = FALSE /\ player = "none"
  /\ toTee = 0 /\ toPlayer = 0
  /\ subshell = "none" /\ trx = FALSE /\ osd = 0
  /\ link \in BOOLEAN /\ crashes = 0 /\ keys = 0

-----------------------------------------------------------------------------
(* systemd and the script.                                                 *)

(* What is left of a unit's processes when it ends: none of its control    *)
(* group.  Mutant: only the main process is killed.                        *)
LeftOverMain == osd

LeftOver == 0

KillAll ==
  /\ rx' = FALSE /\ tee' = FALSE /\ player' = "none"
  /\ toTee' = 0 /\ toPlayer' = 0
  /\ subshell' = "none" /\ trx' = FALSE /\ osd' = LeftOver

Restart ==
  /\ unit = "dead"
  /\ unit' = "active" /\ sh' = "prepare"
  /\ KillAll
  /\ UNCHANGED <<recording, env>>

(* It records if a certain directory is there, which may come and go.      *)
StartPipelines ==
  /\ sh = "prepare"
  /\ sh' = "video"
  /\ recording' \in BOOLEAN
  /\ rx' = TRUE /\ tee' = recording' /\ player' = "starting"
  /\ subshell' = IF recording' THEN "none" ELSE "sleeping"
  /\ UNCHANGED <<unit, toTee, toPlayer, trx, osd, env>>

StartTelemetry ==
  /\ subshell = "sleeping"
  /\ subshell' = "started" /\ trx' = TRUE /\ osd' = osd + 1
  /\ UNCHANGED <<script, video, env>>

(* bash waits for all processes of the foreground pipeline.                *)
PipelineEnds ==
  /\ sh = "video" /\ ~ rx /\ ~ tee /\ player = "none"
  /\ sh' = "pkill"
  /\ UNCHANGED <<unit, recording, video, telemetry, env>>

(* pkill rx matches every rx, and rx.sh and its subshell as well.          *)
Pkill ==
  /\ sh = "pkill"
  /\ sh' = "none" /\ unit' = "dead"
  /\ subshell' = "none" /\ trx' = FALSE
  /\ UNCHANGED <<recording, video, osd, env>>

-----------------------------------------------------------------------------
(* The pipelines.                                                          *)

(* Whether a process survives writing into a pipe that nobody reads.       *)
(* Mutant: SIGPIPE is ignored, as it is without IgnoreSIGPIPE=false.       *)
SurvivesIgnoring == TRUE

Survives == FALSE

(* A packet arrives and is passed on.  One that waits for room in a full   *)
(* pipe counts as not arrived.                                             *)
RxPacket ==
  /\ rx /\ link
  /\ \/ /\ recording /\ tee /\ toTee < Capacity
        /\ toTee' = toTee + 1
        /\ UNCHANGED <<rx, toPlayer>>
     \/ /\ ~ recording /\ player # "none" /\ toPlayer < Capacity
        /\ toPlayer' = toPlayer + 1
        /\ UNCHANGED <<rx, toTee>>
     \/ /\ IF recording THEN ~ tee ELSE player = "none"
        /\ rx' = Survives
        /\ UNCHANGED <<toTee, toPlayer>>
  /\ UNCHANGED <<script, tee, player, telemetry, env>>

TeePacket ==
  /\ tee /\ toTee > 0
  /\ \/ /\ player # "none" /\ toPlayer < Capacity
        /\ toPlayer' = toPlayer + 1 /\ toTee' = toTee - 1
        /\ UNCHANGED tee
     \/ /\ player = "none"
        /\ tee' = Survives /\ toTee' = IF tee' THEN toTee - 1 ELSE 0
        /\ UNCHANGED toPlayer
  /\ UNCHANGED <<script, rx, player, telemetry, env>>

TeeEnds ==
  /\ tee /\ toTee = 0 /\ ~ rx
  /\ tee' = FALSE
  /\ UNCHANGED <<script, rx, player, toTee, toPlayer, telemetry, env>>

(* A telemetry packet without an OSD to take it.                           *)
TrxPacket ==
  /\ trx /\ link /\ osd = 0
  /\ trx' = Survives
  /\ UNCHANGED <<script, video, subshell, osd, env>>

(* video_decode_test(): the player sets up its components and waits for a  *)
(* first buffer, then reads and decodes in turn.                           *)
PlayerStarts ==
  /\ player = "starting"
  /\ player' = "reading"
  /\ UNCHANGED <<script, rx, tee, toTee, toPlayer, telemetry, env>>

(* A call of the set-up, or the first wait, does not return.  No alarm has *)
(* been set yet.                                                           *)
PlayerHangs ==
  /\ player = "starting"
  /\ player' = "hung"
  /\ UNCHANGED <<script, rx, tee, toTee, toPlayer, telemetry, env>>

PlayerReads ==
  /\ player = "reading" /\ toPlayer > 0
  /\ player' = "decoding"
  /\ toPlayer' = toPlayer - 1
  /\ UNCHANGED <<script, rx, tee, toTee, telemetry, env>>

(* A call that fails leaves the loop and has nothing more to show: like    *)
(* one that hangs, the alarm ends it.                                      *)
PlayerDecodes ==
  /\ player = "decoding"
  /\ player' \in {"reading", "stuck"}
  /\ UNCHANGED <<script, rx, tee, toTee, toPlayer, telemetry, env>>

PlayerDies ==
  /\ player' = "none" /\ toPlayer' = 0
  /\ UNCHANGED <<script, rx, tee, toTee, telemetry, link, keys>>

(* A call of the set-up fails: the loop is skipped and the player exits.   *)
PlayerFails ==
  /\ player = "starting"
  /\ crashes < MaxCrashes
  /\ crashes' = crashes + 1
  /\ PlayerDies

(* read() returns 0: the loop ends, and the player with it, at the latest  *)
(* by the alarm of one second.                                             *)
PlayerEnds ==
  /\ player = "reading" /\ toPlayer = 0
  /\ IF recording THEN ~ tee ELSE ~ rx
  /\ PlayerDies /\ UNCHANGED crashes

(* alarm(10) around read() and alarm(1) around the rest.  Mutant of        *)
(* Guarded: only the read is guarded.                                      *)
GuardedRead == player = "reading" /\ toPlayer = 0 /\ ~ link

Guarded ==
  \/ player = "reading" /\ toPlayer = 0 /\ ~ link
  \/ player = "stuck"

Alarm ==
  /\ Guarded
  /\ PlayerDies /\ UNCHANGED crashes

-----------------------------------------------------------------------------
(* The environment.                                                        *)

Link ==
  /\ link' = ~ link
  /\ UNCHANGED <<script, video, telemetry, crashes, keys>>

Crash ==
  /\ crashes < MaxCrashes
  /\ \/ rx /\ rx' = FALSE /\ UNCHANGED trx
     \/ trx /\ trx' = FALSE /\ UNCHANGED rx
  /\ crashes' = crashes + 1
  /\ UNCHANGED <<script, tee, player, toTee, toPlayer, subshell, osd, link, keys>>

Key ==
  /\ keys < MaxKeys
  /\ keys' = keys + 1
  /\ UNCHANGED <<recording, link, crashes>>

(* 1: killall, systemctl restart wbcrxd.  5, 7: systemctl stop wbcrxd.     *)
RestartKey ==
  /\ Key
  /\ unit' = "active" /\ sh' = "prepare"
  /\ KillAll

StopKey ==
  /\ Key
  /\ unit' = "inactive" /\ sh' = "none"
  /\ KillAll

(* 6: pkill osd.                                                           *)
KillOsdKey ==
  /\ Key
  /\ osd' = 0
  /\ UNCHANGED <<unit, sh, video, subshell, trx>>

-----------------------------------------------------------------------------

Next ==
  \/ Restart \/ StartPipelines \/ StartTelemetry \/ PipelineEnds \/ Pkill
  \/ RxPacket \/ TeePacket \/ TeeEnds \/ TrxPacket
  \/ PlayerStarts \/ PlayerHangs \/ PlayerFails
  \/ PlayerReads \/ PlayerDecodes \/ PlayerEnds \/ Alarm
  \/ Link \/ Crash \/ RestartKey \/ StopKey \/ KillOsdKey

(* Processes run, packets arrive while the link is up, and alarms go off.  *)
Fairness ==
  /\ WF_vars(Restart) /\ WF_vars(StartPipelines) /\ WF_vars(StartTelemetry)
  /\ WF_vars(PipelineEnds) /\ WF_vars(Pkill)
  /\ WF_vars(RxPacket) /\ WF_vars(TeePacket) /\ WF_vars(TeeEnds)
  /\ WF_vars(PlayerStarts) /\ WF_vars(PlayerReads) /\ WF_vars(PlayerDecodes)
  /\ WF_vars(PlayerEnds) /\ WF_vars(Alarm)

Spec == Init /\ [][Next]_vars /\ Fairness

-----------------------------------------------------------------------------

(* While the link is up, nobody stops the service and the player does not  *)
(* hang before its first alarm, a picture is decoded again and again: a    *)
(* decoder that hangs later is killed, its writers die of SIGPIPE, the     *)
(* script ends and systemd restarts it.                                    *)
VideoComesBack ==
  <>[](link /\ unit # "inactive" /\ player # "hung")
    => []<>(player = "decoding")

(* Whatever dies, hangs or is pressed, there is never more than one OSD to *)
(* draw, and an active unit has the one its own subshell has started, not  *)
(* one that an earlier run has left behind.                                *)
OneOsd ==
  /\ osd <= 1
  /\ osd = 1 /\ unit = "active" => subshell = "started"
=============================================================================
