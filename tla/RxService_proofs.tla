-------------------------- MODULE RxService_proofs --------------------------
(***************************************************************************)
(* What holds of the receiver service for pipes of any length and any      *)
(* number of crashes and keys.                                             *)
(***************************************************************************)
EXTENDS RxService, TLAPS

(* An OSD is started once between two ends of the control group: there is  *)
(* none before the subshell has slept, and a second subshell needs a new   *)
(* run of the script, before which everything is killed.                   *)
NoneBefore ==
  /\ osd \in {0, 1}
  /\ sh = "prepare" => osd = 0 /\ subshell = "none"
  /\ subshell = "sleeping" => osd = 0

(* The script and its background pipeline belong to an active unit.        *)
OwnUnit ==
  /\ unit \in {"active", "dead", "inactive"}
  /\ unit = "active" <=> sh # "none"
  /\ subshell # "none" => sh \in {"video", "pkill"}
  /\ subshell \in {"none", "sleeping", "started"}

(* Whoever has an OSD has started it with a subshell that is still there,  *)
(* as long as the unit is active.                                          *)
Started == osd = 1 /\ sh # "none" => subshell = "started"

(* Together they are inductive.                                            *)
IInv == NoneBefore /\ OwnUnit /\ Started

(* At first nothing runs.                                                  *)
LEMMA IInvInit == Init => IInv
BY DEF Init, IInv, NoneBefore, OwnUnit, Started

(* Every step of the service, its processes, the radio and the keys        *)
(* preserves it.                                                           *)
LEMMA IInvStep == IInv /\ [Next]_vars => IInv'
<1> SUFFICES ASSUME IInv, [Next]_vars PROVE IInv'
  OBVIOUS
<1> USE DEF IInv, NoneBefore, OwnUnit, Started
<1>1. CASE Restart \/ RestartKey \/ StopKey
  BY <1>1 DEF Restart, RestartKey, StopKey, KillAll, LeftOver
<1>2. CASE StartPipelines
  BY <1>2 DEF StartPipelines
<1>3. CASE StartTelemetry
  BY <1>3 DEF StartTelemetry, script
<1>4. CASE PipelineEnds
  BY <1>4 DEF PipelineEnds, telemetry
<1>5. CASE Pkill
  BY <1>5 DEF Pkill
<1>6. CASE RxPacket \/ TeePacket \/ TeeEnds \/ TrxPacket
  BY <1>6 DEF RxPacket, TeePacket, TeeEnds, TrxPacket, script, telemetry
<1>7. CASE \/ PlayerStarts \/ PlayerHangs \/ PlayerFails
           \/ PlayerReads \/ PlayerDecodes \/ PlayerEnds \/ Alarm
  BY <1>7 DEF PlayerStarts, PlayerHangs, PlayerFails, PlayerReads,
              PlayerDecodes, PlayerEnds, Alarm, PlayerDies, script, telemetry
<1>8. CASE Link \/ Crash
  BY <1>8 DEF Link, Crash, script, telemetry
<1>9. CASE KillOsdKey
  BY <1>9 DEF KillOsdKey, Key
<1>10. CASE UNCHANGED vars
  BY <1>10 DEF vars, script, telemetry
<1> QED
  BY <1>1, <1>2, <1>3, <1>4, <1>5, <1>6, <1>7, <1>8, <1>9, <1>10 DEF Next

(* So it holds in every reachable state.                                   *)
LEMMA Invariance == Spec => []IInv
BY IInvInit, IInvStep, PTL DEF Spec

(* Whatever dies, hangs or is pressed, a restarted service never draws     *)
(* with a second OSD or with one that an earlier run has started.          *)
THEOREM AtMostOneOsd == Spec => []OneOsd
<1>1. IInv => OneOsd
  BY DEF IInv, NoneBefore, OwnUnit, Started, OneOsd
<1> QED BY <1>1, Invariance, PTL
=============================================================================
