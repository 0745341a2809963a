--------------------------- MODULE MCNazaTelemetry ---------------------------
(* Small instance of NazaTelemetry: bytes modulo 3, the second header byte *)
(* being the id of a GPS message of two bytes and 0 that of a compass      *)
(* message of one.                                                         *)
EXTENDS NazaTelemetry, TLC

MCLengths == 2 :> 2 @@ 0 :> 1
MCNone == 3
=============================================================================
