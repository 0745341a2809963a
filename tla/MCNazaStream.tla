---------------------------- MODULE MCNazaStream ----------------------------
(* Small instance of NazaStream: bytes modulo 5, the second header byte    *)
(* being a message id too, messages of one and two bytes of payload, the   *)
(* longer of which fills the buffer.                                       *)
EXTENDS NazaStream, TLC

MCLengths == 2 :> 1 @@ 3 :> 2
MCNone == 0
=============================================================================
