------------------------------ MODULE MCRxStatus ------------------------------
(* Small instance of RxStatus: two adapters, the second of which can only  *)
(* be sampled in the loop that has sampled the first; three packets.       *)
EXTENDS RxStatus, TLC

MCMaxPackets == 0 :> 1 @@ 1 :> 2
=============================================================================
