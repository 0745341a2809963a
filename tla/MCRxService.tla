---------------------------- MODULE MCRxService ----------------------------
(* Small instance of RxService: the bounds are in the configuration.       *)
EXTENDS RxService
=============================================================================
