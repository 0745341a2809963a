------------------------------ MODULE MCOsdLoop ------------------------------
(* Small instances of OsdLoop: two values of a coordinate (one where a     *)
(* picture freezes) and two altitudes out of each other's tolerance; two   *)
(* counted calls; at most one message to a buffer, one command waiting.    *)
EXTENDS OsdLoop

MCCoords == {0, 1}
MCPoint == {0}
MCAltitudes == {0, 2}
MCFixTypes == {0, 3}
=============================================================================
