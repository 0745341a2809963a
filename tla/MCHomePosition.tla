--------------------------- MODULE MCHomePosition ---------------------------
(* Small instance of HomePosition.  With a tolerance of 1 the altitudes    *)
(* 0, 1 and 2 make a climb of tolerable steps, 0 and 2 are out of each     *)
(* other's tolerance, and 4 is out of that of all others.                  *)
EXTENDS HomePosition

MCCoords == {0, 1}
MCAltitudes == {0, 1, 2, 4}
MCFixTypes == {0, FIX_3D, 4}

=============================================================================
