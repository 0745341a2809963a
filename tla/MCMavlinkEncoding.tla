------------------------- MODULE MCMavlinkEncoding -------------------------
(* All dialects and messages of the repository's headers.                  *)
EXTENDS MavlinkEncoding, MavlinkDialects, TLC

MCKnown ==
  "common" :> COMMON @@ "matrixpilot" :> COMMON @@ "pixhawk" :> PIXHAWK
  @@ "sensesoar" :> SENSESOAR @@ "slugs" :> SLUGS @@ "ualberta" :> UALBERTA
  @@ "minimal" :> {MINIMAL_HEARTBEAT} @@ "test" :> {TEST_TYPES}

MCSeeds ==
  "common" :> COMMON_CRCS @@ "matrixpilot" :> COMMON_CRCS
  @@ "pixhawk" :> PIXHAWK_CRCS @@ "sensesoar" :> SENSESOAR_CRCS
  @@ "slugs" :> SLUGS_CRCS @@ "ualberta" :> UALBERTA_CRCS
  @@ "minimal" :> MINIMAL_CRCS @@ "test" :> TEST_CRCS

On(dialect, host) == [dialect |-> dialect, host |-> host]

(* Every pair of dialects on the usual host, and every pair of hosts with  *)
(* the same dialect.                                                       *)
MCPairs ==
  { <<On(c, Struct), On(d, Struct)>> :
      c \in DOMAIN MCKnown \ {"matrixpilot"},
      d \in DOMAIN MCKnown \ {"matrixpilot"} }
  \cup { <<On(d, h), On(d, k)>> :
           d \in {"pixhawk", "sensesoar", "slugs", "ualberta", "test"},
           h \in {Struct, Copies, Swaps}, k \in {Struct, Copies, Swaps} }

(* The longest, to leave stale bytes everywhere.                           *)
MCFirst == {GPS_STATUS, ENCAPSULATED_DATA, MINIMAL_HEARTBEAT, TEST_TYPES}
=============================================================================
