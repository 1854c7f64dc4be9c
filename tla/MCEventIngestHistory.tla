------------------------- MODULE MCEventIngestHistory -------------------------
(****************************************************************************)
(* The instance of EventIngestHistory for TLC, with the requests and names  *)
(* of MCEventIngest.                                                        *)
(****************************************************************************)
EXTENDS EventIngestHistory, MCEventIngest
=============================================================================
