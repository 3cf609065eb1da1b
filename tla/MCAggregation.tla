--------------------------- MODULE MCAggregation ---------------------------
(* Small instances of Aggregation and its statistics for TLC. *)
EXTENDS ActivityStats
=============================================================================
