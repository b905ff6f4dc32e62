-------------------------- MODULE MCProfitSummary --------------------------
(* Small instances of ProfitSummary for TLC.                               *)
EXTENDS ProfitSummary
=============================================================================
