----------------------------- MODULE MCRiskEngine -----------------------------
(* Instances of RiskEngine for TLC. *)
EXTENDS RiskEngine
==============================================================================
