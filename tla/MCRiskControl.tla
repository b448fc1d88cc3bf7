---------------------------- MODULE MCRiskControl ----------------------------
(* The account of RiskControl with another instance that trades on it.     *)
EXTENDS RiskControl

\* Another instance may lose 4 and win them back.
MCOthersShares == {-4, 0}
=============================================================================
