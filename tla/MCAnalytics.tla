----------------------------- MODULE MCAnalytics -----------------------------
(* Instances of TransactionAnalytics for TLC. *)
EXTENDS TransactionAnalytics, TLC

Same == Permutations(Keys)
==============================================================================
