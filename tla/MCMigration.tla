----------------------------- MODULE MCMigration -----------------------------
(* Instances of TransferMigration for TLC. *)
EXTENDS TransferMigration, TLC

Same == Permutations(Users) \cup Permutations(Merchants) \cup Permutations(Keys)
==============================================================================
