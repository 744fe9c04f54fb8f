------------------------------ MODULE MCConsole ------------------------------
(* Instances of Console for TLC. *)
EXTENDS Console, TLC

Same == Permutations(Requests) \cup Permutations(Emails)
==============================================================================
