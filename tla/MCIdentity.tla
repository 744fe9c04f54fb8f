------------------------------ MODULE MCIdentity ------------------------------
(* Instances of Identity for TLC: emails as clients spell them, and who asks. *)
EXTENDS Identity

\* Two spellings of one address, and the manager's.
SpellingsOfTwo == {"ann", " Ann", "manager"}
Lower == [s \in SpellingsOfTwo |-> IF s = " Ann" THEN "ann" ELSE s]

Ask(route, email) == [route |-> route, email |-> email, long |-> FALSE]

Register == Ask("register", "ann")
RegisterAgain == Ask("register", " Ann")
Long == [Register EXCEPT !.long = TRUE]

\* Every operation; the one address in both spellings where it is written.
AllOperations ==
  {Register, RegisterAgain, Long, Ask("register", "manager"),
   Ask("users", "ann"), Ask("merchants", "ann"), Ask("merchants", " Ann"),
   Ask("create_manager", "manager"), Ask("update_password", "manager")}
==============================================================================
