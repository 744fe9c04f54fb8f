------------------------------ MODULE MCPlatform ------------------------------
(* Instances of TransactionPlatform for TLC: accounts, and what clients send. *)
EXTENDS PlatformLedger, TLC

\* Two users' accounts holding 10 each; account 3 is a merchant's.
Users == {1, 2}
UsersAndMerchant == {1, 2, 3}
OwnerOf == [a \in Accounts |-> IF a = 3 THEN "merchant" ELSE "user"]
OneCurrency == [a \in Accounts |-> "INR"]
TenEach == [a \in Accounts |-> 10]

Transfer(k, s, t, n, type) ==
  [key |-> k, sender |-> s, receiver |-> t, amount |-> n,
   type |-> type, currency |-> "INR", token |-> "tok"]

CashOp(k, a, op, n) ==
  [key |-> k, account |-> a, operation |-> op, amount |-> n, currency |-> "INR"]

\* Two transfers in opposite directions; each leaves too little for another
\* of its size.
CrossingTransfers ==
  {Transfer("k1", 1, 2, 6, "P2P"), Transfer("k2", 2, 1, 6, "P2P")}

\* And one that uses the key of the first: the unique index alone orders the
\* two senders.
ClashingTransfers == CrossingTransfers \cup {Transfer("k1", 2, 1, 5, "P2P")}

\* One direction only.
OneTransfer == {Transfer("k1", 1, 2, 6, "P2P")}

\* Each request the service refuses, beside one of each type it accepts; one
\* key of two senders, and two keys of one.
TransfersOfAllKinds ==
  {Transfer("k1", 1, 2, 6, "P2P"), Transfer("k2", 1, 3, 6, "P2M"),
   Transfer("k1", 3, 2, 6, "M2P"), Transfer("k1", 9, 1, 6, "P2P"),
   Transfer("k1", 1, 9, 6, "P2P"), Transfer("k1", 1, 1, 6, "P2P"),
   Transfer("k1", 1, 3, 6, "P2P"), Transfer("k1", 1, 2, 11, "P2P"),
   [Transfer("k1", 1, 2, 6, "P2P") EXCEPT !.currency = "USD"]}

\* Two operations with one key on one account.
CashOnOne == {CashOp("q1", 1, "CREDIT", 5), CashOp("q1", 1, "DEBIT", 5)}

\* One key on two accounts, and each operation that is refused or fails.
CashOfAllKinds ==
  {CashOp("q1", 1, "CREDIT", 3), CashOp("q1", 2, "CREDIT", 2),
   CashOp("q1", 1, "DEBIT", 4), CashOp("q1", 1, "DEBIT", 11),
   CashOp("q1", 9, "CREDIT", 1),
   [CashOp("q1", 1, "CREDIT", 1) EXCEPT !.currency = "USD"]}

NoCash == {}

SameRoles == Permutations(Handlers) \cup Permutations(Tellers)
               \cup Permutations(Workers)
==============================================================================
