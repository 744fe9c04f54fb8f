-------------------------------- MODULE Ledger --------------------------------
(***************************************************************************)
(* What the platform promises about money, with no sessions, locks or      *)
(* processes: a transfer reserves its amount at the sender, and then is    *)
(* completed, refunded, held for review or abandoned, once; a cash         *)
(* operation changes one account and records the balances around it.  Each *)
(* is one step, made from the balance there is.                            *)
(***************************************************************************)
EXTENDS Integers

CONSTANTS
  TransferKeys,    \* what identifies a transfer
  OperationKeys,   \* what identifies a cash operation
  Transfers,       \* the transfers that may be asked for
  Operations,      \* the cash operations that may be asked for
  InitialFunds,
  Limit,           \* no balance is larger
  None

VARIABLES
  funds,       \* the balance of each account
  asked,       \* the request behind each transfer
  state,       \* what has become of each transfer
  operation    \* the record of each cash operation

ledger == <<funds, asked, state, operation>>

Init ==
  /\ funds = InitialFunds
  /\ asked = [k \in TransferKeys |-> None]
  /\ state = [k \in TransferKeys |-> "absent"]
  /\ operation = [q \in OperationKeys |-> None]

Add(a, n) ==
  /\ a \in DOMAIN funds
  /\ funds[a] + n \in 0 .. Limit
  /\ funds' = [funds EXCEPT ![a] = funds[a] + n]

Reserve(r) ==
  /\ state[r.key] = "absent"
  /\ r.sender # r.receiver
  /\ Add(r.sender, -r.amount)
  /\ asked' = [asked EXCEPT ![r.key] = r]
  /\ state' = [state EXCEPT ![r.key] = "reserved"]
  /\ UNCHANGED operation

End(k, outcome) ==
  /\ state[k] = "reserved"
  /\ state' = [state EXCEPT ![k] = outcome]
  /\ UNCHANGED <<asked, operation>>

Complete(k) == End(k, "completed") /\ Add(asked[k].receiver, asked[k].amount)

Refund(k) == End(k, "refunded") /\ Add(asked[k].sender, asked[k].amount)

\* The reservation stays where it is.
Keep(k) == (End(k, "held") \/ End(k, "abandoned")) /\ UNCHANGED funds

Operate(r) ==
  LET change == IF r.operation = "DEBIT" THEN -r.amount ELSE r.amount IN
  /\ operation[r.key] = None
  /\ Add(r.account, change)
  /\ operation' = [operation EXCEPT ![r.key] =
       [req |-> r, before |-> funds[r.account],
        after |-> funds[r.account] + change]]
  /\ UNCHANGED <<asked, state>>

Next ==
  \/ \E r \in Transfers : Reserve(r)
  \/ \E k \in TransferKeys : Complete(k) \/ Refund(k) \/ Keep(k)
  \/ \E r \in Operations : Operate(r)

Spec == Init /\ [][Next]_ledger
==============================================================================
