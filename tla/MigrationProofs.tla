---------------------------- MODULE MigrationProofs ----------------------------
(* The properties of TransferMigration, for all users, merchants and rows. *)
EXTENDS TransferMigration, TLAPS

-----------------------------------------------------------------------------
(* The schema. *)

AuthNames == {"users.password_hash", "users.role"}
KeyIndex == {"ix_transactions_idempotency_key"}
AccountIndex == {"ix_accounts_user_id"}
CreatedIndex == {"ix_transactions_created_at"}

LEMMA NamesDiffer ==
  /\ StrongNames \cap InitialNames = {}
  /\ AuthNames \cap (InitialNames \cup StrongNames) = {}
  /\ RiskNames \cap (InitialNames \cup StrongNames \cup AuthNames) = {}
  /\ CashNames \cap (InitialNames \cup StrongNames \cup AuthNames \cup RiskNames) = {}
  /\ TransferNames \cap (InitialNames \cup StrongNames \cup AuthNames \cup RiskNames \cup CashNames) = {}
  /\ CreatedIndex \cap (InitialNames \cup StrongNames \cup AuthNames \cup RiskNames \cup CashNames
                        \cup TransferNames) = {}
BY SMTT(60) DEF InitialNames, StrongNames, AuthNames, RiskNames, CashNames, TransferNames, CreatedIndex

LEMMA NamesDropped ==
  /\ AccountIndex \subseteq InitialNames
  /\ KeyIndex \subseteq InitialNames /\ KeyIndex \cap AccountIndex = {}
  /\ LegacyNames \subseteq InitialNames /\ LegacyNames \cap (AccountIndex \cup KeyIndex) = {}
BY SMT DEF InitialNames, LegacyNames, AccountIndex, KeyIndex

\* What the migrations create and drop, by name of the set.
LEMMA Changes ==
  /\ UpgradeTo[1].adds = InitialNames /\ UpgradeTo[1].drops = {}
  /\ UpgradeTo[2].adds = StrongNames /\ UpgradeTo[2].drops = AccountIndex
  /\ UpgradeTo[3].adds = AuthNames /\ UpgradeTo[3].drops = {}
  /\ UpgradeTo[4].adds = RiskNames /\ UpgradeTo[4].drops = {}
  /\ UpgradeTo[5].adds = {} /\ UpgradeTo[5].drops = KeyIndex
  /\ UpgradeTo[6].adds = CashNames /\ UpgradeTo[6].drops = {}
  /\ UpgradeTo[7].adds = TransferNames /\ UpgradeTo[7].drops = LegacyNames
  /\ UpgradeTo[8].adds = CreatedIndex /\ UpgradeTo[8].drops = {}
BY DEF UpgradeTo, Change, AuthNames, KeyIndex, AccountIndex, CreatedIndex

\* Each downgrade drops what its upgrade created, and the other way round.
LEMMA DowngradesMirror ==
  ASSUME NEW r \in 1 .. Head
  PROVE  DowngradeFrom[r].adds = UpgradeTo[r].drops /\ DowngradeFrom[r].drops = UpgradeTo[r].adds
<1>1. r \in {1, 2, 3, 4, 5, 6, 7, 8}
  BY SMT DEF Head
<1>2. /\ DowngradeFrom[1].drops = InitialNames /\ DowngradeFrom[1].adds = {}
      /\ DowngradeFrom[2].drops = StrongNames /\ DowngradeFrom[2].adds = AccountIndex
      /\ DowngradeFrom[3].drops = AuthNames /\ DowngradeFrom[3].adds = {}
      /\ DowngradeFrom[4].drops = RiskNames /\ DowngradeFrom[4].adds = {}
      /\ DowngradeFrom[5].drops = {} /\ DowngradeFrom[5].adds = KeyIndex
      /\ DowngradeFrom[6].drops = CashNames /\ DowngradeFrom[6].adds = {}
      /\ DowngradeFrom[7].drops = TransferNames /\ DowngradeFrom[7].adds = LegacyNames
      /\ DowngradeFrom[8].drops = CreatedIndex /\ DowngradeFrom[8].adds = {}
  BY DEF DowngradeFrom, Change, AuthNames, KeyIndex, AccountIndex, CreatedIndex
<1>3. CASE r = 1
  BY <1>2, <1>3, Changes
<1>4. CASE r = 2
  BY <1>2, <1>4, Changes
<1>5. CASE r = 3
  BY <1>2, <1>5, Changes
<1>6. CASE r = 4
  BY <1>2, <1>6, Changes
<1>7. CASE r = 5
  BY <1>2, <1>7, Changes
<1>8. CASE r = 6
  BY <1>2, <1>8, Changes
<1>9. CASE r = 7
  BY <1>2, <1>9, Changes
<1>10. CASE r = 8
  BY <1>2, <1>10, Changes
<1> QED BY <1>1, <1>3, <1>4, <1>5, <1>6, <1>7, <1>8, <1>9, <1>10

LEMMA Undone ==
  ASSUME NEW s, NEW c, NEW d, c.drops \subseteq s, c.adds \cap s = {},
         d.adds = c.drops, d.drops = c.adds
  PROVE  After(After(s, c), d) = s
BY DEF After

\* Every upgrade finds the schema of the revision before it as it wants it.
LEMMA SchemaChain ==
  ASSUME NEW r \in 1 .. Head
  PROVE  /\ SchemaOf(r) = After(SchemaOf(r - 1), UpgradeTo[r])
         /\ UpgradeTo[r].drops \subseteq SchemaOf(r - 1)
         /\ UpgradeTo[r].adds \cap SchemaOf(r - 1) = {}
<1>1. r \in {1, 2, 3, 4, 5, 6, 7, 8}
  BY SMT DEF Head
<1>2. /\ SchemaOf(0) = {} /\ SchemaOf(1) = Schema1 /\ SchemaOf(2) = Schema2
      /\ SchemaOf(3) = Schema3 /\ SchemaOf(4) = Schema4 /\ SchemaOf(5) = Schema5
      /\ SchemaOf(6) = Schema6 /\ SchemaOf(7) = Schema7 /\ SchemaOf(8) = Schema8
  BY SMT DEF SchemaOf
<1>3. /\ Schema1 = InitialNames
      /\ Schema2 = (Schema1 \ AccountIndex) \cup StrongNames
      /\ Schema3 = Schema2 \cup AuthNames
      /\ Schema4 = Schema3 \cup RiskNames
      /\ Schema5 = Schema4 \ KeyIndex
      /\ Schema6 = Schema5 \cup CashNames
      /\ Schema7 = (Schema6 \ LegacyNames) \cup TransferNames
      /\ Schema8 = Schema7 \cup CreatedIndex
  BY Changes DEF Schema1, Schema2, Schema3, Schema4, Schema5, Schema6, Schema7, Schema8, After
<1>4. SchemaOf(r) = After(SchemaOf(r - 1), UpgradeTo[r])
  BY <1>1, <1>2, SMT DEF Schema1, Schema2, Schema3, Schema4, Schema5, Schema6, Schema7, Schema8
<1>5. /\ Schema6 \subseteq InitialNames \cup StrongNames \cup AuthNames \cup RiskNames \cup CashNames
      /\ Schema5 \subseteq InitialNames \cup StrongNames \cup AuthNames \cup RiskNames
      /\ Schema3 \subseteq InitialNames \cup StrongNames \cup AuthNames
      /\ Schema2 \subseteq InitialNames \cup StrongNames
      /\ Schema7 \subseteq InitialNames \cup StrongNames \cup AuthNames \cup RiskNames \cup CashNames
                           \cup TransferNames
  BY <1>3
<1>6. /\ AccountIndex \subseteq Schema1 /\ KeyIndex \subseteq Schema4 /\ LegacyNames \subseteq Schema6
  BY <1>3, NamesDropped
<1>7. UpgradeTo[r].drops \subseteq SchemaOf(r - 1)
  BY <1>1, <1>2, <1>6, Changes, SMT
<1>8. UpgradeTo[r].adds \cap SchemaOf(r - 1) = {}
  BY <1>1, <1>2, <1>3, <1>5, NamesDiffer, Changes, SMT
<1> QED BY <1>4, <1>7, <1>8

-----------------------------------------------------------------------------
(* The inductive invariant. *)

\* An account's identifier names its owner, and identifies it.
Owned ==
  \A a \in accounts :
    \/ a.user \in users /\ a.merchant = None /\ a.id[1] = a.user
    \/ a.user = None /\ a.merchant \in merchants /\ rev >= 7 /\ a.id = AccountId(a.merchant, 1)

UniqueIds == \A a, b \in accounts : a.id = b.id => a = b

OnePerUser == rev >= 2 => \A a, b \in accounts : a.user # None /\ a.user = b.user => a = b

EveryMerchant == rev >= 7 => \A m \in merchants : \E a \in accounts : a.merchant = m

\* A payment says nothing of accounts before revision 7.
Legacy ==
  rev < 7 => \A t \in txns : /\ t.user \in users /\ t.merchant \in merchants
                             /\ t.type = None /\ t.sender = None /\ t.receiver = None

\* Payments are never lost, so a key that was one's is not free for a transfer.
Origins == \A k \in Keys : origin[k] # None => \E t \in txns : t.key = k

\* A merchant's money came in cash or by a transfer: what a downgrade looks at.
Explained ==
  rev >= 7 => \A a \in accounts :
    a.merchant # None /\ a.balance > 0 => a.id \in cash \/ \E t \in txns : t.receiver = a.id

AccountsOk == Owned /\ UniqueIds /\ OnePerUser /\ EveryMerchant

IInv ==
  /\ TypeOK /\ DOMAIN origin = Keys
  /\ SchemaFollowsRevision
  /\ AccountsOk /\ Legacy /\ TransfersMapped /\ Origins /\ Explained

AccountRows ==
  [id : AccountIds, user : Users \cup {None}, merchant : Merchants \cup {None}, balance : Nat]
TxnRows ==
  [key : Keys, user : Users \cup {None}, merchant : Merchants \cup {None},
   type : {"P2P", "P2M", "M2P", "M2M", None}, sender : AccountIds \cup {None},
   receiver : AccountIds \cup {None}, amount : Amounts]

LEMMA RowTypes ==
  TypeOK <=> /\ rev \in 0 .. Head
             /\ users \subseteq Users /\ merchants \subseteq Merchants
             /\ accounts \subseteq AccountRows /\ txns \subseteq TxnRows
             /\ jobs \subseteq Keys /\ cash \subseteq AccountIds
BY DEF TypeOK, AccountRows, TxnRows

\* A transaction of the later model, with the accounts it is between.
Between(t, a, b, o) ==
  /\ a.id = t.sender /\ b.id = t.receiver /\ a # b /\ TypeFits(t, a, b)
  /\ o # None => o = [user |-> a.user, merchant |-> b.merchant]

LEMMA Mapping ==
  TransfersMapped <=>
    \A t \in txns :
      /\ rev < 7 => origin[t.key] = [user |-> t.user, merchant |-> t.merchant]
      /\ ~(rev < 7) => \E a, b \in accounts : Between(t, a, b, origin[t.key])
BY DEF TransfersMapped, Between

LEMMA MappingNext ==
  TransfersMapped' <=>
    \A t \in txns' :
      /\ rev' < 7 => origin'[t.key] = [user |-> t.user, merchant |-> t.merchant]
      /\ ~(rev' < 7) => \E a, b \in accounts' : Between(t, a, b, origin'[t.key])
BY DEF TransfersMapped, Between, TypeFits

\* New accounts change nothing for the transactions there are.
LEMMA MappedMore ==
  ASSUME TransfersMapped, accounts \subseteq accounts', UNCHANGED <<rev, txns, origin>>
  PROVE  TransfersMapped'
BY Mapping, MappingNext

LEMMA InitIInv == Init => IInv
<1> SUFFICES ASSUME Init PROVE IInv
  OBVIOUS
<1>1. TypeOK /\ DOMAIN origin = Keys
  BY DEF Init, TypeOK, Head
<1>2. SchemaFollowsRevision
  BY DEF Init, SchemaFollowsRevision, SchemaOf
<1>3. AccountsOk /\ Legacy /\ TransfersMapped /\ Origins /\ Explained
  BY DEF Init, AccountsOk, Owned, UniqueIds, OnePerUser, EveryMerchant, Legacy, TransfersMapped,
         Origins, Explained
<1> QED BY <1>1, <1>2, <1>3 DEF IInv

-----------------------------------------------------------------------------
(* Rows written by the application: owners. *)

LEMMA AddUserIInv == ASSUME IInv, NEW u \in Users, AddUser(u) PROVE IInv'
<1> DEFINE x == Account(u, 1, u, None)
<1>1. /\ users' = users \cup {u} /\ accounts' \in {accounts, accounts \cup {x}} /\ u \notin users
      /\ UNCHANGED <<rev, schema, merchants, txns, jobs, cash, origin>>
  BY DEF AddUser, Write
<1>2. x \in AccountRows /\ x.user = u /\ x.merchant = None /\ x.id[1] = u /\ x.balance = 0
  BY DEF Account, AccountRows, AccountIds, AccountId
<1> HIDE DEF x
<1>3. u # None
  BY MigrationAssumption
<1>4. \A a \in accounts : a.user # u /\ a.id # x.id
  <2> SUFFICES ASSUME NEW a \in accounts PROVE a.user # u /\ a.id # x.id
    OBVIOUS
  <2>1. CASE a.user \in users /\ a.id[1] = a.user
    BY <1>1, <1>2, <2>1
  <2>2. CASE a.user = None /\ a.merchant \in merchants /\ a.id = AccountId(a.merchant, 1)
    <3>1. a.id[1] = a.merchant /\ a.merchant \in Merchants
      BY <2>2 DEF AccountId, IInv, TypeOK
    <3> QED BY <1>2, <1>3, <2>2, <3>1, MigrationAssumption
  <2> QED BY <2>1, <2>2 DEF IInv, AccountsOk, Owned
<1>5. TypeOK' /\ DOMAIN origin' = Keys
  BY <1>1, <1>2, RowTypes DEF IInv, TypeOK, AccountRows
<1>6. Owned'
  BY <1>1, <1>2 DEF IInv, AccountsOk, Owned
<1>7. UniqueIds'
  BY <1>1, <1>4 DEF IInv, AccountsOk, UniqueIds
<1>8. OnePerUser'
  BY <1>1, <1>2, <1>4 DEF IInv, AccountsOk, OnePerUser
<1>9. EveryMerchant'
  BY <1>1 DEF IInv, AccountsOk, EveryMerchant
<1>10. Legacy'
  BY <1>1 DEF IInv, Legacy
<1>11. TransfersMapped'
  BY <1>1, MappedMore DEF IInv
<1>12. Origins' /\ Explained'
  BY <1>1, <1>2 DEF IInv, Origins, Explained
<1>13. SchemaFollowsRevision'
  BY <1>1 DEF IInv, SchemaFollowsRevision
<1> QED BY <1>5, <1>6, <1>7, <1>8, <1>9, <1>10, <1>11, <1>12, <1>13 DEF IInv, AccountsOk

LEMMA OpenSecondIInv == ASSUME IInv, NEW u \in Users, OpenSecondAccount(u) PROVE IInv'
<1> DEFINE x == Account(u, 2, u, None)
<1>1. /\ accounts' = accounts \cup {x} /\ u \in users /\ rev = 1
      /\ UNCHANGED <<rev, schema, users, merchants, txns, jobs, cash, origin>>
      /\ \A a \in accounts : a.id # AccountId(u, 2)
  BY DEF OpenSecondAccount, Write
<1>2. x \in AccountRows /\ x.user = u /\ x.merchant = None /\ x.id[1] = u /\ x.id = AccountId(u, 2)
  BY DEF Account, AccountRows, AccountIds, AccountId
<1> HIDE DEF x
<1>3. TypeOK' /\ DOMAIN origin' = Keys
  BY <1>1, <1>2, RowTypes DEF IInv, TypeOK, AccountRows
<1>4. Owned' /\ UniqueIds'
  BY <1>1, <1>2 DEF IInv, AccountsOk, Owned, UniqueIds
<1>5. OnePerUser' /\ EveryMerchant' /\ Explained'
  BY <1>1, SMT DEF OnePerUser, EveryMerchant, Explained
<1>6. Legacy' /\ Origins'
  BY <1>1 DEF IInv, Legacy, Origins
<1>7. TransfersMapped'
  BY <1>1, MappedMore DEF IInv
<1>8. SchemaFollowsRevision'
  BY <1>1 DEF IInv, SchemaFollowsRevision
<1> QED BY <1>3, <1>4, <1>5, <1>6, <1>7, <1>8 DEF IInv, AccountsOk

LEMMA AddMerchantIInv == ASSUME IInv, NEW m \in Merchants, AddMerchant(m) PROVE IInv'
<1> DEFINE x == Account(m, 1, None, m)
<1>1. /\ merchants' = merchants \cup {m} /\ m \notin merchants
      /\ rev < 7 => accounts' = accounts
      /\ ~(rev < 7) => accounts' = accounts \cup {x}
      /\ UNCHANGED <<rev, schema, users, txns, jobs, cash, origin>>
  BY DEF AddMerchant, Write
<1>2. /\ x \in AccountRows /\ x.user = None /\ x.merchant = m /\ x.id = AccountId(m, 1)
      /\ x.id[1] = m /\ x.balance = 0
  BY DEF Account, AccountRows, AccountIds, AccountId
<1> HIDE DEF x
<1>3. \A a \in accounts : a.id # x.id /\ a.merchant # m
  <2> SUFFICES ASSUME NEW a \in accounts PROVE a.id # x.id /\ a.merchant # m
    OBVIOUS
  <2>1. CASE a.user \in users /\ a.merchant = None /\ a.id[1] = a.user
    <3>1. a.user \in Users
      BY <2>1 DEF IInv, TypeOK
    <3> QED BY <1>2, <2>1, <3>1, MigrationAssumption
  <2>2. CASE a.merchant \in merchants /\ a.id = AccountId(a.merchant, 1)
    <3>1. a.id[1] = a.merchant
      BY <2>2 DEF AccountId
    <3> QED BY <1>1, <1>2, <2>2, <3>1
  <2> QED BY <2>1, <2>2 DEF IInv, AccountsOk, Owned
<1>0. rev \in Int /\ accounts' \subseteq accounts \cup {x} /\ accounts \subseteq accounts'
  BY <1>1 DEF IInv, TypeOK
<1>4. TypeOK' /\ DOMAIN origin' = Keys
  BY <1>0, <1>1, <1>2, RowTypes DEF IInv, TypeOK, AccountRows
<1>5. Owned'
  BY <1>0, <1>1, <1>2 DEF IInv, AccountsOk, Owned
<1>6. UniqueIds'
  BY <1>0, <1>3 DEF IInv, AccountsOk, UniqueIds
<1>7. OnePerUser'
  BY <1>0, <1>1, <1>2 DEF IInv, AccountsOk, OnePerUser
<1>8. EveryMerchant'
  BY <1>0, <1>1, <1>2 DEF IInv, AccountsOk, EveryMerchant
<1>9. Legacy' /\ Origins'
  BY <1>1 DEF IInv, Legacy, Origins
<1>10. TransfersMapped'
  BY <1>0, <1>1, MappedMore DEF IInv
<1>11. Explained'
  BY <1>0, <1>1, <1>2 DEF IInv, Explained
<1>12. SchemaFollowsRevision'
  BY <1>1 DEF IInv, SchemaFollowsRevision
<1> QED BY <1>4, <1>5, <1>6, <1>7, <1>8, <1>9, <1>10, <1>11, <1>12 DEF IInv, AccountsOk

-----------------------------------------------------------------------------
(* Rows written by the application: payments, transfers and cash. *)

LEMMA PayIInv ==
  ASSUME IInv, NEW k \in Keys, NEW u \in Users, NEW m \in Merchants, NEW n \in Amounts, Pay(k, u, m, n)
  PROVE  IInv'
<1> DEFINE x == [key |-> k, user |-> u, merchant |-> m, type |-> None, sender |-> None,
                 receiver |-> None, amount |-> n]
<1>1. /\ txns' = txns \cup {x} /\ u \in users /\ m \in merchants /\ rev < 7
      /\ \A t \in txns : t.key # k
      /\ jobs' \subseteq jobs \cup {k}
      /\ origin' = [origin EXCEPT ![k] = [user |-> u, merchant |-> m]]
      /\ UNCHANGED <<rev, schema, users, merchants, accounts, cash>>
  BY DEF Pay, Write
<1>2. /\ x \in TxnRows /\ x.key = k /\ x.user = u /\ x.merchant = m
      /\ x.type = None /\ x.sender = None /\ x.receiver = None
  BY DEF TxnRows
<1> HIDE DEF x
<1>3. \A t \in txns : t.key \in Keys
  BY DEF IInv, TypeOK
<1>4. TypeOK' /\ DOMAIN origin' = Keys
  BY <1>1, <1>2, RowTypes DEF IInv, TypeOK, TxnRows
<1>5. AccountsOk' /\ SchemaFollowsRevision' /\ Explained'
  BY <1>1 DEF IInv, AccountsOk, Owned, UniqueIds, OnePerUser, EveryMerchant,
              SchemaFollowsRevision, Explained
<1>6. Legacy'
  BY <1>1, <1>2 DEF IInv, Legacy
<1>7. TransfersMapped'
  <2> SUFFICES ASSUME NEW t \in txns'
               PROVE  origin'[t.key] = [user |-> t.user, merchant |-> t.merchant]
    BY <1>1, MappingNext
  <2>1. CASE t = x
    BY <1>1, <1>2, <2>1 DEF IInv
  <2>2. CASE t \in txns
    BY <1>1, <1>3, <2>2, Mapping DEF IInv
  <2> QED BY <1>1, <2>1, <2>2
<1>8. Origins'
  <2> SUFFICES ASSUME NEW j \in Keys, origin'[j] # None PROVE \E t \in txns' : t.key = j
    BY DEF Origins
  <2>1. CASE j = k
    BY <1>1, <1>2, <2>1
  <2>2. CASE j # k
    BY <1>1, <2>2 DEF IInv, Origins
  <2> QED BY <2>1, <2>2
<1> QED BY <1>4, <1>5, <1>6, <1>7, <1>8 DEF IInv

\* What Credit makes of an account.
Moved(b, id, n) == IF b.id = id THEN [b EXCEPT !.balance = b.balance + n] ELSE b

LEMMA MovedKeeps ==
  ASSUME NEW b \in AccountRows, NEW id, NEW n \in Int, b.id = id => b.balance + n \in Nat
  PROVE  /\ Moved(b, id, n) \in AccountRows
         /\ Moved(b, id, n).id = b.id
         /\ Moved(b, id, n).user = b.user
         /\ Moved(b, id, n).merchant = b.merchant
         /\ b.id = id => Moved(b, id, n).balance = b.balance + n
         /\ b.id # id => Moved(b, id, n).balance = b.balance
<1>1. CASE b.id = id
  <2>1. Moved(b, id, n) = [b EXCEPT !.balance = b.balance + n]
    BY <1>1 DEF Moved
  <2> QED BY <1>1, <2>1 DEF AccountRows
<1>2. CASE b.id # id
  BY <1>2 DEF Moved
<1> QED BY <1>1, <1>2

\* Crediting an account keeps whose the accounts are, and the transfers' ends.
LEMMA CreditKeeps ==
  ASSUME IInv, NEW id, NEW n \in Int, \A b \in accounts : b.id = id => b.balance + n \in Nat,
         accounts' = Credit(id, n), UNCHANGED <<rev, users, merchants>>
  PROVE  /\ accounts' \subseteq AccountRows
         /\ AccountsOk'
         /\ \A b \in accounts' : \E a \in accounts : b = Moved(a, id, n)
         /\ \A t, o : \A a, b \in accounts : Between(t, a, b, o) =>
              /\ Moved(a, id, n) \in accounts' /\ Moved(b, id, n) \in accounts'
              /\ Between(t, Moved(a, id, n), Moved(b, id, n), o)
<1>1. /\ \A b \in accounts' : \E a \in accounts : b = Moved(a, id, n)
      /\ \A a \in accounts : Moved(a, id, n) \in accounts'
  BY DEF Credit, Moved
<1>2. accounts \subseteq AccountRows
  BY RowTypes DEF IInv
<1>3. \A a \in accounts :
        /\ Moved(a, id, n) \in AccountRows
        /\ Moved(a, id, n).id = a.id
        /\ Moved(a, id, n).user = a.user
        /\ Moved(a, id, n).merchant = a.merchant
  BY <1>2, MovedKeeps
<1>4. Owned'
  <2> SUFFICES ASSUME NEW b \in accounts'
               PROVE  \/ b.user \in users /\ b.merchant = None /\ b.id[1] = b.user
                      \/ /\ b.user = None /\ b.merchant \in merchants /\ rev >= 7
                         /\ b.id = AccountId(b.merchant, 1)
    BY DEF Owned
  <2>1. PICK a \in accounts : b = Moved(a, id, n)
    BY <1>1
  <2> QED BY <1>3, <2>1 DEF IInv, AccountsOk, Owned
<1>5. UniqueIds'
  <2> SUFFICES ASSUME NEW b \in accounts', NEW c \in accounts', b.id = c.id PROVE b = c
    BY DEF UniqueIds
  <2>1. PICK a \in accounts : b = Moved(a, id, n)
    BY <1>1
  <2>2. PICK d \in accounts : c = Moved(d, id, n)
    BY <1>1
  <2>3. a.id = d.id
    BY <1>3, <2>1, <2>2
  <2> QED BY <2>1, <2>2, <2>3 DEF IInv, AccountsOk, UniqueIds
<1>6. OnePerUser'
  <2> SUFFICES ASSUME rev >= 2, NEW b \in accounts', NEW c \in accounts', b.user # None,
                      b.user = c.user
               PROVE  b = c
    BY DEF OnePerUser
  <2>1. PICK a \in accounts : b = Moved(a, id, n)
    BY <1>1
  <2>2. PICK d \in accounts : c = Moved(d, id, n)
    BY <1>1
  <2>3. a.user = d.user /\ a.user # None
    BY <1>3, <2>1, <2>2
  <2> QED BY <2>1, <2>2, <2>3 DEF IInv, AccountsOk, OnePerUser
<1>7. EveryMerchant'
  <2> SUFFICES ASSUME rev >= 7, NEW m \in merchants PROVE \E b \in accounts' : b.merchant = m
    BY DEF EveryMerchant
  <2>1. PICK a \in accounts : a.merchant = m
    BY DEF IInv, AccountsOk, EveryMerchant
  <2> QED BY <1>1, <1>3, <2>1
<1>8. ASSUME NEW t, NEW o, NEW a \in accounts, NEW b \in accounts, Between(t, a, b, o)
      PROVE  Between(t, Moved(a, id, n), Moved(b, id, n), o)
  <2>1. a.id # b.id
    BY <1>8 DEF IInv, AccountsOk, UniqueIds, Between
  <2>2. Moved(a, id, n) # Moved(b, id, n)
    BY <1>3, <2>1
  <2> QED BY <1>3, <1>8, <2>2 DEF Between, TypeFits
<1>9. accounts' \subseteq AccountRows
  BY <1>1, <1>3
<1> QED BY <1>1, <1>4, <1>5, <1>6, <1>7, <1>8, <1>9 DEF AccountsOk

LEMMA SettleIInv == ASSUME IInv, NEW t \in txns, Settle(t) PROVE IInv'
<1>1. /\ accounts' = Credit(t.receiver, t.amount) /\ rev >= 7 /\ jobs' = jobs \ {t.key}
      /\ UNCHANGED <<rev, schema, users, merchants, txns, cash, origin>>
  BY DEF Settle, Write
<1>2. t.amount \in Nat /\ accounts \subseteq AccountRows
  BY RowTypes, MigrationAssumption DEF IInv, TxnRows
<1>3. \A b \in accounts : b.balance + t.amount \in Nat
  BY <1>2 DEF AccountRows
<1>10. t.amount \in Int /\ UNCHANGED <<rev, users, merchants>>
  BY <1>1, <1>2
<1>4. /\ accounts' \subseteq AccountRows /\ AccountsOk'
      /\ \A b \in accounts' : \E a \in accounts : b = Moved(a, t.receiver, t.amount)
      /\ \A s, o : \A a, b \in accounts : Between(s, a, b, o) =>
           /\ Moved(a, t.receiver, t.amount) \in accounts'
           /\ Moved(b, t.receiver, t.amount) \in accounts'
           /\ Between(s, Moved(a, t.receiver, t.amount), Moved(b, t.receiver, t.amount), o)
  BY <1>1, <1>3, <1>10, CreditKeeps, Zenon
<1>5. TypeOK' /\ DOMAIN origin' = Keys
  BY <1>1, <1>4, RowTypes DEF IInv, TypeOK, AccountRows
<1>6. rev \in Int
  BY DEF IInv, TypeOK
<1>7. Legacy' /\ Origins' /\ SchemaFollowsRevision'
  BY <1>1, <1>6 DEF IInv, Legacy, Origins, SchemaFollowsRevision
<1>8. TransfersMapped'
  <2> SUFFICES ASSUME NEW s \in txns
               PROVE  /\ rev < 7 => origin[s.key] = [user |-> s.user, merchant |-> s.merchant]
                      /\ ~(rev < 7) => \E a, b \in accounts' : Between(s, a, b, origin[s.key])
    BY <1>1, MappingNext
  <2>1. CASE rev < 7
    BY <2>1, Mapping DEF IInv
  <2>2. CASE ~(rev < 7)
    <3>1. PICK a \in accounts, b \in accounts : Between(s, a, b, origin[s.key])
      BY <2>2, Mapping DEF IInv
    <3> QED BY <1>4, <2>2, <3>1, Zenon
  <2> QED BY <2>1, <2>2
<1>9. Explained'
  <2> SUFFICES ASSUME NEW b \in accounts', b.merchant # None, b.balance > 0
               PROVE  b.id \in cash \/ \E s \in txns : s.receiver = b.id
    BY <1>1 DEF Explained
  <2>1. PICK a \in accounts : b = Moved(a, t.receiver, t.amount)
    BY <1>4
  <2>2. /\ b.id = a.id /\ b.merchant = a.merchant
        /\ a.id # t.receiver => b.balance = a.balance
    BY <1>2, <1>3, <2>1, MovedKeeps
  <2> QED BY <1>1, <2>2 DEF IInv, Explained
<1> QED BY <1>4, <1>5, <1>7, <1>8, <1>9 DEF IInv

LEMMA CashCreditIInv == ASSUME IInv, NEW c \in accounts, NEW n \in Amounts, CashCredit(c, n) PROVE IInv'
<1>1. /\ accounts' = Credit(c.id, n) /\ rev >= 6 /\ cash' = cash \cup {c.id}
      /\ UNCHANGED <<rev, schema, users, merchants, txns, jobs, origin>>
  BY DEF CashCredit, Write
<1>2. n \in Nat /\ accounts \subseteq AccountRows /\ c.id \in AccountIds
  BY RowTypes, MigrationAssumption DEF IInv, AccountRows
<1>3. \A b \in accounts : b.balance + n \in Nat
  BY <1>2 DEF AccountRows
<1>4. /\ accounts' \subseteq AccountRows /\ AccountsOk'
      /\ \A b \in accounts' : \E a \in accounts : b = Moved(a, c.id, n)
      /\ \A s, o : \A a, b \in accounts : Between(s, a, b, o) =>
           /\ Moved(a, c.id, n) \in accounts' /\ Moved(b, c.id, n) \in accounts'
           /\ Between(s, Moved(a, c.id, n), Moved(b, c.id, n), o)
  BY <1>1, <1>2, <1>3, CreditKeeps
<1>5. TypeOK' /\ DOMAIN origin' = Keys
  BY <1>1, <1>2, <1>4, RowTypes DEF IInv, TypeOK, AccountRows
<1>6. rev \in Int
  BY DEF IInv, TypeOK
<1>7. Legacy' /\ Origins' /\ SchemaFollowsRevision'
  BY <1>1 DEF IInv, Legacy, Origins, SchemaFollowsRevision
<1>8. TransfersMapped'
  <2> SUFFICES ASSUME NEW s \in txns
               PROVE  /\ rev < 7 => origin[s.key] = [user |-> s.user, merchant |-> s.merchant]
                      /\ ~(rev < 7) => \E a, b \in accounts' : Between(s, a, b, origin[s.key])
    BY <1>1, MappingNext
  <2>1. CASE rev < 7
    BY <2>1, Mapping DEF IInv
  <2>2. CASE ~(rev < 7)
    <3>1. PICK a \in accounts, b \in accounts : Between(s, a, b, origin[s.key])
      BY <2>2, Mapping DEF IInv
    <3> QED BY <1>4, <2>2, <3>1, Zenon
  <2> QED BY <2>1, <2>2
<1>9. Explained'
  <2> SUFFICES ASSUME rev >= 7, NEW b \in accounts', b.merchant # None, b.balance > 0
               PROVE  b.id \in cash' \/ \E s \in txns : s.receiver = b.id
    BY <1>1 DEF Explained
  <2>1. PICK a \in accounts : b = Moved(a, c.id, n)
    BY <1>4
  <2>2. /\ b.id = a.id /\ b.merchant = a.merchant
        /\ a.id # c.id => b.balance = a.balance
    BY <1>2, <1>3, <2>1, MovedKeeps
  <2> QED BY <1>1, <2>2 DEF IInv, Explained
<1> QED BY <1>4, <1>5, <1>7, <1>8, <1>9 DEF IInv

LEMMA TransferIInv ==
  ASSUME IInv, NEW k \in Keys, NEW n \in Amounts, NEW c \in accounts, NEW d \in accounts,
         Transfer(k, c, d, n)
  PROVE  IInv'
<1> DEFINE x == [key |-> k, user |-> None, merchant |-> None,
                 type |-> IF c.user # None THEN IF d.user # None THEN "P2P" ELSE "P2M"
                          ELSE IF d.user # None THEN "M2P" ELSE "M2M",
                 sender |-> c.id, receiver |-> d.id, amount |-> n]
<1>1. /\ rev >= 7 /\ c # d /\ n \in 1 .. c.balance /\ \A t \in txns : t.key # k
      /\ txns' = txns \cup {x}
      /\ accounts' = Credit(c.id, -n) /\ jobs' = jobs \cup {k}
      /\ UNCHANGED <<rev, schema, users, merchants, cash, origin>>
  BY DEF Transfer, Write
<1>2. /\ accounts \subseteq AccountRows /\ n \in Nat /\ rev \in Int
      /\ c.id \in AccountIds /\ d.id \in AccountIds
  BY RowTypes, MigrationAssumption DEF IInv, AccountRows
<1>3. /\ x \in TxnRows /\ x.key = k /\ x.sender = c.id /\ x.receiver = d.id /\ TypeFits(x, c, d)
  BY <1>2 DEF TxnRows, TypeFits
<1> HIDE DEF x
<1>4. -n \in Int /\ \A b \in accounts : b.id = c.id => b.balance + (-n) \in Nat
  <2> SUFFICES ASSUME NEW b \in accounts, b.id = c.id PROVE b.balance + (-n) \in Nat
    BY <1>2
  <2>1. b = c
    BY DEF IInv, AccountsOk, UniqueIds
  <2>2. c.balance \in Nat
    BY <1>2 DEF AccountRows
  <2> QED BY <1>1, <1>2, <2>1, <2>2
<1>5. /\ accounts' \subseteq AccountRows /\ AccountsOk'
      /\ \A b \in accounts' : \E a \in accounts : b = Moved(a, c.id, -n)
      /\ \A s, o : \A a, b \in accounts : Between(s, a, b, o) =>
           /\ Moved(a, c.id, -n) \in accounts' /\ Moved(b, c.id, -n) \in accounts'
           /\ Between(s, Moved(a, c.id, -n), Moved(b, c.id, -n), o)
  BY <1>1, <1>4, CreditKeeps
<1>6. TypeOK' /\ DOMAIN origin' = Keys
  BY <1>1, <1>3, <1>5, RowTypes DEF IInv, TypeOK, AccountRows, TxnRows
<1>7. Legacy' /\ SchemaFollowsRevision'
  BY <1>1, <1>2 DEF IInv, Legacy, SchemaFollowsRevision
<1>8. Origins'
  BY <1>1 DEF IInv, Origins
<1>9. TransfersMapped'
  <2>1. origin[k] = None
    BY <1>1 DEF IInv, Origins
  <2>2. Between(x, c, d, origin[x.key])
    BY <1>1, <1>3, <2>1 DEF Between
  <2>3. \A t \in txns' : \E a, b \in accounts : Between(t, a, b, origin[t.key])
    <3> SUFFICES ASSUME NEW t \in txns' PROVE \E a, b \in accounts : Between(t, a, b, origin[t.key])
      OBVIOUS
    <3>1. CASE t = x
      BY <2>2, <3>1
    <3>2. CASE t \in txns
      <4>1. ~(rev < 7)
        BY <1>1, <1>2
      <4> QED BY <3>2, <4>1, Mapping DEF IInv
    <3> QED BY <1>1, <3>1, <3>2
  <2>4. \A t \in txns' : \E a, b \in accounts' : Between(t, a, b, origin[t.key])
    <3> SUFFICES ASSUME NEW t \in txns' PROVE \E a, b \in accounts' : Between(t, a, b, origin[t.key])
      OBVIOUS
    <3>1. PICK a \in accounts, b \in accounts : Between(t, a, b, origin[t.key])
      BY <2>3
    <3> QED BY <1>5, <3>1
  <2> QED BY <1>1, <1>2, <2>4, MappingNext
<1>10. Explained'
  <2> SUFFICES ASSUME NEW b \in accounts', b.merchant # None, b.balance > 0
               PROVE  b.id \in cash \/ \E s \in txns : s.receiver = b.id
    BY <1>1 DEF Explained
  <2>1. PICK a \in accounts : b = Moved(a, c.id, -n)
    BY <1>5
  <2>2. a \in AccountRows /\ -n \in Int /\ (a.id = c.id => a.balance + (-n) \in Nat)
    BY <1>2, <1>4
  <2>3. /\ b.id = a.id /\ b.merchant = a.merchant
        /\ a.id = c.id => b.balance = a.balance + (-n)
        /\ a.id # c.id => b.balance = a.balance
    BY <2>1, <2>2, MovedKeeps
  <2>4. a.balance \in Nat /\ a.balance > 0
    BY <1>2, <2>2, <2>3 DEF AccountRows
  <2> QED BY <1>1, <2>3, <2>4 DEF IInv, Explained
<1> QED BY <1>5, <1>6, <1>7, <1>8, <1>9, <1>10 DEF IInv

-----------------------------------------------------------------------------
(* The migrations. *)

\* The schema after an upgrade, and after a downgrade, is the revision's.
LEMMA UpgradeSchema ==
  ASSUME TypeOK, SchemaFollowsRevision, rev < Head
  PROVE  /\ Possible(UpgradeTo[rev + 1])
         /\ After(schema, UpgradeTo[rev + 1]) = SchemaOf(rev + 1)
<1>1. rev + 1 \in 1 .. Head /\ (rev + 1) - 1 = rev
  BY DEF TypeOK, Head
<1>2. /\ SchemaOf(rev + 1) = After(SchemaOf((rev + 1) - 1), UpgradeTo[rev + 1])
      /\ UpgradeTo[rev + 1].drops \subseteq SchemaOf((rev + 1) - 1)
      /\ UpgradeTo[rev + 1].adds \cap SchemaOf((rev + 1) - 1) = {}
  BY <1>1, SchemaChain
<1> QED BY <1>1, <1>2 DEF Possible, SchemaFollowsRevision

LEMMA DowngradeSchema ==
  ASSUME TypeOK, SchemaFollowsRevision, rev > 0
  PROVE  After(schema, DowngradeFrom[rev]) = SchemaOf(rev - 1)
<1>1. rev \in 1 .. Head
  BY DEF TypeOK, Head
<1>2. /\ SchemaOf(rev) = After(SchemaOf(rev - 1), UpgradeTo[rev])
      /\ UpgradeTo[rev].drops \subseteq SchemaOf(rev - 1)
      /\ UpgradeTo[rev].adds \cap SchemaOf(rev - 1) = {}
  BY <1>1, SchemaChain
<1>3. DowngradeFrom[rev].adds = UpgradeTo[rev].drops /\ DowngradeFrom[rev].drops = UpgradeTo[rev].adds
  BY <1>1, DowngradesMirror
<1>4. After(After(SchemaOf(rev - 1), UpgradeTo[rev]), DowngradeFrom[rev]) = SchemaOf(rev - 1)
  BY <1>2, <1>3, Undone
<1> QED BY <1>2, <1>4 DEF SchemaFollowsRevision

\* What the backfill makes of a payment that it can join.
Joined(t, a, b) == [t EXCEPT !.type = "P2M", !.sender = a.id, !.receiver = b.id]

Joins(t, a, b, x) ==
  /\ t.user # None /\ a.user = t.user /\ t.merchant # None /\ b.merchant = t.merchant
  /\ x = Joined(t, a, b)

LEMMA BackfillJoins ==
  ASSUME NEW accts, NEW t, t.sender = None, Backfill(t, accts).sender # None
  PROVE  \E a, b \in accts : Joins(t, a, b, Backfill(t, accts))
<1> DEFINE senders == {a \in accts : t.user # None /\ a.user = t.user}
           receivers == {a \in accts : t.merchant # None /\ a.merchant = t.merchant}
<1>1. Backfill(t, accts) = IF senders = {} \/ receivers = {} THEN t
                           ELSE Joined(t, CHOOSE a \in senders : TRUE, CHOOSE a \in receivers : TRUE)
  BY DEF Backfill, Joined
<1>2. senders # {} /\ receivers # {}
  BY <1>1
<1>3. (CHOOSE a \in senders : TRUE) \in senders /\ (CHOOSE a \in receivers : TRUE) \in receivers
  BY <1>2
<1> QED BY <1>1, <1>2, <1>3 DEF Joins

LEMMA BackfillFails ==
  ASSUME NEW accts, NEW t, t.user = None
  PROVE  Backfill(t, accts) = t
BY DEF Backfill

\* At revision 6 every account is a user's.
LEMMA UsersOnly ==
  ASSUME IInv, rev = 6
  PROVE  \A a \in accounts : a.user \in users /\ a.user # None /\ a.merchant = None /\ a.id[1] = a.user
BY MigrationAssumption DEF IInv, AccountsOk, Owned, TypeOK

LEMMA NewAccounts ==
  \A a \in MerchantAccounts :
    /\ a.user = None /\ a.merchant \in merchants /\ a.id = AccountId(a.merchant, 1)
    /\ a.balance = 0 /\ a.id[1] = a.merchant
    /\ a = [id |-> AccountId(a.merchant, 1), user |-> None, merchant |-> a.merchant, balance |-> 0]
BY DEF MerchantAccounts, AccountId

\* Revision 7 writes accounts and transactions, the other upgrades do not.
LEMMA UpgradeRows ==
  ASSUME Upgrade, rev \in Int
  PROVE  /\ rev = 6 => /\ accounts' = AllAccounts /\ rev' = 7 /\ TransfersComplete
                       /\ txns' = {[t EXCEPT !.user = None, !.merchant = None] : t \in Backfilled}
         /\ rev # 6 => UNCHANGED <<accounts, txns>>
         /\ UNCHANGED <<users, merchants, jobs, cash, origin>>
<1>1. CASE rev = 6
  <2>1. rev + 1 = 7
    BY <1>1
  <2> QED BY <1>1, <2>1 DEF Upgrade, UpgradeOk
<1>2. CASE rev # 6
  <2>1. rev + 1 # 7
    BY <1>2
  <2> QED BY <1>2, <2>1 DEF Upgrade
<1> QED BY <1>1, <1>2

LEMMA UpgradeAccounts ==
  ASSUME IInv, rev = 6, Upgrade
  PROVE  AccountsOk' /\ accounts' \subseteq AccountRows /\ Explained'
<1>0. rev \in Int
  OBVIOUS
<1>1. /\ accounts' = accounts \cup MerchantAccounts /\ rev' = 7
      /\ UNCHANGED <<users, merchants>>
  BY <1>0, UpgradeRows DEF AllAccounts
<1>2. \A m \in merchants : m \in Merchants /\ m # None /\ m \notin Users
  BY MigrationAssumption DEF IInv, TypeOK
<1>3. users \subseteq Users /\ accounts \subseteq AccountRows
  BY RowTypes DEF IInv
<1>4. MerchantAccounts \subseteq AccountRows
  BY <1>2 DEF MerchantAccounts, AccountRows, AccountIds, AccountId
<1>5. Owned'
  BY <1>1, UsersOnly, NewAccounts DEF Owned
<1>6. UniqueIds'
  <2> SUFFICES ASSUME NEW a \in accounts', NEW b \in accounts', a.id = b.id PROVE a = b
    BY DEF UniqueIds
  <2>1. CASE a \in accounts /\ b \in accounts
    BY <2>1 DEF IInv, AccountsOk, UniqueIds
  <2>2. CASE a \in accounts /\ b \in MerchantAccounts
    BY <1>2, <1>3, <2>2, UsersOnly, NewAccounts
  <2>3. CASE a \in MerchantAccounts /\ b \in accounts
    BY <1>2, <1>3, <2>3, UsersOnly, NewAccounts
  <2>4. CASE a \in MerchantAccounts /\ b \in MerchantAccounts
    <3>1. a.merchant = b.merchant
      BY <2>4, NewAccounts
    <3> QED BY <2>4, <3>1, NewAccounts
  <2> QED BY <1>1, <2>1, <2>2, <2>3, <2>4
<1>7. OnePerUser'
  BY <1>1, NewAccounts DEF OnePerUser, IInv, AccountsOk
<1>8. EveryMerchant'
  <2> SUFFICES ASSUME NEW m \in merchants PROVE \E a \in accounts' : a.merchant = m
    BY <1>1 DEF EveryMerchant
  <2>1. [id |-> AccountId(m, 1), user |-> None, merchant |-> m, balance |-> 0] \in MerchantAccounts
    BY DEF MerchantAccounts
  <2> QED BY <1>1, <2>1
<1>9. Explained'
  <2>1. \A a \in accounts' : a.merchant # None => a.balance = 0
    BY <1>1, UsersOnly, NewAccounts
  <2> QED BY <2>1 DEF Explained
<1> QED BY <1>1, <1>3, <1>4, <1>5, <1>6, <1>7, <1>8, <1>9 DEF AccountsOk

LEMMA UpgradeTransfers ==
  ASSUME IInv, rev = 6, Upgrade
  PROVE  txns' \subseteq TxnRows /\ TransfersMapped' /\ Origins'
<1>0. rev \in Int
  OBVIOUS
<1>1. /\ accounts' = AllAccounts /\ rev' = 7 /\ TransfersComplete
      /\ txns' = {[t EXCEPT !.user = None, !.merchant = None] : t \in Backfilled}
      /\ origin' = origin
  BY <1>0, UpgradeRows
<1>2. /\ txns \subseteq TxnRows
      /\ \A t \in txns : t.sender = None /\ origin[t.key] = [user |-> t.user, merchant |-> t.merchant]
  BY RowTypes, Mapping, SMT DEF IInv, Legacy
<1>3. ASSUME NEW t \in txns
      PROVE  \E a, b \in AllAccounts : Joins(t, a, b, Backfill(t, AllAccounts))
  <2>1. Backfill(t, AllAccounts).sender # None
    BY <1>1 DEF TransfersComplete, Backfilled
  <2>2. t.sender = None
    BY <1>2
  <2> QED BY <2>1, <2>2, BackfillJoins, Zenon
<1>4. ASSUME NEW t \in txns, NEW a \in AllAccounts, NEW b \in AllAccounts,
             NEW y, Joins(t, a, b, y), NEW x, x = [y EXCEPT !.user = None, !.merchant = None]
      PROVE  x \in TxnRows /\ x.key = t.key /\ Between(x, a, b, origin[t.key])
  <2>1. a.user # None /\ a.merchant = None /\ b.user = None
    BY <1>4, UsersOnly, NewAccounts DEF AllAccounts, Joins
  <2>2. a.id \in AccountIds /\ b.id \in AccountIds
    BY <1>1, UpgradeAccounts DEF AccountRows
  <2>3. t \in TxnRows
    BY <1>2
  <2>4. /\ x \in TxnRows /\ x.key = t.key /\ x.type = "P2M" /\ x.sender = a.id
        /\ x.receiver = b.id
    BY <1>4, <2>2, <2>3 DEF TxnRows, Joined, Joins
  <2>5. a # b
    BY <1>4, <2>1 DEF Joins
  <2>6. origin[t.key] = [user |-> a.user, merchant |-> b.merchant]
    BY <1>2, <1>4 DEF Joins
  <2> QED BY <2>1, <2>4, <2>5, <2>6 DEF Between, TypeFits
<1>5. ASSUME NEW x \in txns'
      PROVE  \E t \in txns : \E a, b \in AllAccounts :
               x \in TxnRows /\ x.key = t.key /\ Between(x, a, b, origin[t.key])
  <2>1. PICK t \in txns : x = [Backfill(t, AllAccounts) EXCEPT !.user = None, !.merchant = None]
    BY <1>1 DEF Backfilled
  <2>2. PICK a \in AllAccounts, b \in AllAccounts : Joins(t, a, b, Backfill(t, AllAccounts))
    BY <1>3
  <2>3. x \in TxnRows /\ x.key = t.key /\ Between(x, a, b, origin[t.key])
    BY <1>4, <2>1, <2>2, Zenon
  <2> QED BY <2>3
<1>6. txns' \subseteq TxnRows
  BY <1>5
<1>7. TransfersMapped'
  <2>1. \A x \in txns' : \E a, b \in accounts' : Between(x, a, b, origin'[x.key])
    BY <1>1, <1>5
  <2>2. rev' = 7
    BY <1>1
  <2>3. ~(rev' < 7)
    BY <2>2
  <2> QED BY <2>1, <2>3, MappingNext
<1>8. Origins'
  <2> SUFFICES ASSUME NEW k \in Keys, origin[k] # None PROVE \E x \in txns' : x.key = k
    BY <1>1 DEF Origins
  <2>1. PICK t \in txns : t.key = k
    BY DEF IInv, Origins
  <2>2. PICK a \in AllAccounts, b \in AllAccounts : Joins(t, a, b, Backfill(t, AllAccounts))
    BY <1>3
  <2> DEFINE x == [Backfill(t, AllAccounts) EXCEPT !.user = None, !.merchant = None]
  <2>3. x.key = t.key
    BY <1>2, <2>2 DEF TxnRows, Joined, Joins
  <2>4. x \in txns'
    BY <1>1, <2>2 DEF Backfilled
  <2> QED BY <2>1, <2>3, <2>4
<1> QED BY <1>6, <1>7, <1>8

LEMMA UpgradeIInv == ASSUME IInv, Upgrade PROVE IInv'
<1>1. /\ rev < Head /\ rev' = rev + 1 /\ UpgradeOk(rev + 1)
      /\ schema' = After(schema, UpgradeTo[rev + 1])
      /\ UNCHANGED <<users, merchants, jobs, cash, origin>>
  BY DEF Upgrade, Apply
<1>2. rev \in 0 .. Head /\ rev \in Int
  BY DEF IInv, TypeOK
<1>3. SchemaFollowsRevision' /\ rev' \in 0 .. Head /\ DOMAIN origin' = Keys
  BY <1>1, <1>2, UpgradeSchema DEF IInv, SchemaFollowsRevision, Head
<1>4. CASE rev = 6
  <2>1. AccountsOk' /\ accounts' \subseteq AccountRows /\ Explained'
    BY <1>4, UpgradeAccounts
  <2>2. txns' \subseteq TxnRows /\ TransfersMapped' /\ Origins'
    BY <1>4, UpgradeTransfers
  <2>3. TypeOK'
    BY <1>1, <1>3, <2>1, <2>2, RowTypes DEF IInv, TypeOK, AccountRows, TxnRows
  <2>4. Legacy'
    BY <1>1, <1>4, SMT DEF Legacy
  <2> QED BY <1>3, <2>1, <2>2, <2>3, <2>4 DEF IInv
<1>5. CASE rev # 6
  <2>1. UNCHANGED <<accounts, txns>>
    BY <1>2, <1>5, UpgradeRows
  <2>2. TypeOK'
    BY <1>1, <1>3, <2>1 DEF IInv, TypeOK
  <2>3. (rev' >= 7 <=> rev >= 7) /\ (rev' < 7 <=> rev < 7)
    BY <1>1, <1>2, <1>5
  <2>4. Owned' /\ UniqueIds' /\ EveryMerchant'
    BY <1>1, <2>1, <2>3 DEF IInv, AccountsOk, Owned, UniqueIds, EveryMerchant
  <2>5. OnePerUser'
    <3>1. CASE rev = 1
      BY <1>1, <2>1, <3>1, SMT DEF UpgradeOk, OnePerUser
    <3>2. CASE rev # 1
      BY <1>1, <1>2, <2>1, <3>2, SMT DEF IInv, AccountsOk, OnePerUser
    <3> QED BY <3>1, <3>2
  <2>6. Legacy' /\ Origins' /\ Explained'
    BY <1>1, <2>1, <2>3 DEF IInv, Legacy, Origins, Explained
  <2>7. TransfersMapped'
    BY <1>1, <2>1, <2>3, Mapping, MappingNext DEF IInv
  <2> QED BY <1>3, <2>2, <2>4, <2>5, <2>6, <2>7 DEF IInv, AccountsOk
<1> QED BY <1>4, <1>5

\* A downgrade of revision 7 goes through only when there is no transaction:
\* the UPDATE joins on the columns that have just been restored as NULL.
LEMMA DowngradeWithout ==
  ASSUME TypeOK, PaymentsPossible
  PROVE  txns = {} /\ Restored = {}
<1> SUFFICES ASSUME NEW t \in txns PROVE FALSE
  BY DEF Restored
<1> DEFINE x == [t EXCEPT !.user = None, !.merchant = None]
<1>1. x.user = None
  BY RowTypes DEF TxnRows
<1>2. Backfill(x, accounts) = x
  BY <1>1, BackfillFails
<1>3. Backfill(x, accounts) \in Restored
  BY DEF Restored
<1> QED BY <1>1, <1>2, <1>3 DEF PaymentsPossible

LEMMA DowngradeIInv == ASSUME IInv, Downgrade PROVE IInv'
<1>1. /\ rev > 0 /\ rev' = rev - 1 /\ DowngradeOk(rev)
      /\ schema' = After(schema, DowngradeFrom[rev])
  BY DEF Downgrade, Apply
<1>2. rev \in 0 .. Head /\ rev \in Int
  BY DEF IInv, TypeOK
<1>3. SchemaFollowsRevision' /\ rev' \in 0 .. Head
  BY <1>1, <1>2, DowngradeSchema DEF IInv, SchemaFollowsRevision, Head
<1>4. CASE rev = 1
  <2>1. /\ users' = {} /\ merchants' = {} /\ accounts' = {} /\ txns' = {}
        /\ origin' = [k \in Keys |-> None] /\ jobs' = jobs /\ cash' = cash
    BY <1>4, SMT DEF Downgrade
  <2>2. TypeOK' /\ DOMAIN origin' = Keys
    BY <1>3, <2>1 DEF IInv, TypeOK
  <2>3. AccountsOk' /\ Legacy' /\ Origins' /\ Explained'
    <3>1. ~(rev' >= 7)
      BY <1>1, <1>4
    <3> QED BY <2>1, <3>1 DEF AccountsOk, Owned, UniqueIds, OnePerUser, EveryMerchant, Legacy, Origins, Explained
  <2>4. TransfersMapped'
    BY <2>1, MappingNext
  <2> QED BY <1>3, <2>2, <2>3, <2>4 DEF IInv
<1>5. CASE rev = 7
  <2>1. txns = {} /\ Restored = {}
    BY <1>1, <1>5, DowngradeWithout DEF DowngradeOk, IInv
  <2>2. /\ accounts' = {a \in accounts : a.merchant = None} /\ txns' = {} /\ rev' = 6
        /\ UNCHANGED <<users, merchants, jobs, cash, origin>>
    BY <1>5, <2>1, SMT DEF Downgrade
  <2>3. TypeOK' /\ DOMAIN origin' = Keys
    BY <1>3, <2>2 DEF IInv, TypeOK
  <2>4. Owned'
    BY <2>2, MigrationAssumption DEF IInv, AccountsOk, Owned, TypeOK
  <2>5. UniqueIds' /\ Origins' /\ Legacy'
    BY <2>1, <2>2 DEF IInv, AccountsOk, UniqueIds, Origins, Legacy
  <2>6. OnePerUser'
    BY <1>5, <2>2 DEF IInv, AccountsOk, OnePerUser
  <2>7. EveryMerchant' /\ Explained'
    BY <2>2 DEF EveryMerchant, Explained
  <2>8. TransfersMapped'
    BY <2>2, MappingNext
  <2> QED BY <1>3, <2>3, <2>4, <2>5, <2>6, <2>7, <2>8 DEF IInv, AccountsOk
<1>6. CASE rev \notin {1, 7}
  <2>1. /\ UNCHANGED <<users, merchants, accounts, txns, origin>>
        /\ jobs' \in {{}, jobs} /\ cash' \in {{}, cash}
        /\ rev # 6 => cash' = cash
    BY <1>6 DEF Downgrade
  <2>2. TypeOK' /\ DOMAIN origin' = Keys
    BY <1>3, <2>1 DEF IInv, TypeOK
  <2>3. (rev' >= 7 <=> rev >= 7) /\ (rev' < 7 <=> rev < 7) /\ (rev' >= 2 => rev >= 2)
    BY <1>1, <1>2, <1>6
  <2>4. AccountsOk'
    BY <2>1, <2>3 DEF IInv, AccountsOk, Owned, UniqueIds, OnePerUser, EveryMerchant
  <2>5. Legacy' /\ Origins'
    BY <2>1, <2>3 DEF IInv, Legacy, Origins
  <2>6. Explained'
    <3>1. rev >= 7 => rev # 6
      OBVIOUS
    <3> QED BY <2>1, <2>3, <3>1 DEF IInv, Explained
  <2>7. TransfersMapped'
    BY <2>1, <2>3, Mapping, MappingNext DEF IInv
  <2> QED BY <1>3, <2>2, <2>4, <2>5, <2>6, <2>7 DEF IInv
<1> QED BY <1>4, <1>5, <1>6

LEMMA StepIInv == IInv /\ [Next]_vars => IInv'
<1> SUFFICES ASSUME IInv, [Next]_vars PROVE IInv'
  OBVIOUS
<1>1. CASE Upgrade
  BY <1>1, UpgradeIInv
<1>2. CASE Downgrade
  BY <1>2, DowngradeIInv
<1>3. ASSUME NEW u \in Users, AddUser(u) \/ OpenSecondAccount(u) PROVE IInv'
  BY <1>3, AddUserIInv, OpenSecondIInv
<1>4. ASSUME NEW m \in Merchants, AddMerchant(m) PROVE IInv'
  BY <1>4, AddMerchantIInv
<1>5. ASSUME NEW k \in Keys, NEW n \in Amounts, NEW u \in Users, NEW m \in Merchants, Pay(k, u, m, n)
      PROVE  IInv'
  BY <1>5, PayIInv
<1>6. ASSUME NEW k \in Keys, NEW n \in Amounts, NEW a \in accounts, NEW b \in accounts,
             Transfer(k, a, b, n)
      PROVE  IInv'
  BY <1>6, TransferIInv
<1>7. ASSUME NEW t \in txns, Settle(t) PROVE IInv'
  BY <1>7, SettleIInv
<1>8. ASSUME NEW a \in accounts, NEW n \in Amounts, CashCredit(a, n) PROVE IInv'
  BY <1>8, CashCreditIInv
<1>9. CASE UNCHANGED vars
  <2>1. UNCHANGED <<rev, schema, users, merchants, accounts, txns, jobs, cash, origin>>
    BY <1>9 DEF vars, rows
  <2>2. TypeOK' /\ SchemaFollowsRevision' /\ DOMAIN origin' = Keys
    BY <2>1 DEF IInv, TypeOK, SchemaFollowsRevision
  <2>3. AccountsOk'
    BY <2>1 DEF IInv, AccountsOk, Owned, UniqueIds, OnePerUser, EveryMerchant
  <2>4. Legacy' /\ Origins' /\ Explained'
    BY <2>1 DEF IInv, Legacy, Origins, Explained
  <2>5. TransfersMapped'
    BY <2>1, MappedMore DEF IInv
  <2> QED BY <2>2, <2>3, <2>4, <2>5 DEF IInv
<1> QED BY <1>1, <1>2, <1>3, <1>4, <1>5, <1>6, <1>7, <1>8, <1>9 DEF Next

LEMMA Inductive == Spec => []IInv
BY InitIInv, StepIInv, PTL DEF Spec

-----------------------------------------------------------------------------
(* The properties. *)

\* Every row has the columns and values of the tables, through migrations up
\* and down and whatever the applications write between them.
THEOREM MigrationTypes == Spec => []TypeOK
<1>1. IInv => TypeOK
  BY DEF IInv
<1> QED BY <1>1, Inductive, PTL

\* The chain of revisions has one schema at each revision: each downgrade()
\* takes back what its upgrade() did, and nothing is created that exists or
\* dropped that does not.
THEOREM SchemasFollow == Spec => []SchemaFollowsRevision
<1>1. IInv => SchemaFollowsRevision
  BY DEF IInv
<1> QED BY <1>1, Inductive, PTL

\* An account has one owner, a user at most one account from revision 2 on, a
\* merchant exactly one from revision 7 on, however often it was reached.
THEOREM OwnersHaveOneAccount == Spec => []OneAccountEach
<1>1. IInv => OneAccountEach
  <2> SUFFICES ASSUME IInv PROVE OneAccountEach
    OBVIOUS
  <2>1. /\ Owned /\ UniqueIds /\ OnePerUser /\ EveryMerchant
        /\ \A m \in merchants : m # None
    BY MigrationAssumption DEF IInv, AccountsOk, TypeOK
  <2>2. ASSUME rev >= 7, NEW m \in merchants
        PROVE  \E a \in accounts : \A b \in accounts : b.merchant = m <=> b = a
    <3>1. PICK a \in accounts : a.merchant = m
      BY <2>1, <2>2 DEF EveryMerchant
    <3>2. ASSUME NEW b \in accounts, b.merchant = m PROVE b = a
      <4>1. a.id = AccountId(m, 1) /\ b.id = AccountId(m, 1)
        BY <2>1, <3>1, <3>2 DEF Owned
      <4> QED BY <2>1, <4>1 DEF UniqueIds
    <3> QED BY <3>1, <3>2
  <2> QED BY <2>1, <2>2 DEF OneAccountEach, Owned, OnePerUser
<1> QED BY <1>1, Inductive, PTL

\* Every transaction names whom it is from and to in the model of the
\* revision: the backfill of revision 7 keeps a payment's user and merchant.
THEOREM TransfersKeepTheirEnds == Spec => []TransfersMapped
<1>1. IInv => TransfersMapped
  BY DEF IInv
<1> QED BY <1>1, Inductive, PTL

\* What an upgrade to revision 7 wants of the data.
LEMMA BackfillCompletes ==
  ASSUME IInv, rev = 6, Clean
  PROVE  TransfersComplete
<1>0. /\ accounts \subseteq AccountRows /\ merchants \subseteq Merchants
      /\ \A t \in txns : t.user \in users /\ t.merchant \in merchants /\ t.sender = None
  BY RowTypes, SMT DEF IInv, Legacy
<1> SUFFICES ASSUME NEW t \in txns
             PROVE  LET x == Backfill(t, AllAccounts)
                    IN  /\ x.sender # None /\ x.receiver # None /\ x.type # None
                        /\ \E a, b \in AllAccounts : a.id = x.sender /\ b.id = x.receiver
                        /\ x.sender # x.receiver
  BY DEF TransfersComplete, Backfilled
<1> DEFINE senders == {a \in AllAccounts : t.user # None /\ a.user = t.user}
           receivers == {a \in AllAccounts : t.merchant # None /\ a.merchant = t.merchant}
<1>1. t.user # None /\ t.merchant # None
  BY <1>0, MigrationAssumption DEF IInv, TypeOK
<1>2. senders # {}
  BY <1>1 DEF Clean, AllAccounts
<1>3. [id |-> AccountId(t.merchant, 1), user |-> None, merchant |-> t.merchant, balance |-> 0]
        \in MerchantAccounts
  BY <1>0 DEF MerchantAccounts
<1>4. receivers # {}
  BY <1>1, <1>3 DEF AllAccounts
<1>5. Backfill(t, AllAccounts) = Joined(t, CHOOSE a \in senders : TRUE, CHOOSE a \in receivers : TRUE)
  BY <1>2, <1>4 DEF Backfill, Joined
<1>6. PICK a \in senders, b \in receivers : Backfill(t, AllAccounts) = Joined(t, a, b)
  BY <1>2, <1>4, <1>5
<1>7. /\ a \in AllAccounts /\ b \in AllAccounts /\ a.user = t.user /\ b.merchant = t.merchant
  OBVIOUS
<1>8. a \in accounts /\ a.id \in AccountIds /\ a.id[1] = t.user
  BY <1>0, <1>1, <1>7, UsersOnly, NewAccounts DEF AllAccounts, AccountRows
<1>9. b.id = AccountId(t.merchant, 1) /\ b.id[1] = t.merchant
  BY <1>1, <1>7, UsersOnly, NewAccounts DEF AllAccounts
<1>10. t.user \in Users /\ t.merchant \in Merchants
  BY <1>0 DEF IInv, TypeOK
<1>11. b.id \in AccountIds /\ a.id # b.id
  BY <1>8, <1>9, <1>10, MigrationAssumption DEF AccountIds, AccountId
<1>12. a.id # None /\ b.id # None
  BY <1>8, <1>11, MigrationAssumption DEF AccountIds
<1>13. t \in TxnRows
  BY RowTypes DEF IInv
<1>14. /\ Joined(t, a, b).sender = a.id /\ Joined(t, a, b).receiver = b.id
       /\ Joined(t, a, b).type = "P2M"
  BY <1>13 DEF Joined, TxnRows
<1> QED BY <1>6, <1>7, <1>11, <1>12, <1>14, MigrationAssumption, Zenon

\* `alembic upgrade head` stops at no revision when every user has one account
\* or no payment.
THEOREM CleanDataUpgrades == Spec => []UpgradeGoesThrough
<1>1. IInv => UpgradeGoesThrough
  <2> SUFFICES ASSUME IInv, Clean, rev < Head PROVE UpgradeOk(rev + 1)
    BY DEF UpgradeGoesThrough
  <2>1. Possible(UpgradeTo[rev + 1])
    BY UpgradeSchema DEF IInv
  <2>2. rev \in Int
    BY DEF IInv, TypeOK
  <2>3. ASSUME rev + 1 = 2
        PROVE  /\ \A a, b \in accounts : a.user = b.user => a = b
               /\ \A a \in accounts : a.balance >= 0
               /\ \A t \in txns : t.amount > 0
    <3>0. \A a \in accounts : a.balance \in Nat
      BY RowTypes DEF IInv, TypeOK, AccountRows
    <3>1. ~(rev >= 7)
      BY <2>2, <2>3
    <3>2. \A a \in accounts : a.user # None
      BY <3>1, MigrationAssumption DEF IInv, AccountsOk, Owned, TypeOK
    <3> QED BY <3>0, <3>2 DEF Clean
  <2>4. ASSUME rev + 1 = 7 PROVE TransfersComplete
    <3>1. rev = 6
      BY <2>2, <2>4
    <3> QED BY <3>1, BackfillCompletes
  <2> QED BY <2>1, <2>3, <2>4 DEF UpgradeOk
<1> QED BY <1>1, Inductive, PTL

LEMMA BackfillKeepsKeys ==
  ASSUME NEW t \in TxnRows, NEW accts
  PROVE  LET x == [Backfill(t, accts) EXCEPT !.user = None, !.merchant = None]
         IN  x.key = t.key /\ x.amount = t.amount
<1>1. Backfill(t, accts) = t \/ \E a, b : Backfill(t, accts) = Joined(t, a, b)
  BY DEF Backfill, Joined
<1>2. CASE Backfill(t, accts) = t
  BY <1>2 DEF TxnRows
<1>3. ASSUME NEW a, NEW b, Backfill(t, accts) = Joined(t, a, b)
      PROVE  LET x == [Backfill(t, accts) EXCEPT !.user = None, !.merchant = None]
             IN  x.key = t.key /\ x.amount = t.amount
  BY <1>3 DEF Joined, TxnRows
<1> QED BY <1>1, <1>2, <1>3

LEMMA UpgradeKeepsMoney == ASSUME IInv, Upgrade PROVE KeepsMoney
<1>1. rev \in Int /\ txns \subseteq TxnRows
  BY RowTypes DEF IInv
<1>2. CASE rev = 6
  <2>1. /\ accounts' = AllAccounts
        /\ txns' = {[t EXCEPT !.user = None, !.merchant = None] : t \in Backfilled}
    BY <1>1, <1>2, UpgradeRows
  <2>2. /\ accounts \ accounts' = {}
        /\ \A a \in accounts' \ accounts : a.balance = 0 /\ a.merchant # None
    BY <2>1, NewAccounts, MigrationAssumption DEF AllAccounts, IInv, TypeOK
  <2> DEFINE Sent(t) == [Backfill(t, AllAccounts) EXCEPT !.user = None, !.merchant = None]
  <2>3. \A t \in txns : Sent(t).key = t.key /\ Sent(t).amount = t.amount
    BY <1>1, BackfillKeepsKeys
  <2>4. txns' = {Sent(t) : t \in txns}
    BY <2>1 DEF Backfilled
  <2> HIDE DEF Sent
  <2>5. {<<t.key, t.amount>> : t \in txns} = {<<t.key, t.amount>> : t \in txns'}
    BY <2>3, <2>4
  <2> QED BY <2>2, <2>5 DEF KeepsMoney
<1>3. CASE rev # 6
  <2>1. accounts' = accounts /\ txns' = txns
    BY <1>1, <1>3, UpgradeRows
  <2> QED BY <2>1 DEF KeepsMoney
<1> QED BY <1>2, <1>3

LEMMA DowngradeKeepsMoney == ASSUME IInv, Downgrade PROVE KeepsMoney
<1>0. rev \in Int
  BY DEF IInv, TypeOK
<1>1. rev \in Int /\ rev' = rev - 1 /\ DowngradeOk(rev)
  BY <1>0 DEF Downgrade
<1>2. CASE rev = 1
  <2>1. rev' = 0
    BY <1>1, <1>2
  <2> QED BY <2>1 DEF KeepsMoney
<1>3. CASE rev = 7
  <2>1. txns = {} /\ Restored = {} /\ MerchantCash = {}
    BY <1>1, <1>3, DowngradeWithout DEF DowngradeOk, IInv, PaymentsPossible
  <2>2. accounts' = {a \in accounts : a.merchant = None} /\ txns' = {}
    BY <1>3, <2>1, SMT DEF Downgrade
  <2>3. ASSUME NEW a \in accounts \ accounts' PROVE a.balance = 0 /\ a.merchant # None
    <3>1. a.merchant # None
      BY <2>2
    <3>2. a.id \notin cash /\ ~ \E t \in txns : t.receiver = a.id
      BY <2>1, <3>1 DEF MerchantCash
    <3>3. ~(a.balance > 0)
      BY <1>3, <3>1, <3>2 DEF IInv, Explained
    <3>4. a.balance \in Nat
      BY RowTypes DEF IInv, AccountRows
    <3> QED BY <3>1, <3>3, <3>4
  <2>4. accounts' \ accounts = {}
    BY <2>2
  <2> QED BY <2>1, <2>2, <2>3, <2>4 DEF KeepsMoney
<1>4. CASE rev \notin {1, 7}
  <2>1. accounts' = accounts /\ txns' = txns
    BY <1>4 DEF Downgrade
  <2> QED BY <2>1 DEF KeepsMoney
<1> QED BY <1>2, <1>3, <1>4

\* A migration makes no money and destroys none, and loses no transaction: the
\* accounts that it adds or removes are empty merchants' accounts.
THEOREM MigrationsKeepMoney == Spec => MoneyIsKept
<1>1. IInv /\ [Next]_vars => [KeepsMoney]_vars
  <2> SUFFICES ASSUME IInv, Next PROVE KeepsMoney
    OBVIOUS
  <2>1. CASE Upgrade
    BY <2>1, UpgradeKeepsMoney
  <2>2. CASE Downgrade
    BY <2>2, DowngradeKeepsMoney
  <2>3. CASE UNCHANGED rev
    BY <2>3 DEF KeepsMoney
  <2> QED BY <2>1, <2>2, <2>3 DEF Next, AddUser, OpenSecondAccount, AddMerchant, Pay, Transfer, Settle,
                                  CashCredit, Write
<1> QED BY <1>1, Inductive, PTL DEF Spec, MoneyIsKept
==============================================================================
