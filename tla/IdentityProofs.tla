---------------------------- MODULE IdentityProofs ----------------------------
(***************************************************************************)
(* Theorems about Identity, for any number of processes and emails.  What  *)
(* a committed row says of the process that made it is RowsInv; what a     *)
(* process may rely on at each statement is ProcInv: above all that the    *)
(* email it has inserted is nobody's, which with HoldInv keeps emails      *)
(* unique although the lookup is long past.                                *)
(***************************************************************************)
EXTENDS Identity, TLAPS

Made(p) == pc[p] \in {"committed", "done"}

RowsInv ==
  \A o \in owners :
    /\ Normal[o.email] = o.email
    /\ o.id = ManagerId <=> o.role = "admin"
    /\ o.role = "admin" => o.table = "users" /\ o.email = ManagerEmail
    /\ o.table = "users" <=> o.role # "none"
    /\ o.id \in Processes =>
         /\ Made(o.id) /\ answer[o.id] \in {"none", "201", "500", "lost"}
         /\ req[o.id].route \in OwnerRoutes
         /\ o.table = Table(req[o.id]) /\ o.email = Email(req[o.id])
         /\ req[o.id].route # "register" => caller[o.id] = ManagerId
    /\ Made(o.password) /\ answer[o.password] \in {"none", "201", "updated", "500", "lost"}

\* What a process that got past its commit has left behind.
Own(p) ==
  IF req[p].route = "update_password"
  THEN \E o \in Manager : req[o.password].route = "update_password"
  ELSE \E o \in owners :
         /\ o.table = Table(req[p]) /\ o.email = Email(req[p])
         /\ o.id = IF req[p].route = "create_manager" THEN ManagerId ELSE p

ProcInv ==
  \A p \in Processes :
    /\ pc[p] = "authorise" => req[p].route \in {"users", "merchants"}
    /\ pc[p] \in {"lookup", "insert", "inserted"} /\ req[p].route \in {"users", "merchants"}
         => caller[p] = ManagerId
    /\ pc[p] = "lookup_id" => req[p].route = "create_manager"
    /\ pc[p] \in {"insert", "inserted"} => req[p].route # "update_password"
    /\ pc[p] = "prompt" => req[p].route = "update_password" /\ Manager # {}
    /\ pc[p] = "inserted" => Taken(p) = {}
    /\ pc[p] = "committed" => Own(p)
    /\ answer[p] = "201" => Own(p) /\ req[p].route # "update_password"
    /\ answer[p] = "updated" => Own(p) /\ req[p].route = "update_password"
    /\ answer[p] \in {"409", "exists"} => Taken(p) # {}

HoldInv ==
  \A p, q \in Processes :
    p # q /\ pc[p] = "inserted" /\ pc[q] = "inserted" =>
      Table(req[p]) # Table(req[q]) \/ Email(req[p]) # Email(req[q])

AccountInv ==
  /\ \A a \in accounts : a.id = a.owner /\ \E o \in owners : a \in AccountsOf(o)
  /\ \A o \in owners : o.role # "admin" =>
       [id |-> o.id, table |-> o.table, owner |-> o.id] \in accounts

TokenInv ==
  \A t \in tokens : \E o \in owners :
    o.table = "users" /\ o.id = t.sub /\ o.role = t.role

IdentityInv ==
  /\ TypeOK /\ RowsInv /\ ProcInv /\ HoldInv /\ AccountInv /\ TokenInv
  /\ EmailsAreUnique

-----------------------------------------------------------------------------
LEMMA InitIdentity == Init => IdentityInv
  BY IdentityAssumption
     DEF Init, IdentityInv, TypeOK, RowsInv, ProcInv, HoldInv, AccountInv, TokenInv,
         EmailsAreUnique, Labels, Answers

\* The forms of a request, and its normal email.
LEMMA RequestForms ==
  ASSUME NEW r \in Requests
  PROVE  /\ r.route \in Routes /\ r.email \in Spellings /\ r.long \in BOOLEAN
         /\ Email(r) \in Spellings /\ Normal[Email(r)] = Email(r)
         /\ Table(r) \in {"users", "merchants"}
         /\ r.route \notin OwnerRoutes => Email(r) = ManagerEmail /\ Table(r) = "users"
<1>1. r \in RequestType
  BY IdentityAssumption
<1>2. \A s \in Emails : Normal[s] = s
  BY IdentityAssumption DEF Emails
<1> QED BY <1>1, <1>2, IdentityAssumption
     DEF RequestType, Routes, OwnerRoutes, Emails, Email, Table

\* A step that writes no row and keeps what processes rely on.
LEMMA NoRowWritten ==
  ASSUME IdentityInv, UNCHANGED <<owners, accounts, tokens>>,
         NEW p \in Processes,
         ~Made(p) \/ (pc[p] = "committed" /\ pc'[p] = "done"),
         TypeOK', ProcInv', HoldInv',
         pc[p] = "committed" =>
           answer'[p] \in {"201", "updated", "500", "lost"} /\ UNCHANGED <<req, caller>>
             /\ (answer'[p] = "updated" => req[p].route = "update_password"),
         \A q \in Processes \ {p} :
           /\ pc'[q] = pc[q] /\ req'[q] = req[q]
           /\ caller'[q] = caller[q] /\ answer'[q] = answer[q]
  PROVE  IdentityInv'
<1> USE DEF IdentityInv
<1>1. RowsInv'
  <2> SUFFICES ASSUME NEW o \in owners
               PROVE  /\ o.id \in Processes =>
                           /\ (Made(o.id) /\ answer[o.id] \in {"none", "201", "500", "lost"})'
                           /\ req'[o.id].route \in OwnerRoutes
                           /\ o.table = Table(req'[o.id]) /\ o.email = Email(req'[o.id])
                           /\ req'[o.id].route # "register" => caller'[o.id] = ManagerId
                      /\ (Made(o.password)
                          /\ answer[o.password] \in {"none", "201", "updated", "500", "lost"})'
    BY DEF RowsInv
  <2>1. o.password \in Processes
    BY DEF TypeOK
  <2>2. CASE pc[p] = "committed"
    BY <2>1, <2>2 DEF RowsInv, Made, TypeOK, OwnerRoutes
  <2>3. CASE pc[p] # "committed"
    BY <2>1, <2>3 DEF RowsInv, Made
  <2> QED BY <2>2, <2>3
<1>2. AccountInv' /\ TokenInv' /\ EmailsAreUnique'
  BY DEF AccountInv, TokenInv, EmailsAreUnique, AccountsOf
<1> QED BY <1>1, <1>2

\* The row a commit adds, and the row a new password changes.
LEMMA NewOwnerForm ==
  ASSUME TypeOK, NEW p \in Processes, pc[p] = "inserted"
  PROVE  LET o == NewOwner(p) IN
         /\ o.table = Table(req[p]) /\ o.email = Email(req[p]) /\ o.password = p
         /\ o.id = IF req[p].route = "create_manager" THEN ManagerId ELSE p
         /\ o.role = IF req[p].route = "create_manager" THEN "admin"
                     ELSE IF Table(req[p]) = "users" THEN "user" ELSE "none"
         /\ o \in [table : {"users", "merchants"}, id : Processes \cup {ManagerId},
                   email : Spellings, role : {"admin", "user", "none"},
                   password : Processes]
<1>1. req[p] \in Requests
  BY DEF TypeOK
<1> QED BY <1>1, RequestForms DEF NewOwner

LEMMA PasswordForm ==
  ASSUME TypeOK, NEW p \in Processes, owners' = SetPassword(p)
  PROVE  /\ owners' \subseteq [table : {"users", "merchants"}, id : Processes \cup {ManagerId},
                       email : Spellings, role : {"admin", "user", "none"},
                       password : Processes]
         /\ \A n \in owners' : \E o \in owners :
              /\ n.table = o.table /\ n.id = o.id /\ n.email = o.email /\ n.role = o.role
              /\ n.password = IF o.id = ManagerId THEN p ELSE o.password
              /\ n = IF o.id = ManagerId THEN [o EXCEPT !.password = p] ELSE o
         /\ \A o \in owners : \E n \in owners' :
              /\ n.table = o.table /\ n.id = o.id /\ n.email = o.email /\ n.role = o.role
              /\ n.password = IF o.id = ManagerId THEN p ELSE o.password
<1> DEFINE Row == [table : {"users", "merchants"}, id : Processes \cup {ManagerId},
                   email : Spellings, role : {"admin", "user", "none"},
                   password : Processes]
           g(o) == IF o.id = ManagerId THEN [o EXCEPT !.password = p] ELSE o
<1>1. ASSUME NEW o \in owners
      PROVE  /\ g(o) \in Row
             /\ g(o).table = o.table /\ g(o).id = o.id /\ g(o).email = o.email
             /\ g(o).role = o.role
             /\ g(o).password = IF o.id = ManagerId THEN p ELSE o.password
  <2>1. o \in Row
    BY DEF TypeOK
  <2>2. CASE o.id = ManagerId
    BY <2>1, <2>2
  <2>3. CASE o.id # ManagerId
    BY <2>1, <2>3
  <2> QED BY <2>2, <2>3
<1>2. owners' = {g(o) : o \in owners}
  BY DEF SetPassword
<1> HIDE DEF g
<1>3. /\ \A n \in owners' : \E o \in owners : n = g(o)
      /\ \A o \in owners : g(o) \in owners'
  BY <1>2
<1>4. \A n \in owners' : \E o \in owners :
              /\ n.table = o.table /\ n.id = o.id /\ n.email = o.email /\ n.role = o.role
              /\ n.password = IF o.id = ManagerId THEN p ELSE o.password
              /\ n = IF o.id = ManagerId THEN [o EXCEPT !.password = p] ELSE o
  BY <1>1, <1>3 DEF g
<1> QED BY <1>1, <1>3, <1>4

LEMMA TypeStep == TypeOK /\ RowsInv /\ [Next]_vars => TypeOK'
<1> SUFFICES ASSUME TypeOK, RowsInv, [Next]_vars PROVE TypeOK'
  OBVIOUS
<1> USE IdentityAssumption DEF TypeOK, Labels, Answers, GoTo, Finish
<1>1. ASSUME NEW p \in Processes, Arrive(p) PROVE TypeOK'
  <2>1. PICK r \in Requests : req' = [req EXCEPT ![p] = r]
    BY <1>1 DEF Arrive
  <2> QED BY <1>1, <2>1 DEF Arrive
<1>2. ASSUME NEW p \in Processes, Authorise(p) PROVE TypeOK'
  BY <1>2 DEF Authorise
<1>3. ASSUME NEW p \in Processes,
             Lookup(p) \/ LookupManager(p) \/ LookupId(p) \/ FindManager(p) PROVE TypeOK'
  BY <1>3 DEF Lookup, LookupManager, LookupId, FindManager
<1>4. ASSUME NEW p \in Processes, Insert(p) \/ Reply(p) \/ DatabaseFails(p) \/ Kill(p)
      PROVE  TypeOK'
  BY <1>4 DEF Insert, Reply, DatabaseFails, Kill
<1>5. ASSUME NEW p \in Processes, Commit(p) PROVE TypeOK'
  <2>1. req[p] \in Requests /\ pc[p] = "inserted"
    BY <1>5 DEF Commit
  <2>2. Table(req[p]) \in {"users", "merchants"}
    BY <2>1, RequestForms
  <2>3. NewAccounts(p) \subseteq
          [id : Processes, table : {"users", "merchants"}, owner : Processes]
    BY <2>2 DEF NewAccounts
  <2> QED BY <1>5, <2>1, <2>3, NewOwnerForm DEF Commit
<1>6. ASSUME NEW p \in Processes, Prompt(p) PROVE TypeOK'
  <2>1. CASE UNCHANGED owners
    BY <1>6, <2>1 DEF Prompt
  <2>2. CASE owners' = SetPassword(p)
    <3>1. owners' \subseteq [table : {"users", "merchants"}, id : Processes \cup {ManagerId},
                            email : Spellings, role : {"admin", "user", "none"},
                            password : Processes]
      BY <2>2, PasswordForm
    <3> QED BY <1>6, <3>1 DEF Prompt
  <2> QED BY <1>6, <2>1, <2>2 DEF Prompt
<1>7. CASE Login
  <2>1. PICK o \in owners : o.table = "users"
                         /\ tokens' = tokens \cup {[sub |-> o.id, role |-> o.role]}
    BY <1>7 DEF Login
  <2>2. o.role \in {"admin", "user"}
    BY <2>1 DEF RowsInv
  <2> QED BY <1>7, <2>1, <2>2 DEF Login
<1>8. CASE TokenExpires
  BY <1>8 DEF TokenExpires
<1>9. CASE UNCHANGED vars
  BY <1>9 DEF vars
<1> QED BY <1>1, <1>2, <1>3, <1>4, <1>5, <1>6, <1>7, <1>8, <1>9 DEF Next, Step

\* Every step but a commit, a new password and the tokens' own.
LEMMA LocalStep ==
  ASSUME IdentityInv, NEW p \in Processes,
         \/ Arrive(p) \/ Authorise(p) \/ Lookup(p) \/ LookupManager(p) \/ LookupId(p)
         \/ FindManager(p) \/ Insert(p) \/ Reply(p) \/ DatabaseFails(p) \/ Kill(p)
         \/ Prompt(p) /\ UNCHANGED owners
  PROVE  IdentityInv'
<1> USE IdentityAssumption DEF IdentityInv, GoTo, Finish
<1>1. TypeOK'
  <2>1. [Next]_vars
    BY DEF Next, Step
  <2> QED BY <2>1, TypeStep
<1>2. /\ UNCHANGED <<owners, accounts, tokens>>
      /\ ~Made(p) \/ (pc[p] = "committed" /\ pc'[p] = "done")
      /\ \A q \in Processes \ {p} :
           /\ pc'[q] = pc[q] /\ req'[q] = req[q]
           /\ caller'[q] = caller[q] /\ answer'[q] = answer[q]
      /\ pc[p] = "committed" =>
           answer'[p] \in {"201", "updated", "500", "lost"} /\ UNCHANGED <<req, caller>>
             /\ (answer'[p] = "updated" => req[p].route = "update_password")
  BY DEF TypeOK, Made, Arrive, Authorise, Lookup, LookupManager, LookupId, FindManager,
         Insert, Reply, DatabaseFails, Kill, Prompt
<1>3. ASSUME NEW q \in Processes, req'[q] = req[q]
      PROVE  Taken(q)' = Taken(q) /\ Manager' = Manager
  BY <1>2, <1>3 DEF Taken, Manager
<1>6. ASSUME NEW q \in Processes, Own(q), req'[q] = req[q], pc[q] # "idle"
       PROVE  Own(q)'
  <2>1. CASE req[q].route = "update_password"
    <3>1. PICK o \in Manager : req[o.password].route = "update_password"
      BY <1>6, <2>1 DEF Own
    <3>2. o \in owners /\ o.password \in Processes
      BY <3>1 DEF Manager, TypeOK
    <3>3. req'[o.password] = req[o.password]
      <4>1. CASE o.password # p
        BY <1>2, <3>2, <4>1
      <4>2. CASE o.password = p
        <5>1. Made(p)
          BY <3>2, <4>2 DEF RowsInv
        <5> QED BY <1>2, <4>2, <5>1
      <4> QED BY <4>1, <4>2
    <3>4. o \in Manager'
      BY <1>2, <3>1 DEF Manager
    <3> QED BY <1>6, <2>1, <3>1, <3>3, <3>4 DEF Own
  <2>2. CASE req[q].route # "update_password"
    BY <1>2, <1>6, <2>2 DEF Own
  <2> QED BY <2>1, <2>2
<1>4. ProcInv'
  <2> DEFINE P(q) ==
        /\ pc[q] = "authorise" => req[q].route \in {"users", "merchants"}
        /\ pc[q] \in {"lookup", "insert", "inserted"} /\ req[q].route \in {"users", "merchants"}
             => caller[q] = ManagerId
        /\ pc[q] = "lookup_id" => req[q].route = "create_manager"
        /\ pc[q] \in {"insert", "inserted"} => req[q].route # "update_password"
        /\ pc[q] = "prompt" => req[q].route = "update_password" /\ Manager # {}
        /\ pc[q] = "inserted" => Taken(q) = {}
        /\ pc[q] = "committed" => Own(q)
        /\ answer[q] = "201" => Own(q) /\ req[q].route # "update_password"
        /\ answer[q] = "updated" => Own(q) /\ req[q].route = "update_password"
        /\ answer[q] \in {"409", "exists"} => Taken(q) # {}
  <2>1. \A q \in Processes : P(q)
    BY DEF ProcInv
  <2>2. ASSUME NEW q \in Processes \ {p} PROVE P(q)'
    <3>1. P(q) /\ Taken(q)' = Taken(q) /\ Manager' = Manager
      BY <1>2, <1>3, <2>1
    <3>2. Own(q) /\ pc[q] # "idle" => Own(q)'
      BY <1>2, <1>6
    <3>3. answer[q] # "none" => pc[q] # "idle"
      BY DEF TypeOK
    <3> HIDE DEF IdentityInv
    <3> QED BY <1>2, <3>1, <3>2, <3>3
  <2>3. P(p)'
    <3>1. CASE Arrive(p)
      BY <3>1 DEF Arrive, TypeOK
    <3>2. CASE Authorise(p)
      <4>1. ASSUME NEW o \in owners, o.role = "admin" PROVE o.id = ManagerId
        BY <4>1 DEF RowsInv
      <4> QED BY <2>1, <3>2, <4>1 DEF Authorise, TypeOK
    <3>3. CASE Lookup(p)
      BY <1>3, <2>1, <3>3 DEF Lookup, TypeOK, OwnerRoutes
    <3>4. CASE LookupManager(p)
      BY <1>3, <2>1, <3>4 DEF LookupManager, TypeOK
    <3>5. CASE LookupId(p)
      BY <1>3, <2>1, <3>5 DEF LookupId, TypeOK
    <3>6. CASE FindManager(p)
      BY <1>3, <2>1, <3>6 DEF FindManager, TypeOK
    <3>7. CASE Insert(p)
      BY <1>3, <2>1, <3>7 DEF Insert, TypeOK
    <3>8. CASE Reply(p)
      <4>1. Own(p)'
        BY <1>6, <2>1, <3>8 DEF Reply
      <4> QED BY <1>3, <2>1, <3>8, <4>1 DEF Reply, TypeOK
    <3>9. CASE DatabaseFails(p) \/ Kill(p)
      BY <3>9 DEF DatabaseFails, Kill, TypeOK
    <3>10. CASE Prompt(p) /\ UNCHANGED owners
      <4>1. CASE answer'[p] = "mismatch" /\ pc'[p] = "done"
        BY <4>1
      <4>2. CASE owners' = SetPassword(p) /\ GoTo(p, "committed")
        <5>1. Manager # {} /\ req[p].route = "update_password"
          BY <2>1, <3>10 DEF Prompt
        <5>2. PICK o \in owners : o.table = "users" /\ o.email = ManagerEmail /\ o.role = "admin"
          BY <5>1 DEF Manager
        <5>3. o.id = ManagerId
          BY <5>2 DEF RowsInv
        <5>4. PICK n \in owners' : /\ n.table = o.table /\ n.email = o.email
                                   /\ n.role = o.role /\ n.password = p
          BY <4>2, <5>3, PasswordForm
        <5>5. n \in owners /\ Made(p)
          BY <1>2, <5>4 DEF RowsInv
        <5> QED BY <3>10, <5>5 DEF Prompt, Made
      <4> QED BY <3>10, <4>1, <4>2 DEF Prompt, TypeOK
    <3> QED BY <3>1, <3>2, <3>3, <3>4, <3>5, <3>6, <3>7, <3>8, <3>9, <3>10
  <2>4. \A q \in Processes : P(q)'
    BY <2>2, <2>3
  <2> QED BY <2>4 DEF ProcInv
<1>5. HoldInv'
  <2>1. CASE ~Insert(p)
    <3>1. pc'[p] # "inserted"
      BY <2>1 DEF TypeOK, Arrive, Authorise, Lookup, LookupManager, LookupId,
                  FindManager, Reply, DatabaseFails, Kill, Prompt
    <3> QED BY <1>2, <3>1 DEF HoldInv
  <2>2. CASE Insert(p)
    <3>1. UNCHANGED req
      BY <2>2 DEF Insert
    <3>2. pc'[p] = "inserted" => ~Blocked(p)
      BY <2>2 DEF Insert, TypeOK
    <3> QED BY <1>2, <3>1, <3>2 DEF HoldInv, Blocked
  <2> QED BY <2>1, <2>2
<1> HIDE DEF IdentityInv
<1> QED BY <1>1, <1>2, <1>4, <1>5, NoRowWritten

LEMMA CommitStep ==
  ASSUME IdentityInv, NEW p \in Processes, Commit(p)
  PROVE  IdentityInv'
<1> DEFINE new == NewOwner(p)
<1> HIDE DEF new
<1> USE IdentityAssumption DEF IdentityInv, GoTo
<1>1. TypeOK'
  <2>1. [Next]_vars
    BY DEF Next, Step
  <2> QED BY <2>1, TypeStep
<1>2. /\ pc[p] = "inserted" /\ answer[p] = "none" /\ req[p] \in Requests
      /\ owners' = owners \cup {new}
      /\ accounts' = accounts \cup NewAccounts(p)
      /\ UNCHANGED <<tokens, req, caller, answer>>
      /\ pc'[p] = "committed"
      /\ \A q \in Processes \ {p} : pc'[q] = pc[q]
  BY DEF Commit, TypeOK, new
<1>3. /\ new.table = Table(req[p]) /\ new.email = Email(req[p]) /\ new.password = p
      /\ new.id = IF req[p].route = "create_manager" THEN ManagerId ELSE p
      /\ new.role = IF req[p].route = "create_manager" THEN "admin"
                    ELSE IF Table(req[p]) = "users" THEN "user" ELSE "none"
  BY <1>2, NewOwnerForm DEF new
<1>4. /\ req[p].route \in OwnerRoutes \cup {"create_manager"}
      /\ req[p].route \in {"users", "merchants"} => caller[p] = ManagerId
      /\ req[p].route = "create_manager" => Email(req[p]) = ManagerEmail /\ Table(req[p]) = "users"
      /\ Normal[Email(req[p])] = Email(req[p])
      /\ Table(req[p]) \in {"users", "merchants"}
  BY <1>2, RequestForms DEF ProcInv, Routes, OwnerRoutes
<1>5. \A o \in owners : o.table # new.table \/ o.email # new.email
  BY <1>2, <1>3 DEF ProcInv, Taken
<1>6. \A o \in owners : o.id # p /\ o.password # p
  BY <1>2 DEF RowsInv, Made
<1>7. RowsInv'
  <2>1. ASSUME NEW o \in owners
        PROVE  /\ o.id \in Processes => Made(o.id)'
               /\ Made(o.password)'
    BY <1>2, <1>6, <2>1 DEF RowsInv, Made, TypeOK
  <2>2. ASSUME NEW o \in owners
        PROVE  /\ Normal[o.email] = o.email
               /\ o.id = ManagerId <=> o.role = "admin"
               /\ o.role = "admin" => o.table = "users" /\ o.email = ManagerEmail
               /\ o.table = "users" <=> o.role # "none"
               /\ o.id \in Processes =>
                    /\ Made(o.id)' /\ answer'[o.id] \in {"none", "201", "500", "lost"}
                    /\ req'[o.id].route \in OwnerRoutes
                    /\ o.table = Table(req'[o.id]) /\ o.email = Email(req'[o.id])
                    /\ req'[o.id].route # "register" => caller'[o.id] = ManagerId
               /\ Made(o.password)'
               /\ answer'[o.password] \in {"none", "201", "updated", "500", "lost"}
    BY <1>2, <2>1 DEF RowsInv
  <2>3. /\ Normal[new.email] = new.email
        /\ new.id = ManagerId <=> new.role = "admin"
        /\ new.role = "admin" => new.table = "users" /\ new.email = ManagerEmail
        /\ new.table = "users" <=> new.role # "none"
        /\ new.id \in Processes =>
             /\ pc'[new.id] \in {"committed", "done"} /\ answer'[new.id] \in {"none", "201", "500", "lost"}
             /\ req'[new.id].route \in OwnerRoutes
             /\ new.table = Table(req'[new.id]) /\ new.email = Email(req'[new.id])
             /\ req'[new.id].route # "register" => caller'[new.id] = ManagerId
        /\ pc'[new.password] \in {"committed", "done"}
        /\ answer'[new.password] \in {"none", "201", "updated", "500", "lost"}
    <3>1. CASE req[p].route = "create_manager"
      BY <1>2, <1>3, <1>4, <3>1 DEF Made
    <3>2. CASE req[p].route # "create_manager"
      BY <1>2, <1>3, <1>4, <3>2 DEF Made, OwnerRoutes
    <3> QED BY <3>1, <3>2
  <2>4. \A o \in owners' : o \in owners \/ o = new
    BY <1>2
  <2> QED BY <2>2, <2>3, <2>4 DEF RowsInv, Made
<1>8. ASSUME NEW q \in Processes, Own(q) PROVE Own(q)'
  BY <1>2, <1>8 DEF Own, Manager
<1>9. ProcInv'
  <2>1. Own(p)'
    BY <1>2, <1>3, <1>4 DEF Own, OwnerRoutes
  <2>2. Manager # {} => Manager' # {}
    BY <1>2 DEF Manager
  <2>3. ASSUME NEW q \in Processes
        PROVE  /\ Taken(q) # {} => Taken(q)' # {}
               /\ pc'[q] = "inserted" => Taken(q)' = {}
    <3>1. Taken(q) # {} => Taken(q)' # {}
      BY <1>2 DEF Taken
    <3>2. ASSUME pc'[q] = "inserted" PROVE Taken(q)' = {}
      <4>1. q # p /\ pc[q] = "inserted"
        BY <1>2, <3>2
      <4>2. Table(req[q]) # new.table \/ Email(req[q]) # new.email
        BY <1>2, <1>3, <4>1 DEF HoldInv
      <4>3. Taken(q) = {}
        BY <4>1 DEF ProcInv
      <4> QED BY <1>2, <4>2, <4>3 DEF Taken
    <3> QED BY <3>1, <3>2
  <2> QED BY <1>2, <1>8, <2>1, <2>2, <2>3 DEF ProcInv
<1>10. HoldInv'
  BY <1>2 DEF HoldInv
<1>11. AccountInv'
  <2>1. ASSUME NEW a \in accounts' PROVE a.id = a.owner /\ \E o \in owners' : (a \in AccountsOf(o))'
    <3>1. CASE a \in accounts
      BY <1>2, <3>1 DEF AccountInv, AccountsOf
    <3>2. CASE a \in NewAccounts(p)
      BY <1>2, <1>3, <3>2 DEF NewAccounts, AccountsOf
    <3> QED BY <1>2, <3>1, <3>2
  <2>2. ASSUME NEW o \in owners', o.role # "admin"
        PROVE  [id |-> o.id, table |-> o.table, owner |-> o.id] \in accounts'
    <3>1. CASE o \in owners
      BY <1>2, <2>2, <3>1 DEF AccountInv
    <3>2. CASE o = new
      BY <1>2, <1>3, <2>2, <3>2 DEF NewAccounts
    <3> QED BY <1>2, <3>1, <3>2
  <2> QED BY <2>1, <2>2 DEF AccountInv
<1>12. TokenInv'
  BY <1>2 DEF TokenInv
<1>13. EmailsAreUnique'
  <2>1. \A o \in owners' : Normal[o.email] = o.email
    BY <1>7 DEF RowsInv
  <2>2. ASSUME NEW o1 \in owners', NEW o2 \in owners', o1.table = o2.table, o1.email = o2.email
        PROVE  o1 = o2
    <3>1. CASE o1 \in owners /\ o2 \in owners
      BY <2>2, <3>1 DEF EmailsAreUnique
    <3>2. CASE o1 = new \/ o2 = new
      BY <1>2, <1>5, <2>2, <3>2
    <3> QED BY <1>2, <3>1, <3>2
  <2> QED BY <2>1, <2>2 DEF EmailsAreUnique
<1> QED BY <1>1, <1>7, <1>9, <1>10, <1>11, <1>12, <1>13

LEMMA PasswordStep ==
  ASSUME IdentityInv, NEW p \in Processes, Prompt(p), owners' = SetPassword(p),
         GoTo(p, "committed")
  PROVE  IdentityInv'
<1> USE IdentityAssumption DEF IdentityInv, GoTo
<1>1. TypeOK'
  <2>1. [Next]_vars
    BY DEF Next, Step
  <2> QED BY <2>1, TypeStep
<1>2. /\ pc[p] = "prompt" /\ answer[p] = "none" /\ req[p].route = "update_password"
      /\ UNCHANGED <<accounts, tokens, req, caller, answer>>
      /\ pc'[p] = "committed"
      /\ \A q \in Processes \ {p} : pc'[q] = pc[q]
  BY DEF Prompt, TypeOK, ProcInv
<1>3. \A n \in owners' : \E o \in owners :
        /\ n.table = o.table /\ n.id = o.id /\ n.email = o.email /\ n.role = o.role
        /\ n.password = IF o.id = ManagerId THEN p ELSE o.password
        /\ n = IF o.id = ManagerId THEN [o EXCEPT !.password = p] ELSE o
  BY PasswordForm
<1>4. \A o \in owners : \E n \in owners' :
        /\ n.table = o.table /\ n.id = o.id /\ n.email = o.email /\ n.role = o.role
        /\ n.password = IF o.id = ManagerId THEN p ELSE o.password
  BY PasswordForm
<1>5. \A q \in Processes : Made(q) => Made(q)'
  BY <1>2 DEF Made
<1>6. RowsInv'
  <2> SUFFICES ASSUME NEW n \in owners'
               PROVE  /\ Normal[n.email] = n.email
                      /\ n.id = ManagerId <=> n.role = "admin"
                      /\ n.role = "admin" => n.table = "users" /\ n.email = ManagerEmail
                      /\ n.table = "users" <=> n.role # "none"
                      /\ n.id \in Processes =>
                           /\ Made(n.id)' /\ answer[n.id] \in {"none", "201", "500", "lost"}
                           /\ req[n.id].route \in OwnerRoutes
                           /\ n.table = Table(req[n.id]) /\ n.email = Email(req[n.id])
                           /\ req[n.id].route # "register" => caller[n.id] = ManagerId
                      /\ Made(n.password)'
                      /\ answer[n.password] \in {"none", "201", "updated", "500", "lost"}
    BY <1>2 DEF RowsInv
  <2>1. PICK o \in owners :
          /\ n.table = o.table /\ n.id = o.id /\ n.email = o.email /\ n.role = o.role
          /\ n.password = IF o.id = ManagerId THEN p ELSE o.password
    BY <1>3
  <2>2. /\ o.password \in Processes /\ Made(o.password)
        /\ answer[o.password] \in {"none", "201", "updated", "500", "lost"}
    BY DEF RowsInv, TypeOK
  <2>3. Made(n.password)' /\ answer[n.password] \in {"none", "201", "updated", "500", "lost"}
    BY <1>2, <1>5, <2>1, <2>2 DEF Made
  <2> QED BY <1>5, <2>1, <2>3 DEF RowsInv
<1>7. (Manager # {} => Manager' # {}) /\ \A q \in Processes : Taken(q)' = {} <=> Taken(q) = {}
  BY <1>2, <1>3, <1>4 DEF Manager, Taken
<1>8. ASSUME NEW q \in Processes, Own(q) PROVE Own(q)'
  <2>1. CASE req[q].route = "update_password"
    <3>1. PICK o \in owners : o.table = "users" /\ o.email = ManagerEmail /\ o.role = "admin"
      BY <1>8, <2>1 DEF Own, Manager
    <3>2. o.id = ManagerId
      BY <3>1 DEF RowsInv
    <3>3. PICK n \in owners' : /\ n.table = o.table /\ n.email = o.email /\ n.role = o.role
                              /\ n.password = p
      BY <1>4, <3>2
    <3> QED BY <1>2, <2>1, <3>1, <3>3 DEF Own, Manager
  <2>2. CASE req[q].route # "update_password"
    BY <1>2, <1>4, <1>8, <2>2 DEF Own
  <2> QED BY <2>1, <2>2
<1>9. ProcInv'
  <2>1. Own(p)'
    <3>1. PICK o \in owners : o.table = "users" /\ o.email = ManagerEmail /\ o.role = "admin"
      BY <1>2 DEF ProcInv, Manager
    <3>2. o.id = ManagerId
      BY <3>1 DEF RowsInv
    <3>3. PICK n \in owners' : /\ n.table = o.table /\ n.email = o.email /\ n.role = o.role
                              /\ n.password = p
      BY <1>4, <3>2
    <3> QED BY <1>2, <3>1, <3>3 DEF Own, Manager
  <2> QED BY <1>2, <1>7, <1>8, <2>1 DEF ProcInv
<1>10. HoldInv'
  BY <1>2 DEF HoldInv
<1>11. AccountInv'
  <2>1. ASSUME NEW a \in accounts PROVE a.id = a.owner /\ \E n \in owners' : (a \in AccountsOf(n))'
    <3>1. PICK o \in owners : a \in AccountsOf(o)
      BY DEF AccountInv
    <3>2. PICK n \in owners' : n.table = o.table /\ n.id = o.id
      BY <1>4
    <3> QED BY <1>2, <3>1, <3>2 DEF AccountInv, AccountsOf
  <2>2. \A n \in owners' : n.role # "admin" =>
          [id |-> n.id, table |-> n.table, owner |-> n.id] \in accounts
    BY <1>3 DEF AccountInv
  <2> QED BY <1>2, <2>1, <2>2 DEF AccountInv
<1>12. TokenInv'
  BY <1>2, <1>4 DEF TokenInv
<1>13. EmailsAreUnique'
  <2> SUFFICES ASSUME NEW n1 \in owners', NEW n2 \in owners', n1.table = n2.table,
                      Normal[n1.email] = Normal[n2.email]
               PROVE  n1 = n2
    BY DEF EmailsAreUnique
  <2>1. PICK o1 \in owners :
          /\ n1.table = o1.table /\ n1.email = o1.email
          /\ n1 = IF o1.id = ManagerId THEN [o1 EXCEPT !.password = p] ELSE o1
    BY <1>3
  <2>2. PICK o2 \in owners :
          /\ n2.table = o2.table /\ n2.email = o2.email
          /\ n2 = IF o2.id = ManagerId THEN [o2 EXCEPT !.password = p] ELSE o2
    BY <1>3
  <2>3. o1 = o2
    BY <2>1, <2>2 DEF EmailsAreUnique
  <2> QED BY <2>1, <2>2, <2>3
<1> QED BY <1>1, <1>6, <1>9, <1>10, <1>11, <1>12, <1>13

LEMMA TokenStep ==
  ASSUME IdentityInv, Login \/ TokenExpires \/ UNCHANGED vars
  PROVE  IdentityInv'
<1>1. TypeOK'
  BY TypeStep DEF IdentityInv, Next
<1>2. UNCHANGED <<owners, accounts, pc, req, caller, answer>>
  BY DEF Login, TokenExpires, vars
<1>3. TokenInv'
  <2>1. CASE Login
    <3>1. PICK o \in owners : o.table = "users"
                         /\ tokens' = tokens \cup {[sub |-> o.id, role |-> o.role]}
      BY <2>1 DEF Login
    <3> QED BY <1>2, <3>1 DEF IdentityInv, TokenInv
  <2>2. CASE TokenExpires
    BY <1>2, <2>2 DEF IdentityInv, TokenInv, TokenExpires
  <2>3. CASE UNCHANGED vars
    BY <2>3 DEF IdentityInv, TokenInv, vars
  <2> QED BY <2>1, <2>2, <2>3
<1>4. /\ RowsInv' /\ ProcInv' /\ HoldInv' /\ AccountInv' /\ EmailsAreUnique'
  BY <1>2 DEF IdentityInv, RowsInv, ProcInv, HoldInv, AccountInv, EmailsAreUnique,
              Made, Own, Taken, Manager, AccountsOf
<1> QED BY <1>1, <1>3, <1>4 DEF IdentityInv

LEMMA IdentityStep == IdentityInv /\ [Next]_vars => IdentityInv'
<1> SUFFICES ASSUME IdentityInv, [Next]_vars PROVE IdentityInv'
  OBVIOUS
<1>1. ASSUME NEW p \in Processes, Prompt(p) PROVE IdentityInv'
  <2>1. UNCHANGED owners \/ (owners' = SetPassword(p) /\ GoTo(p, "committed"))
    BY <1>1 DEF Prompt
  <2> QED BY <1>1, <2>1, LocalStep, PasswordStep
<1>2. ASSUME NEW p \in Processes, Arrive(p) \/ Step(p) \/ DatabaseFails(p) \/ Kill(p) PROVE IdentityInv'
  BY <1>1, <1>2, LocalStep, CommitStep DEF Step
<1> QED BY <1>2, TokenStep DEF Next

LEMMA IdentityInvariant == Spec => []IdentityInv
  BY InitIdentity, IdentityStep, PTL DEF Spec

-----------------------------------------------------------------------------
\* Types, and an end of every process with one answer.
THEOREM IdentityTypes == Spec => []TypeOK
  BY IdentityInvariant, PTL DEF IdentityInv

\* An email belongs to one user and to one merchant, however many
\* registrations race for it (auth.py:33-50, manager.py:146-163).
THEOREM EmailsStayUnique == Spec => []EmailsAreUnique
  BY IdentityInvariant, PTL DEF IdentityInv

\* Every user and merchant has one account, and every account an owner, through
\* any crash (auth.py:50-64, manager.py:250-263).
THEOREM OwnersKeepAccounts == Spec => []OwnersHaveAccounts
<1>1. IdentityInv => OwnersHaveAccounts
  <2> SUFFICES ASSUME IdentityInv PROVE OwnersHaveAccounts
    OBVIOUS
  <2>1. ASSUME NEW o \in owners, o.role # "admin"
        PROVE  \E a \in accounts : AccountsOf(o) = {a}
    <3> DEFINE a == [id |-> o.id, table |-> o.table, owner |-> o.id]
    <3>1. a \in AccountsOf(o)
      BY <2>1 DEF IdentityInv, AccountInv, AccountsOf
    <3>2. ASSUME NEW b \in AccountsOf(o) PROVE b = a
      <4>1. b.id = o.id /\ b.table = o.table /\ b.owner = o.id
        BY DEF IdentityInv, AccountInv, AccountsOf
      <4>2. b \in [id : Processes, table : {"users", "merchants"}, owner : Processes]
        BY DEF IdentityInv, TypeOK, AccountsOf
      <4> QED BY <4>1, <4>2
    <3> HIDE DEF a
    <3> QED BY <3>1, <3>2 DEF AccountsOf
  <2>2. \A a \in accounts : \E o \in owners : a \in AccountsOf(o)
    BY DEF IdentityInv, AccountInv
  <2> QED BY <2>1, <2>2 DEF OwnersHaveAccounts
<1> QED BY <1>1, IdentityInvariant, PTL

\* What a process answered is what it stored, and what answered 500 stored its row
\* with its account or nothing (auth.py:32-72, manager.py:84-85, 175-176,
\* manager_cli.py:41-148).
THEOREM AnswersStayTrue == Spec => []AnswersAreTrue
<1>1. IdentityInv => AnswersAreTrue
  <2> SUFFICES ASSUME IdentityInv, NEW p \in Processes
               PROVE  /\ answer[p] = "201" => Own(p) /\ req[p].route # "update_password"
                      /\ answer[p] = "updated" => Own(p) /\ req[p].route = "update_password"
                      /\ answer[p] \in {"401", "403", "409", "exists", "refused",
                                        "missing", "mismatch"} =>
                           \A o \in owners : o.id # p /\ o.password # p
                      /\ answer[p] = "500" =>
                           \/ \A o \in owners : o.id # p
                           \/ \E o \in owners : /\ o.id = p /\ AccountsOf(o) # {}
                                                /\ o.table = Table(req[p])
                                                /\ o.email = Email(req[p])
                      /\ answer[p] \in {"409", "exists"} => Taken(p) # {}
    BY DEF AnswersAreTrue, Own
  <2>1. answer[p] \in {"401", "403", "409", "exists", "refused", "missing", "mismatch"} =>
          \A o \in owners : o.id # p /\ o.password # p
    BY DEF IdentityInv, RowsInv
  <2>2. ASSUME NEW o \in owners, o.id = p
        PROVE  AccountsOf(o) # {} /\ o.table = Table(req[p]) /\ o.email = Email(req[p])
    <3>1. o.table = Table(req[p]) /\ o.email = Email(req[p])
      BY <2>2 DEF IdentityInv, RowsInv
    <3>2. o.role # "admin"
      BY <2>2, IdentityAssumption DEF IdentityInv, RowsInv
    <3>3. [id |-> o.id, table |-> o.table, owner |-> o.id] \in AccountsOf(o)
      BY <3>2 DEF IdentityInv, AccountInv, AccountsOf
    <3> QED BY <3>1, <3>3
  <2> QED BY <2>1, <2>2 DEF IdentityInv, ProcInv
<1> QED BY <1>1, IdentityInvariant, PTL

\* No admin but the command line's manager, no token with another role than its
\* subject's, and nothing made by a manager endpoint without the manager's token
\* (security.py:19-34, deps.py:124-143).
THEOREM ManagerStaysAlone == Spec => []OnlyTheManagerManages
<1>1. IdentityInv => OnlyTheManagerManages
  BY DEF IdentityInv, RowsInv, TokenInv, OnlyTheManagerManages
<1> QED BY <1>1, IdentityInvariant, PTL

\* No step removes a row or changes its email or role (manager_cli.py:49-66).
THEOREM IdentitiesStay == Spec => IdentitiesAreKept
<1>1. ASSUME TypeOK, [Next]_vars PROVE [RowsAreKept]_vars
  <2>1. CASE UNCHANGED <<owners, accounts>>
    BY <2>1 DEF RowsAreKept
  <2>2. ASSUME NEW p \in Processes, Commit(p) PROVE RowsAreKept
    BY <2>2 DEF Commit, RowsAreKept
  <2>3. ASSUME NEW p \in Processes, Prompt(p), owners' = SetPassword(p) PROVE RowsAreKept
    <3>1. accounts' = accounts
      BY <2>3 DEF Prompt
    <3>2. \A o \in owners : \E n \in owners' :
            n.table = o.table /\ n.id = o.id /\ n.email = o.email /\ n.role = o.role
      BY <1>1, <2>3, PasswordForm
    <3> QED BY <3>1, <3>2 DEF RowsAreKept
  <2> QED BY <1>1, <2>1, <2>2, <2>3
       DEF Next, Step, Arrive, Authorise, Lookup, LookupManager, LookupId, FindManager,
           Prompt, Insert, Reply, DatabaseFails, Kill, Login, TokenExpires, vars
<1>2. Spec => []TypeOK
  BY IdentityTypes
<1>3. TypeOK /\ [Next]_vars => [RowsAreKept]_vars
  BY <1>1
<1> QED BY <1>2, <1>3, PTL DEF Spec, IdentitiesAreKept
==============================================================================
