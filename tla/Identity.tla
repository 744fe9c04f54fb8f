------------------------------- MODULE Identity -------------------------------
(***************************************************************************)
(* Who may use the platform: users, merchants and their accounts, tokens,  *)
(* and the one manager.  Three endpoints create an owner and its account   *)
(* (register of api/routes/auth.py, manager_create_user and                *)
(* manager_create_merchant of api/routes/manager.py); the command line     *)
(* creates the manager and changes its password, beside a running API      *)
(* (scripts/manager_cli.py).  Each is a process that looks up, inserts and *)
(* commits in steps of its own, may be killed between any two, and may     *)
(* lose its connection to the database at any: no such error is caught.    *)
(* An insert waits for an uncommitted row with its key and fails on a      *)
(* committed one.  A uuid4 is named by the process that draws it, and so   *)
(* is a password.  Login is one step: it reads one row, and what follows   *)
(* depends on nothing else.                                                *)
(***************************************************************************)
EXTENDS Integers

CONSTANTS
  Processes,      \* requests to the API and runs of the command line, by uuid4
  Spellings,      \* emails as clients write them
  Normal,         \* strip().lower() of each spelling
  ManagerId,      \* DEFAULT_MANAGER_ID
  ManagerEmail,   \* DEFAULT_MANAGER_EMAIL
  NoOne,
  Requests        \* what processes are asked: records of RequestType

OwnerRoutes == {"register", "users", "merchants"}
Routes == OwnerRoutes \cup {"create_manager", "update_password"}

\* long: the name passes the request's schema and is too long for the column.
RequestType == [route : Routes, email : Spellings, long : BOOLEAN]

Emails == {Normal[s] : s \in Spellings}

ASSUME IdentityAssumption ==
  /\ Normal \in [Spellings -> Spellings]
  /\ \A s \in Spellings : Normal[Normal[s]] = Normal[s]
  /\ ManagerId \notin Processes /\ NoOne \notin Processes \cup {ManagerId}
  /\ ManagerEmail \in Emails
  /\ Requests \subseteq RequestType
  /\ \A r \in Requests : r.route \notin OwnerRoutes => r.email = ManagerEmail /\ ~r.long

VARIABLES
  owners,     \* committed rows of users and merchants
  accounts,   \* committed rows of accounts
  tokens,     \* tokens that have not expired
  pc,         \* where each process stands
  req,        \* what it was asked
  caller,     \* the user whose token it was called with
  answer      \* what it answered

vars == <<owners, accounts, tokens, pc, req, caller, answer>>

NoRequest == [route |-> "none", email |-> "none", long |-> FALSE]

Init ==
  /\ owners = {}
  /\ accounts = {}
  /\ tokens = {}
  /\ pc = [p \in Processes |-> "idle"]
  /\ req = [p \in Processes |-> NoRequest]
  /\ caller = [p \in Processes |-> NoOne]
  /\ answer = [p \in Processes |-> "none"]

-----------------------------------------------------------------------------
Table(r) == IF r.route = "merchants" THEN "merchants" ELSE "users"

\* Mutant: the email stored and looked up as it was written.
EmailAsWritten(r) == r.email

Email(r) == Normal[r.email]

\* The committed row with the email a process asks for.
Taken(p) ==
  {o \in owners : o.table = Table(req[p]) /\ o.email = Email(req[p])}

Manager == {o \in owners : o.table = "users" /\ o.email = ManagerEmail
                           /\ o.role = "admin"}

GoTo(p, label) ==
  /\ pc' = [pc EXCEPT ![p] = label]
  /\ UNCHANGED answer

Finish(p, result) ==
  /\ pc' = [pc EXCEPT ![p] = "done"]
  /\ answer' = [answer EXCEPT ![p] = result]

Arrive(p) ==
  /\ pc[p] = "idle"
  /\ \E r \in Requests :
       /\ req' = [req EXCEPT ![p] = r]
       /\ GoTo(p, IF r.route \in {"users", "merchants"} THEN "authorise" ELSE "lookup")
  /\ UNCHANGED <<owners, accounts, tokens, caller>>

\* Mutant: a valid token is enough.
AuthoriseAnyone(p) ==
  /\ pc[p] = "authorise"
  /\ \E t \in tokens : GoTo(p, "lookup") /\ caller' = [caller EXCEPT ![p] = t.sub]
  /\ UNCHANGED <<owners, accounts, tokens, req>>

\* The role is that of the users row of the token's subject, read in a session
\* of its own.
Authorise(p) ==
  /\ pc[p] = "authorise"
  /\ \/ \E t \in tokens : \E o \in owners :
          /\ o.id = t.sub
          /\ IF o.role = "admin" THEN GoTo(p, "lookup") ELSE Finish(p, "403")
          /\ caller' = [caller EXCEPT ![p] = t.sub]
     \/ Finish(p, "401") /\ UNCHANGED caller
  /\ UNCHANGED <<owners, accounts, tokens, req>>

Lookup(p) ==
  /\ pc[p] = "lookup"
  /\ req[p].route \in OwnerRoutes
  /\ IF Taken(p) # {} THEN Finish(p, "409") ELSE GoTo(p, "insert")
  /\ UNCHANGED <<owners, accounts, tokens, req, caller>>

\* Mutant: whoever has the manager's email is made the manager.
LookupManagerPromotes(p) ==
  /\ pc[p] = "lookup"
  /\ req[p].route = "create_manager"
  /\ owners' = {[o EXCEPT !.role = IF o \in Taken(p) THEN "admin" ELSE @] : o \in owners}
  /\ IF Taken(p) # {} THEN Finish(p, "exists") ELSE GoTo(p, "lookup_id")
  /\ UNCHANGED <<accounts, tokens, req, caller>>

LookupManager(p) ==
  /\ pc[p] = "lookup"
  /\ req[p].route = "create_manager"
  /\ \/ Taken(p) = {} /\ GoTo(p, "lookup_id")
     \/ \E o \in Taken(p) : Finish(p, IF o.role = "admin" THEN "exists" ELSE "refused")
  /\ UNCHANGED <<owners, accounts, tokens, req, caller>>

LookupId(p) ==
  /\ pc[p] = "lookup_id"
  /\ IF \E o \in owners : o.id = ManagerId THEN Finish(p, "refused") ELSE GoTo(p, "insert")
  /\ UNCHANGED <<owners, accounts, tokens, req, caller>>

\* Mutant: the rows of a dead connection keep their keys.
BlockedByTheDead(p) ==
  \E q \in Processes \ {p} :
    /\ pc[q] = "inserted" \/ answer[q] = "lost"
    /\ Table(req[q]) = Table(req[p]) /\ Email(req[q]) = Email(req[p])

\* Another process has inserted a row with this email and not committed it.
Blocked(p) ==
  \E q \in Processes \ {p} :
    /\ pc[q] = "inserted"
    /\ Table(req[q]) = Table(req[p]) /\ Email(req[q]) = Email(req[p])

\* Mutant: a duplicate is skipped in silence.
InsertOrSkip(p) ==
  /\ pc[p] = "insert"
  /\ req[p].long \/ ~Blocked(p)
  /\ IF req[p].long THEN Finish(p, "500")
     ELSE GoTo(p, IF Taken(p) # {} THEN "committed" ELSE "inserted")
  /\ UNCHANGED <<owners, accounts, tokens, req, caller>>

\* The flush; no error of the database is caught.
Insert(p) ==
  /\ pc[p] = "insert"
  /\ req[p].long \/ ~Blocked(p)
  /\ IF req[p].long \/ Taken(p) # {} THEN Finish(p, "500") ELSE GoTo(p, "inserted")
  /\ UNCHANGED <<owners, accounts, tokens, req, caller>>

NewOwner(p) ==
  LET cli == req[p].route = "create_manager" IN
  [table |-> Table(req[p]), id |-> IF cli THEN ManagerId ELSE p,
   email |-> Email(req[p]),
   role |-> IF cli THEN "admin" ELSE IF Table(req[p]) = "users" THEN "user" ELSE "none",
   password |-> p]

NewAccounts(p) ==
  IF req[p].route = "create_manager" THEN {}
  ELSE {[id |-> p, table |-> Table(req[p]), owner |-> p]}

\* Mutant: the user is committed before its account is made.
CommitOwnerFirst(p) ==
  /\ pc[p] = "inserted"
  /\ owners' = owners \cup {NewOwner(p)}
  /\ GoTo(p, "committed")
  /\ UNCHANGED <<accounts, tokens, req, caller>>

Commit(p) ==
  /\ pc[p] = "inserted"
  /\ owners' = owners \cup {NewOwner(p)}
  /\ accounts' = accounts \cup NewAccounts(p)
  /\ GoTo(p, "committed")
  /\ UNCHANGED <<tokens, req, caller>>

\* After the commit an endpoint reads its rows again (db.refresh), which may fail
\* like the commit's own acknowledgement: an error with everything stored.
Reply(p) ==
  /\ pc[p] = "committed"
  /\ \/ Finish(p, IF req[p].route = "update_password" THEN "updated" ELSE "201")
     \/ Finish(p, "500")
  /\ UNCHANGED <<owners, accounts, tokens, req, caller>>

FindManager(p) ==
  /\ pc[p] = "lookup"
  /\ req[p].route = "update_password"
  /\ IF Manager = {} THEN Finish(p, "missing") ELSE GoTo(p, "prompt")
  /\ UNCHANGED <<owners, accounts, tokens, req, caller>>

SetPassword(p) ==
  {IF o.id = ManagerId THEN [o EXCEPT !.password = p] ELSE o : o \in owners}

\* The two typed passwords differ or are too short, or the hash is committed.
Prompt(p) ==
  /\ pc[p] = "prompt"
  /\ \/ Finish(p, "mismatch") /\ UNCHANGED owners
     \/ owners' = SetPassword(p) /\ GoTo(p, "committed")
  /\ UNCHANGED <<accounts, tokens, req, caller>>

\* A statement before the commit, or the commit, fails and is rolled back.
DatabaseFails(p) ==
  /\ pc[p] \notin {"idle", "committed", "done"}
  /\ Finish(p, "500")
  /\ UNCHANGED <<owners, accounts, tokens, req, caller>>

\* The process ends; what it has not committed is rolled back.
Kill(p) ==
  /\ pc[p] \notin {"idle", "done"}
  /\ Finish(p, "lost")
  /\ UNCHANGED <<owners, accounts, tokens, req, caller>>

Step(p) ==
  \/ Authorise(p) \/ Lookup(p) \/ LookupManager(p) \/ LookupId(p) \/ FindManager(p)
  \/ Prompt(p) \/ Insert(p) \/ Commit(p) \/ Reply(p)

Login ==
  /\ \E o \in owners :
       /\ o.table = "users"
       /\ tokens' = tokens \cup {[sub |-> o.id, role |-> o.role]}
  /\ UNCHANGED <<owners, accounts, pc, req, caller, answer>>

TokenExpires ==
  /\ \E t \in tokens : tokens' = tokens \ {t}
  /\ UNCHANGED <<owners, accounts, pc, req, caller, answer>>

Next ==
  \/ \E p \in Processes : Arrive(p) \/ Step(p) \/ DatabaseFails(p) \/ Kill(p)
  \/ Login \/ TokenExpires

Spec == Init /\ [][Next]_vars

\* The server runs its handlers, and the operator answers the prompt.
FairSpec == Spec /\ \A p \in Processes : WF_vars(Step(p))

-----------------------------------------------------------------------------
Labels == {"idle", "authorise", "lookup", "lookup_id", "insert", "inserted",
           "prompt", "committed", "done"}

\* "500" is an error nothing catches: a response of the API, a traceback of the
\* command line.
Answers == {"none", "201", "401", "403", "409", "500", "exists", "refused",
            "missing", "mismatch", "updated", "lost"}

\* A process ends when it has answered.
TypeOK ==
  /\ owners \subseteq [table : {"users", "merchants"}, id : Processes \cup {ManagerId},
                       email : Spellings, role : {"admin", "user", "none"},
                       password : Processes]
  /\ accounts \subseteq [id : Processes, table : {"users", "merchants"}, owner : Processes]
  /\ tokens \subseteq [sub : Processes \cup {ManagerId}, role : {"admin", "user"}]
  /\ pc \in [Processes -> Labels]
  /\ req \in [Processes -> Requests \cup {NoRequest}]
  /\ caller \in [Processes -> Processes \cup {ManagerId, NoOne}]
  /\ answer \in [Processes -> Answers]
  /\ \A p \in Processes :
       /\ pc[p] = "done" <=> answer[p] # "none"
       /\ pc[p] # "idle" => req[p] \in Requests

\* However it is written, an email belongs to one user and to one merchant,
\* although every endpoint looks it up before it inserts and nothing locks it
\* in between (auth.py:33-50, manager.py:53-72, 146-163, manager_cli.py:43-89).
EmailsAreUnique ==
  \A o1, o2 \in owners :
    o1.table = o2.table /\ Normal[o1.email] = Normal[o2.email] => o1 = o2

AccountsOf(o) == {a \in accounts : a.table = o.table /\ a.owner = o.id}

\* Every user and merchant has one account, wherever its creation was cut
\* short, and every account has an owner: GET /account/me finds it and the
\* manager's listing never meets an account it answers 500 for
\* (auth.py:50-64, manager.py:250-263).
OwnersHaveAccounts ==
  /\ \A o \in owners :
       o.role # "admin" => \E a \in accounts : AccountsOf(o) = {a}
  /\ \A a \in accounts : \E o \in owners : a \in AccountsOf(o)

\* An answer tells what was stored: 201 a row of this request's own, a refusal no
\* row, 409 a row of somebody's; after "updated" the manager's password is one that
\* was typed, whatever ran beside it; and a 500, which leaves open whether the
\* commit came first (auth.py:64-65, manager.py:84-85, 175-176), at least no half:
\* the request's row as it was asked for and its account, or neither
\* (auth.py:32-72, manager_cli.py:41-148).
AnswersAreTrue ==
  \A p \in Processes :
    /\ answer[p] = "201" =>
         \E o \in owners : /\ o.table = Table(req[p]) /\ o.email = Email(req[p])
                           /\ o.id = IF req[p].route = "create_manager" THEN ManagerId ELSE p
    /\ answer[p] \in {"401", "403", "409", "exists", "refused", "missing", "mismatch"} =>
         \A o \in owners : o.id # p /\ o.password # p
    /\ answer[p] = "500" =>
         \/ \A o \in owners : o.id # p
         \/ \E o \in owners : /\ o.id = p /\ AccountsOf(o) # {}
                              /\ o.table = Table(req[p]) /\ o.email = Email(req[p])
    /\ answer[p] \in {"409", "exists"} => Taken(p) # {}
    /\ answer[p] = "updated" =>
         \E o \in Manager : req[o.password].route = "update_password"

\* Nobody is an admin but the manager that the command line made, a token's
\* role is the role its subject still has, and what a manager endpoint created
\* was asked for with the manager's token (security.py:19-34, deps.py:124-143,
\* manager_cli.py:49-66).
OnlyTheManagerManages ==
  /\ \A o \in owners :
       o.role = "admin" =>
         o.table = "users" /\ o.id = ManagerId /\ o.email = ManagerEmail
  /\ \A t \in tokens : \E o \in owners :
       o.table = "users" /\ o.id = t.sub /\ o.role = t.role
  /\ \A o \in owners :
       o.id \in Processes /\ req[o.id].route # "register" => caller[o.id] = ManagerId

RowsAreKept ==
  /\ accounts \subseteq accounts'
  /\ \A o \in owners : \E n \in owners' :
       n.table = o.table /\ n.id = o.id /\ n.email = o.email /\ n.role = o.role

\* No step takes a row away or gives it another email or role: the command
\* line promotes nobody, and the loser of a race removes nothing of the
\* winner's (manager_cli.py:49-66, auth.py:53-64).
IdentitiesAreKept == [][RowsAreKept]_vars

\* Every process gets to its answer, although inserts wait for each other.
EveryProcessAnswers ==
  \A p \in Processes : pc[p] # "idle" ~> pc[p] = "done"
==============================================================================
