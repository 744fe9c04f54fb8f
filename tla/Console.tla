------------------------------- MODULE Console -------------------------------
(***************************************************************************)
(* The web console (frontend/app.py) and its client of the API             *)
(* (frontend/api_client.py), for one browser that has several requests on  *)
(* their way at once.  The session is a signed cookie: a handler works on  *)
(* the session its request brought along, and its response replaces the    *)
(* browser's cookie, whole, if the handler changed it.  A person is named  *)
(* by the email; of the API there is what the console finds out about it.  *)
(***************************************************************************)
EXTENDS Integers

CONSTANTS
  Requests,      \* what the browser may have on its way
  Emails,        \* with an address the API takes
  ShortEmails,   \* with one its schemas refuse
  KeyIsSet,      \* FLASK_SECRET_KEY is in the environment
  None

ASSUME ConsoleAssumption ==
  /\ KeyIsSet \in BOOLEAN /\ None \notin Emails \cup ShortEmails
  /\ Emails \cap ShortEmails = {}

VARIABLES
  cookie,      \* the session in the browser
  req,         \* [Requests -> what the console knows of it]
  registered   \* the emails the API has

vars == <<cookie, req, registered>>

People == Emails \cup ShortEmails
Kinds == {"form", "login", "register", "logout", "page", "create", "replay"}

\* Access token (whose), user, flashed messages.  last_transaction_request is set
\* after a 201 only, which POST /transactions never answers to this form.
NoSession == [token |-> None, user |-> None, flash |-> {}]

\* calls: how often the API was asked to log in.  answer: the status of its first
\* answer, 0 when there was none.  page: what the response says of emails.
NoRequest ==
  [kind |-> "form", email |-> None, pc |-> "idle", session |-> NoSession,
   changed |-> FALSE, page |-> {}, calls |-> 0, answer |-> 0]

\* What the properties tell apart: "created" or "taken" is said about an email,
\* and everything else is "other".
Message(text, about) == [text |-> text, about |-> about]
Other == Message("other", None)

Init ==
  /\ cookie = NoSession
  /\ req = [r \in Requests |-> NoRequest]
  /\ registered = {}

-----------------------------------------------------------------------------
(* Responses. *)

\* redirect(): the messages stay in the session for the next page.
Redirect(r, session) ==
  req' = [req EXCEPT ![r] = [NoRequest EXCEPT !.pc = "answer", !.session = session,
                                              !.changed = TRUE]]

\* render_template(): the page shows the messages, which leave the session.
Render(r, session, message) ==
  LET said == session.flash \cup message
      changed == said # {} \/ session # req[r].session IN
  req' = [req EXCEPT ![r] =
    [NoRequest EXCEPT !.pc = "answer", !.page = said \ {Other}, !.changed = changed,
                      !.session = IF changed THEN [session EXCEPT !.flash = {}] ELSE NoSession]]

Flashed(session, message) == [session EXCEPT !.flash = @ \cup {message}]

-----------------------------------------------------------------------------
(* The browser. *)

Send(r, kind, email) ==
  /\ req[r].pc = "idle"
  /\ kind \in {"login", "register"} <=> email # None
  /\ req' = [req EXCEPT ![r] = [NoRequest EXCEPT !.kind = kind, !.email = email,
                                                 !.pc = "sent", !.session = cookie]]
  /\ UNCHANGED <<cookie, registered>>

Receive(r) ==
  /\ req[r].pc = "answer"
  /\ cookie' = IF req[r].changed THEN req[r].session ELSE cookie
  /\ req' = [req EXCEPT ![r] = NoRequest]
  /\ UNCHANGED registered

-----------------------------------------------------------------------------
(* Handlers. *)

Sent(r, kind) == req[r].pc = "sent" /\ req[r].kind = kind

\* GET /login and /register.
Form(r) ==
  /\ Sent(r, "form") /\ Render(r, req[r].session, {})
  /\ UNCHANGED <<cookie, registered>>

Logout(r) ==
  /\ Sent(r, "logout") /\ Redirect(r, Flashed(NoSession, Other))
  /\ UNCHANGED <<cookie, registered>>

\* login_required, in front of every page but the forms.
Guarded == {"page", "create", "replay"}
TurnAway(r) ==
  /\ \E k \in Guarded : Sent(r, k)
  /\ req[r].session.token = None
  /\ Redirect(r, Flashed(req[r].session, Other))
  /\ UNCHANGED <<cookie, registered>>

SignedIn(r, kind) == Sent(r, kind) /\ req[r].session.token # None

\* Dashboard, security and observability: nothing fails them.
Page(r) ==
  /\ SignedIn(r, "page") /\ Render(r, req[r].session, {})
  /\ UNCHANGED <<cookie, registered>>

\* The statuses of POST /auth/login: 429 may come from others at the console, 422
\* from the schema, for the email, for a password it finds too long, or for a form
\* in the place of JSON, which the fallback sends.
LoginStatuses(email, pc) ==
  {422, 429} \cup (IF pc = "fallback" \/ email \in ShortEmails THEN {}
                   ELSE IF email \in registered THEN {200, 401} ELSE {401})

\* Mutant: the fallback is tried after any refusal.
RetriesAny(r, status) == req[r].pc = "sent" /\ status >= 400

\* api.login tries the form encoding after a 422, and not after other failures.
Retries(r, status) == req[r].pc = "sent" /\ status = 422

Asked(r, status, pc) ==
  req' = [req EXCEPT ![r] = [req[r] EXCEPT !.calls = @ + 1, !.pc = pc,
                                           !.answer = IF req[r].calls = 0 THEN status ELSE @]]

\* Without an answer _request gives up after REQUEST_TIMEOUT, or at once: 0, which
\* also stands for a failure of the API.
LoginCall(r) ==
  /\ req[r].pc \in {"sent", "fallback"} /\ req[r].kind = "login"
  /\ \E status \in LoginStatuses(req[r].email, req[r].pc) \cup {0} :
       Asked(r, status, IF status = 200 THEN "me"
                        ELSE IF Retries(r, status) THEN "fallback" ELSE "refused")
  /\ UNCHANGED <<cookie, registered>>

LoginRefused(r) ==
  /\ req[r].pc = "refused"
  /\ Render(r, req[r].session, {Other})
  /\ UNCHANGED <<cookie, registered>>

\* Mutant: the old session is not cleared, and a failing /me leaves its user.
LoggedInOver(session, email, known) ==
  [session EXCEPT !.token = email, !.user = IF known THEN email ELSE @]

\* session.clear(), and the user from /auth/me or from the form.
LoggedIn(session, email, known) ==
  [NoSession EXCEPT !.token = email, !.user = email]

Me(r) ==
  /\ req[r].pc = "me"
  /\ \E known \in BOOLEAN :
       Redirect(r, Flashed(LoggedIn(req[r].session, req[r].email, known), Other))
  /\ UNCHANGED <<cookie, registered>>

\* Mutant: a request that got no answer counts as done.
RegisteredUnheard(status) == status \in {0, 201}

RegisteredAnswer(status) == status = 201

RegisterAnswered(r, status) ==
  IF RegisteredAnswer(status)
  THEN Redirect(r, Flashed(req[r].session, Message("created", req[r].email)))
  ELSE Render(r, req[r].session,
              {IF status = 409 THEN Message("taken", req[r].email) ELSE Other})

\* POST /auth/register: it may not be served, or be served and its answer be lost or
\* be the 500 of a refresh that fails after the commit.
RegisterCall(r) ==
  /\ Sent(r, "register")
  /\ LET email == req[r].email
         status == IF email \in ShortEmails THEN 422
                   ELSE IF email \in registered THEN 409 ELSE 201
     IN  \/ /\ registered' = IF status = 201 THEN registered \cup {email} ELSE registered
            /\ RegisterAnswered(r, status) \/ RegisterAnswered(r, 0)
         \/ RegisterAnswered(r, 0) /\ UNCHANGED registered
  /\ UNCHANGED cookie

\* POST /transactions of a session whose token may have expired.  The form sends
\* a merchant_id and the API asks for a receiver: 422, 401 or no answer.
CreateCall(r) ==
  /\ SignedIn(r, "create")
  /\ Render(r, req[r].session, {Other})
  /\ UNCHANGED <<cookie, registered>>

\* A replay finds no request to send again.
NothingToReplay(r) ==
  /\ SignedIn(r, "replay")
  /\ Render(r, req[r].session, {})
  /\ UNCHANGED <<cookie, registered>>

Handle(r) ==
  \/ Form(r) \/ Logout(r) \/ TurnAway(r) \/ Page(r)
  \/ LoginCall(r) \/ LoginRefused(r) \/ Me(r)
  \/ RegisterCall(r) \/ CreateCall(r) \/ NothingToReplay(r)

\* The console is started anew: its requests are lost, and with a SECRET_KEY of
\* its own making the cookies of before cannot be read.
Restart ==
  /\ req' = [r \in Requests |-> NoRequest]
  /\ cookie' = IF KeyIsSet THEN cookie ELSE NoSession
  /\ UNCHANGED registered

Next ==
  \/ \E r \in Requests :
       \/ \E kind \in Kinds, email \in People \cup {None} : Send(r, kind, email)
       \/ Handle(r) \/ Receive(r)
  \/ Restart

Spec == Init /\ [][Next]_vars

-----------------------------------------------------------------------------
TypeOK ==
  /\ cookie.token \in People \cup {None}
  /\ registered \subseteq Emails
  /\ \A r \in Requests : /\ req[r].pc \in {"idle", "sent", "fallback", "me", "refused", "answer"}
                         /\ req[r].calls \in 0 .. 2

\* The person shown is the person whose token the console uses, whatever the
\* order in which the responses replace the cookie (app.py, lines 137-142 and
\* 200-206).
ShownUserOwnsToken == cookie.user = cookie.token

\* "Account created successfully", and "already registered", are said of emails
\* that are registered, also when they are said late (app.py, lines 289-312).
Said == cookie.flash \cup UNION {req[r].page \cup req[r].session.flash : r \in Requests}
MessagesAreTrue ==
  \A m \in Said : m.text \in {"created", "taken"} => m.about \in registered

\* A login that the API took or refused for its password, or for the attempts before
\* it, is not asked for again: a wrong password costs one of the attempts that
\* everyone at the console shares.  What the schema refuses costs two
\* (api_client.py, lines 65-82).
RefusedLoginsCostOne ==
  \A r \in Requests : req[r].answer \in {401, 429, 200} => req[r].calls = 1
==============================================================================
