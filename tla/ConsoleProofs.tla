----------------------------- MODULE ConsoleProofs -----------------------------
(***************************************************************************)
(* The console's sessions belong to one person and its messages are true,  *)
(* for any number of requests of the browser and of people.  The argument: *)
(* every session there is, in the cookie, with a request or on its way     *)
(* back, is good by itself, and stays so when more emails are registered;  *)
(* so it does not matter which of them the browser keeps.                  *)
(***************************************************************************)
EXTENDS Console, TLAPS

Messages == [text : {"created", "taken", "other"}, about : People \cup {None}]

Sessions == [token : People \cup {None}, user : People \cup {None},
             flash : SUBSET Messages]

Places == {"idle", "sent", "fallback", "me", "refused", "answer"}
Statuses == {0, 200, 401, 422, 429}

RequestStates ==
  [kind : Kinds, email : People \cup {None}, pc : Places, session : Sessions,
   changed : BOOLEAN, page : SUBSET Messages, calls : 0 .. 2, answer : Statuses]

AreTrue(messages, emails) ==
  \A m \in messages : m.text \in {"created", "taken"} => m.about \in emails

GoodSession(s, emails) ==
  s \in Sessions /\ s.user = s.token /\ AreTrue(s.flash, emails)

\* What has been asked of the API, and that only what its schemas refuse gets to
\* the fallback.
Counted(x) ==
  /\ x.pc \in {"idle", "sent", "answer"} => x.calls = 0 /\ x.answer = 0
  /\ x.pc = "fallback" => x.calls = 1 /\ x.answer = 422
  /\ x.answer \in {401, 429, 200} => x.calls = 1
  /\ x.kind \in {"login", "register"} /\ x.pc \notin {"idle", "answer"} => x.email \in People
  /\ x.pc \in {"fallback", "me", "refused"} => x.kind = "login"

GoodRequest(x, emails) ==
  x \in RequestStates /\ GoodSession(x.session, emails) /\ AreTrue(x.page, emails) /\ Counted(x)

ConsoleInv ==
  /\ GoodSession(cookie, registered)
  /\ registered \subseteq Emails
  /\ req \in [Requests -> RequestStates]
  /\ \A r \in Requests : GoodRequest(req[r], registered)

-----------------------------------------------------------------------------
\* What was true of the registered emails is true of more of them.
LEMMA StaysGood ==
  ASSUME NEW x, NEW s, NEW early, NEW late, early \subseteq late
  PROVE  /\ GoodSession(s, early) => GoodSession(s, late)
         /\ GoodRequest(x, early) => GoodRequest(x, late)
  BY DEF GoodSession, GoodRequest, AreTrue

\* A handler changes its own request, and may register an email.
LEMMA OneRequest ==
  ASSUME ConsoleInv, NEW r \in Requests, NEW x,
         req' = [req EXCEPT ![r] = x],
         registered \subseteq registered', registered' \subseteq Emails,
         GoodRequest(x, registered'),
         UNCHANGED cookie
  PROVE  ConsoleInv'
  <1>1. x \in RequestStates
    BY DEF GoodRequest
  <1>2. req' \in [Requests -> RequestStates]
    BY <1>1 DEF ConsoleInv
  <1>3. GoodSession(cookie', registered')
    BY StaysGood DEF ConsoleInv
  <1>5. ASSUME NEW q \in Requests PROVE GoodRequest(req'[q], registered')
    <2>1. CASE q = r
      BY <2>1 DEF ConsoleInv
    <2>2. CASE q # r
      <3>1. req'[q] = req[q] /\ GoodRequest(req[q], registered)
        BY <2>2 DEF ConsoleInv
      <3>2. QED
        BY <3>1, StaysGood
    <2>3. QED
      BY <2>1, <2>2
  <1>6. QED
    BY <1>2, <1>3, <1>5 DEF ConsoleInv

LEMMA InitialGood ==
  /\ \A emails : GoodSession(NoSession, emails)
  /\ \A emails : GoodRequest(NoRequest, emails)
  /\ Other \in Messages /\ \A emails : AreTrue({Other}, emails)
  BY DEF NoSession, NoRequest, Other, Message, Messages, Sessions, RequestStates, Kinds, Places, Statuses,
         GoodSession, GoodRequest, AreTrue, Counted

LEMMA AllPlaces == "sent" \in Places /\ "answer" \in Places
  BY DEF Places

LEMMA BlankRequest ==
  /\ NoRequest \in RequestStates
  /\ NoRequest.email = None /\ NoRequest.page = {} /\ NoRequest.calls = 0 /\ NoRequest.answer = 0
  <1>1. NoSession \in Sessions
    BY DEF NoSession, Sessions
  <1>2. QED
    BY <1>1 DEF NoRequest, RequestStates, Kinds, Places, Statuses

\* A redirect answers with a good session if it is given one.
LEMMA RedirectGood ==
  ASSUME ConsoleInv, NEW r \in Requests, NEW s,
         registered \subseteq registered', registered' \subseteq Emails,
         GoodSession(s, registered'),
         Redirect(r, s), UNCHANGED cookie
  PROVE  ConsoleInv'
  <1> DEFINE x == [NoRequest EXCEPT !.pc = "answer", !.session = s, !.changed = TRUE]
  <1>2. GoodRequest(x, registered')
    <2>1. s \in Sessions
      BY DEF GoodSession
    <2>2. x \in RequestStates
      BY <2>1, BlankRequest, AllPlaces DEF RequestStates
    <2>3. x.pc = "answer" /\ x.session = s /\ x.page = {} /\ x.calls = 0 /\ x.answer = 0
      BY BlankRequest DEF RequestStates
    <2> HIDE DEF x
    <2>4. Counted(x)
      BY <2>3 DEF Counted
    <2>5. QED
      BY <2>2, <2>3, <2>4 DEF GoodRequest, AreTrue
  <1>3. req' = [req EXCEPT ![r] = x]
    BY DEF Redirect
  <1> HIDE DEF x
  <1>4. QED
    BY <1>2, <1>3, OneRequest

\* So does a page, and what it shows is true.
LEMMA RenderGood ==
  ASSUME ConsoleInv, NEW r \in Requests, NEW s, NEW message \in SUBSET Messages,
         registered \subseteq registered', registered' \subseteq Emails,
         GoodSession(s, registered'), AreTrue(message, registered'),
         Render(r, s, message), UNCHANGED cookie
  PROVE  ConsoleInv'
  <1> DEFINE said == s.flash \cup message
             page == said \ {Other}
             changed == said # {} \/ s # req[r].session
             kept == IF changed THEN [s EXCEPT !.flash = {}] ELSE NoSession
             x == [NoRequest EXCEPT !.pc = "answer", !.page = page, !.changed = changed, !.session = kept]
  <1>2. page \in SUBSET Messages /\ AreTrue(page, registered')
    BY DEF GoodSession, AreTrue, Sessions
  <1>3. changed \in BOOLEAN
    OBVIOUS
  <1>4. GoodSession([s EXCEPT !.flash = {}], registered')
    BY DEF GoodSession, AreTrue, Sessions
  <1>5. GoodSession(kept, registered')
    BY <1>4, InitialGood
  <1>6. req' = [req EXCEPT ![r] = x]
    BY DEF Render
  <1> HIDE DEF said, page, changed, kept
  <1>7. GoodRequest(x, registered')
    <2>1. kept \in Sessions
      BY <1>5 DEF GoodSession
    <2>2. x \in RequestStates
      BY <1>2, <1>3, <2>1, BlankRequest, AllPlaces DEF RequestStates
    <2>3. x.pc = "answer" /\ x.session = kept /\ x.page = page /\ x.calls = 0 /\ x.answer = 0
      BY BlankRequest DEF RequestStates
    <2> HIDE DEF x
    <2>4. Counted(x)
      BY <2>3 DEF Counted
    <2>5. QED
      BY <1>2, <1>5, <2>2, <2>3, <2>4 DEF GoodRequest
  <1> HIDE DEF x
  <1>8. QED
    BY <1>6, <1>7, OneRequest

LEMMA FlashedGood ==
  ASSUME NEW s, NEW message \in Messages, NEW emails,
         GoodSession(s, emails), AreTrue({message}, emails)
  PROVE  GoodSession(Flashed(s, message), emails)
  BY DEF Flashed, GoodSession, AreTrue, Sessions

-----------------------------------------------------------------------------
\* The session a request brought along is good.
LEMMA BroughtAlong ==
  ASSUME ConsoleInv, NEW r \in Requests
  PROVE  GoodSession(req[r].session, registered)
  BY DEF ConsoleInv, GoodRequest

\* Handlers that only answer.
LEMMA PlainHandlers ==
  ASSUME ConsoleInv, NEW r \in Requests,
         \/ Form(r) \/ Logout(r) \/ TurnAway(r) \/ Page(r) \/ LoginRefused(r)
         \/ NothingToReplay(r)
  PROVE  ConsoleInv'
  <1> USE InitialGood, BroughtAlong
  <1>1. registered \subseteq Emails
    BY DEF ConsoleInv
  <1>2. AreTrue({}, registered)
    BY DEF AreTrue
  <1>3. CASE Form(r) \/ Page(r) \/ NothingToReplay(r)
    BY <1>1, <1>2, <1>3, RenderGood DEF Form, Page, NothingToReplay
  <1>4. CASE Logout(r)
    <2>1. GoodSession(Flashed(NoSession, Other), registered)
      BY FlashedGood
    <2>2. QED
      BY <1>1, <1>4, <2>1, RedirectGood DEF Logout
  <1>5. CASE TurnAway(r)
    <2>1. GoodSession(Flashed(req[r].session, Other), registered)
      BY FlashedGood
    <2>2. QED
      BY <1>1, <1>5, <2>1, RedirectGood DEF TurnAway
  <1>6. CASE LoginRefused(r)
    BY <1>1, <1>6, RenderGood DEF LoginRefused
  <1>7. QED
    BY <1>3, <1>4, <1>5, <1>6

\* Asking for a token counts, and only a 422 is asked again.
LEMMA LoginCallGood ==
  ASSUME ConsoleInv, ConsoleAssumption, NEW r \in Requests, LoginCall(r)
  PROVE  ConsoleInv'
  <1>1. req[r].pc \in {"sent", "fallback"} /\ req[r].kind = "login"
    BY DEF LoginCall
  <1>2. PICK status \in {0, 200, 401, 422, 429}, pc2 \in {"me", "fallback", "refused"} :
          /\ Asked(r, status, pc2)
          /\ pc2 = "fallback" => req[r].pc = "sent" /\ status = 422
    <2>2. ASSUME NEW status \in LoginStatuses(req[r].email, req[r].pc) \cup {0},
                 Asked(r, status, IF status = 200 THEN "me"
                                  ELSE IF Retries(r, status) THEN "fallback" ELSE "refused")
          PROVE  \E st \in {0, 200, 401, 422, 429}, pc2 \in {"me", "fallback", "refused"} :
                   /\ Asked(r, st, pc2)
                   /\ pc2 = "fallback" => req[r].pc = "sent" /\ st = 422
      <3>1. status \in {0, 200, 401, 422, 429}
        BY <2>2 DEF LoginStatuses
      <3>2. CASE status = 200
        BY <2>2, <3>1, <3>2
      <3>3. CASE status # 200 /\ Retries(r, status)
        BY <2>2, <3>1, <3>3 DEF Retries
      <3>4. CASE status # 200 /\ ~Retries(r, status)
        BY <2>2, <3>1, <3>4
      <3>5. QED
        BY <3>2, <3>3, <3>4
    <2>3. QED
      BY <2>2 DEF LoginCall
  <1> DEFINE first == IF req[r].calls = 0 THEN status ELSE req[r].answer
             x == [req[r] EXCEPT !.calls = @ + 1, !.pc = pc2, !.answer = first]
  <1>3. GoodRequest(req[r], registered)
    BY DEF ConsoleInv
  <1>4. req[r].pc = "sent" => req[r].calls = 0
    BY <1>3 DEF GoodRequest, Counted
  <1>5. req[r].pc = "fallback" => req[r].calls = 1 /\ req[r].answer = 422
    BY <1>3 DEF GoodRequest, Counted
  <1>6. x \in RequestStates
    <2>1. req[r] \in RequestStates
      BY <1>3 DEF GoodRequest
    <2>2. req[r].calls + 1 \in 0 .. 2
      BY <1>1, <1>4, <1>5
    <2>3. [req[r] EXCEPT !.calls = @ + 1] \in RequestStates
      BY <2>1, <2>2 DEF RequestStates
    <2>4. first \in Statuses /\ pc2 \in Places
      BY <2>1 DEF Statuses, Places, RequestStates
    <2> HIDE DEF first
    <2>5. QED
      BY <2>3, <2>4 DEF RequestStates
  <1>7. x.session = req[r].session /\ x.page = req[r].page /\ x.email = req[r].email
        /\ x.kind = "login" /\ x.answer = first /\ x.pc = pc2 /\ x.calls = req[r].calls + 1
    BY <1>1, <1>3 DEF GoodRequest, RequestStates
  <1>8. req[r].email \in People
    BY <1>1, <1>3 DEF GoodRequest, Counted
  <1>9. req[r].pc = "fallback" => first = 422
    BY <1>5
  <1>10. req[r].pc = "sent" => first = status
    BY <1>4
  <1>11. req' = [req EXCEPT ![r] = x]
    BY <1>2 DEF Asked
  <1> HIDE DEF x, first
  <1>12. Counted(x)
    BY <1>1, <1>2, <1>4, <1>5, <1>7, <1>8, <1>9, <1>10 DEF Counted
  <1>13. GoodRequest(x, registered)
    BY <1>3, <1>6, <1>7, <1>12 DEF GoodRequest
  <1>14. registered' = registered /\ registered \subseteq Emails /\ UNCHANGED cookie
    BY DEF LoginCall, ConsoleInv
  <1>15. QED
    BY <1>11, <1>13, <1>14, OneRequest

\* The new session is the caller's alone.
LEMMA MeGood ==
  ASSUME ConsoleInv, NEW r \in Requests, Me(r)
  PROVE  ConsoleInv'
  <1>1. req[r].email \in People
    BY DEF Me, ConsoleInv, GoodRequest, Counted
  <1>2. PICK known \in BOOLEAN :
          Redirect(r, Flashed(LoggedIn(req[r].session, req[r].email, known), Other))
    BY DEF Me
  <1>3. GoodSession(LoggedIn(req[r].session, req[r].email, known), registered)
    BY <1>1 DEF LoggedIn, NoSession, GoodSession, Sessions, AreTrue
  <1>4. GoodSession(Flashed(LoggedIn(req[r].session, req[r].email, known), Other), registered)
    BY <1>3, InitialGood, FlashedGood
  <1>5. registered' = registered /\ registered \subseteq Emails /\ UNCHANGED cookie
    BY DEF Me, ConsoleInv
  <1>6. QED
    BY <1>2, <1>4, <1>5, RedirectGood

\* "created" is said after 201 and "taken" after 409 only, and both tell of a
\* registered email.
LEMMA RegisterGood ==
  ASSUME ConsoleInv, NEW r \in Requests, RegisterCall(r)
  PROVE  ConsoleInv'
  <1> DEFINE email == req[r].email
             made == Message("created", email)
             taken == Message("taken", email)
  <1>1. email \in People
    BY DEF RegisterCall, Sent, ConsoleInv, GoodRequest, Counted
  <1>2. made \in Messages /\ taken \in Messages
    BY <1>1 DEF Message, Messages
  <1>3. PICK status \in {0, 201, 409, 422} :
          /\ RegisterAnswered(r, status)
          /\ registered \subseteq registered' /\ registered' \subseteq Emails
          /\ status \in {201, 409} => email \in registered'
    BY <1>1 DEF RegisterCall, ConsoleInv, People
  <1>4. UNCHANGED cookie
    BY DEF RegisterCall
  <1>5. GoodSession(req[r].session, registered')
    BY <1>3, BroughtAlong, StaysGood
  <1>6. CASE status = 201
    <2>1. AreTrue({made}, registered')
      BY <1>3, <1>6 DEF AreTrue, Message
    <2> HIDE DEF made
    <2>2. GoodSession(Flashed(req[r].session, made), registered')
      BY <1>2, <1>5, <2>1, FlashedGood
    <2>3. Redirect(r, Flashed(req[r].session, made))
      BY <1>3, <1>6 DEF RegisterAnswered, RegisteredAnswer, made
    <2>4. QED
      BY <1>3, <1>4, <2>2, <2>3, RedirectGood
  <1>7. CASE status # 201
    <2> DEFINE said == {IF status = 409 THEN taken ELSE Other}
    <2>1. said \in SUBSET Messages /\ AreTrue(said, registered')
      BY <1>2, <1>3, <1>7, InitialGood DEF AreTrue, Message
    <2>2. Render(r, req[r].session, said)
      BY <1>3, <1>7 DEF RegisterAnswered, RegisteredAnswer
    <2> HIDE DEF said
    <2>3. QED
      BY <1>3, <1>4, <1>5, <2>1, <2>2, RenderGood
  <1>8. QED
    BY <1>6, <1>7

LEMMA CreateGood ==
  ASSUME ConsoleInv, NEW r \in Requests, CreateCall(r)
  PROVE  ConsoleInv'
  <1>1. registered' = registered /\ registered \subseteq Emails /\ UNCHANGED cookie
    BY DEF CreateCall, ConsoleInv
  <1>2. QED
    BY <1>1, BroughtAlong, InitialGood, RenderGood DEF CreateCall

LEMMA HandleGood ==
  ASSUME ConsoleInv, ConsoleAssumption, NEW r \in Requests, Handle(r)
  PROVE  ConsoleInv'
  BY PlainHandlers, LoginCallGood, MeGood, RegisterGood, CreateGood DEF Handle

\* A request takes the cookie along.
LEMMA SendGood ==
  ASSUME ConsoleInv, ConsoleAssumption, NEW r \in Requests, NEW kind \in Kinds,
         NEW email \in People \cup {None}, Send(r, kind, email)
  PROVE  ConsoleInv'
  <1> DEFINE x == [NoRequest EXCEPT !.kind = kind, !.email = email, !.pc = "sent",
                                    !.session = cookie]
  <1>1. kind \in {"login", "register"} => email \in People
    BY DEF Send
  <1>2. GoodSession(cookie, registered) /\ registered \subseteq Emails
    BY DEF ConsoleInv
  <1>3. GoodRequest(x, registered)
    <2>1. cookie \in Sessions
      BY <1>2 DEF GoodSession
    <2>2. x \in RequestStates
      BY <2>1, BlankRequest, AllPlaces DEF RequestStates
    <2>3. /\ x.pc = "sent" /\ x.session = cookie /\ x.page = {} /\ x.calls = 0 /\ x.answer = 0
          /\ x.kind = kind /\ x.email = email
      BY BlankRequest DEF RequestStates
    <2> HIDE DEF x
    <2>4. Counted(x)
      BY <1>1, <2>3 DEF Counted
    <2>5. QED
      BY <1>2, <2>2, <2>3, <2>4 DEF GoodRequest, AreTrue
  <1>4. req' = [req EXCEPT ![r] = x] /\ registered' = registered /\ UNCHANGED cookie
    BY DEF Send
  <1> HIDE DEF x
  <1>5. QED
    BY <1>2, <1>3, <1>4, OneRequest

\* An answer brings its session to the cookie.
LEMMA ReceiveGood ==
  ASSUME ConsoleInv, NEW r \in Requests, Receive(r)
  PROVE  ConsoleInv'
  <1>1. GoodRequest(req[r], registered) /\ registered' = registered
    BY DEF ConsoleInv, Receive
  <1>2. GoodSession(cookie', registered')
    BY <1>1 DEF Receive, ConsoleInv, GoodRequest
  <1>4. req' = [req EXCEPT ![r] = NoRequest] /\ registered \subseteq Emails
    BY DEF Receive, ConsoleInv
  <1>5. GoodRequest(NoRequest, registered) /\ NoRequest \in RequestStates
    BY InitialGood DEF GoodRequest
  <1>6. req' \in [Requests -> RequestStates]
        /\ \A q \in Requests : GoodRequest(req'[q], registered')
    BY <1>1, <1>4, <1>5 DEF ConsoleInv
  <1>7. QED
    BY <1>1, <1>2, <1>4, <1>6 DEF ConsoleInv

-----------------------------------------------------------------------------
LEMMA InitConsole == Init => ConsoleInv
  <1> SUFFICES ASSUME Init PROVE ConsoleInv
    OBVIOUS
  <1>1. NoRequest \in RequestStates
    BY InitialGood DEF GoodRequest
  <1>2. QED
    BY <1>1, InitialGood DEF Init, ConsoleInv, AreTrue

LEMMA NextConsole == ConsoleInv /\ [Next]_vars => ConsoleInv'
  <1> SUFFICES ASSUME ConsoleInv, [Next]_vars PROVE ConsoleInv'
    OBVIOUS
  <1> USE ConsoleAssumption
  <1>1. ASSUME NEW r \in Requests, NEW kind \in Kinds, NEW email \in People \cup {None},
               Send(r, kind, email)
        PROVE  ConsoleInv'
    BY <1>1, SendGood
  <1>2. ASSUME NEW r \in Requests, Handle(r) PROVE ConsoleInv'
    BY <1>2, HandleGood
  <1>3. ASSUME NEW r \in Requests, Receive(r) PROVE ConsoleInv'
    BY <1>3, ReceiveGood
  <1>4. CASE Restart
    <2>1. NoRequest \in RequestStates /\ GoodRequest(NoRequest, registered)
      BY InitialGood DEF GoodRequest
    <2>2. GoodSession(cookie', registered)
      BY <1>4, InitialGood DEF Restart, ConsoleInv
    <2>3. QED
      BY <1>4, <2>1, <2>2 DEF Restart, ConsoleInv
  <1>6. CASE UNCHANGED vars
    BY <1>6 DEF vars, ConsoleInv
  <1>7. QED
    BY <1>1, <1>2, <1>3, <1>4, <1>6 DEF Next

LEMMA ConsoleInvHolds == Spec => []ConsoleInv
  BY InitConsole, NextConsole, PTL DEF Spec

\* Types, and that nobody is asked for a token more than twice.
THEOREM ConsoleTypes == Spec => []TypeOK
  <1>1. ConsoleInv => TypeOK
    BY DEF ConsoleInv, TypeOK, GoodSession, Sessions, GoodRequest, RequestStates, Places
  <1>2. QED
    BY <1>1, ConsoleInvHolds, PTL

\* Whatever responses cross, the user shown is the owner of the token.
THEOREM SessionsHaveOnePerson == Spec => []ShownUserOwnsToken
  <1>1. ConsoleInv => ShownUserOwnsToken
    BY DEF ConsoleInv, ShownUserOwnsToken, GoodSession
  <1>2. QED
    BY <1>1, ConsoleInvHolds, PTL

\* What the console says of an email is true whenever it is seen.
THEOREM MessagesStayTrue == Spec => []MessagesAreTrue
  <1>1. ConsoleInv => MessagesAreTrue
    <2> SUFFICES ASSUME ConsoleInv, NEW m \in Said, m.text \in {"created", "taken"}
                 PROVE  m.about \in registered
      BY DEF MessagesAreTrue
    <2>1. CASE m \in cookie.flash
      BY <2>1 DEF ConsoleInv, AreTrue, GoodSession
    <2>2. ASSUME NEW r \in Requests, m \in req[r].page \cup req[r].session.flash
          PROVE  m.about \in registered
      BY <2>2 DEF ConsoleInv, GoodRequest, AreTrue, GoodSession
    <2>3. QED
      BY <2>1, <2>2 DEF Said
  <1>2. QED
    BY <1>1, ConsoleInvHolds, PTL

\* A wrong password costs one attempt of the shared limit.
THEOREM RefusalsCostOne == Spec => []RefusedLoginsCostOne
  <1>1. ConsoleInv => RefusedLoginsCostOne
    BY DEF ConsoleInv, RefusedLoginsCostOne, GoodRequest, Counted
  <1>2. QED
    BY <1>1, ConsoleInvHolds, PTL
==============================================================================
