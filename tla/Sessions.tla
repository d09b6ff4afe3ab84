------------------------------ MODULE Sessions ------------------------------
(***************************************************************************)
(* The sessions of one account: the refresh tokens of the server, which    *)
(* are used once and rotate, and the pages of one browser, which share a   *)
(* cookie and the local storage.  An awaited query of the server is a      *)
(* step, and so is the answer that a page gets; what a page does with an   *)
(* answer, up to the end of its promises' callbacks, is one step.          *)
(*                                                                         *)
(* A definition commented as a mutant is the wrong form of the one after   *)
(* it: no action uses it, and a property has to tell the two apart.        *)
(***************************************************************************)
EXTENDS Naturals, FiniteSets

CONSTANTS
  Tabs,
  Opened,        \* pages that are open from the start, if somebody is signed in
  Calls,         \* calls of the API that need an access token
  MaxRequests,   \* bound: calls of /auth/login, refresh, logout, reset-password
  Faults,        \* may a handler fail, and an answer be lost or come too late?
  Null

\* Request 0 is the login of an earlier day.
Requests == 0 .. MaxRequests

\* A row of refresh_tokens: those of one login, however often it was refreshed,
\* have its family.
TokenRow == [family : Requests, state : {"live", "expired", "revoked"}]

ASSUME MaxRequestsAssumption == MaxRequests \in Nat
ASSUME OpenedAssumption == Opened \subseteq Tabs
ASSUME FaultsAssumption == Faults \in BOOLEAN
ASSUME NullAssumption == Null \notin Requests \cup Tabs \cup TokenRow

VARIABLES
  token,    \* refresh_tokens, by inserting request
  link,     \* the row of password_reset_tokens
  must,     \* users.must_change_password
  cookie,   \* the refresh token in the browser's cookie jar
  stored,   \* the user in the browser's local storage
  tab,      \* the pages: access token, shared refresh, user, is loading; stray,
            \* a history: their last refresh was begun when the user had gone
  req,      \* the requests: control point and local variables
  call,     \* the calls of the API
  expired,  \* access tokens past their fifteen minutes
  dead,     \* history: families that a reset or a reuse revoked as a whole
  raced,    \* history: families that two requests worked on at once
  disturbed \* history: requests of the browser overlapped, or something failed

server == <<token, link, must, dead, raced>>
browser == <<cookie, stored, tab, call>>
vars == <<server, browser, req, expired, disturbed>>

Users == {"none", "mustChange", "ok"}
Page(access, refresh, user, loading) ==
  [access |-> access, refresh |-> refresh, user |-> user, loading |-> loading, stray |-> FALSE]
Closed == Page(Null, Null, "none", FALSE)
Idle == [pc |-> "idle", op |-> "none", tab |-> Null, sent |-> Null, must |-> FALSE]

Active(r) == req[r].pc \notin {"idle", "done"}
Open == {"sent", "waiting", "changed"}
Waiting(c, t) == call[c].pc = "waiting" /\ call[c].tab = t

\* The next request, if the bound allows one more.
Fresh(r) == req[r].pc = "idle" /\ \A q \in 0 .. (r - 1) : req[q].pc # "idle"

\* The browser's requests on its cookie.
InProgress == {r \in Requests : Active(r) /\ req[r].op # "reset"}

-----------------------------------------------------------------------------
(* AuthService.                                                            *)

Family(r) == IF req[r].op = "login" THEN r ELSE token[req[r].sent].family
Live(r) == token[r] # Null /\ token[r].state = "live"
TokensOf(f) == {r \in Requests : token[r] # Null /\ token[r].family = f}

\* The session that r will continue whatever is revoked meanwhile.
InHand(r) ==
  \/ req[r].op = "refresh" /\ req[r].pc \in {"RevokeToken", "InsertToken"}
  \/ req[r].op = "login" /\ req[r].pc = "InsertToken"

Goto(r, pc) == req' = [req EXCEPT ![r].pc = pc]
Revoked(T) == [r \in Requests |-> IF r \in T THEN [token[r] EXCEPT !.state = "revoked"]
                                            ELSE token[r]]

CheckUser(r) ==
  /\ req[r].pc = "CheckUser"
  /\ \/ Goto(r, "refused")   \* wrong credentials
     \/ req' = [req EXCEPT ![r].pc = "InsertToken", ![r].must = must]
  /\ UNCHANGED <<server, browser, expired, disturbed>>

\* Mutant: a refresh does not look whether its token is revoked.
FoundUnchecked(r) ==
  IF req[r].sent = Null THEN IF req[r].op = "logout" THEN "ok" ELSE "refused"
  ELSE IF req[r].op = "logout" THEN "RevokeToken"
  ELSE IF token[req[r].sent].state = "expired" THEN "refused" ELSE "RevokeToken"
\* What refresh and logout do with the row of their token, if they have one.
Found(r) ==
  IF req[r].sent = Null THEN IF req[r].op = "logout" THEN "ok" ELSE "refused"
  ELSE IF req[r].op = "logout" THEN "RevokeToken"
  ELSE CASE token[req[r].sent].state = "revoked" -> "RevokeFamily"
         [] token[req[r].sent].state = "expired" -> "refused"
         [] token[req[r].sent].state = "live" -> "RevokeToken"

FindToken(r) ==
  /\ req[r].pc = "FindToken"
  /\ Goto(r, Found(r))
  /\ raced' = IF \E q \in Requests \ {r} : InHand(q) /\ req[r].sent # Null /\ Family(q) = Family(r)
                THEN raced \cup {Family(r)} ELSE raced
  /\ UNCHANGED <<token, link, must, dead, browser, expired, disturbed>>

RevokeToken(r) ==
  /\ req[r].pc = "RevokeToken"
  /\ token' = Revoked({req[r].sent})
  /\ Goto(r, IF req[r].op = "logout" THEN "ok" ELSE "InsertToken")
  /\ UNCHANGED <<link, must, dead, raced, browser, expired, disturbed>>

InsertToken(r) ==
  /\ req[r].pc = "InsertToken"
  /\ token' = [token EXCEPT ![r] = [family |-> Family(r), state |-> "live"]]
  /\ Goto(r, "ok")
  /\ UNCHANGED <<link, must, dead, raced, browser, expired, disturbed>>

\* Mutant: reuse revokes the token that was presented.
RevokedTogetherOne(r) == IF req[r].op = "reset" THEN {q \in Requests : token[q] # Null}
                                                ELSE {req[r].sent}
\* A reset ends the sessions of the user, reuse of a token those of its family.
RevokedTogether(r) == IF req[r].op = "reset" THEN {q \in Requests : token[q] # Null}
                                             ELSE TokensOf(Family(r))

RevokeTogether(r) ==
  /\ req[r].pc \in {"RevokeFamily", "RevokeAll"}
  /\ LET old == {q \in Requests : InHand(q) /\ (req[r].op = "reset" \/ Family(q) = Family(r))}
         ended == {Family(q) : q \in old} \cup {token[q].family : q \in RevokedTogether(r)}
     IN  /\ dead' = dead \cup {<<req[r].op, f>> : f \in ended}
         /\ raced' = raced \cup {Family(q) : q \in old}
  /\ token' = Revoked(RevokedTogether(r))
  /\ disturbed' = (disturbed \/ req[r].op = "reset")
  /\ Goto(r, IF req[r].op = "reset" THEN "ok" ELSE "refused")
  /\ UNCHANGED <<link, must, browser, expired>>

ForgotPassword ==
  /\ link = "none"
  /\ link' = "open"
  /\ UNCHANGED <<token, must, dead, raced, browser, req, expired, disturbed>>

CheckLink(r) ==
  /\ req[r].pc = "CheckLink"
  /\ Goto(r, IF link = "open" THEN "UseLink" ELSE "refused")
  /\ UNCHANGED <<server, browser, expired, disturbed>>

\* The link is used up and the password replaced, the sessions come last.
UseLink(r) ==
  /\ req[r].pc = "UseLink"
  /\ link' = "used"
  /\ Goto(r, "RevokeAll")
  /\ UNCHANGED <<token, must, dead, raced, browser, expired, disturbed>>

Fail(r) ==
  /\ Faults
  /\ req[r].pc \notin {"idle", "ok", "refused", "done"}
  /\ Goto(r, "refused")
  /\ disturbed' = TRUE
  /\ UNCHANGED <<server, browser, expired>>

-----------------------------------------------------------------------------
(* The clock.                                                              *)

ExpireAccess(r) ==
  /\ r \notin expired
  /\ \/ \E t \in Tabs : tab[t].access = r
     \/ \E c \in Calls : call[c].pc = "sent" /\ call[c].auth = r
  /\ expired' = expired \cup {r}
  /\ UNCHANGED <<server, browser, req, disturbed>>

\* After seven days the row expires, and the cookie that was set with it: no
\* answer takes as long.
ExpireRefresh(r) ==
  /\ Live(r) /\ req[r].pc = "done"
  /\ token' = [token EXCEPT ![r].state = "expired"]
  /\ cookie' = IF cookie = r THEN Null ELSE cookie
  /\ UNCHANGED <<link, must, dead, raced, stored, tab, req, call, expired, disturbed>>

-----------------------------------------------------------------------------
(* The pages.                                                              *)

Request(op, t, pc) == [pc |-> pc, op |-> op, tab |-> t, must |-> FALSE,
                       sent |-> IF op \in {"refresh", "logout"} THEN cookie ELSE Null]

\* A request of the browser may meet another that uses the same cookie.
Begin(r, op, t, pc) ==
  /\ Fresh(r)
  /\ req' = [req EXCEPT ![r] = Request(op, t, pc)]
  /\ disturbed' = (disturbed \/ (InProgress # {} /\ op # "reset"))

\* The requests and calls of a page die with it: the server goes on, the
\* page that would have read the answer is gone.
LetGo(t) == [r \in Requests |->
  IF req[r].tab = t /\ Active(r) THEN [req[r] EXCEPT !.tab = Null] ELSE req[r]]
Dropped(t) == [c \in Calls |->
  IF call[c].tab = t /\ call[c].pc \in Open THEN [call[c] EXCEPT !.pc = "dropped"] ELSE call[c]]

\* A page starts with the stored user and asks for an access token.
Mounted(r, user) == Page(Null, r, user, TRUE)

Load(t, r) ==
  /\ Fresh(r)
  /\ req' = [LetGo(t) EXCEPT ![r] = Request("refresh", t, "FindToken")]
  /\ tab' = [tab EXCEPT ![t] = Mounted(r, stored)]
  /\ call' = Dropped(t)
  /\ disturbed' = (disturbed \/ InProgress # {})
  /\ UNCHANGED <<server, cookie, stored, expired>>

\* What the pages offer: the login form to anyone but a user who has to change
\* his password, who gets the form for that; the protected pages once the
\* session is restored; and the button to sign out beside them, also before.
LoginForm(t) == tab[t] # Closed /\ tab[t].user # "mustChange"
ChangeForm(t) == tab[t].user = "mustChange"
Protected(t) == tab[t].user = "ok" /\ ~tab[t].loading
SignOut(t) == tab[t].user = "ok" \/ tab[t].loading

\* A form is disabled while it waits.
Submitting(t) == \E r \in Requests :
  Active(r) /\ req[r].tab = t /\ req[r].op \in {"login", "logout"}

SubmitLogin(t, r) ==
  /\ LoginForm(t) /\ ~Submitting(t)
  /\ Begin(r, "login", t, "CheckUser")
  /\ UNCHANGED <<server, browser, expired>>

SubmitLogout(t, r) ==
  /\ SignOut(t) /\ ~Submitting(t)
  /\ Begin(r, "logout", t, "FindToken")
  /\ UNCHANGED <<server, browser, expired>>

\* The page behind the mailed link has no session of its own.
SubmitReset(r) ==
  /\ link # "none"
  /\ Begin(r, "reset", Null, "CheckLink")
  /\ UNCHANGED <<server, browser, expired>>

\* A protected page calls the API; the form for a new password does not wait
\* until the session is restored.
SendCall(t, c) ==
  /\ call[c].pc = "idle"
  /\ Protected(t) \/ ChangeForm(t)
  /\ call' = [call EXCEPT ![c] = [pc |-> "sent", tab |-> t, auth |-> tab[t].access,
                                   retried |-> FALSE, change |-> ChangeForm(t)]]
  /\ UNCHANGED <<server, cookie, stored, tab, req, expired, disturbed>>

Authorized(c) == call[c].auth # Null /\ call[c].auth \notin expired

AnswerCall(c) ==
  /\ call[c].pc = "sent"
  /\ \/ /\ Authorized(c)
        /\ call' = [call EXCEPT ![c].pc = IF call[c].change THEN "changed" ELSE "done"]
        /\ must' = (must /\ ~call[c].change)
     \/ /\ Faults \/ (call[c].retried /\ ~Authorized(c))
        /\ call' = [call EXCEPT ![c].pc = "rejected"]
        /\ UNCHANGED must
  /\ UNCHANGED <<token, link, dead, raced, cookie, stored, tab, req, expired, disturbed>>

\* Mutant: every call that gets a 401 sends a refresh of its own.
RefreshOfNever(t) == Null
\* The refresh that a call which gets a 401 may share.
RefreshOf(t) == tab[t].refresh

\* The first 401 of a call: it waits for the page's refresh, or begins one.
Unauthorized(c) ==
  LET t == call[c].tab IN
  /\ call[c].pc = "sent" /\ ~Authorized(c) /\ ~call[c].retried
  /\ call' = [call EXCEPT ![c].pc = "waiting", ![c].retried = TRUE]
  /\ IF RefreshOf(t) # Null
       THEN UNCHANGED <<tab, req, disturbed>>
       ELSE \E r \in Requests :
              /\ Begin(r, "refresh", t, "FindToken")
              /\ tab' = [tab EXCEPT ![t].refresh = r, ![t].stray = (tab[t].user = "none")]
  /\ UNCHANGED <<server, cookie, stored, expired>>

\* The bound: with no request left, the page closes.
OutOfRequests(c) ==
  LET t == call[c].tab IN
  /\ call[c].pc = "sent" /\ ~Authorized(c) /\ ~call[c].retried
  /\ tab[t].refresh = Null /\ ~\E r \in Requests : Fresh(r)
  /\ tab' = [tab EXCEPT ![t] = Closed]
  /\ call' = Dropped(t)
  /\ req' = LetGo(t)
  /\ disturbed' = (disturbed \/ InProgress # {})
  /\ UNCHANGED <<server, cookie, stored, expired>>

\* The timer of the form for a new password.
CompleteChange(c) ==
  LET t == call[c].tab IN
  /\ call[c].pc = "changed"
  /\ call' = [call EXCEPT ![c].pc = "done"]
  /\ IF tab[t].user # "none"
       THEN tab' = [tab EXCEPT ![t].user = "ok"] /\ stored' = "ok"
       ELSE UNCHANGED <<tab, stored>>
  /\ UNCHANGED <<server, cookie, req, expired, disturbed>>

\* The answers.

Settled(r) == [req EXCEPT ![r].pc = "done", ![r].tab = Null]

LoggedIn(r) == IF req[r].must THEN "mustChange" ELSE "ok"

DeliverLogin(r) ==
  LET t == req[r].tab IN
  /\ req[r].op = "login" /\ req[r].pc = "ok" /\ t # Null
  /\ cookie' = r
  /\ stored' = LoggedIn(r)
  /\ tab' = [tab EXCEPT ![t].access = r, ![t].user = LoggedIn(r)]
  /\ req' = Settled(r)
  /\ UNCHANGED <<server, call, expired, disturbed>>

\* Mutant: logging out leaves the page its access token.
AccessKept(t) == tab[t].access
AccessLeft(t) == Null

\* Whatever the answer, the page forgets the user.
DeliverLogout(r) ==
  LET t == req[r].tab IN
  /\ req[r].op = "logout" /\ req[r].pc \in {"ok", "refused"} /\ t # Null
  /\ cookie' = IF req[r].pc = "ok" THEN Null ELSE cookie
  /\ stored' = "none"
  /\ tab' = [tab EXCEPT ![t].access = AccessLeft(t), ![t].user = "none"]
  /\ req' = Settled(r)
  /\ UNCHANGED <<server, call, expired, disturbed>>

\* Mutant: the answer does not replace the cookie.
NewCookieKept(r) == cookie
NewCookie(r) == r

\* The page, and every call that waits, go on with the new access token.
DeliverRefresh(r) ==
  LET t == req[r].tab IN
  /\ req[r].op = "refresh" /\ req[r].pc = "ok" /\ t # Null
  /\ cookie' = NewCookie(r)
  /\ tab' = [tab EXCEPT ![t].access = r, ![t].refresh = Null, ![t].loading = FALSE]
  /\ call' = [c \in Calls |-> IF Waiting(c, t) THEN [call[c] EXCEPT !.pc = "sent", !.auth = r]
                                               ELSE call[c]]
  /\ req' = Settled(r)
  /\ UNCHANGED <<server, stored, expired, disturbed>>

ForgottenRefresh(t) == Null

\* Mutant: the page stops loading when the session is restored.
StillLoadingOnFailure(t) == tab[t].loading
StillLoading(t) == FALSE

\* Mutant: the calls that wait are not told.
Disappointed(t) == call
Rejected(t) == [c \in Calls |-> IF Waiting(c, t) THEN [call[c] EXCEPT !.pc = "rejected"]
                                                 ELSE Dropped(t)[c]]

\* What the pages of a failed refresh do: the mounting page forgets the user,
\* a call that waited sends the page to /login, which loads it anew.
FailRefresh(r, failed, harm) ==
  LET t == req[r].tab
      user == IF tab[t].loading THEN "none" ELSE tab[t].user
      redirect == \E c \in Calls : Waiting(c, t)
  IN  /\ req[r].op = "refresh" /\ t # Null
      /\ stored' = IF tab[t].loading THEN "none" ELSE stored
      /\ call' = IF redirect THEN Rejected(t) ELSE call
      /\ IF ~redirect
           THEN /\ tab' = [tab EXCEPT ![t].refresh = ForgottenRefresh(t),
                                       ![t].loading = StillLoading(t), ![t].user = user]
                /\ req' = failed
           ELSE \/ \E q \in Requests :
                     /\ Fresh(q)
                     /\ tab' = [tab EXCEPT ![t] = Mounted(q, stored')]
                     /\ req' = [failed EXCEPT ![q] = Request("refresh", t, "FindToken")]
                \/ /\ ~\E q \in Requests : Fresh(q)
                   /\ tab' = [tab EXCEPT ![t] = Closed]
                   /\ req' = failed
      /\ disturbed' = (harm \/ (redirect /\ InProgress # {r}))
      /\ UNCHANGED <<server, cookie, expired>>

DeliverFailure(r) ==
  /\ req[r].pc = "refused"
  /\ \/ FailRefresh(r, Settled(r), disturbed)
     \/ /\ req[r].op = "login" /\ req[r].tab # Null
        /\ req' = Settled(r)
        /\ UNCHANGED <<server, browser, expired, disturbed>>

\* The answer to a request that no page waits for.
Discard(r) ==
  /\ req[r].pc \in {"ok", "refused"} /\ req[r].tab = Null
  /\ req' = Settled(r)
  /\ UNCHANGED <<server, browser, expired, disturbed>>

\* The page gets an error while the handler goes on: the connection is lost,
\* or the handler takes more than thirty seconds.
Cut(r) ==
  LET t == req[r].tab
      gone == [req EXCEPT ![r].tab = Null]
  IN  /\ Faults /\ Active(r) /\ t # Null
      /\ \/ FailRefresh(r, gone, TRUE)
         \/ /\ req[r].op = "login"
            /\ req' = gone
            /\ disturbed' = TRUE
            /\ UNCHANGED <<server, browser, expired>>
         \/ /\ req[r].op = "logout"
            /\ disturbed' = TRUE
            /\ stored' = "none"
            /\ tab' = [tab EXCEPT ![t].access = AccessLeft(t), ![t].user = "none"]
            /\ req' = gone
            /\ UNCHANGED <<server, cookie, call, expired>>

-----------------------------------------------------------------------------
\* Nobody is signed in, or somebody still is: from an earlier day, or in the
\* pages that are open from earlier today.
Init ==
  /\ must \in BOOLEAN
  /\ stored \in {"none", IF must THEN "mustChange" ELSE "ok"}
  /\ cookie = IF stored = "none" THEN Null ELSE 0
  /\ token = [r \in Requests |->
                IF r = cookie THEN [family |-> r, state |-> "live"] ELSE Null]
  /\ link = "none"
  /\ tab = [t \in Tabs |-> IF stored # "none" /\ t \in Opened THEN Page(0, Null, stored, FALSE)
                                                         ELSE Closed]
  /\ req = [r \in Requests |-> IF r = 0 THEN [Idle EXCEPT !.pc = "done", !.op = "login"] ELSE Idle]
  /\ call = [c \in Calls |-> [pc |-> "idle", tab |-> Null, auth |-> Null,
                               retried |-> FALSE, change |-> FALSE]]
  /\ expired = {}
  /\ dead = {}
  /\ raced = {}
  /\ disturbed = FALSE

\* What the server and the pages do on their own account.
Handle(r) ==
  CheckUser(r) \/ FindToken(r) \/ RevokeToken(r) \/ InsertToken(r) \/ RevokeTogether(r)
    \/ CheckLink(r) \/ UseLink(r)
Deliver(r) ==
  DeliverLogin(r) \/ DeliverLogout(r) \/ DeliverRefresh(r) \/ DeliverFailure(r) \/ Discard(r)
Progress(c) == AnswerCall(c) \/ Unauthorized(c) \/ OutOfRequests(c) \/ CompleteChange(c)

\* What the user, the clock and the network may do.
User(t) ==
  \/ \E r \in Requests : Load(t, r) \/ SubmitLogin(t, r) \/ SubmitLogout(t, r)
  \/ \E c \in Calls : SendCall(t, c)

Next ==
  \/ \E r \in Requests : Handle(r) \/ Deliver(r)
  \/ \E c \in Calls : Progress(c)
  \/ \E t \in Tabs : User(t)
  \/ \E r \in Requests : SubmitReset(r) \/ ExpireAccess(r) \/ ExpireRefresh(r)
  \/ ForgotPassword
  \/ \E r \in Requests : Fail(r) \/ Cut(r)

\* Every handler ends, every request is answered or given up, every call too;
\* nobody has to use the system, and nothing has to expire or fail.
Fairness ==
  /\ \A r \in Requests : WF_vars(Handle(r)) /\ WF_vars(Deliver(r))
  /\ \A c \in Calls : WF_vars(Progress(c))

Spec == Init /\ [][Next]_vars /\ Fairness

-----------------------------------------------------------------------------
(* Properties.                                                             *)

\* What the variables hold.
TypeOK ==
  /\ token \in [Requests -> {Null} \cup TokenRow]
  /\ link \in {"none", "open", "used"}
  /\ must \in BOOLEAN
  /\ cookie \in Requests \cup {Null}
  /\ stored \in Users
  /\ tab \in [Tabs -> [access : Requests \cup {Null}, refresh : Requests \cup {Null},
                       user : Users, loading : BOOLEAN, stray : BOOLEAN]]
  /\ req \in [Requests ->
       [pc : {"idle", "CheckUser", "FindToken", "RevokeToken", "InsertToken", "RevokeFamily",
              "CheckLink", "UseLink", "RevokeAll", "ok", "refused", "done"},
        op : {"none", "login", "refresh", "logout", "reset"},
        tab : Tabs \cup {Null}, sent : Requests \cup {Null}, must : BOOLEAN]]
  /\ call \in [Calls ->
       [pc : {"idle", "done", "rejected", "dropped"} \cup Open, tab : Tabs \cup {Null},
        auth : Requests \cup {Null}, retried : BOOLEAN, change : BOOLEAN]]
  /\ expired \subseteq Requests /\ dead \subseteq {"reset", "refresh"} \X Requests /\ raced \subseteq Requests
  /\ disturbed \in BOOLEAN

\* Refresh tokens rotate: a session has one token that can be used, however
\* often it was refreshed, unless two requests worked on it at once.
OneLiveToken ==
  \A f \in Requests : Cardinality({r \in TokensOf(f) : Live(r)}) > 1 => f \in raced

\* A session that was ended by a password reset, or because one of its tokens
\* was used again, stays ended, unless a request had its row in hand just then.
RevokedForGood ==
  \A d \in dead : (\E r \in TokensOf(d[2]) : Live(r)) => d[2] \in raced

\* As long as the browser's requests come one after another and none fails, a
\* cookie that is left is good for a refresh, and belongs to a signed-in user.
SessionKept ==
  ~disturbed /\ InProgress = {} /\ cookie # Null => Live(cookie) /\ stored # "none"

\* The same for what the pages show: a page that can call the API has a user,
\* unless a call that was on its way when the page lost him has restored the
\* session of another page's login.
UserShown ==
  ~disturbed => \A t \in Tabs :
    tab[t].access # Null /\ ~tab[t].loading => tab[t].user # "none" \/ tab[t].stray

\* The comment of client.ts: of one page, one refresh at most is in flight.
OneRefreshPerPage ==
  \A q, r \in Requests :
    /\ Active(q) /\ req[q].op = "refresh" /\ req[q].tab # Null
    /\ Active(r) /\ req[r].op = "refresh" /\ req[r].tab = req[q].tab
    => q = r

\* Whatever happens to the refresh it waits for, a call of the API comes to an
\* end, and the shared refresh is cleared: the next 401 may begin another one.
CallsSettle ==
  /\ \A c \in Calls : call[c].pc \in Open ~> call[c].pc \notin Open
  /\ \A t \in Tabs : tab[t].refresh # Null ~> tab[t].refresh = Null

\* The spinner that a page starts with goes away.
LoadingEnds == \A t \in Tabs : tab[t].loading ~> ~tab[t].loading
=============================================================================
