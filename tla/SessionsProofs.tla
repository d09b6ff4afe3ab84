--------------------------- MODULE SessionsProofs ---------------------------
(***************************************************************************)
(* Theorems about Sessions, for any number of pages, calls and requests,   *)
(* any interleaving and any fault.                                         *)
(***************************************************************************)
EXTENDS Sessions, FiniteSetTheorems, TLAPS

-----------------------------------------------------------------------------
(* Type correctness.  A step that reads the row of a token needs the row   *)
(* to be there: Placed says what a request has at its control point, and   *)
(* Rows what the table has for it.                                         *)

PageRow == [access : Requests \cup {Null}, refresh : Requests \cup {Null},
            user : Users, loading : BOOLEAN, stray : BOOLEAN]
RequestRow ==
  [pc : {"idle", "CheckUser", "FindToken", "RevokeToken", "InsertToken", "RevokeFamily",
         "CheckLink", "UseLink", "RevokeAll", "ok", "refused", "done"},
   op : {"none", "login", "refresh", "logout", "reset"},
   tab : Tabs \cup {Null}, sent : Requests \cup {Null}, must : BOOLEAN]
CallRow ==
  [pc : {"idle", "done", "rejected", "dropped"} \cup Open, tab : Tabs \cup {Null},
   auth : Requests \cup {Null}, retried : BOOLEAN, change : BOOLEAN]

Ended == {"ok", "refused", "done"}

Placed(me) ==
  /\ me.pc = "CheckUser" => me.op = "login"
  /\ me.pc = "FindToken" => me.op \in {"refresh", "logout"}
  /\ me.pc = "RevokeToken" => me.op \in {"refresh", "logout"} /\ me.sent # Null
  /\ me.pc = "RevokeFamily" => me.op = "refresh" /\ me.sent # Null
  /\ me.pc = "InsertToken" => me.op = "login" \/ (me.op = "refresh" /\ me.sent # Null)
  /\ me.pc \in {"CheckLink", "UseLink", "RevokeAll"} => me.op = "reset"

Rows(r) ==
  /\ req[r].pc \notin Ended => token[r] = Null
  /\ req[r].pc = "ok" /\ req[r].op \in {"login", "refresh"} => token[r] # Null
  /\ req[r].sent # Null => token[req[r].sent] # Null

\* What becomes of a request in a step of the browser or the network: it is
\* answered or given up, or it begins.
Answered(me, you) ==
  /\ you.op = me.op /\ you.sent = me.sent
  /\ you.pc = me.pc \/ (me.pc # "idle" /\ you.pc \in {"refused", "done"})
Begun(me, you) ==
  me.pc = "idle" /\ you.pc \in {"CheckUser", "FindToken", "CheckLink"} /\ you.sent \in {Null, cookie}
Moved(me, you) == Answered(me, you) \/ Begun(me, you)

\* A step of the browser or the network.
OutsideServer ==
  UNCHANGED <<token, dead, raced>> /\ \A q \in Requests : Moved(req[q], req'[q])

Calling(c) == call[c].pc \in Open => call[c].tab \in Tabs

TypeInv ==
  /\ TypeOK
  /\ \A r \in Requests : Placed(req[r]) /\ Rows(r)
  /\ cookie # Null => token[cookie] # Null
  /\ \A c \in Calls : Calling(c)

LEMMA RowTypes ==
  TypeOK <=>
    /\ token \in [Requests -> {Null} \cup TokenRow]
    /\ link \in {"none", "open", "used"}
    /\ must \in BOOLEAN
    /\ cookie \in Requests \cup {Null}
    /\ stored \in Users
    /\ tab \in [Tabs -> PageRow]
    /\ req \in [Requests -> RequestRow]
    /\ call \in [Calls -> CallRow]
    /\ expired \subseteq Requests /\ dead \subseteq {"reset", "refresh"} \X Requests /\ raced \subseteq Requests
    /\ disturbed \in BOOLEAN
BY DEF TypeOK, TokenRow, PageRow, RequestRow, CallRow

LEMMA NullApart ==
  Null \notin Requests /\ Null \notin Tabs /\ Null \notin TokenRow /\ 0 \in Requests
BY NullAssumption, MaxRequestsAssumption DEF Requests

LEMMA ServerTypes ==
  ASSUME TypeInv, NEW r \in Requests, Handle(r)
  PROVE  TypeInv'
<1> USE NullApart
<1>t. req[r] \in RequestRow /\ req \in [Requests -> RequestRow] /\ token \in [Requests -> {Null} \cup TokenRow]
  BY RowTypes DEF TypeInv
<1>1. CASE CheckUser(r)
  <2>1. /\ \A q \in Requests \ {r} : req'[q] = req[q]
        /\ req' \in [Requests -> RequestRow]
        /\ req[r].op = "login" /\ req[r].pc = "CheckUser"
        /\ req'[r].pc \in {"refused", "InsertToken"} /\ req'[r].op = "login" /\ req'[r].sent = req[r].sent
    BY <1>1, <1>t DEF TypeInv, TypeOK, CheckUser, Goto, RequestRow, Placed
  <2>2. UNCHANGED <<server, browser, expired, disturbed>>
    BY <1>1 DEF CheckUser
  <2>3. TypeOK'
    BY <2>1, <2>2, RowTypes DEF TypeInv, TypeOK, RequestRow, server, browser
  <2>4. QED
    BY <2>1, <2>2, <2>3, <1>t DEF TypeInv, Placed, Rows, Ended, Calling, server, browser
<1>2. CASE FindToken(r)
  <2>1. /\ Found(r) \in {"ok", "refused", "RevokeToken", "RevokeFamily"}
        /\ Found(r) = "ok" => req[r].op = "logout"
        /\ Found(r) = "RevokeToken" => req[r].sent # Null
        /\ Found(r) = "RevokeFamily" => req[r].op # "logout" /\ req[r].sent # Null
    BY <1>2, <1>t DEF Found, FindToken, TypeInv, Rows, TokenRow, RequestRow
  <2>2. /\ \A q \in Requests \ {r} : req'[q] = req[q]
        /\ req' \in [Requests -> RequestRow]
        /\ req[r].op \in {"refresh", "logout"} /\ req[r].pc = "FindToken"
        /\ req'[r].pc = Found(r) /\ req'[r].op = req[r].op /\ req'[r].sent = req[r].sent
    BY <1>2, <1>t, <2>1 DEF TypeInv, FindToken, Goto, RequestRow, Placed
  <2>3. UNCHANGED <<token, link, must, dead, browser, expired, disturbed>>
    BY <1>2 DEF FindToken
  <2>4. raced' \subseteq Requests
    BY <1>2, <1>t, <2>2, RowTypes DEF FindToken, Family, TypeInv, TokenRow, RequestRow, Rows
  <2>5. TypeOK'
    BY <2>2, <2>3, <2>4 DEF TypeInv, TypeOK, RequestRow, browser
  <2>6. Placed(req'[r])
    BY <2>1, <2>2 DEF Placed
  <2>7. QED
    BY <2>1, <2>2, <2>3, <2>5, <2>6, <1>t DEF TypeInv, Placed, Rows, Ended, Calling, browser
<1>3. CASE RevokeToken(r)
  BY <1>3, <1>t, RowTypes DEF TypeInv, TypeOK, RevokeToken, Revoked, Goto, RequestRow, TokenRow, Placed, Rows,
        Ended, Calling, browser
<1>4. CASE InsertToken(r)
  BY <1>4, <1>t, RowTypes DEF TypeInv, TypeOK, InsertToken, Family, Goto, RequestRow, TokenRow, Placed, Rows,
        Ended, Calling, browser
<1>5. CASE RevokeTogether(r)
  <2>1. /\ UNCHANGED <<link, must, browser, expired>> /\ disturbed' \in BOOLEAN
        /\ req[r].pc \in {"RevokeFamily", "RevokeAll"}
        /\ req' = [req EXCEPT ![r].pc = IF req[r].op = "reset" THEN "ok" ELSE "refused"]
        /\ token' = Revoked(RevokedTogether(r))
    BY <1>5 DEF RevokeTogether, Goto, TypeInv, TypeOK
  <2>2. \A q \in Requests : token[q] # Null => token[q].family \in Requests
    BY <1>t DEF TokenRow
  <2>3. \A q \in Requests : InHand(q) => Family(q) \in Requests
    <3>1. ASSUME NEW q \in Requests, InHand(q) PROVE Family(q) \in Requests
      <4>1. Placed(req[q]) /\ Rows(q) /\ req[q] \in RequestRow
        BY <1>t DEF TypeInv
      <4>2. req[q].op # "login" => req[q].sent \in Requests /\ token[req[q].sent] # Null
        BY <3>1, <4>1 DEF InHand, Placed, Rows, RequestRow
      <4>3. QED
        BY <2>2, <4>2 DEF Family
    <3>2. QED
      BY <3>1
  <2>4. \A q \in RevokedTogether(r) : q \in Requests /\ token[q] # Null
    BY DEF RevokedTogether, TokensOf
  <2>5. /\ token' \in [Requests -> {Null} \cup TokenRow]
        /\ \A q \in Requests : token'[q] = Null <=> token[q] = Null
    BY <1>t, <2>1, <2>4 DEF Revoked, TokenRow
  <2>6. dead' \subseteq {"reset", "refresh"} \X Requests /\ raced' \subseteq Requests
    <3>1. req[r].op \in {"reset", "refresh"}
      BY <2>1 DEF TypeInv, Placed
    <3> DEFINE old == {q \in Requests : InHand(q) /\ (req[r].op = "reset" \/ Family(q) = Family(r))}
    <3>2. /\ dead' = dead \cup {<<req[r].op, f>> :
                               f \in {Family(q) : q \in old} \cup {token[q].family : q \in RevokedTogether(r)}}
          /\ raced' = raced \cup {Family(q) : q \in old}
      BY <1>5 DEF RevokeTogether
    <3>3. dead \subseteq {"reset", "refresh"} \X Requests /\ raced \subseteq Requests
      BY DEF TypeInv, TypeOK
    <3>4. QED
      BY <2>2, <2>3, <2>4, <3>1, <3>2, <3>3
  <2>7. TypeOK'
    <3>1. req' \in [Requests -> RequestRow]
      BY <2>1, <1>t DEF RequestRow
    <3>2. QED
      BY <2>1, <2>5, <2>6, <3>1, RowTypes DEF TypeInv, TypeOK, browser, RequestRow, TokenRow
  <2>8. QED
    <3>1. /\ req'[r].pc \in {"ok", "refused"} /\ (req'[r].pc = "ok" => req[r].op = "reset")
          /\ req'[r].op = req[r].op /\ req'[r].sent = req[r].sent
          /\ \A q \in Requests \ {r} : req'[q] = req[q]
      BY <2>1, <1>t DEF RequestRow
    <3>2. ASSUME NEW q \in Requests PROVE Placed(req'[q]) /\ Rows(q)'
      <4>1. Placed(req[q]) /\ Rows(q) /\ req[q] \in RequestRow
        BY <1>t DEF TypeInv
      <4>2. CASE q = r
        BY <4>1, <4>2, <3>1, <2>1, <2>5 DEF Placed, Rows, Ended, RequestRow
      <4>3. CASE q # r
        BY <4>1, <4>3, <3>1, <2>5 DEF Rows, RequestRow
      <4>4. QED
        BY <4>2, <4>3
    <3>3. (cookie # Null => token[cookie] # Null)'
      BY <2>1, <2>5 DEF TypeInv, TypeOK, browser
    <3>4. \A c \in Calls : Calling(c)'
      BY <2>1 DEF TypeInv, Calling, browser
    <3>5. QED
      BY <2>7, <3>2, <3>3, <3>4 DEF TypeInv
<1>6. CASE CheckLink(r)
  BY <1>6, <1>t, RowTypes DEF TypeInv, TypeOK, CheckLink, Goto, RequestRow, Placed, Rows, Ended, Calling,
        server, browser
<1>7. CASE UseLink(r)
  BY <1>7, <1>t, RowTypes DEF TypeInv, TypeOK, UseLink, Goto, RequestRow, Placed, Rows, Ended, Calling,
        browser
<1>8. QED
  BY <1>1, <1>2, <1>3, <1>4, <1>5, <1>6, <1>7 DEF Handle

\* What the frame of most steps leaves alone, so that the rows stay in place.
LEMMA BrowserTypes ==
  ASSUME TypeInv, TypeOK', OutsideServer,
         \A q \in Requests : Placed(req'[q]),
         cookie' \in {cookie, Null} \/ (cookie' \in Requests /\ token[cookie'] # Null),
         \A c \in Calls : Calling(c)'
  PROVE  TypeInv' /\ OutsideServer
<1> USE NullApart
<1>1. ASSUME NEW q \in Requests PROVE Rows(q)'
  <2>1. Moved(req[q], req'[q]) /\ Rows(q) /\ req[q] \in RequestRow
    BY RowTypes DEF TypeInv, OutsideServer
  <2>2. QED
    BY <2>1 DEF TypeInv, OutsideServer, Moved, Answered, Begun, Rows, Ended
<1>2. QED
  BY <1>1 DEF TypeInv, OutsideServer

LEMMA RequestTypes ==
  ASSUME TypeInv, NEW t \in Tabs \cup {Null}
  PROVE  /\ Request("login", t, "CheckUser") \in RequestRow
         /\ Request("refresh", t, "FindToken") \in RequestRow
         /\ Request("logout", t, "FindToken") \in RequestRow
         /\ Request("reset", t, "CheckLink") \in RequestRow
         /\ Placed(Request("login", t, "CheckUser")) /\ Placed(Request("refresh", t, "FindToken"))
         /\ Placed(Request("logout", t, "FindToken")) /\ Placed(Request("reset", t, "CheckLink"))
BY DEF TypeInv, TypeOK, Request, RequestRow, Placed

\* The page t goes away, or is loaded anew.
LEMMA LetGoTypes ==
  ASSUME TypeInv, NEW t \in Tabs
  PROVE  /\ LetGo(t) \in [Requests -> RequestRow]
         /\ \A q \in Requests : Placed(LetGo(t)[q]) /\ Answered(req[q], LetGo(t)[q])
         /\ Dropped(t) \in [Calls -> CallRow]
         /\ \A c \in Calls : Dropped(t)[c].pc \in Open => Dropped(t)[c].tab \in Tabs
<1>1. req \in [Requests -> RequestRow] /\ call \in [Calls -> CallRow]
  BY RowTypes DEF TypeInv
<1>2. ASSUME NEW q \in Requests
      PROVE  LetGo(t)[q] \in RequestRow /\ Placed(LetGo(t)[q]) /\ Answered(req[q], LetGo(t)[q])
  BY <1>1 DEF LetGo, RequestRow, Placed, Answered, TypeInv
<1>3. ASSUME NEW c \in Calls
      PROVE  Dropped(t)[c] \in CallRow /\ (Dropped(t)[c].pc \in Open => Dropped(t)[c].tab \in Tabs)
  <2>1. call[c] \in CallRow /\ Calling(c)
    BY <1>1 DEF TypeInv
  <2>2. QED
    BY <2>1 DEF Dropped, CallRow, Calling, Open
<1>4. QED
  BY <1>2, <1>3 DEF LetGo, Dropped

LEMMA FailRefreshTypes ==
  ASSUME TypeInv, NEW r \in Requests, req[r].tab \in Tabs \cup {Null},
         NEW failed \in [Requests -> RequestRow], NEW harm \in BOOLEAN,
         \A q \in Requests : Placed(failed[q]) /\ Answered(req[q], failed[q]),
         FailRefresh(r, failed, harm)
  PROVE  TypeInv' /\ OutsideServer
<1> DEFINE t == req[r].tab
<1> USE NullApart
<1>t. /\ t \in Tabs /\ req \in [Requests -> RequestRow]
      /\ tab \in [Tabs -> PageRow] /\ call \in [Calls -> CallRow] /\ stored \in Users
  BY RowTypes DEF TypeInv, FailRefresh
<1>1. /\ UNCHANGED <<server, cookie, expired>> /\ disturbed' \in BOOLEAN
      /\ stored' \in Users /\ (call' = Rejected(t) \/ call' = call)
  BY <1>t DEF FailRefresh, Users
<1>2. /\ call' \in [Calls -> CallRow]
      /\ \A c \in Calls : Calling(c)'
  <2> DEFINE old == Dropped(t)
  <2>1. old \in [Calls -> CallRow] /\ \A c \in Calls : old[c].pc \in Open => old[c].tab \in Tabs
    BY <1>t, LetGoTypes
  <2>2. CASE call' = [c \in Calls |-> IF Waiting(c, t) THEN [call[c] EXCEPT !.pc = "rejected"]
                                                    ELSE old[c]]
    <3> HIDE DEF old
    <3> QED BY <2>1, <2>2, <1>t DEF CallRow, Calling, Open, TypeInv
  <2>3. QED
    BY <1>1, <2>2, <1>t DEF Rejected, TypeInv, Calling
<1>3. \/ req' = failed
      \/ \E q \in Requests : /\ req[q].pc = "idle"
                              /\ req' = [failed EXCEPT ![q] = Request("refresh", t, "FindToken")]
  BY DEF FailRefresh, Fresh
<1>4. /\ req' \in [Requests -> RequestRow]
      /\ \A q \in Requests : Placed(req'[q]) /\ Moved(req[q], req'[q])
  <2>1. Request("refresh", t, "FindToken").pc = "FindToken"
        /\ Request("refresh", t, "FindToken").sent = cookie
    BY DEF Request
  <2> HIDE DEF t
  <2>2. QED
    BY <1>3, <1>t, <2>1, RequestTypes DEF Moved, Begun
<1>5. tab' \in [Tabs -> PageRow]
  <2>1. \/ tab' = [tab EXCEPT ![t].refresh = Null, ![t].loading = FALSE,
                            ![t].user = IF tab[t].loading THEN "none" ELSE tab[t].user]
        \/ tab' = [tab EXCEPT ![t] = Closed]
        \/ \E q \in Requests : tab' = [tab EXCEPT ![t] = Mounted(q, stored')]
    BY DEF FailRefresh, ForgottenRefresh, StillLoading
  <2>2. CASE tab' = [tab EXCEPT ![t].refresh = Null, ![t].loading = FALSE,
                                ![t].user = IF tab[t].loading THEN "none" ELSE tab[t].user]
    <3> DEFINE user == IF tab[t].loading THEN "none" ELSE tab[t].user
    <3>1. user \in Users
      BY <1>t DEF PageRow, Users
    <3>2. tab' = [tab EXCEPT ![t].refresh = Null, ![t].loading = FALSE, ![t].user = user]
      BY <2>2
    <3> HIDE DEF t, user
    <3>3. QED
      BY <3>1, <3>2, <1>t DEF PageRow
  <2>3. Closed \in PageRow /\ \A q \in Requests : Mounted(q, stored') \in PageRow
    BY <1>1, <1>t DEF PageRow, Closed, Mounted, Page, Users
  <2>4. QED
    <3> HIDE DEF t
    <3> QED BY <2>1, <2>2, <2>3, <1>t
<1>6. TypeOK'
  BY <1>1, <1>2, <1>4, <1>5, RowTypes DEF TypeInv, TypeOK, server, PageRow, CallRow, RequestRow
<1>7. QED
  BY <1>1, <1>2, <1>4, <1>6, BrowserTypes DEF OutsideServer, TypeInv, server

LEMMA DeliverTypes ==
  ASSUME TypeInv, NEW r \in Requests, Deliver(r)
  PROVE  TypeInv' /\ OutsideServer
<1> USE NullApart
<1>t. req[r] \in RequestRow /\ req \in [Requests -> RequestRow] /\ token \in [Requests -> {Null} \cup TokenRow]
      /\ tab \in [Tabs -> PageRow] /\ call \in [Calls -> CallRow]
  BY RowTypes DEF TypeInv
<1>1. CASE DeliverLogin(r)
  <2>1. TypeOK'
    BY <1>1, <1>t, RowTypes DEF TypeInv, TypeOK, DeliverLogin, LoggedIn, Settled, Users, RequestRow, PageRow, server
  <2>2. QED
    BY <1>1, <1>t, <2>1, BrowserTypes DEF OutsideServer, TypeInv, DeliverLogin, Settled, RequestRow, Placed, Moved, Answered, Rows, Calling, server
<1>2. CASE DeliverLogout(r)
  <2>1. TypeOK'
    BY <1>2, <1>t, RowTypes DEF TypeInv, TypeOK, DeliverLogout, AccessLeft, Settled, Users, RequestRow, PageRow, server
  <2>2. QED
    BY <1>2, <1>t, <2>1, BrowserTypes DEF OutsideServer, TypeInv, DeliverLogout, Settled, RequestRow, Placed, Moved, Answered, Rows, Calling, server
<1>3. CASE DeliverRefresh(r)
  <2> DEFINE t == req[r].tab
  <2>1. /\ t \in Tabs /\ cookie' = r /\ UNCHANGED <<server, stored, expired, disturbed>>
        /\ req[r].op = "refresh" /\ req[r].pc = "ok" /\ req' = Settled(r)
    BY <1>3, <1>t DEF DeliverRefresh, NewCookie, RequestRow
  <2>2. tab' \in [Tabs -> PageRow]
    BY <1>3, <1>t, <2>1 DEF DeliverRefresh, PageRow
  <2>3. call' \in [Calls -> CallRow] /\ \A c \in Calls : Calling(c)'
    <3>1. \A c \in Calls : \/ call'[c] = call[c]
                           \/ call[c].pc = "waiting" /\ call'[c] = [call[c] EXCEPT !.pc = "sent", !.auth = r]
      BY <1>3 DEF DeliverRefresh, Waiting
    <3>2. call' = [c \in Calls |-> call'[c]]
      BY <1>3 DEF DeliverRefresh
    <3>3. ASSUME NEW c \in Calls PROVE call'[c] \in CallRow /\ Calling(c)'
      <4>1. call[c] \in CallRow /\ Calling(c)
        BY <1>t DEF TypeInv
      <4>2. QED
        BY <3>1, <4>1 DEF CallRow, Calling, Open
    <3>4. QED
      BY <3>2, <3>3
  <2>4. /\ req' \in [Requests -> RequestRow]
        /\ \A q \in Requests : Placed(req'[q]) /\ Answered(req[q], req'[q])
    BY <2>1, <1>t DEF Settled, RequestRow, Placed, Answered, TypeInv
  <2>5. TypeOK'
    BY <2>1, <2>2, <2>3, <2>4, RowTypes DEF TypeInv, TypeOK, RequestRow, PageRow, CallRow, server
  <2>6. token[r] # Null
    BY <2>1 DEF TypeInv, Rows
  <2>7. QED
    BY <2>1, <2>3, <2>4, <2>5, <2>6, BrowserTypes DEF OutsideServer, Moved, server
<1>4. CASE Discard(r)
  <2>1. TypeOK'
    BY <1>4, <1>t, RowTypes DEF TypeInv, TypeOK, Discard, Settled, RequestRow, server, browser
  <2>2. QED
    BY <1>4, <1>t, <2>1, BrowserTypes DEF OutsideServer, TypeInv, Discard, Settled, RequestRow, Placed, Moved, Answered, Calling, server, browser
<1>5. CASE DeliverFailure(r)
  <2>1. /\ Settled(r) \in [Requests -> RequestRow]
        /\ \A q \in Requests : Placed(Settled(r)[q]) /\ Answered(req[q], Settled(r)[q])
    BY <1>5, <1>t DEF DeliverFailure, Settled, RequestRow, Placed, Answered, TypeInv
  <2>2. req[r].tab \in Tabs \cup {Null} /\ disturbed \in BOOLEAN
    BY <1>t DEF RequestRow, TypeInv, TypeOK
  <2>3. CASE FailRefresh(r, Settled(r), disturbed)
    BY <2>1, <2>2, <2>3, FailRefreshTypes
  <2>4. CASE req' = Settled(r) /\ UNCHANGED <<server, browser, expired, disturbed>>
    <3>1. TypeOK'
      BY <2>1, <2>4, RowTypes DEF TypeInv, TypeOK, RequestRow, server, browser
    <3>2. QED
      BY <3>1, <2>1, <2>4, BrowserTypes DEF OutsideServer, TypeInv, Calling, Moved, server, browser
  <2>5. QED
    BY <1>5, <2>3, <2>4 DEF DeliverFailure
<1>6. QED
  BY <1>1, <1>2, <1>3, <1>4, <1>5 DEF Deliver

\* A request of the browser that begins.
LEMMA BeginTypes ==
  ASSUME TypeInv, NEW r \in Requests, NEW t \in Tabs \cup {Null},
         NEW op \in {"login", "refresh", "logout", "reset"}, NEW pc \in {"CheckUser", "FindToken", "CheckLink"},
         pc = "CheckUser" <=> op = "login", pc = "CheckLink" <=> op = "reset",
         Begin(r, op, t, pc)
  PROVE  /\ req' \in [Requests -> RequestRow] /\ disturbed' \in BOOLEAN
         /\ \A q \in Requests : Placed(req'[q]) /\ Moved(req[q], req'[q])
<1>1. /\ req[r].pc = "idle" /\ req' = [req EXCEPT ![r] = Request(op, t, pc)]
      /\ disturbed' \in BOOLEAN
  BY DEF Begin, Fresh, TypeInv, TypeOK
<1>2. /\ Request(op, t, pc) \in RequestRow /\ Placed(Request(op, t, pc))
      /\ Request(op, t, pc).pc = pc /\ Request(op, t, pc).sent \in {cookie, Null}
  BY DEF TypeInv, TypeOK, Request, RequestRow, Placed
<1>3. req \in [Requests -> RequestRow]
  BY RowTypes DEF TypeInv
<1>4. QED
  BY <1>1, <1>2, <1>3 DEF TypeInv, Moved, Answered, Begun

LEMMA ProgressTypes ==
  ASSUME TypeInv, NEW c \in Calls, Progress(c)
  PROVE  TypeInv' /\ OutsideServer
<1> USE NullApart
<1> DEFINE t == call[c].tab
<1>t. /\ req \in [Requests -> RequestRow] /\ tab \in [Tabs -> PageRow]
      /\ call \in [Calls -> CallRow] /\ call[c] \in CallRow
      /\ \A q \in Requests : Moved(req[q], req[q])
  BY RowTypes DEF TypeInv, Moved, Answered
<1>1. CASE AnswerCall(c)
  <2>1. call' \in [Calls -> CallRow] /\ (\A d \in Calls : Calling(d)') /\ must' \in BOOLEAN
    <3>1. must' \in BOOLEAN
      BY <1>1, Zenon DEF AnswerCall, TypeInv, TypeOK
    <3>2. call[c].pc = "sent" /\ \E pc \in {"changed", "done", "rejected"} : call' = [call EXCEPT ![c].pc = pc]
      BY <1>1 DEF AnswerCall
    <3>3. QED
      BY <3>1, <3>2, <1>t DEF CallRow, Calling, Open, TypeInv
  <2>2. UNCHANGED <<token, link, dead, raced, cookie, stored, tab, req, expired, disturbed>>
    BY <1>1 DEF AnswerCall
  <2>3. TypeOK'
    BY <2>1, <2>2 DEF TypeInv, TypeOK, CallRow
  <2>4. QED
    BY <2>1, <2>2, <2>3, <1>t, BrowserTypes DEF OutsideServer, TypeInv
<1>2. CASE Unauthorized(c)
  <2>1. t \in Tabs /\ UNCHANGED <<server, cookie, stored, expired>>
    BY <1>2 DEF Unauthorized, Calling, Open, TypeInv
  <2>2. call' \in [Calls -> CallRow] /\ (\A d \in Calls : Calling(d)')
    BY <1>2, <1>t DEF Unauthorized, CallRow, Calling, Open, TypeInv
  <2>3. /\ tab' \in [Tabs -> PageRow] /\ req' \in [Requests -> RequestRow] /\ disturbed' \in BOOLEAN
        /\ \A q \in Requests : Placed(req'[q]) /\ Moved(req[q], req'[q])
    <3>1. CASE UNCHANGED <<tab, req, disturbed>>
      BY <3>1, <1>t DEF TypeInv, TypeOK
    <3>2. ASSUME NEW r \in Requests, Begin(r, "refresh", t, "FindToken"),
                 tab' = [tab EXCEPT ![t].refresh = r, ![t].stray = (tab[t].user = "none")]
          PROVE  /\ tab' \in [Tabs -> PageRow] /\ req' \in [Requests -> RequestRow]
                 /\ disturbed' \in BOOLEAN
                 /\ \A q \in Requests : Placed(req'[q]) /\ Moved(req[q], req'[q])
      <4>1. tab' \in [Tabs -> PageRow]
        BY <3>2, <2>1, <1>t DEF PageRow
      <4> HIDE DEF t
      <4>2. QED
        BY <4>1, <3>2, <2>1, BeginTypes
    <3>3. QED
      BY <1>2, <3>1, <3>2 DEF Unauthorized
  <2>4. TypeOK'
    BY <2>1, <2>2, <2>3, RowTypes DEF TypeInv, TypeOK, server, PageRow, CallRow, RequestRow
  <2>5. QED
    BY <2>1, <2>2, <2>3, <2>4, BrowserTypes DEF OutsideServer, server
<1>3. CASE OutOfRequests(c)
  <2>1. t \in Tabs /\ UNCHANGED <<server, cookie, stored, expired>>
    BY <1>3 DEF OutOfRequests, Calling, Open, TypeInv
  <2>2. /\ tab' = [tab EXCEPT ![t] = Closed] /\ call' = Dropped(t) /\ req' = LetGo(t)
        /\ disturbed' \in BOOLEAN
    BY <1>3 DEF OutOfRequests, TypeInv, TypeOK
  <2>3. tab' \in [Tabs -> PageRow]
    BY <2>1, <2>2, <1>t DEF Closed, Page, PageRow, Users
  <2> HIDE DEF t
  <2>4. /\ call' \in [Calls -> CallRow] /\ (\A d \in Calls : Calling(d)')
        /\ req' \in [Requests -> RequestRow]
        /\ \A q \in Requests : Placed(req'[q]) /\ Moved(req[q], req'[q])
    BY <2>1, <2>2, LetGoTypes DEF Calling, Moved
  <2>5. TypeOK'
    BY <2>1, <2>2, <2>3, <2>4, RowTypes DEF TypeInv, TypeOK, server, PageRow, CallRow, RequestRow
  <2>6. QED
    BY <2>1, <2>2, <2>4, <2>5, BrowserTypes DEF OutsideServer, server
<1>4. CASE CompleteChange(c)
  <2>1. t \in Tabs /\ UNCHANGED <<server, cookie, req, expired, disturbed>>
    BY <1>4 DEF CompleteChange, Calling, Open, TypeInv
  <2>2. call' \in [Calls -> CallRow] /\ (\A d \in Calls : Calling(d)')
    BY <1>4, <1>t DEF CompleteChange, CallRow, Calling, Open, TypeInv
  <2>3. tab' \in [Tabs -> PageRow] /\ stored' \in Users
    BY <1>4, <1>t, <2>1, RowTypes DEF CompleteChange, PageRow, Users, TypeInv
  <2>4. TypeOK'
    BY <2>1, <2>2, <2>3, RowTypes DEF TypeInv, TypeOK, server, PageRow, CallRow, RequestRow
  <2>5. QED
    BY <2>1, <2>2, <2>4, <1>t, BrowserTypes DEF OutsideServer, server, TypeInv
<1>5. QED
  BY <1>1, <1>2, <1>3, <1>4 DEF Progress

LEMMA UserTypes ==
  ASSUME TypeInv, NEW t \in Tabs, User(t)
  PROVE  TypeInv' /\ OutsideServer
<1> USE NullApart
<1>t. /\ req \in [Requests -> RequestRow] /\ tab \in [Tabs -> PageRow] /\ stored \in Users
      /\ call \in [Calls -> CallRow] /\ \A q \in Requests : Moved(req[q], req[q])
  BY RowTypes DEF TypeInv, Moved, Answered
<1>1. ASSUME NEW r \in Requests, Load(t, r) PROVE TypeInv' /\ OutsideServer
  <2> DEFINE row == Request("refresh", t, "FindToken")
  <2>1. /\ req[r].pc = "idle" /\ req' = [LetGo(t) EXCEPT ![r] = row]
        /\ tab' = [tab EXCEPT ![t] = Mounted(r, stored)] /\ call' = Dropped(t)
        /\ disturbed' \in BOOLEAN /\ UNCHANGED <<server, cookie, stored, expired>>
    BY <1>1 DEF Load, Fresh, TypeInv, TypeOK
  <2>2. row \in RequestRow /\ Placed(row) /\ row.pc = "FindToken" /\ row.sent = cookie
    BY RequestTypes DEF Request
  <2> HIDE DEF row
  <2>3. /\ req' \in [Requests -> RequestRow]
        /\ \A q \in Requests : Placed(req'[q]) /\ Moved(req[q], req'[q])
    BY <2>1, <2>2, LetGoTypes DEF Moved, Begun
  <2>4. call' \in [Calls -> CallRow] /\ (\A d \in Calls : Calling(d)')
    BY <2>1, LetGoTypes DEF Calling
  <2>5. tab' \in [Tabs -> PageRow]
    BY <2>1, <1>t DEF PageRow, Mounted, Page
  <2>6. TypeOK'
    BY <2>1, <2>3, <2>4, <2>5, RowTypes DEF TypeInv, TypeOK, server, PageRow, CallRow, RequestRow
  <2>7. QED
    BY <2>1, <2>3, <2>4, <2>6, BrowserTypes DEF OutsideServer, server
<1>2. ASSUME NEW r \in Requests, SubmitLogin(t, r) \/ SubmitLogout(t, r) PROVE TypeInv' /\ OutsideServer
  <2>1. Begin(r, "login", t, "CheckUser") \/ Begin(r, "logout", t, "FindToken")
    BY <1>2 DEF SubmitLogin, SubmitLogout
  <2>2. UNCHANGED <<server, browser, expired>>
    BY <1>2 DEF SubmitLogin, SubmitLogout
  <2>3. /\ req' \in [Requests -> RequestRow] /\ disturbed' \in BOOLEAN
        /\ \A q \in Requests : Placed(req'[q]) /\ Moved(req[q], req'[q])
    BY <2>1, BeginTypes
  <2>4. TypeOK'
    BY <2>2, <2>3, RowTypes DEF TypeInv, TypeOK, server, browser, RequestRow
  <2>5. QED
    BY <2>2, <2>3, <2>4, BrowserTypes DEF OutsideServer, TypeInv, Calling, server, browser
<1>3. ASSUME NEW c \in Calls, SendCall(t, c) PROVE TypeInv' /\ OutsideServer
  <2>1. UNCHANGED <<server, cookie, stored, tab, req, expired, disturbed>>
    BY <1>3 DEF SendCall
  <2>2. \E auth \in Requests \cup {Null}, change \in BOOLEAN :
          call' = [call EXCEPT ![c] = [pc |-> "sent", tab |-> t, auth |-> auth,
                                       retried |-> FALSE, change |-> change]]
    <3>1. tab[t].access \in Requests \cup {Null} /\ ChangeForm(t) \in BOOLEAN
      BY <1>t DEF PageRow, ChangeForm
    <3>2. QED
      BY <1>3, <3>1 DEF SendCall
  <2>3. call' \in [Calls -> CallRow] /\ (\A d \in Calls : Calling(d)')
    BY <2>2, <1>t DEF CallRow, Calling, Open, TypeInv
  <2>4. TypeOK'
    BY <2>1, <2>3, RowTypes DEF TypeInv, TypeOK, server, CallRow
  <2>5. QED
    BY <2>1, <2>3, <2>4, <1>t, BrowserTypes DEF OutsideServer, TypeInv, server
<1>4. QED
  BY <1>1, <1>2, <1>3 DEF User

\* The clock, the mailed link, and what may go wrong.
LEMMA OutsideTypes ==
  ASSUME TypeInv, NEW r \in Requests,
         SubmitReset(r) \/ ExpireAccess(r) \/ ForgotPassword \/ Fail(r) \/ Cut(r)
  PROVE  TypeInv' /\ OutsideServer
<1> USE NullApart
<1>t. /\ req \in [Requests -> RequestRow] /\ tab \in [Tabs -> PageRow]
      /\ req[r] \in RequestRow /\ token \in [Requests -> {Null} \cup TokenRow]
      /\ call \in [Calls -> CallRow] /\ \A q \in Requests : Moved(req[q], req[q])
  BY RowTypes DEF TypeInv, Moved, Answered
<1>1. CASE SubmitReset(r)
  <2>1. UNCHANGED <<server, browser, expired>> /\ Begin(r, "reset", Null, "CheckLink")
    BY <1>1 DEF SubmitReset
  <2>2. /\ req' \in [Requests -> RequestRow] /\ disturbed' \in BOOLEAN
        /\ \A q \in Requests : Placed(req'[q]) /\ Moved(req[q], req'[q])
    BY <2>1, BeginTypes
  <2>3. TypeOK'
    BY <2>1, <2>2, RowTypes DEF TypeInv, TypeOK, server, browser, RequestRow
  <2>4. QED
    BY <2>1, <2>2, <2>3, BrowserTypes DEF OutsideServer, TypeInv, Calling, server, browser
<1>2. CASE ExpireAccess(r)
  <2>1. TypeOK'
    BY <1>2 DEF ExpireAccess, TypeInv, TypeOK, server, browser
  <2>2. QED
    BY <1>2, <2>1, <1>t, BrowserTypes DEF OutsideServer, ExpireAccess, TypeInv, Calling, server, browser
<1>3. CASE ForgotPassword
  <2>1. TypeOK'
    BY <1>3 DEF ForgotPassword, TypeInv, TypeOK, browser
  <2>2. QED
    BY <1>3, <2>1, <1>t, BrowserTypes DEF OutsideServer, ForgotPassword, TypeInv, Calling, browser
<1>4. CASE Fail(r)
  <2>1. /\ req' \in [Requests -> RequestRow]
        /\ \A q \in Requests : Placed(req'[q]) /\ Moved(req[q], req'[q])
    BY <1>4, <1>t DEF Fail, Goto, RequestRow, Placed, Moved, Answered, TypeInv
  <2>2. TypeOK'
    BY <1>4, <2>1, RowTypes DEF Fail, TypeInv, TypeOK, RequestRow, server, browser
  <2>3. QED
    BY <1>4, <2>1, <2>2, BrowserTypes DEF OutsideServer, Fail, TypeInv, Calling, server, browser
<1>5. CASE Cut(r)
  <2> DEFINE gone == [req EXCEPT ![r].tab = Null]
             t == req[r].tab
  <2>1. /\ gone \in [Requests -> RequestRow] /\ t \in Tabs
        /\ \A q \in Requests : Placed(gone[q]) /\ Answered(req[q], gone[q])
    BY <1>5, <1>t DEF Cut, RequestRow, Placed, Answered, TypeInv
  <2>2. CASE FailRefresh(r, gone, TRUE)
    <3> HIDE DEF gone
    <3> QED BY <2>1, <2>2, FailRefreshTypes
  <2>3. CASE /\ req' = gone /\ disturbed' = TRUE
             /\ UNCHANGED <<server, browser, expired>>
    <3> HIDE DEF gone
    <3>1. TypeOK'
      BY <2>1, <2>3, RowTypes DEF TypeInv, TypeOK, RequestRow, server, browser
    <3>2. QED
      BY <3>1, <2>1, <2>3, BrowserTypes DEF OutsideServer, TypeInv, Calling, Moved, server, browser
  <2>4. CASE /\ req' = gone /\ disturbed' = TRUE /\ stored' = "none"
             /\ tab' = [tab EXCEPT ![t].access = Null, ![t].user = "none"]
             /\ UNCHANGED <<server, cookie, call, expired>>
    <3>1. tab' \in [Tabs -> PageRow]
      BY <2>1, <2>4, <1>t DEF PageRow, Users
    <3> HIDE DEF gone
    <3>2. TypeOK'
      BY <2>1, <2>4, <3>1, RowTypes DEF TypeInv, TypeOK, RequestRow, PageRow, Users, server
    <3>3. QED
      BY <3>2, <2>1, <2>4, BrowserTypes DEF OutsideServer, TypeInv, Calling, Moved, server
  <2>5. QED
    BY <1>5, <2>2, <2>3, <2>4 DEF Cut, AccessLeft
<1>6. QED
  BY <1>1, <1>2, <1>3, <1>4, <1>5

LEMMA ExpireTypes ==
  ASSUME TypeInv, NEW r \in Requests, ExpireRefresh(r)
  PROVE  TypeInv'
<1>t. /\ req \in [Requests -> RequestRow] /\ token \in [Requests -> {Null} \cup TokenRow]
  BY RowTypes DEF TypeInv
<1>1. TypeOK'
  BY <1>t, NullApart, RowTypes DEF ExpireRefresh, Live, TypeInv, TypeOK, TokenRow
<1>2. QED
  BY <1>1, <1>t, NullApart DEF ExpireRefresh, Live, TypeInv, TokenRow, Rows, Calling

LEMMA TypeInvariant == Spec => []TypeInv
<1>1. Init => TypeInv
  <2> SUFFICES ASSUME Init PROVE TypeInv
    OBVIOUS
  <2>1. TypeOK
    BY NullApart DEF Init, TypeOK, TokenRow, Idle, Closed, Page, Open, Users
  <2>2. ASSUME NEW r \in Requests PROVE Placed(req[r]) /\ Rows(r)
    BY NullApart DEF Init, Idle, Placed, Rows, Ended
  <2>3. cookie # Null => token[cookie] # Null
    BY NullApart DEF Init, TokenRow
  <2>4. QED
    BY <2>1, <2>2, <2>3 DEF Init, TypeInv, Calling, Open
<1>2. TypeInv /\ [Next]_vars => TypeInv'
  <2> SUFFICES ASSUME TypeInv, [Next]_vars PROVE TypeInv'
    OBVIOUS
  <2>1. CASE UNCHANGED vars
    BY <2>1 DEF vars, server, browser, TypeInv, TypeOK, Rows, Calling
  <2>2. CASE Next
    BY <2>2, NullApart, ServerTypes, DeliverTypes, ProgressTypes, UserTypes, OutsideTypes,
       ExpireTypes DEF Next
  <2>3. QED
    BY <2>1, <2>2
<1>3. QED
  BY <1>1, <1>2, PTL DEF Spec

\* Every behaviour of Sessions keeps its types.
THEOREM TypeCorrect == Spec => []TypeOK
BY TypeInvariant, PTL DEF TypeInv

-----------------------------------------------------------------------------
(* One refresh per page: the page knows the one that is in flight for it.  *)

InFlight(r) == Active(r) /\ req[r].op = "refresh" /\ req[r].tab # Null
Refreshing == \A r \in Requests : InFlight(r) => tab[req[r].tab].refresh = r

LEMMA RefreshKept ==
  ASSUME Refreshing,
         \A q \in Requests : InFlight(q)' =>
           /\ InFlight(q) /\ req'[q].tab = req[q].tab
           /\ tab'[req[q].tab].refresh = tab[req[q].tab].refresh
  PROVE  Refreshing'
BY DEF Refreshing

\* A refresh that fails leaves none in flight for its page, or the one of the
\* page as it is loaded anew.
LEMMA FailRefreshFrees ==
  ASSUME TypeInv, Refreshing, NEW r \in Requests, InFlight(r), NEW failed, NEW harm,
         failed \in [Requests -> RequestRow],
         failed[r].pc = "done" \/ failed[r].tab = Null, \A q \in Requests \ {r} : failed[q] = req[q],
         FailRefresh(r, failed, harm)
  PROVE  Refreshing'
<1> DEFINE t == req[r].tab
<1> USE NullApart
<1>t. t \in Tabs /\ tab \in [Tabs -> PageRow] /\ req \in [Requests -> RequestRow]
  BY RowTypes DEF TypeInv, InFlight, RequestRow
<1>1. \A q \in Requests \ {r} : InFlight(q) => req[q].tab # t
  BY DEF Refreshing
<1>2. \/ req' = failed
      \/ \E q \in Requests : /\ req[q].pc = "idle" /\ tab' = [tab EXCEPT ![t] = Mounted(q, stored')]
                              /\ req' = [failed EXCEPT ![q] = Request("refresh", t, "FindToken")]
  BY DEF FailRefresh, Fresh
<1>3. \A u \in Tabs \ {t} : tab'[u] = tab[u]
  BY <1>t DEF FailRefresh
<1>4. CASE req' = failed
  BY <1>1, <1>3, <1>4, <1>t, RefreshKept DEF InFlight, Active, RequestRow
<1>5. ASSUME NEW q \in Requests, req[q].pc = "idle", tab' = [tab EXCEPT ![t] = Mounted(q, stored')],
             req' = [failed EXCEPT ![q] = Request("refresh", t, "FindToken")]
      PROVE  Refreshing'
  <2>1. /\ q # r /\ req'[q].tab = t /\ tab'[t].refresh = q
        /\ \A p \in Requests \ {q} : req'[p] = failed[p]
    BY <1>5, <1>t DEF InFlight, Active, Request, Mounted, Page
  <2>2. ASSUME NEW p \in Requests, InFlight(p)' PROVE tab'[req'[p].tab].refresh = p
    <3>1. CASE p = q
      BY <3>1, <2>1
    <3>2. CASE p # q
      <4>1. p # r /\ req'[p] = req[p]
        BY <2>1, <2>2, <3>2 DEF InFlight, Active
      <4>2. InFlight(p) /\ req[p].tab # t /\ req[p].tab \in Tabs
        BY <4>1, <2>2, <1>1, <1>t DEF InFlight, Active, RequestRow
      <4>3. QED
        BY <4>1, <4>2, <1>3 DEF Refreshing
    <3>3. QED
      BY <3>1, <3>2
  <2>3. QED
    BY <2>2 DEF Refreshing
<1>6. QED
  BY <1>2, <1>4, <1>5

\* A page that has no refresh in flight begins one.
LEMMA RefreshBegun ==
  ASSUME TypeInv, Refreshing, NEW r \in Requests, NEW t \in Tabs,
         req'[r].tab = t, tab'[t].refresh = r,
         \A q \in Requests \ {r} : InFlight(q)' => /\ InFlight(q) /\ req'[q].tab = req[q].tab
                                                   /\ req[q].tab # t,
         \A u \in Tabs \ {t} : tab'[u] = tab[u]
  PROVE  Refreshing'
<1>1. ASSUME NEW q \in Requests \ {r}, InFlight(q)' PROVE tab'[req'[q].tab].refresh = q
  <2>1. InFlight(q) /\ req'[q].tab = req[q].tab /\ req[q].tab # t /\ req[q].tab \in Tabs
    BY <1>1, RowTypes DEF TypeInv, InFlight, RequestRow
  <2>2. QED
    BY <2>1 DEF Refreshing
<1>2. QED
  BY <1>1 DEF Refreshing

LEMMA RefreshStep ==
  ASSUME TypeInv, Refreshing, [Next]_vars
  PROVE  Refreshing'
<1> USE NullApart
<1>t. req \in [Requests -> RequestRow] /\ tab \in [Tabs -> PageRow]
  BY RowTypes DEF TypeInv
<1>1. ASSUME NEW r \in Requests, Handle(r) \/ Fail(r) \/ Discard(r) PROVE Refreshing'
  <2>1. /\ tab' = tab /\ Active(r) /\ req'[r].op = req[r].op /\ req'[r].tab \in {req[r].tab, Null}
        /\ \A q \in Requests \ {r} : req'[q] = req[q]
    BY <1>1, <1>t DEF Handle, CheckUser, FindToken, RevokeToken, InsertToken, RevokeTogether, CheckLink, UseLink,
         Fail, Discard, Settled, Goto, Active, RequestRow, browser
  <2>2. QED
    BY <2>1, RefreshKept DEF InFlight, Active
<1>2. ASSUME NEW r \in Requests, DeliverLogin(r) \/ DeliverLogout(r) PROVE Refreshing'
  <2>1. /\ req'[r].pc = "done" /\ \A q \in Requests \ {r} : req'[q] = req[q]
    BY <1>2, <1>t DEF DeliverLogin, DeliverLogout, Settled, RequestRow
  <2>2. \A u \in Tabs : tab'[u].refresh = tab[u].refresh
    BY <1>2, <1>t DEF DeliverLogin, DeliverLogout, PageRow
  <2>3. QED
    BY <2>1, <2>2, <1>t, RefreshKept DEF InFlight, Active, RequestRow
<1>3. ASSUME NEW r \in Requests, DeliverRefresh(r) PROVE Refreshing'
  <2>1. /\ InFlight(r) /\ req'[r].pc = "done" /\ \A q \in Requests \ {r} : req'[q] = req[q]
    BY <1>3, <1>t DEF DeliverRefresh, Settled, RequestRow, InFlight, Active
  <2>2. \A u \in Tabs \ {req[r].tab} : tab'[u].refresh = tab[u].refresh
    BY <1>3, <1>t DEF DeliverRefresh, PageRow
  <2>3. \A q \in Requests \ {r} : InFlight(q) => req[q].tab # req[r].tab
    BY <2>1 DEF Refreshing
  <2>4. QED
    BY <2>1, <2>2, <2>3, <1>t, RefreshKept DEF InFlight, Active, RequestRow
<1>4. ASSUME NEW r \in Requests, DeliverFailure(r) PROVE Refreshing'
  <2>1. /\ Settled(r) \in [Requests -> RequestRow] /\ Settled(r)[r].pc = "done"
        /\ \A q \in Requests \ {r} : Settled(r)[q] = req[q]
    BY <1>t DEF Settled, RequestRow
  <2>2. CASE FailRefresh(r, Settled(r), disturbed)
    <3>1. InFlight(r)
      BY <1>4, <2>2 DEF DeliverFailure, FailRefresh, InFlight, Active
    <3>2. QED
      BY <2>1, <2>2, <3>1, FailRefreshFrees
  <2>3. CASE req' = Settled(r) /\ tab' = tab
    BY <2>1, <2>3, RefreshKept DEF InFlight, Active
  <2>4. QED
    BY <1>4, <2>2, <2>3 DEF DeliverFailure, browser
<1>5. ASSUME NEW r \in Requests, Cut(r) PROVE Refreshing'
  <2> DEFINE gone == [req EXCEPT ![r].tab = Null]
  <2>1. /\ gone \in [Requests -> RequestRow] /\ gone[r].tab = Null
        /\ \A q \in Requests \ {r} : gone[q] = req[q]
    BY <1>t DEF RequestRow
  <2>2. CASE FailRefresh(r, gone, TRUE)
    <3>1. InFlight(r)
      BY <1>5, <2>2 DEF Cut, FailRefresh, InFlight
    <3> HIDE DEF gone
    <3>2. QED
      BY <2>1, <2>2, <3>1, FailRefreshFrees
  <2>3. CASE req' = gone /\ \A u \in Tabs : tab'[u].refresh = tab[u].refresh
    <3> HIDE DEF gone
    <3> QED BY <2>1, <2>3, <1>t, RefreshKept DEF InFlight, Active, RequestRow
  <2>4. QED
    <3>1. \/ FailRefresh(r, gone, TRUE)
          \/ req' = gone /\ tab' = tab
          \/ req' = gone /\ tab' = [tab EXCEPT ![req[r].tab].access = AccessLeft(req[r].tab),
                                               ![req[r].tab].user = "none"]
      BY <1>5 DEF Cut, browser
    <3>2. CASE tab' = [tab EXCEPT ![req[r].tab].access = AccessLeft(req[r].tab),
                                  ![req[r].tab].user = "none"]
      <4>1. \A u \in Tabs : tab'[u].refresh = tab[u].refresh
        BY <3>2, <1>t DEF PageRow
      <4>2. QED
        BY <4>1, <2>2, <2>3, <3>1
    <3>3. QED
      BY <2>2, <2>3, <3>1, <3>2
<1>6. ASSUME NEW c \in Calls, AnswerCall(c) \/ CompleteChange(c) PROVE Refreshing'
  <2>1. req' = req /\ \A u \in Tabs : tab'[u].refresh = tab[u].refresh
    BY <1>6, <1>t DEF AnswerCall, CompleteChange, PageRow
  <2>2. QED
    BY <2>1, <1>t, RefreshKept DEF InFlight, Active, RequestRow
<1>7. ASSUME NEW c \in Calls, Unauthorized(c) PROVE Refreshing'
  <2>1. CASE UNCHANGED <<tab, req>>
    BY <2>1, RefreshKept DEF InFlight, Active
  <2>2. ASSUME NEW r \in Requests, NEW t \in Tabs, tab[t].refresh = Null,
               Begin(r, "refresh", t, "FindToken"),
               tab' = [tab EXCEPT ![t].refresh = r, ![t].stray = (tab[t].user = "none")]
        PROVE  Refreshing'
    <3>1. /\ req'[r].tab = t /\ tab'[t].refresh = r
          /\ \A q \in Requests \ {r} : req'[q] = req[q]
          /\ \A u \in Tabs \ {t} : tab'[u] = tab[u]
      BY <2>2, <1>t DEF Begin, Request, PageRow
    <3>2. \A q \in Requests : InFlight(q) => req[q].tab # t
      BY <2>2 DEF Refreshing
    <3>3. QED
      BY <3>1, <3>2, RefreshBegun DEF InFlight, Active
  <2>3. call[c].tab \in Tabs
    BY <1>7 DEF Unauthorized, Calling, Open, TypeInv
  <2>4. QED
    BY <1>7, <2>1, <2>2, <2>3 DEF Unauthorized, RefreshOf
<1>8. ASSUME NEW c \in Calls, OutOfRequests(c) PROVE Refreshing'
  <2>1. req' = LetGo(call[c].tab) /\ \A u \in Tabs \ {call[c].tab} : tab'[u] = tab[u]
    BY <1>8, <1>t DEF OutOfRequests
  <2>2. QED
    BY <2>1, <1>t, RefreshKept DEF LetGo, InFlight, Active, RequestRow
<1>9. ASSUME NEW r \in Requests, NEW t \in Tabs, Load(t, r) PROVE Refreshing'
  <2>1. /\ req'[r].tab = t /\ tab'[t].refresh = r
        /\ \A q \in Requests \ {r} : req'[q] = LetGo(t)[q]
        /\ \A u \in Tabs \ {t} : tab'[u] = tab[u]
    BY <1>9, <1>t DEF Load, LetGo, Request, Mounted, Page
  <2>2. ASSUME NEW q \in Requests \ {r}, InFlight(q)'
        PROVE  InFlight(q) /\ req'[q].tab = req[q].tab /\ req[q].tab # t
    <3>1. req'[q] = IF req[q].tab = t /\ Active(q) THEN [req[q] EXCEPT !.tab = Null] ELSE req[q]
      BY <2>1 DEF LetGo
    <3>2. QED
      BY <3>1, <2>2, <1>t DEF InFlight, Active, RequestRow
  <2>3. QED
    BY <2>1, <2>2, RefreshBegun
<1>10. ASSUME NEW r \in Requests, NEW t \in Tabs \cup {Null}, NEW op \in {"login", "logout", "reset"},
              NEW pc, Begin(r, op, t, pc), tab' = tab
       PROVE  Refreshing'
  <2>1. req'[r].op # "refresh" /\ \A q \in Requests \ {r} : req'[q] = req[q]
    BY <1>10, <1>t DEF Begin, Request
  <2>2. QED
    BY <1>10, <2>1, RefreshKept DEF InFlight, Active
<1>11. ASSUME UNCHANGED <<tab, req>> PROVE Refreshing'
  BY <1>11, RefreshKept DEF InFlight, Active
<1>12. ASSUME NEW t \in Tabs, User(t) PROVE Refreshing'
  BY <1>9, <1>10, <1>11, <1>12 DEF User, SubmitLogin, SubmitLogout, SendCall, browser
<1>13. ASSUME NEW r \in Requests, SubmitReset(r) \/ ExpireAccess(r) \/ ExpireRefresh(r) \/ ForgotPassword
       PROVE  Refreshing'
  BY <1>10, <1>11, <1>13 DEF SubmitReset, ExpireAccess, ExpireRefresh, ForgotPassword, browser
<1>14. QED
  <2>1. CASE UNCHANGED vars
    BY <2>1, <1>11 DEF vars, browser
  <2>2. CASE Next
    BY <2>2, <1>1, <1>2, <1>3, <1>4, <1>5, <1>6, <1>7, <1>8, <1>12, <1>13 DEF Next, Deliver, Progress
  <2>3. QED
    BY <2>1, <2>2

\* The comment of client.ts, "only one refresh in flight at a time", for each
\* page: a refresh is shared from the 401 or the load that began it until it is
\* settled or cut off, and no other is begun for the page meanwhile.
THEOREM OneRefreshPerPageSafe == Spec => []OneRefreshPerPage
<1>1. Init => Refreshing
  BY DEF Init, Idle, Refreshing, InFlight, Active
<1>2. TypeInv /\ Refreshing /\ [Next]_vars => Refreshing'
  BY RefreshStep
<1>3. Refreshing => OneRefreshPerPage
  BY DEF Refreshing, OneRefreshPerPage, InFlight
<1>4. QED
  BY <1>1, <1>2, <1>3, TypeInvariant, PTL DEF Spec

-----------------------------------------------------------------------------
(* Rotation.  A family begins with the token of a login; from then on it   *)
(* has one live token, or one request that is going to insert the next,    *)
(* until a second request takes a token of the family in hand.             *)

Founded(f) == req[f].op = "login" /\ req[f].pc \notin {"idle", "CheckUser", "InsertToken"}
Founding(f) == req[f].op = "login" /\ req[f].pc \notin {"idle", "CheckUser"}

\* Nobody has a token of the family f, or can insert one.
Extinct(f) == \A q \in Requests : /\ Live(q) => token[q].family # f
                                  /\ InHand(q) => Family(q) # f

FamiliesFounded ==
  /\ \A t \in Requests : token[t] # Null => Founded(token[t].family)
  /\ \A d \in dead : Founding(d[2])

DeadStay == \A d \in dead : d[2] \notin raced => Extinct(d[2])

OneHand ==
  \A p, q \in Requests : InHand(p) /\ InHand(q) /\ Family(p) = Family(q) /\ Family(q) \notin raced => p = q

OneLive ==
  \A t, u \in Requests : Live(t) /\ Live(u) /\ token[t].family = token[u].family
                           /\ token[u].family \notin raced => t = u

\* What is live while a request has the family in hand is the token it uses.
Rotating ==
  \A q, t \in Requests : InHand(q) /\ Live(t) /\ token[t].family = Family(q) /\ Family(q) \notin raced
                           => req[q].pc = "RevokeToken" /\ t = req[q].sent

Rotation == FamiliesFounded /\ DeadStay /\ OneHand /\ OneLive /\ Rotating

\* A step in which no request takes a token in hand, and no token gets live.
Calm ==
  /\ dead' = dead /\ raced \subseteq raced'
  /\ \A q \in Requests :
       /\ InHand(q)' => InHand(q) /\ Family(q)' = Family(q) /\ req'[q].pc = req[q].pc /\ req'[q].sent = req[q].sent
       /\ Live(q)' => Live(q)
       /\ Founded(q) => Founded(q)'
       /\ Founding(q) => Founding(q)'
       /\ token'[q] # Null => token[q] # Null /\ token'[q].family = token[q].family

LEMMA CalmRotation ==
  ASSUME TypeInv, TypeInv', Rotation, Calm
  PROVE  Rotation'
<1>t. /\ \A q \in Requests : token[q] # Null => token[q] \in TokenRow
      /\ \A q \in Requests : token'[q] # Null => token'[q] \in TokenRow
      /\ dead \subseteq {"reset", "refresh"} \X Requests
  BY DEF TypeInv, TypeOK
<1>1. FamiliesFounded'
  BY <1>t DEF Rotation, FamiliesFounded, Calm, TokenRow
<1>2. DeadStay'
  BY <1>t DEF Rotation, DeadStay, Extinct, Calm, Live
<1>3. OneHand'
  BY DEF Rotation, OneHand, Calm
<1>4. OneLive'
  BY DEF Rotation, OneLive, Calm, Live
<1>5. Rotating'
  BY DEF Rotation, Rotating, Calm, Live
<1>6. QED
  BY <1>1, <1>2, <1>3, <1>4, <1>5 DEF Rotation

LEMMA OutsideServerCalm ==
  ASSUME TypeInv, OutsideServer
  PROVE  Calm
<1>1. ASSUME NEW q \in Requests
      PROVE  /\ InHand(q)' => InHand(q) /\ Family(q)' = Family(q) /\ req'[q].pc = req[q].pc
                                        /\ req'[q].sent = req[q].sent
             /\ Founded(q) => Founded(q)'
             /\ Founding(q) => Founding(q)'
  <2>1. Moved(req[q], req'[q]) /\ token' = token
    BY DEF OutsideServer
  <2>2. QED
    BY <2>1 DEF Moved, Answered, Begun, InHand, Family, Founded, Founding
<1>2. QED
  BY <1>1 DEF Calm, OutsideServer, Live

LEMMA ExpireCalm ==
  ASSUME TypeInv, NEW r \in Requests, ExpireRefresh(r)
  PROVE  Calm
<1>1. /\ req' = req /\ dead' = dead /\ raced' = raced
      /\ token[r] \in TokenRow /\ token' = [token EXCEPT ![r].state = "expired"]
      /\ token \in [Requests -> {Null} \cup TokenRow]
  BY NullApart, RowTypes DEF ExpireRefresh, Live, TypeInv
<1>2. \A q \in Requests : /\ token'[q] # Null <=> token[q] # Null
                          /\ token[q] # Null => token'[q].family = token[q].family
                          /\ Live(q)' => Live(q)
  BY <1>1, NullApart DEF TokenRow, Live
<1>3. \A q \in Requests : InHand(q) => Family(q)' = Family(q)
  BY <1>1, <1>2 DEF InHand, Family, TypeInv, Placed, Rows, TypeOK
<1>4. QED
  BY <1>1, <1>2, <1>3 DEF Calm, InHand, Founded, Founding

\* The steps that take a token in hand, revoke and insert.
LEMMA HandleRotation ==
  ASSUME TypeInv, TypeInv', Rotation, NEW r \in Requests, Handle(r)
  PROVE  Rotation'
<1> USE NullApart
<1>t. /\ req \in [Requests -> RequestRow] /\ token \in [Requests -> {Null} \cup TokenRow]
      /\ dead \subseteq {"reset", "refresh"} \X Requests /\ req[r] \in RequestRow
  BY RowTypes DEF TypeInv
<1>h. \A q \in Requests : InHand(q) /\ req[q].op # "login" =>
        /\ req[q].sent \in Requests /\ token[req[q].sent] \in TokenRow
        /\ Family(q) = token[req[q].sent].family
  BY <1>t DEF InHand, Family, TypeInv, Placed, Rows, RequestRow
<1>l. \A q \in Requests : InHand(q) /\ req[q].op = "login" => Family(q) = q /\ ~Founded(q)
  BY DEF InHand, Family, Founded
<1>f. \A q \in Requests : InHand(q) => Founding(Family(q)) /\ Family(q) \in Requests
  BY <1>h, <1>l DEF Rotation, FamiliesFounded, Founded, Founding, InHand, TokenRow
<1>1. CASE CheckUser(r)
  <2>1. /\ UNCHANGED <<token, dead, raced>> /\ req[r].op = "login" /\ req[r].pc = "CheckUser"
        /\ req'[r].op = "login" /\ req'[r].sent = req[r].sent /\ req'[r].pc \in {"refused", "InsertToken"}
        /\ \A q \in Requests \ {r} : req'[q] = req[q]
    BY <1>1, <1>t DEF CheckUser, Goto, RequestRow, TypeInv, Placed, server
  <2>2. \A q \in Requests : token[q] # Null => token[q].family # r
    BY <2>1 DEF Rotation, FamiliesFounded, Founded
  <2>3. \A d \in dead : d[2] # r
    BY <2>1 DEF Rotation, FamiliesFounded, Founding
  <2>4. \A q \in Requests : InHand(q) => Family(q) # r
    BY <1>f, <2>1 DEF Founding
  <2>5. \A q \in Requests \ {r} : (InHand(q)' <=> InHand(q)) /\ (InHand(q) => Family(q)' = Family(q))
    BY <2>1 DEF InHand, Family
  <2>6. Family(r)' = r /\ ~InHand(r)
    BY <2>1 DEF Family, InHand
  <2>7. FamiliesFounded'
    <3>1. \A q \in Requests : (Founded(q) => Founded(q)') /\ (Founding(q) => Founding(q)')
      BY <2>1 DEF Founded, Founding
    <3>2. QED
      BY <2>1, <3>1, <1>t DEF Rotation, FamiliesFounded, TokenRow
  <2>8. DeadStay'
    BY <2>1, <2>3, <2>5, <2>6 DEF Rotation, DeadStay, Extinct, Live
  <2>9. OneHand'
    BY <2>1, <2>4, <2>5, <2>6 DEF Rotation, OneHand
  <2>10. OneLive'
    BY <2>1 DEF Rotation, OneLive, Live
  <2>11. Rotating'
    BY <2>1, <2>2, <2>5, <2>6 DEF Rotation, Rotating, Live
  <2>12. QED
    BY <2>7, <2>8, <2>9, <2>10, <2>11 DEF Rotation
<1>2. CASE FindToken(r)
  <2>1. /\ UNCHANGED <<token, dead>> /\ req[r].op \in {"refresh", "logout"} /\ req[r].pc = "FindToken"
        /\ req'[r].op = req[r].op /\ req'[r].sent = req[r].sent /\ req'[r].pc = Found(r)
        /\ \A q \in Requests \ {r} : req'[q] = req[q]
        /\ raced \subseteq raced'
    BY <1>2, <1>t DEF FindToken, Goto, RequestRow, TypeInv, Placed
  <2>2. \A q \in Requests \ {r} : (InHand(q)' <=> InHand(q)) /\ (InHand(q) => Family(q)' = Family(q))
    BY <2>1 DEF InHand, Family
  <2>3. \A q \in Requests : (Founded(q) => Founded(q)') /\ (Founding(q) => Founding(q)')
    BY <2>1 DEF Founded, Founding
  <2>4. CASE ~InHand(r)'
    <3>1. Calm
      BY <2>1, <2>2, <2>3, <2>4 DEF Calm, Live
    <3>2. QED
      BY <3>1, CalmRotation
  <2>5. CASE InHand(r)'
    <3>1. /\ req[r].op = "refresh" /\ Found(r) = "RevokeToken" /\ req[r].sent # Null
          /\ Live(req[r].sent) /\ req[r].sent \in Requests
          /\ Family(r)' = token[req[r].sent].family /\ Family(r) = token[req[r].sent].family
      BY <2>1, <2>5, <1>t DEF InHand, Found, Live, Family, TokenRow, TypeInv, Rows, RequestRow
    <3>2. \A q \in Requests \ {r} : InHand(q) /\ Family(q) = Family(r) => Family(r) \in raced'
      BY <1>2, <3>1 DEF FindToken
    <3>3. FamiliesFounded'
      BY <2>1, <2>3, <1>t DEF Rotation, FamiliesFounded, TokenRow
    <3>4. DeadStay'
      BY <2>1, <2>2, <3>1 DEF Rotation, DeadStay, Extinct, Live
    <3>5. OneHand'
      BY <2>1, <2>2, <3>1, <3>2 DEF Rotation, OneHand
    <3>6. OneLive'
      BY <2>1 DEF Rotation, OneLive, Live
    <3>7. Rotating'
      BY <2>1, <2>2, <3>1 DEF Rotation, Rotating, OneLive, Live
    <3>8. QED
      BY <3>3, <3>4, <3>5, <3>6, <3>7 DEF Rotation
  <2>6. QED
    BY <2>4, <2>5
<1>3. CASE RevokeToken(r)
  <2>1. /\ UNCHANGED <<dead, raced>> /\ req[r].pc = "RevokeToken" /\ req[r].sent \in Requests
        /\ req[r].op \in {"refresh", "logout"} /\ token[req[r].sent] \in TokenRow
        /\ token' = Revoked({req[r].sent})
        /\ req'[r].op = req[r].op /\ req'[r].sent = req[r].sent
        /\ req'[r].pc = IF req[r].op = "logout" THEN "ok" ELSE "InsertToken"
        /\ \A q \in Requests \ {r} : req'[q] = req[q]
    BY <1>3, <1>t DEF RevokeToken, Goto, RequestRow, TypeInv, Placed, Rows
  <2>2. /\ ~Live(req[r].sent)'
        /\ \A q \in Requests : /\ token'[q] # Null <=> token[q] # Null
                               /\ token[q] # Null => token'[q].family = token[q].family
                               /\ Live(q)' => Live(q)
    BY <2>1, <1>t DEF Revoked, Live, TokenRow
  <2>3. \A q \in Requests \ {r} : (InHand(q)' <=> InHand(q)) /\ (InHand(q) => Family(q)' = Family(q))
    BY <2>1, <2>2, <1>h DEF InHand, Family
  <2>4. \A q \in Requests : (Founded(q) => Founded(q)') /\ (Founding(q) => Founding(q)')
    BY <2>1 DEF Founded, Founding
  <2>5. CASE req[r].op = "logout"
    <3>1. Calm
      BY <2>1, <2>2, <2>3, <2>4, <2>5 DEF Calm, InHand
    <3>2. QED
      BY <3>1, CalmRotation
  <2>6. CASE req[r].op = "refresh"
    <3>1. InHand(r) /\ InHand(r)' /\ Family(r)' = Family(r)
      BY <2>1, <2>2, <2>6, <1>h DEF InHand, Family
    <3>2. FamiliesFounded'
      BY <2>1, <2>2, <2>4, <1>t DEF Rotation, FamiliesFounded, TokenRow
    <3>3. DeadStay'
      <4>1. ASSUME NEW d \in dead, d[2] \notin raced, NEW q \in Requests
            PROVE  (Live(q)' => token'[q].family # d[2]) /\ (InHand(q)' => Family(q)' # d[2])
        <5>1. (Live(q) => token[q].family # d[2]) /\ (InHand(q) => Family(q) # d[2])
          BY <4>1 DEF Rotation, DeadStay, Extinct
        <5>2. Live(q) => token[q] # Null
          BY DEF Live
        <5>3. QED
          BY <5>1, <5>2, <2>2, <2>3, <3>1
      <4>2. QED
        BY <4>1, <2>1 DEF DeadStay, Extinct
    <3>4. OneHand'
      BY <2>1, <2>3, <3>1 DEF Rotation, OneHand
    <3>5. OneLive'
      <4>1. \A q \in Requests : Live(q)' => Live(q) /\ token'[q].family = token[q].family
        BY <2>2 DEF Live
      <4>2. QED
        BY <4>1, <2>1 DEF Rotation, OneLive
    <3>6. Rotating'
      <4>1. ASSUME NEW q \in Requests, NEW t \in Requests, InHand(q)', Live(t)',
                   token'[t].family = Family(q)', Family(q)' \notin raced'
            PROVE  req'[q].pc = "RevokeToken" /\ t = req'[q].sent
        <5>1. /\ InHand(q) /\ Live(t) /\ token[t].family = Family(q) /\ Family(q) \notin raced
          BY <4>1, <2>1, <2>2, <2>3, <3>1 DEF Live
        <5>2. req[q].pc = "RevokeToken" /\ t = req[q].sent
          BY <5>1 DEF Rotation, Rotating
        <5>3. QED
          BY <5>2, <4>1, <2>1, <2>2
      <4>2. QED
        BY <4>1 DEF Rotating
    <3>7. QED
      BY <3>2, <3>3, <3>4, <3>5, <3>6 DEF Rotation
  <2>7. QED
    BY <2>1, <2>5, <2>6
<1>4. CASE InsertToken(r)
  <2> DEFINE new == [family |-> Family(r), state |-> "live"]
  <2>1. /\ UNCHANGED <<dead, raced>> /\ req[r].pc = "InsertToken" /\ InHand(r)
        /\ token[r] = Null /\ token' = [token EXCEPT ![r] = new]
        /\ req'[r].op = req[r].op /\ req'[r].sent = req[r].sent /\ req'[r].pc = "ok"
        /\ \A q \in Requests \ {r} : req'[q] = req[q]
    BY <1>4, <1>t DEF InsertToken, Goto, RequestRow, TypeInv, Placed, Rows, Ended, InHand
  <2>2. /\ \A q \in Requests \ {r} : token'[q] = token[q]
        /\ token'[r] = new /\ token'[r].family = Family(r) /\ ~InHand(r)'
    BY <2>1, <1>t DEF InHand
  <2>3. \A q \in Requests \ {r} : (InHand(q)' <=> InHand(q)) /\ (InHand(q) => Family(q)' = Family(q))
    BY <2>1, <2>2, <1>h DEF InHand, Family
  <2>4. \A q \in Requests : (Founded(q) => Founded(q)') /\ (Founding(q) => Founding(q)')
    BY <2>1 DEF Founded, Founding
  <2>5. Founded(Family(r))'
    <3>1. CASE req[r].op = "login"
      BY <3>1, <2>1 DEF Founded, Family
    <3>2. CASE req[r].op # "login"
      <4>1. /\ req[r].sent \in Requests /\ token[req[r].sent] # Null
            /\ Family(r) = token[req[r].sent].family /\ Family(r) \in Requests
        BY <3>2, <2>1, <1>h DEF TokenRow
      <4>2. Founded(Family(r))
        BY <4>1 DEF Rotation, FamiliesFounded
      <4>3. Family(r) # r
        BY <4>2, <3>2 DEF Founded
      <4>4. req'[Family(r)] = req[Family(r)]
        BY <4>1, <4>3, <2>1
      <4>5. req'[Family(r)].op = "login" /\ req'[Family(r)].pc \notin {"idle", "CheckUser", "InsertToken"}
        BY <4>2, <4>4 DEF Founded
      <4>6. Family(r)' = Family(r)
        <5>1. req[r].sent # r
          BY <4>1, <2>1
        <5>2. QED
          BY <5>1, <4>1, <3>2, <2>1, <2>2 DEF Family
      <4>7. QED
        BY <4>5, <4>6 DEF Founded
    <3>3. QED
      BY <3>1, <3>2
  <2>f. Family(r)' = Family(r) /\ Family(r) \in Requests
    <3>1. CASE req[r].op = "login"
      BY <3>1, <2>1 DEF Family
    <3>2. CASE req[r].op # "login"
      BY <3>2, <2>1, <2>2, <1>h DEF Family, TokenRow
    <3>3. QED
      BY <3>1, <3>2
  <2>6. FamiliesFounded'
    <3>1. ASSUME NEW q \in Requests, token'[q] # Null PROVE Founded(token[q].family)'
      <4>1. CASE q = r
        BY <4>1, <2>2, <2>5, <2>f
      <4>2. CASE q # r
        BY <4>2, <3>1, <2>2, <2>4, <1>t DEF Rotation, FamiliesFounded, TokenRow
      <4>3. QED
        BY <4>1, <4>2
    <3>2. \A d \in dead' : Founding(d[2])'
      BY <2>1, <2>4, <1>t DEF Rotation, FamiliesFounded
    <3>3. QED
      BY <3>1, <3>2 DEF FamiliesFounded
  <2>7. DeadStay'
    BY <2>1, <2>2, <2>3 DEF Rotation, DeadStay, Extinct, Live
  <2>8. OneHand'
    BY <2>1, <2>2, <2>3 DEF Rotation, OneHand
  <2>9. \A t \in Requests : Live(t) /\ token[t].family = Family(r) => Family(r) \in raced
    BY <2>1 DEF Rotation, Rotating
  <2>10. OneLive'
    BY <2>1, <2>2, <2>9 DEF Rotation, OneLive, Live
  <2>11. \A q \in Requests \ {r} : InHand(q) /\ Family(q) = Family(r) => Family(r) \in raced
    BY <2>1 DEF Rotation, OneHand
  <2>12. Rotating'
    BY <2>1, <2>2, <2>3, <2>11 DEF Rotation, Rotating, Live
  <2>13. QED
    BY <2>6, <2>7, <2>8, <2>10, <2>12 DEF Rotation
<1>5. CASE RevokeTogether(r)
  <2> DEFINE T == RevokedTogether(r)
  <2>1. /\ req[r].pc \in {"RevokeFamily", "RevokeAll"} /\ ~InHand(r)
        /\ req[r].op = "reset" \/ (req[r].op = "refresh" /\ Family(r) = token[req[r].sent].family)
        /\ req'[r].op = req[r].op /\ req'[r].pc \in {"ok", "refused"}
        /\ \A q \in Requests \ {r} : req'[q] = req[q]
        /\ token' = Revoked(T)
    BY <1>5, <1>t DEF RevokeTogether, Goto, RequestRow, TypeInv, Placed, InHand, Family
  <2>2. T \subseteq Requests /\ \A q \in T : token[q] \in TokenRow
    BY <1>t DEF RevokedTogether, TokensOf
  <2>3. \A q \in Requests : /\ token'[q] # Null <=> token[q] # Null
                            /\ token[q] # Null => token'[q].family = token[q].family
                            /\ Live(q)' => Live(q) /\ q \notin T
    BY <2>1, <2>2, <1>t DEF Revoked, Live, TokenRow
  <2>4. \A q \in Requests : (InHand(q)' => InHand(q)) /\ (InHand(q) => Family(q)' = Family(q) /\ req'[q] = req[q])
    BY <2>1, <2>3, <1>h DEF InHand, Family
  <2>5. \A q \in Requests : (Founded(q) => Founded(q)') /\ (Founding(q) => Founding(q)')
    BY <2>1 DEF Founded, Founding
  <2> DEFINE old == {q \in Requests : InHand(q) /\ (req[r].op = "reset" \/ Family(q) = Family(r))}
             ended == {Family(q) : q \in old} \cup {token[q].family : q \in T}
  <2>6. dead' = dead \cup {<<req[r].op, f>> : f \in ended} /\ raced' = raced \cup {Family(q) : q \in old}
    BY <1>5 DEF RevokeTogether
  <2>7. ASSUME NEW d \in dead', d \notin dead
        PROVE  \/ \E q \in old : d[2] = Family(q)
               \/ \E q \in T : d[2] = token[q].family
    BY <2>6, <2>7
  <2>8. FamiliesFounded'
    <3>1. \A q \in Requests : token'[q] # Null => Founded(token[q].family)'
      BY <2>3, <2>5, <1>t DEF Rotation, FamiliesFounded, TokenRow
    <3>2. ASSUME NEW d \in dead' PROVE Founding(d[2])'
      <4>1. CASE d \in dead
        BY <4>1, <2>5, <1>t DEF Rotation, FamiliesFounded
      <4>2. CASE d \notin dead
        <5>1. ASSUME NEW q \in old, d[2] = Family(q) PROVE Founding(d[2])'
          BY <5>1, <2>5, <1>f
        <5>2. ASSUME NEW q \in T, d[2] = token[q].family PROVE Founding(d[2])'
          <6>1. d[2] \in Requests /\ Founded(d[2])
            BY <5>2, <2>2 DEF Rotation, FamiliesFounded, TokenRow
          <6>2. QED
            BY <6>1, <2>5 DEF Founded, Founding
        <5>3. QED
          BY <4>2, <5>1, <5>2, <2>7
      <4>3. QED
        BY <4>1, <4>2
    <3>3. QED
      BY <3>1, <3>2, <2>3 DEF FamiliesFounded
  <2>9. DeadStay'
    <3>1. ASSUME NEW d \in dead', d[2] \notin raced', NEW q \in Requests
          PROVE  (Live(q)' => token[q].family # d[2]) /\ (InHand(q)' => Family(q) # d[2])
      <4>1. CASE d \in dead
        BY <4>1, <3>1, <2>3, <2>4, <2>6 DEF Rotation, DeadStay, Extinct
      <4>2. CASE d \notin dead
        <5>1. PICK u \in T : d[2] = token[u].family
          BY <4>2, <3>1, <2>6, <2>7
        <5>2. ~(InHand(q) /\ (req[r].op = "reset" \/ Family(q) = Family(r)) /\ Family(q) = d[2])
          BY <3>1, <2>6
        <5>3. CASE req[r].op = "reset"
          <6>1. q \in T \/ token[q] = Null
            BY <5>3 DEF RevokedTogether
          <6>2. QED
            BY <5>2, <5>3, <6>1, <2>3, <2>4 DEF Live
        <5>4. CASE req[r].op # "reset"
          <6>1. T = TokensOf(Family(r))
            BY <5>4 DEF RevokedTogether
          <6>2. d[2] = Family(r) /\ (Live(q)' => token[q].family # Family(r))
            BY <5>1, <6>1, <2>3 DEF TokensOf, Live
          <6>3. QED
            BY <5>2, <6>2, <2>4
        <5>5. QED
          BY <5>3, <5>4
      <4>3. QED
        BY <4>1, <4>2
    <3>2. \A q \in Requests : Live(q)' => token'[q].family = token[q].family
      BY <2>3 DEF Live
    <3>3. \A q \in Requests : InHand(q)' => Family(q)' = Family(q)
      BY <2>4
    <3>4. QED
      BY <3>1, <3>2, <3>3 DEF DeadStay, Extinct
  <2>10. raced \subseteq raced'
    BY <2>6
  <2> HIDE DEF T, old, ended
  <2>11. \A q \in Requests : Live(q)' => Live(q) /\ token'[q].family = token[q].family
    BY <2>3 DEF Live
  <2>12. OneHand'
    BY <2>4, <2>10 DEF Rotation, OneHand
  <2>13. OneLive'
    BY <2>10, <2>11 DEF Rotation, OneLive
  <2>14. Rotating'
    BY <2>4, <2>10, <2>11 DEF Rotation, Rotating
  <2>15. QED
    BY <2>8, <2>9, <2>12, <2>13, <2>14 DEF Rotation
<1>6. CASE CheckLink(r) \/ UseLink(r)
  <2>1. /\ UNCHANGED <<token, dead, raced>> /\ req[r].op = "reset" /\ req'[r].op = "reset"
        /\ \A q \in Requests \ {r} : req'[q] = req[q]
    BY <1>6, <1>t DEF CheckLink, UseLink, Goto, RequestRow, TypeInv, Placed, server
  <2>2. Calm
    BY <2>1 DEF Calm, InHand, Family, Live, Founded, Founding
  <2>3. QED
    BY <2>2, CalmRotation
<1>7. QED
  BY <1>1, <1>2, <1>3, <1>4, <1>5, <1>6 DEF Handle

LEMMA RotationStep ==
  ASSUME TypeInv, TypeInv', Rotation, [Next]_vars
  PROVE  Rotation'
<1>1. CASE OutsideServer
  BY <1>1, OutsideServerCalm, CalmRotation
<1>2. ASSUME NEW r \in Requests, Handle(r) PROVE Rotation'
  BY <1>2, HandleRotation
<1>3. ASSUME NEW r \in Requests, ExpireRefresh(r) PROVE Rotation'
  BY <1>3, ExpireCalm, CalmRotation
<1>4. ASSUME NEW r \in Requests, Deliver(r) PROVE Rotation'
  BY <1>1, <1>4, DeliverTypes
<1>5. ASSUME NEW c \in Calls, Progress(c) PROVE Rotation'
  BY <1>1, <1>5, ProgressTypes
<1>6. ASSUME NEW t \in Tabs, User(t) PROVE Rotation'
  BY <1>1, <1>6, UserTypes
<1>7. ASSUME NEW r \in Requests, SubmitReset(r) \/ ExpireAccess(r) \/ ForgotPassword \/ Fail(r) \/ Cut(r)
      PROVE  Rotation'
  BY <1>1, <1>7, OutsideTypes DEF TypeInv
<1>8. CASE UNCHANGED vars
  <2>1. Calm
    BY <1>8 DEF Calm, vars, server, InHand, Family, Live, Founded, Founding
  <2>2. QED
    BY <2>1, CalmRotation
<1>9. QED
  <2>1. 0 \in Requests
    BY MaxRequestsAssumption DEF Requests
  <2>2. QED
    BY <2>1, <1>2, <1>3, <1>4, <1>5, <1>6, <1>7, <1>8 DEF Next

LEMMA RotationInvariant == Spec => []Rotation
<1>1. Init => Rotation
  BY NullApart DEF Init, Idle, Rotation, FamiliesFounded, DeadStay, OneHand, OneLive, Rotating, Extinct,
     Founded, InHand, Live, Family
<1>2. TypeInv /\ TypeInv' /\ Rotation /\ [Next]_vars => Rotation'
  BY RotationStep
<1>3. QED
  BY <1>1, <1>2, TypeInvariant, PTL DEF Spec

\* Rotation of refresh tokens (AuthService.refresh): a family has one token that
\* can be used, at most, as long as no two requests worked on it at once.
THEOREM OneLiveTokenSafe == Spec => []OneLiveToken
<1>1. ASSUME TypeInv, Rotation, NEW f \in Requests, f \notin raced
      PROVE  ~(Cardinality({r \in TokensOf(f) : Live(r)}) > 1)
  <2> DEFINE S == {r \in TokensOf(f) : Live(r)}
  <2>1. \A t, u \in S : t = u
    BY <1>1 DEF Rotation, OneLive, TokensOf
  <2>2. CASE S = {}
    BY <2>2, FS_EmptySet
  <2>3. ASSUME NEW t \in S PROVE Cardinality(S) = 1
    <3>1. S = {t}
      BY <2>1
    <3>2. QED
      BY <3>1, FS_Singleton
  <2>4. QED
    BY <2>2, <2>3
<1>2. TypeInv /\ Rotation => OneLiveToken
  BY <1>1 DEF OneLiveToken
<1>3. QED
  BY <1>2, TypeInvariant, RotationInvariant, PTL

\* A family that a password reset or the reuse of a token ended has no live
\* token again, unless a request had its row in hand just then.
THEOREM RevokedForGoodSafe == Spec => []RevokedForGood
<1>1. Rotation => RevokedForGood
  BY DEF Rotation, DeadStay, Extinct, RevokedForGood, TokensOf
<1>2. QED
  BY <1>1, RotationInvariant, PTL

-----------------------------------------------------------------------------
(* The session of the browser, as long as its requests take turns and none *)
(* of them fails.                                                          *)

\* A page that may call the API has a user, or was told apart as it lost him.
Shown(t) == tab[t].user # "none" \/ tab[t].stray

\* The cookie is good for a refresh and belongs to a signed-in user.
Restorable == cookie # Null => Live(cookie) /\ stored # "none"

\* What the request in progress will leave: a login and a refresh that are
\* through have a live token, a refresh that found one belongs to a user, and
\* one that is refused has no cookie left to be wrong about.
FitsLogin(r) == Restorable /\ (req[r].pc = "ok" => Live(r))
FitsRefresh(r) ==
  /\ req[r].pc \in {"FindToken", "RevokeToken", "InsertToken", "ok", "refused"}
  /\ req[r].pc = "FindToken" =>
       IF cookie # Null
         THEN req[r].sent = cookie /\ Restorable /\ Shown(req[r].tab)
         ELSE req[r].sent # Null => token[req[r].sent].state = "expired"
  /\ req[r].pc \in {"RevokeToken", "InsertToken", "ok"} =>
       stored # "none" /\ Shown(req[r].tab)
  /\ req[r].pc = "ok" => Live(r)
  /\ req[r].pc = "refused" => cookie = Null
Fits(r) ==
  /\ req[r].tab # Null
  /\ req[r].op = "login" => FitsLogin(r)
  /\ req[r].op = "refresh" => FitsRefresh(r)
  /\ req[r].op = "logout" => req[r].pc \in {"FindToken", "RevokeToken", "ok"}

\* A page that loads waits for its refresh and has no access token yet.
LoadsInProgress(t) ==
  /\ tab[t].access = Null
  /\ \E r \in InProgress : req[r].op = "refresh" /\ req[r].tab = t

Quiet ==
  ~disturbed =>
    /\ \A q, r \in InProgress : q = r
    /\ \A r \in InProgress : Fits(r)
    /\ InProgress = {} => Restorable
    /\ \A t \in Tabs : tab[t].access # Null => Shown(t)
    /\ \A t \in Tabs : tab[t].loading => LoadsInProgress(t)

\* A step that leaves the request in progress, and what it relies on, alone.
LEMMA QuietFrame ==
  ASSUME TypeInv, Quiet, ~disturbed, UNCHANGED <<cookie, token>>,
         stored' = stored \/ stored' # "none",
         \A q \in Requests : req'[q] = req[q] \/ (q \notin InProgress /\ (q \notin InProgress)'),
         \A t \in Tabs : /\ tab'[t].access = tab[t].access /\ tab'[t].loading = tab[t].loading
                         /\ Shown(t) => Shown(t)'
  PROVE  Quiet'
<1>1. \A q \in Requests : (q \in InProgress)' <=> q \in InProgress
  BY DEF InProgress, Active
<1>2. \A q \in InProgress : q \in Requests /\ req'[q] = req[q]
  BY DEF InProgress
<1>3. Restorable => Restorable'
  BY DEF Restorable, Live
<1>4. ASSUME NEW r \in InProgress PROVE Fits(r)'
  <2>1. Fits(r) /\ req'[r] = req[r] /\ req[r] \in RequestRow
    BY <1>2, RowTypes DEF Quiet, TypeInv
  <2>2. PICK t \in Tabs : t = req[r].tab
    BY <2>1 DEF Fits, RequestRow
  <2>3. Shown(req[r].tab) => Shown(req[r].tab)'
    <3>1. Shown(t) => Shown(t)'
      OBVIOUS
    <3>2. req'[r].tab = t
      BY <2>1, <2>2
    <3>3. QED
      BY <2>2, <3>1, <3>2 DEF Shown
  <2>4. (FitsLogin(r) => FitsLogin(r)') /\ (FitsRefresh(r) => FitsRefresh(r)')
    BY <1>3, <2>1, <2>3 DEF FitsLogin, FitsRefresh, Live
  <2>5. QED
    BY <2>1, <2>4 DEF Fits
<1>5. ASSUME NEW t \in Tabs, tab'[t].loading PROVE LoadsInProgress(t)'
  BY <1>1, <1>2, <1>5 DEF LoadsInProgress, Quiet, InProgress
<1>6. QED
  BY <1>1, <1>2, <1>3, <1>4, <1>5 DEF Quiet, InProgress

\* The request in progress takes a step and still fits.
LEMMA QuietMoved ==
  ASSUME TypeInv, Quiet, ~disturbed, UNCHANGED browser,
         NEW r \in InProgress, \A q \in Requests \ {r} : req'[q] = req[q],
         req'[r].op = req[r].op, req'[r].tab = req[r].tab, Active(r)', Fits(r)'
  PROVE  Quiet'
<1>1. \A q \in Requests : (q \in InProgress)' <=> q = r
  BY DEF Quiet, InProgress, Active
<1>2. ASSUME NEW t \in Tabs, tab'[t].loading PROVE LoadsInProgress(t)'
  BY <1>1, <1>2 DEF LoadsInProgress, Quiet, InProgress, browser
<1>3. QED
  BY <1>1, <1>2 DEF Quiet, InProgress, browser, Shown

\* A request begins, and no other one is in progress.
LEMMA QuietBegun ==
  ASSUME TypeInv, NEW r \in Requests, NEW t \in Tabs,
         NEW op \in {"login", "refresh", "logout"},
         NEW pc, pc = IF op = "login" THEN "CheckUser" ELSE "FindToken",
         req'[r] = Request(op, t, pc), \A q \in Requests \ {r} : (q \notin InProgress)',
         cookie' = cookie, Restorable', op = "refresh" /\ cookie # Null => Shown(t)',
         \A u \in Tabs : tab'[u].access # Null => Shown(u)',
         \A u \in Tabs : tab'[u].loading => op = "refresh" /\ u = t /\ tab'[u].access = Null
  PROVE  Quiet'
<1>1. /\ req'[r].pc = pc /\ req'[r].op = op /\ req'[r].tab = t /\ t # Null
      /\ op = "refresh" => req'[r].sent = cookie
  BY NullApart DEF Request
<1>2. Fits(r)'
  BY <1>1 DEF Fits, FitsLogin, FitsRefresh
<1>3. \A q \in Requests : (q \in InProgress)' <=> q = r
  BY <1>1 DEF InProgress, Active
<1>4. QED
  BY <1>1, <1>2, <1>3 DEF Quiet, InProgress, LoadsInProgress

\* A request ends, and leaves none in progress.
LEMMA QuietEnded ==
  ASSUME \A q \in Requests : (q \notin InProgress)', Restorable',
         \A t \in Tabs : /\ tab'[t].access # Null => Shown(t)'
                         /\ ~tab'[t].loading
  PROVE  Quiet'
BY DEF Quiet, InProgress

\* The handlers.
LEMMA HandleQuiet ==
  ASSUME TypeInv, Quiet, NEW r \in Requests, Handle(r), ~disturbed'
  PROVE  Quiet'
<1> USE NullApart
<1>t. /\ req \in [Requests -> RequestRow] /\ req[r] \in RequestRow
      /\ token \in [Requests -> {Null} \cup TokenRow]
      /\ Placed(req[r]) /\ Rows(r) /\ cookie \in Requests \cup {Null}
      /\ cookie # Null => token[cookie] # Null
  BY RowTypes DEF TypeInv
<1>b. UNCHANGED browser
  BY DEF Handle, CheckUser, FindToken, RevokeToken, InsertToken, RevokeTogether, CheckLink, UseLink
<1>1. ~disturbed
  BY DEF Handle, CheckUser, FindToken, RevokeToken, InsertToken, RevokeTogether, CheckLink, UseLink
<1>2. req[r].op # "reset" /\ Active(r) => r \in InProgress /\ Fits(r)
  BY <1>1 DEF InProgress, Quiet
<1>3. CASE CheckUser(r)
  <2>1. /\ req[r].pc = "CheckUser" /\ req[r].op = "login" /\ token' = token
        /\ req'[r].pc \in {"refused", "InsertToken"}
        /\ req'[r].op = req[r].op /\ req'[r].tab = req[r].tab
        /\ \A q \in Requests \ {r} : req'[q] = req[q]
    BY <1>3, <1>t DEF CheckUser, Goto, Placed, RequestRow, server
  <2>2. Fits(r)'
    BY <1>b, <1>2, <2>1 DEF Fits, FitsLogin, Restorable, Live, Active, browser
  <2>3. QED
    BY <1>b, <1>1, <1>2, <2>1, <2>2, QuietMoved DEF Active
<1>4. CASE FindToken(r)
  <2>1. /\ req[r].pc = "FindToken" /\ req[r].op \in {"refresh", "logout"} /\ token' = token
        /\ req'[r].pc = Found(r)
        /\ req'[r].op = req[r].op /\ req'[r].tab = req[r].tab /\ req'[r].sent = req[r].sent
        /\ \A q \in Requests \ {r} : req'[q] = req[q]
    BY <1>4, <1>t DEF FindToken, Goto, Placed, RequestRow
  <2>2. Fits(r) /\ r \in InProgress
    BY <1>2, <2>1 DEF Active
  <2>3. req[r].sent # Null => token[req[r].sent] \in TokenRow
    BY <1>t DEF Rows, RequestRow
  <2>4. req[r].op = "logout" => Found(r) \in {"ok", "RevokeToken"}
    BY DEF Found
  <2>5. req[r].op = "refresh" =>
          \/ Found(r) = "refused" /\ cookie = Null
          \/ Found(r) = "RevokeToken" /\ cookie # Null /\ Restorable /\ Shown(req[r].tab)
    BY <2>1, <2>2, <2>3, <1>t DEF Found, Fits, FitsRefresh, Restorable, Live, TokenRow
  <2>6. Fits(r)' /\ Active(r)'
    BY <1>b, <2>1, <2>2, <2>4, <2>5 DEF Fits, FitsRefresh, Restorable, Shown, Active, browser
  <2>7. QED
    BY <1>b, <1>1, <2>1, <2>2, <2>6, QuietMoved
<1>5. CASE RevokeToken(r)
  <2>1. /\ req[r].pc = "RevokeToken" /\ req[r].op \in {"refresh", "logout"}
        /\ req'[r].pc = IF req[r].op = "logout" THEN "ok" ELSE "InsertToken"
        /\ req'[r].op = req[r].op /\ req'[r].tab = req[r].tab
        /\ \A q \in Requests \ {r} : req'[q] = req[q]
    BY <1>5, <1>t DEF RevokeToken, Goto, Placed, RequestRow
  <2>2. Fits(r) /\ r \in InProgress
    BY <1>2, <2>1 DEF Active
  <2>3. Fits(r)' /\ Active(r)'
    BY <1>b, <2>1, <2>2 DEF Fits, FitsRefresh, Shown, Active, browser
  <2>4. QED
    BY <1>b, <1>1, <2>1, <2>2, <2>3, QuietMoved
<1>6. CASE InsertToken(r)
  <2>1. /\ req[r].pc = "InsertToken" /\ req[r].op \in {"refresh", "login"}
        /\ token[r] = Null /\ token' = [token EXCEPT ![r] = [family |-> Family(r), state |-> "live"]]
        /\ req'[r].pc = "ok" /\ req'[r].op = req[r].op /\ req'[r].tab = req[r].tab
        /\ \A q \in Requests \ {r} : req'[q] = req[q]
    BY <1>6, <1>t DEF InsertToken, Goto, Placed, RequestRow, Rows, Ended
  <2>2. Fits(r) /\ r \in InProgress
    BY <1>2, <2>1 DEF Active
  <2>3. Family(r) \in Requests
    BY <1>t, <2>1 DEF Family, Placed, Rows, RequestRow, TokenRow
  <2>4. [family |-> Family(r), state |-> "live"] \in TokenRow
    BY <2>3 DEF TokenRow
  <2>5. Live(r)' /\ (cookie # Null => (Live(cookie) => Live(cookie)'))
    BY <1>b, <1>t, <2>1, <2>4 DEF Live, browser
  <2>6. Restorable => Restorable'
    BY <1>b, <2>5 DEF Restorable, browser, Live
  <2>7. Fits(r)' /\ Active(r)'
    BY <1>b, <2>1, <2>2, <2>5, <2>6 DEF Fits, FitsLogin, FitsRefresh, Shown, Active, browser
  <2>8. QED
    BY <1>b, <1>1, <2>1, <2>2, <2>7, QuietMoved
<1>7. CASE RevokeTogether(r)
  <2>1. req[r].op # "reset" /\ req[r].pc = "RevokeFamily" /\ req[r].op = "refresh"
    BY <1>7, <1>t DEF RevokeTogether, Placed
  <2>2. QED
    BY <1>2, <2>1 DEF Fits, FitsRefresh, Active
<1>8. CASE CheckLink(r) \/ UseLink(r)
  <2>1. /\ req[r].op = "reset" /\ req'[r].op = "reset" /\ UNCHANGED token
        /\ \A q \in Requests \ {r} : req'[q] = req[q]
    BY <1>8, <1>t DEF CheckLink, UseLink, Goto, Placed, RequestRow, server
  <2>2. QED
    BY <1>b, <1>1, <2>1, QuietFrame DEF InProgress, browser, Shown
<1>9. QED
  BY <1>3, <1>4, <1>5, <1>6, <1>7, <1>8 DEF Handle

\* A refresh that fails takes no session along, but one that is over.
LEMMA FailRefreshQuiet ==
  ASSUME TypeInv, Quiet, NEW r \in Requests, req[r].pc = "refused",
         FailRefresh(r, Settled(r), disturbed), ~disturbed'
  PROVE  Quiet'
<1> DEFINE t == req[r].tab
<1> USE NullApart
<1>t. /\ req \in [Requests -> RequestRow] /\ tab \in [Tabs -> PageRow] /\ t \in Tabs
      /\ req[r].op = "refresh" /\ ~disturbed
  BY RowTypes DEF TypeInv, FailRefresh, RequestRow
<1>1. r \in InProgress /\ Fits(r)
  BY <1>t DEF InProgress, Active, Quiet
<1>2. cookie = Null /\ cookie' = cookie
  BY <1>1, <1>t DEF Fits, FitsRefresh, FailRefresh
<1>3. Restorable'
  BY <1>2 DEF Restorable
<1>4. \A q \in Requests : q # r => q \notin InProgress
  BY <1>1, <1>t DEF Quiet
<1>5. /\ \A u \in Tabs : tab[u].loading => u = t /\ tab[u].access = Null
      /\ \A u \in Tabs : tab[u].access # Null => Shown(u)
  BY <1>1, <1>4, <1>t DEF Quiet, LoadsInProgress
<1>6. \A u \in Tabs \ {t} : tab'[u] = tab[u]
  BY <1>t DEF FailRefresh
<1>7. /\ \A q \in Requests \ {r} : Settled(r)[q] = req[q]
      /\ Settled(r)[r].pc = "done" /\ Settled(r) \in [Requests -> RequestRow]
  BY <1>t DEF Settled, RequestRow
<1>8. CASE /\ tab' = [tab EXCEPT ![t].refresh = ForgottenRefresh(t), ![t].loading = StillLoading(t),
                                 ![t].user = IF tab[t].loading THEN "none" ELSE tab[t].user]
           /\ req' = Settled(r)
  <2>1. \A q \in Requests : (q \notin InProgress)'
    BY <1>4, <1>7, <1>8 DEF InProgress, Active
  <2>2. /\ ~tab'[t].loading /\ tab'[t].access = tab[t].access /\ tab'[t].stray = tab[t].stray
        /\ tab'[t].user = IF tab[t].loading THEN "none" ELSE tab[t].user
    BY <1>8, <1>t DEF StillLoading, PageRow
  <2>3. tab'[t].access # Null => tab'[t].user # "none" \/ tab'[t].stray
    BY <1>5, <1>t, <2>2 DEF Shown
  <2>4. ASSUME NEW u \in Tabs PROVE (tab'[u].access # Null => Shown(u)') /\ ~tab'[u].loading
    BY <1>5, <1>6, <2>2, <2>3 DEF Shown
  <2>5. QED
    BY <1>3, <2>1, <2>4, QuietEnded
<1>9. ASSUME NEW q \in Requests, Fresh(q), tab' = [tab EXCEPT ![t] = Mounted(q, stored')],
             req' = [Settled(r) EXCEPT ![q] = Request("refresh", t, "FindToken")]
      PROVE  Quiet'
  <2>1. /\ q # r /\ req'[q] = Request("refresh", t, "FindToken")
        /\ \A p \in Requests \ {q} : (p \notin InProgress)'
    BY <1>4, <1>7, <1>9, <1>t DEF InProgress, Active, Fresh
  <2>2. tab'[t].access = Null
    BY <1>9, <1>t DEF Mounted, Page
  <2>3. /\ \A u \in Tabs : tab'[u].access # Null => Shown(u)'
        /\ \A u \in Tabs : tab'[u].loading => u = t /\ tab'[u].access = Null
    BY <1>5, <1>6, <2>2 DEF Shown
  <2> HIDE DEF t
  <2>4. QED
    BY <1>2, <1>3, <1>t, <2>1, <2>3, QuietBegun
<1>10. CASE tab' = [tab EXCEPT ![t] = Closed] /\ req' = Settled(r)
  <2>1. \A q \in Requests : (q \notin InProgress)'
    BY <1>4, <1>7, <1>10 DEF InProgress, Active
  <2>2. ~tab'[t].loading /\ tab'[t].access = Null
    BY <1>10, <1>t DEF Closed, Page
  <2>3. ASSUME NEW u \in Tabs PROVE (tab'[u].access # Null => Shown(u)') /\ ~tab'[u].loading
    BY <1>5, <1>6, <2>2 DEF Shown
  <2>4. QED
    BY <1>3, <2>1, <2>3, QuietEnded
<1>11. QED
  BY <1>8, <1>9, <1>10 DEF FailRefresh

\* The answers.
LEMMA DeliverQuiet ==
  ASSUME TypeInv, Quiet, NEW r \in Requests, Deliver(r), ~disturbed'
  PROVE  Quiet'
<1> DEFINE t == req[r].tab
<1> USE NullApart
<1>t. /\ req \in [Requests -> RequestRow] /\ req[r] \in RequestRow /\ tab \in [Tabs -> PageRow]
  BY RowTypes DEF TypeInv
<1>1. ~disturbed
  BY DEF Deliver, DeliverLogin, DeliverLogout, DeliverRefresh, DeliverFailure, Discard, FailRefresh
<1>2. /\ \A q \in Requests \ {r} : Settled(r)[q] = req[q]
      /\ Settled(r)[r].pc = "done" /\ Settled(r)[r].op = req[r].op
  BY <1>t DEF Settled, RequestRow
<1>3. ASSUME req' = Settled(r), r \in InProgress
      PROVE  /\ Fits(r) /\ \A q \in Requests : (q \notin InProgress)'
             /\ \A u \in Tabs : tab[u].loading => u = t /\ req[r].op = "refresh"
             /\ \A u \in Tabs : tab[u].access # Null => Shown(u)
  BY <1>1, <1>2, <1>3 DEF Quiet, InProgress, Active, LoadsInProgress
<1>4. CASE DeliverLogin(r)
  <2>1. /\ t \in Tabs /\ r \in InProgress /\ req' = Settled(r) /\ req[r].op = "login" /\ req[r].pc = "ok"
        /\ cookie' = r /\ token' = token /\ stored' = LoggedIn(r) /\ LoggedIn(r) # "none"
        /\ tab' = [tab EXCEPT ![t].access = r, ![t].user = LoggedIn(r)]
    BY <1>4, <1>t DEF DeliverLogin, InProgress, Active, RequestRow, LoggedIn, server
  <2>2. Restorable'
    BY <1>3, <2>1 DEF Fits, FitsLogin, Restorable, Live
  <2>3. /\ tab'[t].user # "none" /\ tab'[t].loading = tab[t].loading
        /\ \A u \in Tabs \ {t} : tab'[u] = tab[u]
    BY <1>t, <2>1 DEF PageRow
  <2>4. ASSUME NEW u \in Tabs PROVE (tab'[u].access # Null => Shown(u)') /\ ~tab'[u].loading
    BY <1>3, <2>1, <2>3 DEF Shown
  <2>5. QED
    BY <1>3, <2>1, <2>2, <2>4, QuietEnded
<1>5. CASE DeliverLogout(r)
  <2>1. /\ t \in Tabs /\ r \in InProgress /\ req' = Settled(r) /\ req[r].op = "logout"
        /\ cookie' = (IF req[r].pc = "ok" THEN Null ELSE cookie) /\ req[r].pc \in {"ok", "refused"}
        /\ tab' = [tab EXCEPT ![t].access = Null, ![t].user = "none"]
    BY <1>5, <1>t DEF DeliverLogout, InProgress, Active, RequestRow, AccessLeft
  <2>2. cookie' = Null
    BY <1>3, <2>1 DEF Fits
  <2>3. /\ tab'[t].access = Null /\ tab'[t].loading = tab[t].loading
        /\ \A u \in Tabs \ {t} : tab'[u] = tab[u]
    BY <1>t, <2>1 DEF PageRow
  <2>4. ASSUME NEW u \in Tabs PROVE (tab'[u].access # Null => Shown(u)') /\ ~tab'[u].loading
    BY <1>3, <2>1, <2>3 DEF Shown
  <2>5. QED
    BY <1>3, <2>1, <2>2, <2>4, QuietEnded DEF Restorable
<1>6. CASE DeliverRefresh(r)
  <2>1. /\ t \in Tabs /\ r \in InProgress /\ req' = Settled(r) /\ req[r].op = "refresh" /\ req[r].pc = "ok"
        /\ cookie' = r /\ UNCHANGED <<token, stored>>
        /\ tab' = [tab EXCEPT ![t].access = r, ![t].refresh = Null, ![t].loading = FALSE]
    BY <1>6, <1>t DEF DeliverRefresh, InProgress, Active, RequestRow, NewCookie, server
  <2>2. Restorable' /\ Shown(t)
    BY <1>3, <2>1 DEF Fits, FitsRefresh, Restorable, Live
  <2>3. /\ tab'[t].user = tab[t].user /\ tab'[t].stray = tab[t].stray /\ ~tab'[t].loading
        /\ \A u \in Tabs \ {t} : tab'[u] = tab[u]
    BY <1>t, <2>1 DEF PageRow
  <2>4. ASSUME NEW u \in Tabs PROVE (tab'[u].access # Null => Shown(u)') /\ ~tab'[u].loading
    BY <1>3, <2>1, <2>2, <2>3 DEF Shown
  <2>5. QED
    BY <1>3, <2>1, <2>2, <2>4, QuietEnded
<1>7. CASE DeliverFailure(r)
  <2>1. CASE FailRefresh(r, Settled(r), disturbed)
    BY <1>7, <2>1, FailRefreshQuiet DEF DeliverFailure
  <2>2. CASE /\ req[r].op = "login" /\ req[r].tab # Null /\ req' = Settled(r)
             /\ UNCHANGED <<server, browser, expired, disturbed>>
    <3>1. r \in InProgress /\ UNCHANGED <<token, cookie, stored, tab>>
      BY <1>7, <2>2 DEF DeliverFailure, InProgress, Active, server, browser
    <3>2. Restorable'
      BY <1>3, <2>2, <3>1 DEF Fits, FitsLogin, Restorable, Live
    <3>3. QED
      BY <1>3, <2>2, <3>1, <3>2, QuietEnded DEF Shown
  <2>3. QED
    BY <1>7, <2>1, <2>2 DEF DeliverFailure
<1>8. CASE Discard(r)
  <2>1. /\ r \notin InProgress
    BY <1>1, <1>8 DEF Discard, Quiet, Fits
  <2>2. req' = Settled(r) /\ UNCHANGED <<token, cookie, stored, tab>>
    BY <1>8 DEF Discard, server, browser
  <2>3. \A q \in Requests : req'[q] = req[q] \/ (q \notin InProgress /\ (q \notin InProgress)')
    BY <1>2, <2>1, <2>2 DEF InProgress, Active
  <2>4. QED
    BY <1>1, <2>2, <2>3, QuietFrame DEF Shown
<1>9. QED
  BY <1>4, <1>5, <1>6, <1>7, <1>8 DEF Deliver

\* A request of the browser is begun by Begin, in a page that stays.
LEMMA BeginQuiet ==
  ASSUME TypeInv, Quiet, NEW r \in Requests, NEW t \in Tabs,
         NEW op \in {"login", "refresh", "logout"},
         NEW pc, pc = IF op = "login" THEN "CheckUser" ELSE "FindToken",
         Begin(r, op, t, pc), ~disturbed', UNCHANGED <<server, cookie, stored>>,
         \A u \in Tabs : /\ tab'[u].access = tab[u].access /\ tab'[u].loading = tab[u].loading
                         /\ Shown(u) => Shown(u)',
         op = "refresh" => Shown(t)'
  PROVE  Quiet'
<1>1. /\ ~disturbed /\ InProgress = {} /\ Fresh(r) /\ req' = [req EXCEPT ![r] = Request(op, t, pc)]
      /\ req \in [Requests -> RequestRow]
  BY RowTypes DEF Begin, TypeInv
<1>2. req'[r] = Request(op, t, pc) /\ \A q \in Requests \ {r} : (q \notin InProgress)'
  BY <1>1 DEF InProgress, Active
<1>3. Restorable'
  BY <1>1 DEF Quiet, Restorable, Live, server
<1>4. /\ \A u \in Tabs : tab'[u].access # Null => Shown(u)'
      /\ \A u \in Tabs : ~tab'[u].loading
  BY <1>1 DEF Quiet, LoadsInProgress
<1>5. QED
  BY <1>2, <1>3, <1>4, QuietBegun

\* The calls of the API.
LEMMA ProgressQuiet ==
  ASSUME TypeInv, Quiet, NEW c \in Calls, Progress(c), ~disturbed'
  PROVE  Quiet'
<1> DEFINE t == call[c].tab
<1> USE NullApart
<1>t. req \in [Requests -> RequestRow] /\ tab \in [Tabs -> PageRow]
  BY RowTypes DEF TypeInv
<1>1. CASE AnswerCall(c)
  <2>1. ~disturbed /\ UNCHANGED <<token, cookie, stored, tab, req>>
    BY <1>1 DEF AnswerCall
  <2>2. QED
    BY <2>1, QuietFrame DEF Shown
<1>2. CASE CompleteChange(c)
  <2>1. t \in Tabs
    BY <1>2 DEF CompleteChange, TypeInv, Calling, Open
  <2>2. ~disturbed /\ UNCHANGED <<token, cookie, req>> /\ (stored' = stored \/ stored' # "none")
    BY <1>2 DEF CompleteChange, server
  <2>3. tab' = tab \/ tab' = [tab EXCEPT ![t].user = "ok"]
    BY <1>2 DEF CompleteChange
  <2>4. ASSUME NEW u \in Tabs
        PROVE  /\ tab'[u].access = tab[u].access /\ tab'[u].loading = tab[u].loading
               /\ Shown(u) => Shown(u)'
    BY <2>1, <2>3, <1>t DEF Shown, PageRow
  <2>5. QED
    BY <2>2, <2>4, QuietFrame
<1>3. CASE Unauthorized(c)
  <2>1. t \in Tabs
    BY <1>3 DEF Unauthorized, TypeInv, Calling, Open
  <2>2. CASE UNCHANGED <<tab, req, disturbed>>
    <3>1. UNCHANGED <<token, cookie, stored>>
      BY <1>3 DEF Unauthorized, server
    <3>2. QED
      BY <2>2, <3>1, QuietFrame DEF Shown
  <2>3. ASSUME NEW w \in Tabs, w = t, NEW r \in Requests, Begin(r, "refresh", w, "FindToken"),
               tab' = [tab EXCEPT ![w].refresh = r, ![w].stray = (tab[w].user = "none")]
        PROVE  Quiet'
    <3>1. UNCHANGED <<server, cookie, stored>>
      BY <1>3 DEF Unauthorized
    <3>2. /\ tab'[w].access = tab[w].access /\ tab'[w].loading = tab[w].loading
          /\ tab'[w].user = tab[w].user /\ tab'[w].stray = (tab[w].user = "none")
          /\ \A u \in Tabs \ {w} : tab'[u] = tab[u]
      BY <2>3, <1>t DEF PageRow
    <3>3. Shown(w)'
      BY <3>2 DEF Shown
    <3>4. \A u \in Tabs : /\ tab'[u].access = tab[u].access /\ tab'[u].loading = tab[u].loading
                          /\ Shown(u) => Shown(u)'
      BY <3>2, <3>3 DEF Shown
    <3>5. QED
      BY <2>3, <3>1, <3>3, <3>4, BeginQuiet
  <2>4. QED
    BY <1>3, <2>1, <2>2, <2>3 DEF Unauthorized
<1>4. CASE OutOfRequests(c)
  <2>1. /\ t \in Tabs /\ InProgress = {} /\ ~disturbed /\ UNCHANGED <<token, cookie, stored>>
        /\ tab' = [tab EXCEPT ![t] = Closed] /\ req' = LetGo(t)
    BY <1>4 DEF OutOfRequests, TypeInv, Calling, Open, server
  <2>2. \A q \in Requests : (q \notin InProgress)'
    BY <2>1, <1>t DEF LetGo, InProgress, Active, RequestRow
  <2>3. ~tab'[t].loading /\ tab'[t].access = Null /\ \A u \in Tabs \ {t} : tab'[u] = tab[u]
    BY <2>1, <1>t DEF Closed, Page
  <2>4. ASSUME NEW u \in Tabs PROVE (tab'[u].access # Null => Shown(u)') /\ ~tab'[u].loading
    BY <2>1, <2>3 DEF Quiet, LoadsInProgress, Shown
  <2>5. Restorable'
    BY <2>1 DEF Quiet, Restorable, Live
  <2>6. QED
    BY <2>2, <2>4, <2>5, QuietEnded
<1>5. QED
  BY <1>1, <1>2, <1>3, <1>4 DEF Progress

\* The user.
LEMMA UserQuiet ==
  ASSUME TypeInv, Quiet, NEW t \in Tabs, User(t), ~disturbed'
  PROVE  Quiet'
<1> USE NullApart
<1>t. req \in [Requests -> RequestRow] /\ tab \in [Tabs -> PageRow] /\ t # Null
  BY RowTypes DEF TypeInv
<1>1. ASSUME NEW r \in Requests, Load(t, r) PROVE Quiet'
  <2>1. /\ ~disturbed /\ InProgress = {} /\ UNCHANGED <<token, cookie, stored>>
        /\ tab' = [tab EXCEPT ![t] = Mounted(r, stored)]
        /\ req' = [LetGo(t) EXCEPT ![r] = Request("refresh", t, "FindToken")]
    BY <1>1 DEF Load, server
  <2>2. req'[r] = Request("refresh", t, "FindToken") /\ \A q \in Requests \ {r} : req'[q] = LetGo(t)[q]
    BY <2>1 DEF LetGo
  <2>3. \A q \in Requests \ {r} : (q \notin InProgress)'
    BY <2>1, <2>2, <1>t DEF LetGo, InProgress, Active, RequestRow
  <2>4. /\ tab'[t].access = Null /\ tab'[t].user = stored
        /\ \A u \in Tabs \ {t} : tab'[u] = tab[u]
    BY <2>1, <1>t DEF Mounted, Page
  <2>5. Restorable /\ Restorable'
    BY <2>1 DEF Quiet, Restorable, Live
  <2>6. /\ \A u \in Tabs : tab'[u].access # Null => Shown(u)'
        /\ \A u \in Tabs : tab'[u].loading => u = t /\ tab'[u].access = Null
        /\ cookie # Null => Shown(t)'
    BY <2>1, <2>4, <2>5 DEF Quiet, LoadsInProgress, Shown, Restorable
  <2>7. QED
    BY <2>1, <2>2, <2>3, <2>5, <2>6, QuietBegun
<1>2. ASSUME NEW r \in Requests, SubmitLogin(t, r) \/ SubmitLogout(t, r) PROVE Quiet'
  <2>1. UNCHANGED <<server, cookie, stored, tab>>
    BY <1>2 DEF SubmitLogin, SubmitLogout, browser
  <2>2. CASE SubmitLogin(t, r)
    BY <2>1, <2>2, BeginQuiet DEF SubmitLogin, Shown
  <2>3. CASE SubmitLogout(t, r)
    BY <2>1, <2>3, BeginQuiet DEF SubmitLogout, Shown
  <2>4. QED
    BY <1>2, <2>2, <2>3
<1>3. ASSUME NEW c \in Calls, SendCall(t, c) PROVE Quiet'
  <2>1. ~disturbed /\ UNCHANGED <<token, cookie, stored, tab, req>>
    BY <1>3 DEF SendCall, server
  <2>2. QED
    BY <2>1, QuietFrame DEF Shown
<1>4. QED
  BY <1>1, <1>2, <1>3 DEF User

\* The mailed link, the clock and the network.
LEMMA OutsideQuiet ==
  ASSUME TypeInv, Quiet, ~disturbed',
         \/ ForgotPassword
         \/ \E r \in Requests : SubmitReset(r) \/ ExpireAccess(r) \/ ExpireRefresh(r)
                                  \/ Fail(r) \/ Cut(r)
  PROVE  Quiet'
<1> USE NullApart
<1>t. /\ req \in [Requests -> RequestRow] /\ token \in [Requests -> {Null} \cup TokenRow]
      /\ cookie \in Requests \cup {Null}
  BY RowTypes DEF TypeInv
<1>1. CASE ForgotPassword
  <2>1. ~disturbed /\ UNCHANGED <<token, cookie, stored, tab, req>>
    BY <1>1 DEF ForgotPassword, browser
  <2>2. QED
    BY <2>1, QuietFrame DEF Shown
<1>2. ASSUME NEW r \in Requests, SubmitReset(r) PROVE Quiet'
  <2>1. ~disturbed /\ UNCHANGED <<token, cookie, stored, tab>> /\ Fresh(r)
        /\ req' = [req EXCEPT ![r] = Request("reset", Null, "CheckLink")]
    BY <1>2 DEF SubmitReset, Begin, browser, server
  <2>2. Request("reset", Null, "CheckLink").op = "reset"
    BY DEF Request
  <2>3. \A q \in Requests : req'[q] = req[q] \/ (q \notin InProgress /\ (q \notin InProgress)')
    BY <1>t, <2>1, <2>2 DEF InProgress, Active, Fresh
  <2>4. QED
    BY <2>1, <2>3, QuietFrame DEF Shown
<1>3. ASSUME NEW r \in Requests, ExpireAccess(r) PROVE Quiet'
  <2>1. ~disturbed /\ UNCHANGED <<token, cookie, stored, tab, req>>
    BY <1>3 DEF ExpireAccess, server, browser
  <2>2. QED
    BY <2>1, QuietFrame DEF Shown
<1>4. ASSUME NEW r \in Requests, ExpireRefresh(r) PROVE Quiet'
  <2>1. /\ ~disturbed /\ UNCHANGED <<stored, tab, req>> /\ req[r].pc = "done" /\ Live(r)
        /\ token' = [token EXCEPT ![r].state = "expired"]
        /\ cookie' = IF cookie = r THEN Null ELSE cookie
    BY <1>4 DEF ExpireRefresh
  <2>2. /\ token[r] \in TokenRow /\ token'[r].state = "expired"
        /\ \A q \in Requests \ {r} : token'[q] = token[q]
    BY <1>t, <2>1 DEF Live, TokenRow
  <2>3. Restorable => Restorable'
    BY <1>t, <2>1, <2>2 DEF Restorable, Live
  <2>4. InProgress' = InProgress
    BY <2>1 DEF InProgress, Active
  <2>5. ASSUME NEW q \in InProgress PROVE Fits(q)'
    <3>1. Fits(q) /\ q \in Requests /\ req[q] \in RequestRow /\ q # r
      BY <1>t, <2>1 DEF Quiet, InProgress, Active
    <3>2. Live(q) => Live(q)'
      BY <2>2, <3>1 DEF Live
    <3>3. FitsLogin(q) => FitsLogin(q)'
      BY <2>1, <2>3, <3>2 DEF FitsLogin
    <3>4. ASSUME FitsRefresh(q), req[q].pc = "FindToken"
          PROVE  (IF cookie # Null
                    THEN req[q].sent = cookie /\ Restorable /\ Shown(req[q].tab)
                    ELSE req[q].sent # Null => token[req[q].sent].state = "expired")'
      <4>1. CASE cookie = r
        BY <2>1, <2>2, <3>4, <4>1, <1>t DEF FitsRefresh
      <4>2. CASE cookie # r /\ cookie # Null
        BY <2>1, <2>3, <3>4, <4>2 DEF FitsRefresh, Shown
      <4>3. CASE cookie = Null
        BY <2>1, <2>2, <3>1, <3>4, <4>3, <1>t DEF FitsRefresh, RequestRow
      <4>4. QED
        BY <4>1, <4>2, <4>3
    <3>5. FitsRefresh(q) => FitsRefresh(q)'
      BY <2>1, <3>2, <3>4 DEF FitsRefresh, Shown
    <3>6. QED
      BY <2>1, <3>1, <3>3, <3>5 DEF Fits
  <2>6. QED
    BY <2>1, <2>3, <2>4, <2>5 DEF Quiet, LoadsInProgress, Shown
<1>5. ASSUME NEW r \in Requests, Fail(r) \/ Cut(r) PROVE FALSE
  BY <1>5 DEF Fail, Cut, FailRefresh
<1>6. QED
  BY <1>1, <1>2, <1>3, <1>4, <1>5

LEMMA QuietInvariant == Spec => []Quiet
<1>1. Init => Quiet
  <2> SUFFICES ASSUME Init PROVE Quiet
    OBVIOUS
  <2>1. InProgress = {}
    BY DEF Init, InProgress, Active, Idle
  <2>2. Restorable
    BY NullApart DEF Init, Restorable, Live, TokenRow
  <2>3. ASSUME NEW t \in Tabs PROVE (tab[t].access # Null => Shown(t)) /\ ~tab[t].loading
    BY NullApart DEF Init, Closed, Page, Shown
  <2>4. QED
    BY <2>1, <2>2, <2>3 DEF Quiet
<1>2. TypeInv /\ Quiet /\ [Next]_vars => Quiet'
  <2> SUFFICES ASSUME TypeInv, Quiet, [Next]_vars PROVE Quiet'
    OBVIOUS
  <2>1. CASE disturbed'
    BY <2>1 DEF Quiet
  <2>2. CASE UNCHANGED vars /\ ~disturbed'
    BY <2>2, QuietFrame DEF vars, server, browser, Shown
  <2>3. CASE Next /\ ~disturbed'
    BY <2>3, HandleQuiet, DeliverQuiet, ProgressQuiet, UserQuiet, OutsideQuiet DEF Next
  <2>4. QED
    BY <2>1, <2>2, <2>3
<1>3. QED
  BY <1>1, <1>2, TypeInvariant, PTL DEF Spec

\* A cookie that is left when nothing is in progress is good for a refresh and
\* belongs to a signed-in user, as long as the browser's requests come one
\* after another and none fails, in any number of pages.
THEOREM SessionKeptSafe == Spec => []SessionKept
<1>1. Quiet => SessionKept
  BY DEF Quiet, Restorable, SessionKept
<1>2. QED
  BY <1>1, QuietInvariant, PTL

\* A page that can call the API has a user, or got its token from a call that
\* outlived him, under the same conditions.
THEOREM UserShownSafe == Spec => []UserShown
<1>1. Quiet => UserShown
  BY DEF Quiet, Shown, UserShown
<1>2. QED
  BY <1>1, QuietInvariant, PTL

=============================================================================
