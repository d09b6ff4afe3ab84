------------------------------- MODULE Pages -------------------------------
(***************************************************************************)
(* One browser on the pages that show opportunities, participations and    *)
(* submissions and act on them: the student's, the team leader's and the   *)
(* pages that manage opportunities.  A page shows what the query cache     *)
(* holds, which is what the server had at some time; it offers buttons by  *)
(* what it shows, and refetches after a call of its own.  Meanwhile others *)
(* change the rows.  A request is handled in one step: Review and          *)
(* Opportunities have the steps of the handlers.                           *)
(*                                                                         *)
(* A definition commented as a mutant is the wrong form of the one after   *)
(* it: no action uses it, and a property has to tell the two apart.        *)
(***************************************************************************)
EXTENDS Integers, Sequences, FiniteSets

CONSTANTS
  Certs, Placements,  \* opportunities, by isPlacementType
  Periods,    \* academic periods: the opportunities of each
  Starts,     \* the rows to begin with, the pages that may be visited, and as
              \* bounds the number of requests that may fail on the way, and
              \* the slots for calls that are not settled
  MaxWrites,  \* bound: versions of the rows
  Null

Opps == Certs \cup Placements
States == {"missing", "draft", "published", "archived"}
Statuses == {"none", "not_started", "in_progress", "submitted", "verified", "completed", "rejected"}
\* An opportunity, the student's participation in it, whether the log has a
\* decision on his submission, whether he has an active enrollment in the period
\* of the opportunity, and whether the user of this browser is the leader that
\* the participation names (teamLeaderUserId), or would name if it began now.
Row == [state : States, status : Statuses, decided : BOOLEAN, enrolled : BOOLEAN, leads : BOOLEAN]

ASSUME NullAssumption == Null \notin Opps
ASSUME PeriodsAssumption == \A P \in Periods : P \subseteq Opps
ASSUME StartsAssumption ==
  \A s \in Starts :
    s.rows \in [Opps -> Row] /\ s.tour # {} /\ s.losses \in Nat /\ s.slots \subseteq Nat
ASSUME BoundsAssumption == MaxWrites \in Nat \ {0}

VARIABLES
  past,      \* the versions of the rows, the last one the current
  cache,     \* the query cache, by key
  need,      \* history: the version that a key has been refetched for, and has yet to get
  call,      \* the calls of the page that are not settled, by slot
  tour,      \* the pages of this behaviour
  page,      \* the page that is open
  selected,  \* selectedPartId; rejectTarget; deleteId
  chooser,   \* the file chooser: shut, or opened by a card, that was rejected or not
  uploading, \* the card that says Uploading...
  losses     \* the number of requests that may still be lost

local == <<selected, chooser, uploading>>
vars == <<past, cache, need, call, tour, page, local, losses>>

Slots == DOMAIN call

now == Len(past)
rows == past[now]

-----------------------------------------------------------------------------
(* The server: which calls it accepts, and what they do.                   *)

StudentOps == {"register", "begin", "upload"}
ReviewOps == {"approve", "reject"}
OfficerOps == {"publish", "archive", "delete"}
FormOps == {"create", "edit"}
Ops == StudentOps \cup ReviewOps \cup OfficerOps \cup FormOps

\* ValidationPipe with forbidNonWhitelisted: the fields a form sends, and those
\* CreateOpportunityDto and UpdateOpportunityDto know.
Sent(op) == {"title", "description", "opportunityType", "rounds"}
            \cup IF op = "create" THEN {"academicPeriodId"} ELSE {}
Known(op) == {"title", "description", "applicationLink", "meetingLink", "opportunityType",
              "academicPeriodId", "opensAt", "closesAt", "verificationDeadline", "requireProof",
              "maxSubmissions", "allowGroupSubmission", "visibilityScope"}

RegisterAccepted(row) ==
  row.state \in {"published", "archived"} /\ row.enrolled /\ row.status = "none"
BeginAccepted(row) == row.status \in {"not_started", "rejected"}
UploadAccepted(row) == row.state = "published" /\ row.status \notin {"none", "verified", "completed"}
ReviewAccepted(row) == row.status = "submitted" /\ row.leads /\ ~row.decided

Accepts(op, row) ==
  CASE op = "register" -> RegisterAccepted(row)
    [] op = "begin" -> BeginAccepted(row)
    [] op = "upload" -> UploadAccepted(row)
    [] op \in ReviewOps -> ReviewAccepted(row)
    [] op \in {"publish", "delete"} -> row.state = "draft"
    [] op = "archive" -> row.state = "published"
    [] op = "create" -> row.state = "missing" /\ Sent(op) \subseteq Known(op)
    [] op = "edit" -> row.state # "missing" /\ Sent(op) \subseteq Known(op)

StatusAfter(op) ==
  CASE op = "register" -> "not_started" [] op = "begin" -> "in_progress" [] op = "upload" -> "submitted"
    [] op = "approve" -> "verified" [] op = "reject" -> "rejected"
StateAfter(op) ==
  CASE op = "create" -> "draft" [] op = "publish" -> "published" [] op = "archive" -> "archived"
    [] op = "delete" -> "missing"

Done(op, row) ==
  CASE op \in StudentOps \cup ReviewOps ->
         [row EXCEPT !.status = StatusAfter(op), !.decided = @ \/ op \in ReviewOps]
    [] op \in OfficerOps \cup {"create"} -> [row EXCEPT !.state = StateAfter(op)]
    [] op = "edit" -> row

\* The student's enrollment in a period begins or ends.
Reenrolled(P) == [o \in Opps |-> [rows[o] EXCEPT !.enrolled = IF o \in P THEN ~@ ELSE @]]
\* His group there gets another leader: a participation keeps the one it began with.
Reassigned(P) ==
  [o \in Opps |-> [rows[o] EXCEPT !.leads = IF o \in P /\ rows[o].status = "none" THEN ~@ ELSE @]]

\* Somebody else, or the same user in another browser.
Elsewhere ==
  /\ now < MaxWrites
  /\ \/ \E op \in Ops, o \in Opps :
          Accepts(op, rows[o]) /\ past' = Append(past, [rows EXCEPT ![o] = Done(op, @)])
     \/ \E P \in Periods : \E o \in P :
          /\ rows[o].state # "missing"
          /\ \/ past' = Append(past, Reenrolled(P))
             \/ rows[o].status = "none" /\ past' = Append(past, Reassigned(P))
  /\ UNCHANGED <<cache, need, call, tour, page, local, losses>>

-----------------------------------------------------------------------------
(* The query cache (App.tsx: a query is stale after 30 seconds, and is     *)
(* tried twice).  What has been fetched is a version, 0 is none; a fetch   *)
(* that is under way knows the version it began with.                      *)

Keys == {"mine", "available", "team", "pending", "opportunities", "opportunity"}
Idle == 0
Empty == [at |-> 0, fresh |-> FALSE, err |-> FALSE, fetch |-> Idle]

\* What a page asks for.
CertificationsKeys == {"mine", "available"}
PlacementsKeys == {"mine", "available"}
TeamLeaderKeys == {"team", "pending"}

KeysOf(p) ==
  CASE p = "certifications" -> CertificationsKeys
    [] p = "placements" -> PlacementsKeys
    [] p = "team-leader" -> TeamLeaderKeys
    [] p = "opportunities" -> {"opportunities"}
    [] p = "edit" -> {"opportunity"}
    [] p \in {"new", "help"} -> {}
PageNames == {"certifications", "placements", "team-leader", "opportunities", "edit", "new", "help"}
ASSUME TourAssumption == \A s \in Starts : s.tour \subseteq PageNames

Mounted == KeysOf(page)

\* The query whose error the page shows, with a button to try again.
ErrorKeys(p) ==
  IF p \in {"certifications", "placements"} THEN {"mine"} ELSE KeysOf(p)

Started(c) == [c EXCEPT !.fetch = now, !.err = @ /\ c.at # 0]

\* A query that is mounted fetches when it has no data, or stale data.
Mount(c) == IF c.fetch = Idle /\ (c.at = 0 \/ ~c.fresh) THEN Started(c) ELSE c

\* Mutant: a fetch that is under way is not cancelled.
RefetchedJoining(c) == IF c.fetch # Idle THEN c ELSE Started(c)
\* A refetch cancels a fetch that is under way, unless it is the first one.
Refetched(c) == IF c.fetch # Idle /\ c.at = 0 THEN c ELSE Started(c)

\* invalidateQueries: what is mounted is refetched, the rest is only marked.
Invalidated(k, c) ==
  IF k \in Mounted THEN Refetched([c EXCEPT !.fresh = FALSE]) ELSE [c EXCEPT !.fresh = FALSE]

\* The server has answered with what there was at some time since.
Deliver(k) ==
  /\ cache[k].fetch # Idle
  /\ \E v \in cache[k].fetch .. now :
       /\ cache' = [cache EXCEPT ![k] = [at |-> v, fresh |-> TRUE, err |-> FALSE, fetch |-> Idle]]
       /\ need' = [need EXCEPT ![k] = IF v >= @ THEN 0 ELSE @]
  /\ UNCHANGED <<past, call, tour, page, local, losses>>

\* Both tries of a query have failed.
LoseFetch(k) ==
  /\ losses > 0 /\ cache[k].fetch # Idle
  /\ cache' = [cache EXCEPT ![k].fetch = Idle, ![k].err = TRUE]
  /\ losses' = losses - 1
  /\ UNCHANGED <<past, need, call, tour, page, local>>

Expire(k) ==
  /\ cache[k].fresh
  /\ cache' = [cache EXCEPT ![k].fresh = FALSE]
  /\ UNCHANGED <<past, need, call, tour, page, local, losses>>

\* Five minutes after the last page that asked for it was left.
Collect(k) ==
  /\ k \notin Mounted /\ cache[k].fetch = Idle /\ ~cache[k].fresh /\ cache[k] # Empty
  /\ cache' = [cache EXCEPT ![k] = Empty]
  /\ UNCHANGED <<past, need, call, tour, page, local, losses>>

Retry(k) ==
  /\ k \in ErrorKeys(page) /\ cache[k].err
  /\ cache' = [cache EXCEPT ![k] = Refetched(@)]
  /\ UNCHANGED <<past, need, call, tour, page, local, losses>>

-----------------------------------------------------------------------------
(* What the pages show, and the buttons they offer.                        *)

Has(k) == cache[k].at # 0
Loading(k) == ~Has(k) /\ cache[k].fetch # Idle
Shown(k) == past[cache[k].at]

\* One of the two queries is enough for the page to be drawn.
CardsDrawn == ~(Loading("mine") /\ Loading("available")) /\ ~cache["mine"].err

AvailableCards(kind) ==
  IF Has("available")
    THEN {o \in kind : Shown("available")[o].state = "published" /\ Shown("available")[o].status = "none"}
    ELSE {}
\* The cards of the student's participations with one of these statuses, which
\* the server looks for under his active enrollments.
OwnCards(kind, statuses) ==
  IF Has("mine")
    THEN {o \in kind : Shown("mine")[o].enrolled /\ Shown("mine")[o].status \in statuses}
    ELSE {}

\* Mutant: a card that is verified still offers an upload.
UploadableVerified(kind) ==
  (OwnCards(kind, {"in_progress"}) \ {uploading}) \cup OwnCards(kind, {"rejected", "verified"})
Uploadable(kind) == (OwnCards(kind, {"in_progress"}) \ {uploading}) \cup OwnCards(kind, {"rejected"})

CardButtons(kind) ==
  IF ~CardsDrawn THEN {}
  ELSE ({"register"} \X AvailableCards(kind))
         \cup ({"begin"} \X OwnCards(kind, {"not_started", "in_progress"}))
         \cup ({"upload"} \X Uploadable(kind))

CertificationsButtons == CardButtons(Certs)
PlacementsButtons == CardButtons(Placements)

Active(s) == call[s].stage # "none"
\* isPending: the mutation of the page, which a new visit begins anew.
Pending(op) == \E s \in Slots : Active(s) /\ call[s].here /\ call[s].op = op

TeamLeaderButtons ==
  IF ~Has("team") \/ Loading("pending") \/ cache["team"].err \/ cache["pending"].err \/ ~Has("pending")
    THEN {}
  ELSE LET queue == {o \in Opps : /\ Shown("pending")[o].status = "submitted"
                                  /\ Shown("pending")[o].enrolled} IN
       ({"reject"} \X queue) \cup (IF Pending("approve") THEN {} ELSE {"approve"} \X queue)

OpportunitiesButtons ==
  IF ~Has("opportunities") \/ cache["opportunities"].err THEN {}
  ELSE LET In(state) == {o \in Opps : Shown("opportunities")[o].state = state} IN
       ({"delete"} \X In("draft"))
         \cup (IF Pending("publish") THEN {} ELSE {"publish"} \X In("draft"))
         \cup (IF Pending("archive") THEN {} ELSE {"archive"} \X In("published"))

EditForm == IF Has("opportunity") /\ ~cache["opportunity"].err /\ ~Pending("edit")
              THEN {"edit"} \X {o \in Opps : Shown("opportunity")[o].state # "missing"} ELSE {}
CreateForm == IF ~Pending("create") THEN {"create"} \X {o \in Opps : rows[o].state = "missing"} ELSE {}

Buttons ==
  CASE page = "certifications" -> CertificationsButtons
    [] page = "placements" -> PlacementsButtons
    [] page = "team-leader" -> TeamLeaderButtons
    [] page = "opportunities" -> OpportunitiesButtons
    [] page = "edit" -> EditForm
    [] page = "new" -> CreateForm
    [] page = "help" -> {}

-----------------------------------------------------------------------------
(* What the user does.                                                     *)

NoCall == [op |-> "none", o |-> Null, stage |-> "none", here |-> FALSE, loose |-> FALSE, at |-> 0]

Choosing == chooser # "shut"

\* A page that is left forgets its state; its calls and its fetches go on.
Visit(p) ==
  /\ p \in tour \ {page} /\ ~Choosing
  /\ page' = p
  /\ cache' = [k \in Keys |-> IF k \in KeysOf(p) THEN Mount(cache[k]) ELSE cache[k]]
  /\ call' = [s \in Slots |-> [call[s] EXCEPT !.here = FALSE]]
  /\ selected' = Null /\ chooser' = "shut" /\ uploading' = Null
  /\ UNCHANGED <<past, need, tour, losses>>

\* The first slot that is free takes the call.
Free(s) == ~Active(s) /\ \A t \in Slots : t < s => Active(t)
Sending(op, o, loose) ==
  [op |-> op, o |-> o, stage |-> "sent", here |-> TRUE, loose |-> loose, at |-> 0]
Send(s, op, o) ==
  /\ Free(s)
  /\ call' = [call EXCEPT ![s] = Sending(op, o, FALSE)]

\* A dialog is in front of everything else: of the chooser, or to confirm.
InFront == Choosing \/ (selected # Null /\ page \in {"team-leader", "opportunities"})

Direct == {"register", "begin", "approve", "publish", "archive"} \cup FormOps
Click(s) ==
  /\ ~InFront
  /\ \E b \in Buttons : b[1] \in Direct /\ Send(s, b[1], b[2])
  /\ UNCHANGED <<past, cache, need, tour, page, local, losses>>

OpenChooser ==
  /\ ~InFront
  /\ \E o \in Opps :
       /\ <<"upload", o>> \in Buttons /\ selected' = o
       /\ chooser' = IF Shown("mine")[o].status = "rejected" THEN "rejected" ELSE "open"
  /\ UNCHANGED <<past, cache, need, call, tour, page, uploading, losses>>

CancelChooser ==
  /\ Choosing /\ chooser' = "shut"
  /\ UNCHANGED <<past, cache, need, call, tour, page, selected, uploading, losses>>

\* Mutant: the card does not learn that it is being uploaded for.
ChosenUnmarked == uploading
Chosen == selected

\* There is one mark: an upload for a second card takes it from the first, and
\* a card that was rejected can be clicked again in spite of it.  A call that
\* such a click may repeat is loose.
Uploads(s) == [t \in Slots |->
  IF t = s THEN Sending("upload", selected, chooser = "rejected")
  ELSE [call[t] EXCEPT !.loose = @ \/ (call[t].op = "upload" /\ call[t].o # selected)]]

\* A file is dropped without a word when the card was forgotten meanwhile.
ChooseFile(s) ==
  /\ Choosing /\ chooser' = "shut"
  /\ IF selected = Null THEN uploading' = uploading /\ call' = call
     ELSE Free(s) /\ call' = Uploads(s) /\ uploading' = Chosen
  /\ UNCHANGED <<past, cache, need, tour, page, selected, losses>>

Dialogs == {"reject", "delete"}
OpenDialog ==
  /\ ~InFront
  /\ \E b \in Buttons : b[1] \in Dialogs /\ selected' = b[2]
  /\ UNCHANGED <<past, cache, need, call, tour, page, chooser, uploading, losses>>

CloseDialog ==
  /\ InFront /\ ~Choosing
  /\ selected' = Null
  /\ UNCHANGED <<past, cache, need, call, tour, page, chooser, uploading, losses>>

Confirm(s) ==
  LET op == IF page = "team-leader" THEN "reject" ELSE "delete" IN
  /\ InFront /\ ~Choosing /\ ~Pending(op)
  /\ Send(s, op, selected)
  /\ UNCHANGED <<past, cache, need, tour, page, local, losses>>

-----------------------------------------------------------------------------
(* A call is handled, and its answer comes back.                           *)

Handle(s) ==
  LET c == call[s] IN
  /\ c.stage = "sent"
  /\ IF Accepts(c.op, rows[c.o])
       THEN /\ now < MaxWrites
            /\ past' = Append(past, [rows EXCEPT ![c.o] = Done(c.op, @)])
            /\ call' = [call EXCEPT ![s].stage = "ok", ![s].at = now + 1]
       ELSE past' = past /\ call' = [call EXCEPT ![s].stage = "refused"]
  /\ UNCHANGED <<cache, need, tour, page, local, losses>>

\* What a page fetches again after a call of its own, even if it was left.
RefetchedFor(op) ==
  CASE op = "register" -> {"mine", "available"}
    [] op \in {"begin", "upload"} -> {"mine"}
    [] OTHER -> {}
InvalidatedFor(op) ==
  CASE op \in ReviewOps -> {"pending", "team"}
    [] op \in OfficerOps \cup FormOps -> {"opportunities", "opportunity"}
    [] OTHER -> {}

\* No fetch that was under way before will fill these keys.
Superseded(op) ==
  {k \in RefetchedFor(op) : cache[k].fetch = Idle \/ Has(k)}
    \cup {k \in InvalidatedFor(op) : cache[k].fetch = Idle \/ (Has(k) /\ k \in Mounted)}

\* An upload that is settled clears the one mark there is: no card is marked.
Settled(s) == [t \in Slots |->
  IF t = s THEN NoCall
  ELSE [call[t] EXCEPT !.loose = @ \/ (call[s].op = "upload" /\ call[s].here /\ call[t].op = "upload")]]

Forget(s, done) ==
  /\ uploading' = IF call[s].here /\ call[s].op = "upload" THEN Null ELSE uploading
  /\ selected' = IF call[s].here /\ done /\ call[s].op \in {"upload"} \cup Dialogs THEN Null ELSE selected
  /\ UNCHANGED chooser

Succeed(s) ==
  LET op == call[s].op IN
  /\ call[s].stage = "ok"
  /\ cache' = [k \in Keys |-> IF k \in RefetchedFor(op) THEN Refetched(cache[k])
                              ELSE IF k \in InvalidatedFor(op) THEN Invalidated(k, cache[k])
                              ELSE cache[k]]
  /\ need' = [k \in Keys |-> IF k \in Superseded(op) /\ call[s].at > need[k] THEN call[s].at ELSE need[k]]
  /\ call' = Settled(s)
  /\ Forget(s, TRUE)
  /\ UNCHANGED <<past, tour, page, losses>>

\* The call was refused, or it or its answer was lost.
FailCall(s) ==
  /\ \/ call[s].stage = "refused" /\ losses' = losses
     \/ call[s].stage \in {"sent", "ok"} /\ losses > 0 /\ losses' = losses - 1
  /\ call' = Settled(s)
  /\ Forget(s, FALSE)
  /\ UNCHANGED <<past, cache, need, tour, page>>

-----------------------------------------------------------------------------
Init ==
  /\ \E start \in Starts :
       /\ past = <<start.rows>> /\ tour = start.tour /\ losses = start.losses
       /\ call = [s \in start.slots |-> NoCall]
  /\ page \in tour
  /\ cache = [k \in Keys |-> IF k \in Mounted THEN Started(Empty) ELSE Empty]
  /\ need = [k \in Keys |-> 0]
  /\ selected = Null /\ chooser = "shut" /\ uploading = Null

Next ==
  \/ Elsewhere
  \/ \E k \in Keys : Deliver(k) \/ LoseFetch(k) \/ Expire(k) \/ Collect(k) \/ Retry(k)
  \/ \E p \in PageNames : Visit(p)
  \/ OpenChooser \/ CancelChooser \/ OpenDialog \/ CloseDialog
  \/ \E s \in Slots : Click(s) \/ ChooseFile(s) \/ Confirm(s)
                        \/ Handle(s) \/ Succeed(s) \/ FailCall(s)

Spec == Init /\ [][Next]_vars

-----------------------------------------------------------------------------
(* Properties.                                                             *)

\* When a page has settled after a call of its own, it shows what that call
\* did: the refetch that follows the call is not overtaken by a fetch that was
\* under way before, and a page that was left meanwhile fetches when it is
\* opened again.  (Not so when the first fetch is still under way, or the one
\* of a page that was left: neither is cancelled.)
SeesOwn ==
  \A k \in Mounted : cache[k].fetch = Idle /\ ~cache[k].err => cache[k].at >= need[k]

KeyOf(op) == CASE op = "register" -> "available" [] op \in {"begin", "upload"} -> "mine"
               [] op \in ReviewOps -> "pending" [] OTHER -> "opportunities"

\* A button that a page offers by what the server has now is one that the server
\* accepts, with five exceptions that the pages do not look at: an opportunity
\* is offered to who has no active enrollment in its period and so cannot
\* register; the queue goes by the role of a leader, while only the leader whom the
\* participation names may review it; a submission that was sent again after its
\* rejection cannot be reviewed; the opportunity of a card may no longer take
\* uploads; and Continue on a card in progress asks for a step to where the
\* participation is.
ButtonsWork ==
  \A b \in Buttons :
    LET row == rows[b[2]] IN
    /\ b[1] \notin FormOps
    /\ Shown(KeyOf(b[1]))[b[2]] = row
    /\ b[1] = "register" => row.enrolled
    /\ b[1] = "upload" => row.state = "published"
    /\ b[1] \in ReviewOps => row.leads /\ ~row.decided
    /\ ~(b[1] = "begin" /\ row.status = "in_progress")
    => Accepts(b[1], row)

\* Of what can be clicked once until it is answered, a page has one call under
\* way for a row; an upload may be sent again for a card that was rejected,
\* or when another upload has been begun or settled meanwhile.
OneCallPerRow ==
  \A s, t \in Slots :
    /\ s # t /\ Active(s) /\ Active(t) /\ call[s].here /\ call[t].here
    /\ call[s].op = call[t].op /\ call[s].o = call[t].o
    => call[s].op \in {"register", "begin"} \/ call[s].loose \/ call[t].loose

\* A form that was filled in is taken.
FormsAreTaken == \A s \in Slots : call[s].op \in FormOps => call[s].stage # "refused"
=============================================================================
