# Placement tracking: TLA+ models, checks and proofs

The repository is a NestJS / TypeORM / Postgres backend (`src/src`), a React
frontend (`src/frontend`), end-to-end tests (`src/e2e`) and documents
(`src/docs`). Students register for opportunities (a registration is a
*participation*), upload proof of what they did (a *submission*), and a team
leader approves or rejects it. This directory holds TLA+ models of the parts of
that code that keep state, the TLC runs that check them, and proofs.

## 1. Inventory

| component | state | operations | talks to |
|---|---|---|---|
| submissions | `submissions`, `submission_files`, `file_references` | `create`, `update`, `remove`; queries | participations (reads, writes the status), opportunities (reads), storage |
| verification | `verification_logs` | `approve`, `reject`; queries | submissions and participations (reads, writes) |
| participations | `participations` | `create`, `updateStatus`; queries, analytics | opportunities, enrollments, groups (reads) |
| storage | objects in S3 or on local disk | `upload`, `delete`, `download` | - |
| opportunities | `opportunities`, `opportunity_targets`, `opportunity_rounds` | `create`, `update`, `remove`, `publish`, `archive`, `setTargets`, `setRounds`; `findAvailable` | iam, enrollments (reads) |
| auth and sessions | `refresh_tokens`, `password_reset_tokens`, password hashes | `login`, `refresh`, `logout`, `forgotPassword`, `resetPassword`, `changePassword` | users, iam, mail |
| session client (frontend) | access token, the refresh in flight, stored user | request, 401 and retry, refresh, logout | auth, over HTTP |
| routes and guards (both sides) | address, roles in database, token and stored user | RoleGuard, RolesGuard, menu, links, login, logout | each other, over HTTP |
| pages (frontend) | the query cache, the calls under way, dialogs and marks | fetch, refetch, invalidate; the buttons | the server, over HTTP |
| imports | users, enrollments, groups, role assignments, import history | validate and import, for students, groups, team leaders, mentors | one database transaction each |
| iam | `role_assignments` | queries only; written by the imports | groups, sections |
| organisation | branches, sections, groups, enrollments | create, update, remove (soft) | each other: count the children, then remove |
| lists, dashboards, analytics, public pages | none | paged lists, aggregating queries; the numbers worked out in the browser | all tables |
| academic periods, mail, health, notifications, configuration, scripts, migrations | none, or write once | - | - |

What makes them hard:

* **No transactions.** Outside the imports no handler opens a transaction.
  `create` in submissions is seven awaited calls or more, two of them to another system
  (the object store); between any two of them other requests run, and after
  any of them the process may die or the call may fail. What was written stays.
* **Whole-row saves.** A handler reads an entity, works, and calls
  `repository.save(entity)`: all columns go back as they were read, and a
  row deleted meanwhile is inserted again.
* **Check, then act.** The lock after verification, the "already reviewed" check, the one
  submission per participation, the one registration per opportunity, the removal of empty
  sections: each looks first and writes in a later call. Only the registration has a
  unique constraint behind it.
* **Timeouts.** The timeout interceptor answers 408 after 30 seconds
  (`common/interceptors/timeout.interceptor.ts`); the handler goes on, and a retry overlaps with it.
* **Tokens.** Refresh tokens rotate; a token used twice revokes its family. All pages of
  a browser share the cookie that holds the token; each has its own access token.
* **One thing in several places.** The leader of a group is a column, a role assignment and
  a copy in each participation; a user's roles are in the database, in the token and in the
  local storage; the same number is worked out by several queries and again in the browser.
* **Caches.** A page shows what was fetched some time ago and offers buttons by it.

`PROJECT.json` lists the hazards one by one, at their lines, with the
properties that watch them.

## 2. Modules

| module | what it is |
|---|---|
| `Review` | submissions, verification, `updateStatus` and the storage they use, one action per awaited call; its properties |
| `Lifecycle` | the abstract specification: what the status column promises to its readers |
| `MCReview` | `Review` with parameters for TLC; the `.cfg` files below use it |
| `ReviewProofs` | type correctness and the frame lemmas; what a participation keeps: no lost files, nobody else's writes, nothing after it is settled; for all parameters |
| `DecisionProofs` | decisions are made once, `Review` implements `Lifecycle`, and what requests that take turns leave, for all parameters |
| `Opportunities` | publishing of opportunities, their targets and rounds, and the registration of participations |
| `Publication` | the abstract specification: what the row of an opportunity promises to its readers |
| `MCOpportunities` | `Opportunities` with parameters for TLC |
| `OpportunitiesProofs` | its invariants, and that it implements `Publication`, for all parameters |
| `Sessions` | refresh tokens of one account, and the pages of one browser with their shared refresh |
| `MCSessions` | `Sessions` with parameters for TLC |
| `SessionsProofs` | its types and its five invariants, for all parameters |
| `Access` | routes, guards, menus and links of the frontend, endpoints and roles of the server |
| `MCAccess` | `Access` for TLC |
| `AccessProofs` | its three invariants, for any number of changes of the roles |
| `Roster` | branches, sections, groups, enrollments, who leads and mentors, the four imports |
| `MCRoster` | `Roster` with three organisations and a handful of files |
| `RosterProofs` | its four invariants and its action property, for all parameters |
| `Pages` | the query cache, the buttons of the pages and the calls they make |
| `MCPages` | `Pages` with six places to start from |
| `PagesProofs` | its three invariants, for all parameters |
| `Listings` | the lists, dashboards, analytics and rates, as operators on one set of tables |
| `MCListings` | `Listings` with two databases |
| `ListingsProofs` | its six invariants, for all parameters |

`Review` and `Opportunities` take the handlers apart, query by query. `Roster` and `Sessions`
do it for their own. `Pages` and `Listings` have a request of those
handlers as one step: their subject is what a reader makes of the tables. `Access` has no
tables at all.

### Review: state

| variable | code |
|---|---|
| `part[p]` | the row of `participations`: `status`, `verified_by` (participation.entity.ts) |
| `sub[s]` | the row of `submissions`: its participation, and whether `rejection_reason` is set |
| `refs` | the rows of `file_references` |
| `links` | the rows of `submission_files`, as pairs of a submission and a reference |
| `logs[l]` | the rows of `verification_logs`: submission and action |
| `objects` | the keys the object store holds |
| `accepting[p]` | whether the opportunity of `p` is published or open |
| `req[r]` | a request: where it stands, and the local variables of the handler |
| `contended`, `raced` | history, read by no action: participations two requests have worked on at once; submissions two reviews decided at once |

Ids are fresh uuids in the code. In the model a submission and a log row are
named by the request that inserted them, a stored file by the request and its
position in the upload. `Requests` is the set of calls of a behaviour; each is
made at most once, which bounds the behaviours and nothing else.

A request's record holds what the handler holds: `mem` is the participation it
read, `smem` the submission, `want` the files it uploads, `old` the files it
listed for deletion, `todo` the files its loop has left. When it has answered
the record is cleared, except for the participation and, if it died, `old`.

### Review: actions

| handler | actions, in order |
|---|---|
| `SubmissionsService.create` | `BeginCreate`, `CheckOpportunity`, `UploadObject` for each file, `SaveRefs`, `FindExisting`, `DeletePriorLinks` if there is one, `SaveSubmission`, `SaveLinks`, `SaveStatus` |
| `SubmissionsService.update` | `BeginUpdate`, `CheckLocked`, then with files: `ListFiles`, `DeleteObject` for each, `DeleteLinks`, `DeleteRefs`, `UploadObject` for each, `SaveRefs`, `SaveLinks`; `TouchSubmission` |
| `SubmissionsService.remove` | `BeginRemove`, `CheckLocked`, `ListFiles`, `DeleteObject` for each, `DeleteLinks`, `DeleteRefs`, `RemoveRow` |
| `VerificationService.approve` | `BeginApprove`, `ReadParticipation`, `CheckLog`, `SaveLog`, `SaveStatus` |
| `VerificationService.reject` | `BeginReject`, `ReadParticipation`, `CheckLog`, `SaveLog`, `SaveStatus`, `SaveReason` |
| `ParticipationsService.updateStatus` | `BeginTransition`, `SaveStatus` |

`Throws(r)` collects the exceptions of the handlers and of the database
(`LockError`, `ClosedError`, `ReviewError`, `DuplicateError`,
`ConstraintError`); where it holds the request can only `Fail`. With `Faults`
any awaited call may fail too, or the process die, which is the same
thing to the tables: the steps made stay, the rest is never made. `StorageService.delete`
swallows errors, so a faulty deletion goes on with the object still there.

What is abstracted: a call that is refused by its very first check changes
nothing and is left out; so are `validateFiles` (it refuses before the first write),
descriptions, links, notes and dates, and the reads that build an answer after
the last write. `save` of an array is one step (TypeORM wraps it in a
transaction); `save` of one entity reads and updates, and is one step.
The steps of a request follow each other with any number of steps of
other requests between them.

### Lifecycle

`status[p]` moves along `Edges`; a participation two requests work on at once
is in `contended`, and there a late save may write any status (`Overwrite`).
`Review` implements it with `status <- StatusOf` (the `status` column).

### Opportunities: state

| variable | code |
|---|---|
| `row[o]` | the row of `opportunities`: `state`, whether `deleted_at` is set, and `edit`, the update whose text it shows (title, description, links, dates, in one) |
| `lists[l][o]` | the rows of `opportunity_targets` and `opportunity_rounds`, each by the call that inserted it |
| `reg[r]` | the rows of `participations`, by the call that inserted them: opportunity and enrollment |
| `req[r]` | a request: where it stands, and the row it read (`mem`) |
| `published`, `contested` | history, read by no action: what has been published; what two requests have been writing at once |

`Tables` says which of the two list tables exist: the entities name both, the
migrations create one.

### Opportunities: actions

| handler | actions, in order |
|---|---|
| `OpportunitiesService.create` | `Create` (one write, after reads of other tables) |
| `update`, `publish`, `archive` | `BeginUpdate`, `BeginPublish` or `BeginArchive` (read and check), `SaveRow` |
| `remove` | `BeginRemove`, `SoftRemove` |
| `setTargets`, `setRounds` | `BeginSet`, `DeleteRows`, `InsertRows` unless the new list is empty |
| `ParticipationsService.create` | `BeginRegister` (opportunity and enrollment), `FindExisting`, `SaveRegistration` |

`SaveRow` writes all the request read, with its change. TypeORM compares the entity with
the row as it is (deleted rows included) and updates the columns that differ: a
stale save also clears a `deleted_at` set meanwhile. `SoftRemove` updates
`deleted_at` alone. The unique constraint of `participations` is in `Throws`:
a registration that is there by the time of the insert fails it.

Left out: the checks of role, owner and scope (they refuse before the first
write), the reads that build answers, and the copy of the group's team leader into a
participation, which is in `Roster`.

### Publication

`row[o]` is created as a draft, edited, published, archived, and removed as a
draft; a row two requests write at once is in `contested`, and there a late
save may write anything (`Overwrite`). `Opportunities` implements it with `contested <- ContestedRows`.

### Sessions

| variable | code |
|---|---|
| `token[r]` | the row of `refresh_tokens` that request `r` inserted: its family, and whether it is live, expired or revoked |
| `link`, `must` | the row of `password_reset_tokens`; `users.must_change_password` |
| `cookie`, `stored` | the browser's cookie, as the token's row; the user in the local storage |
| `tab[t]` | a page: its access token, its `refreshPromise`, its user, whether `AuthContext` is loading, and (history) whether its token is stray: from a call that outlived the user |
| `req[r]`, `call[c]` | a request to `/auth/...`: control point, page, token sent; a call of the rest of the API |
| `expired` | access tokens past their fifteen minutes |
| `dead`, `raced`, `disturbed` | history: families ended by a reset or a reuse; families two requests worked on at once; whether the browser's requests overlapped or something failed |

| code | actions |
|---|---|
| `AuthService.login` | `CheckUser`, `InsertToken` |
| `refresh` | `FindToken`, then `RevokeToken`, `InsertToken`, or `RevokeTogether` when the token is revoked already |
| `logout` | `FindToken`, `RevokeToken` |
| `forgotPassword`, `resetPassword` | `ForgotPassword`; `CheckLink`, `UseLink`, `RevokeTogether` |
| client.ts: a call, its 401, its retry | `SendCall`, `AnswerCall`, `Unauthorized` (waits, or begins the refresh), `DeliverRefresh`, `DeliverFailure` |
| `AuthContext`: mounting, login, logout | `Load`, `SubmitLogin`, `DeliverLogin`, `SubmitLogout`, `DeliverLogout` |
| changing the password | a call with `change`, and `CompleteChange` (the timer) |
| the network and the timeout | `Fail` (a handler dies), `Cut` (the page gets an error, the handler goes on), `Discard` |
| the clock | `ExpireAccess`, `ExpireRefresh` |

One step of a page is all it does with an answer, promise callbacks included. `OutOfRequests` is
the bound: with no request left the page closes. `Opened` are the pages that are open when the behaviour begins. Password hashes, mail and throttling are left out.

### Access

`granted`, `token` and `user` are the roles in the database, in the access token and in the stored
user; `path`, `mounted`, `modal` where the browser is. `Routes` is every route of the controllers with its
`@Roles`, `Api` every function of the frontend's `api/`, `CallsOf` the functions each page uses, `Guarded` the
routes of `router.tsx` behind a `RoleGuard`, `MayOpen` that guard, `Menu` and `Links` what is offered. `Guard`, `Load`, `Follow`, `SignIn`, `Land`, `SignOut`,
`SignedOut`, `Answer`, `Refresh` are what the code does with them; `Regrant` is a change of the roles,
by an import or because an assignment runs out.

### Roster

`unit` holds branches, sections and groups (kind, what they are in, name, leader or mentor, the mark of deletion),
`enr` enrollments (user, section, group, active, and a branch of their own, which need not be that of the section), `users`, `role` (`role_assignments`), `part` the leader a participation was given, `history` (`import_history`).

| code | actions |
|---|---|
| `create` of branches, sections, groups | `CreateUnit` |
| their `update` | `BeginUpdate`, `SaveUnit` (the whole row as it was read) |
| their `remove` | `BeginRemove`, `Count`, for a section `CountMore`, `SoftRemove` |
| `EnrollmentsService` | `Enroll`; `BeginAlter`, `SaveEnrollment`; `BeginUnenroll`, `Unenroll` |
| `ParticipationsService.create`, the leader | `BeginRegister`, `Register` |
| an import | `Validate` outside the transaction; `Refuse`; `Rows` or `StudentRow` inside it; `Commit` |
| anything that throws | `Fail`: of an import nothing is left |

A row of a file names a branch and a section by their codes. There is one academic period: the imports' cache does not ask for
the period of what it finds (import-validator.engine.ts:46), and what that mixes up between periods is left out.

What a transaction has done is in `req[r].eff` and nobody sees it before `Commit`; unique keys it holds make
others wait (`Held`). The students' import asks for each row in a cache of its own, the others build one.
`late`, `shifted`, `byHand`, `raced` are history. The four properties that exclude them
say by that where the code gives no guarantee.

Two more exceptions are the code's own. `BranchesService.remove` counts the sections of a branch and not its students
(branches.service.ts:72), while an enrollment has a `branch_id` that `EnrollmentsService.create` takes as given and that a
section moved to another branch leaves behind: `NoOrphans` claims for the branch of an enrollment only that it
lives while it is the branch of its section. And the students' import counts a student as a success, and does nothing for him, when he has an
inactive enrollment, in whatever section (the validation asks for active ones only, import-validator.engine.ts:40), or when an earlier row of
the file was his (students-import.service.ts:161): `SuccessIsComplete` names such rows (`LeftAlone`), and for every other row demands exactly
the enrollment the row asks for.

### Pages

`past` is the sequence of versions the rows have had; `cache[k]` is a query: the version it shows, whether it is fresh, has failed, and since which
version a fetch is under way; an answer is any version since (`Deliver`). `Buttons` is what the open page offers, from the
cache. `Click`, `OpenChooser`, `ChooseFile`, `OpenDialog`, `Confirm` are the user, `Handle` the server, `Succeed` and `FailCall` the
`onSuccess`, `finally` and `catch` of the pages, `Elsewhere` everybody else. `need` is history: the version of the page's own last call.
`chooser` remembers whether the card that opened it was rejected, for such a card does not look at the mark `uploading`; a call is `loose` (history)
when a click may repeat it. How many calls may be under way is part of where a behaviour starts (`slots`).

A row also has what the server checks and the page does not see: `enrolled`, whether the student has an active enrollment in the
opportunity's period, and `leads`, whether the participation names the team leader at the page. `Elsewhere` changes both:
`Reenrolled(P)` enrolls or unenrolls in one of the `Periods`, which takes all its opportunities along, `Reassigned(P)` gives his
group another leader, whom the participations that begin later will name. The user's own role, by which the queue is asked for, stays as it is
(`Access` is about changes of roles). `ButtonsWork` has five exceptions, all refusals the pages do not foresee:
`findAvailable` offers opportunities of every period (opportunities.service.ts:311) and a registration asks for an enrollment in theirs
(participations.service.ts:71); the queue goes by `role_assignments` and a review by `teamLeaderUserId` (verification.service.ts:359); a
submission that was decided once and uploaded again is in the queue; the card of a closed opportunity still offers the
upload; Continue on a card in progress asks for the status it has.

### Listings

The tables of `Review`, `Opportunities` and `Roster` in one, with whole requests as writes. Every query of the services
is an operator (`Queue`, `LeaderDashboard`, `TotalRegistered`, `FindAvailable`, `MyParticipations`, `PlacementReadiness`, ...). Two readers take several steps: one who turns
the pages of a list (`StartReading`, `NextPage`), and the admin's dashboard, which loads in many requests (`OpenDashboard`, `AnswerFirst`, `AnswerGroup`)
and works its numbers out in the browser (`HeatMap`, `Stats`, `Performance`, `FollowUp`).
A list of follow-ups is cut after `MaxFollowUps` rows, twenty in the code, on the mentor's dashboard (dashboard.service.ts:167) as on the
admin's (useAdminDashboardData.ts:212). The tables have no times of submission, so that any of the rows
may be those that have waited longest (`Longest`). `DashboardAddsUp` compares the two lists as far as neither is cut, and
otherwise what a cut leaves true: the list that is not cut has what the other one shows.

## 3. Runs

Nine runs pass and three show a finding. In all of them a request is made once, which
bounds the behaviours and nothing else.

| run | parameters | checks |
|---|---|---|
| `overlap` | `Review`: 3 requests, all at once, 2 participations, 2 files, faults | `TypeOK`, `StoredFiles`, `DecisionOnce`, `FollowsLifecycle`, `SettledIsFinal`, `QuietUntouched` |
| `serial` | `Review`: 5 requests, one at a time, 1 participation, 1 file, faults | `OneSubmission`, `VerifiedHasEvidence`, `DecisionsLand`, `IntactSubmission` |
| `published` | `Opportunities`: 4 requests, 3 at a time, 1 opportunity, 2 enrollments, faults | `TypeOK`, `OneParticipation`, `RegisteredAfterPublishing`, `DeletedUnused`, `OneCallsRows`, `FollowsPublication` |
| `sessions` | `Sessions`: 2 pages that are open from the start, 1 call, 3 requests after an earlier login, no faults | `OneLiveToken`, `RevokedForGood`, `SessionKept`, `UserShown` |
| `waiting` | `Sessions`: 1 page, 2 calls, 2 requests, faults, fairness | `OneRefreshPerPage`, `CallsSettle`, `LoadingEnds` |
| `access` | `Access`: any set of roles, 1 change of them | `Served`, `OfferedOpens`, `OneHop` |
| `roster` | `Roster`: 3 requests, 2 at a time, two branch names, from an organisation of empty sections, one with groups, a leader and a student, or one whose student names another branch than his section; failures | `NoOrphans`, `NothingUnreported`, `LeaderHoldsRole`, `DeciderSees`, `SuccessIsComplete` |
| `pages` | `Pages`: a student with 3 calls under way, one of his two cards of a closed opportunity, and one with 1; with 2 an applicant, not enrolled in the period of what he is offered, a team leader whom the participation names, one whom it does not, and an officer; 3 versions of the rows; 1 lost request (officer) | `SeesOwn`, `ButtonsWork`, `OneCallPerRow` |
| `listings` | `Listings`: 2 databases of 3 enrollments, 3 groups, 2 sections, 3 opportunities; 3 writes; pages of 1 row; the largest page is 3 rows, the default 2; lists of follow-ups of 1 row | `QueueAccountedFor`, `AnalyticsAddUp`, `OfferedIsTakeable`, `RatesInRange`, `NothingMissed`, `DashboardAddsUp` |

Why the bounds are enough for the interesting cases, and what the runs show:

* `overlap`. Three requests are a create that a review and an edit overtake, two uploads and
  a review, or two reviews of an existing submission; two files make a loop stop half way; a second
  participation is one that a delete must not reach. `StoredFiles` - a reference whose object is gone is one
  that an update or remove has on its list; overlapping edits never lose somebody else's file.
  `DecisionOnce` - the only window for a second decision is two reviews between look and insert.
  `SettledIsFinal` - the lock checks are in every path: only a request that read the row before it was
  locked can undo it. `QuietUntouched` - no delete reaches beyond its own submission.
* `serial`. Upload, reject, upload again or remove, updateStatus, review, each cut short anywhere:
  what a reader of the tables may rely on while nothing overlaps.
* `published`. A publish, two registrations that both find nothing, and a remove or an update
  that comes late. The unique constraint is what keeps registrations single; the check of the state at the beginning
  of a registration is enough for "published at some time", not for "published now"; `remove` and registration
  exclude each other as long as nobody else writes the row; targets or rounds are mixed only by overlapping calls.
* `sessions`. Three requests are a refresh and another that meets it on the same token, and a reset or a
  logout that comes between; two pages are what shares a cookie. A family has one live token unless two requests were in
  it at once; reuse and reset end it for good unless a refresh had its row in hand; a cookie that is left is good
  and belongs to a signed-in user as long as nothing overlapped or failed. The pages are open from the start, so that the
  three requests are not spent on opening them; what fails ends what `SessionKept` and `UserShown` say, so the faults are in `waiting`.
* `waiting`. Two calls are one that begins the refresh and one that waits for it. A page has one refresh in flight. Whatever becomes of it both
  calls come to an end, and the next 401 may begin another.
* `access`. The guards of pages and endpoints agree on all that a page shows, as long as the roles are those of the
  login; every link leads where it says; no address leads through two redirects. One change parts the stored user from the
  database and, until the next refresh, from the token.
* `roster`. A removal, and a creation, move or import that comes between its count and its save;
  an import and another one, or an update, of what it has validated; an import, a registration and another import. Files have two rows, so that one may
  fail after another and one user may be named twice. A removed branch that an enrollment of another branch's section
  names takes the third organisation; a student who is left alone takes one who is enrolled, or a file with him twice.
* `pages`. A call of the page, a refetch from before it and a change elsewhere; two calls of one page. One version
  more than the two calls need is somebody else's. The third call of the student is the second upload for a card whose mark another
  card has taken.
* `listings`. A group, a mentor, a leader or an enrollment is changed, and the numbers compared; a row leaves or
  comes while pages are turned or the dashboard loads. A reader begins at once, so that the
  writes fall between his pages. With follow-ups cut after one row, two submissions of one group are a list that is cut; an
  inactive student and a mentor of another section are what the two lists of follow-ups have to agree about. A largest page of three and a default of two are exceeded by the databases.

Deadlock is checked in the runs of `Review`, where an opportunity may always close or open again, and of `Access`, where
one may always go somewhere. The others have `CHECK_DEADLOCK FALSE`: the system rests
when all its calls are made and answered.

**Symmetry.** Requests and participations of `Review`, requests of `Opportunities` and pages of
`Sessions`, all of them open, are interchangeable; `waiting`, which checks liveness, uses none.

**Fairness.** `Sessions` has weak fairness of `Handle(r)`, `Deliver(r)` and `Progress(c)`: node's event
loop takes every handler to its end (each awaited query answers or throws), every request that was sent
is settled, and the timers of a page fire. A request is settled because the server answers 408 after 30 seconds
(`timeout.interceptor.ts`) and because the browser gives up a connection that is lost; the client itself sets no
timeout (`frontend/src/api/client.ts:3`). Nothing is assumed of users, of the
clock or of the network: no request has to be made, none has to fail, no token has to expire. The other modules have no
fairness: a request may die at any step and nothing retries it, so nothing is bound to happen.

### Findings

| run | shows |
|---|---|
| `resubmitted` | upload, reject, upload again: the submission stands in the queue and can never be reviewed |
| `late_upload` | an upload that was under way when a review approved takes the verified participation back to submitted: it read the participation before and saves the whole row after |
| `forms_refused` | the forms that create and edit an opportunity send `rounds`, which the server's validation refuses |

`PROJECT.json` quotes the comments, tests and pages these contradict. Other things a reader of the models will meet:

* Two reviews that overlap both decide (`DecisionOnce` excludes just that); removing a rejected submission deletes its
  log by cascade, which docs/SCHEMA.md:835 calls append-only; the migrated status type has no `rejected`, so that on a migrated database
  a rejection logs and then fails (`StatusColumn` tells the two schemas apart).
* A late `update` takes a published opportunity back to draft, and a late `remove` deletes one published meanwhile.
  Two calls of `setTargets` or `setRounds` that both delete first leave the rows of both.
  No migration creates `opportunity_targets` (`Tables`): there `setTargets` always fails.
* A refresh in flight survives a password reset (`RevokedForGood` excludes it; compare docs/AUTH-DESIGN.md:321). Two pages that refresh
  with one cookie at once may log the user out: `refreshPromise` is one page's. A call that outlives a logout, and gets its
  401 after another page has logged in, refreshes with the new cookie: its page has a token and no user (`stray`).
* The leader of a group is replaced by the import without taking his role away; PATCH of a group or section sets the column and no
  role; PATCH of an enrollment cannot change a group once it is set. A branch can be removed under students who name it and
  sit in another branch's section. An import whose row fails loses all rows and its history.
  A students' import reports success for students it did nothing for.
* `placementReadiness` goes above 100 when a student has two finished participations. The admin's dashboard shows the first twenty
  opportunities and the first hundred participations of a group, and merges groups of one name.
* `HubPage` asks for all three dashboards and shows those it is allowed; `listParticipations` calls a route that does
  not exist, and no page uses it; a file chosen while another upload ends is dropped. There is one mark for the card that uploads: a second
  upload takes it from the first, whose card can then be uploaded for again (CertificationsPage.tsx:104). This takes three calls; the
  attempt to prove `OneCallPerRow` for any number of them showed it, after a run with two had not.

Where a property excludes a history variable (`contended`, `contested`, `raced`, `late`, `shifted`, `byHand`, `disturbed`), the overlap it
excludes is one the code allows.

## 4. Proofs

For every value of the constants that meets the named assumptions of the module:

| theorem | argument |
|---|---|
| `ReviewProofs!TypeCorrect` : `Spec => []TypeOK` | `TypeOK` is not inductive: a step writes back `mem` or `smem`, which are `Null` at the points that do not use them. `TypeInv` adds `Locals`: what each point of a handler has read by then. One step per action; `CallFrame` and `ProceedFrame` say what the rest of the requests keep. |
| `StoredFilesSafe` : `Spec => []StoredFiles` | Strengthened by: files a request is still going to upload, or has uploaded and not yet saved, are its own; the objects of saved references exist or are on a list; what a list has left. |
| `QuietUntouchedSafe` : `Spec => QuietUntouched` | `HomeInv`: the submission, the files and the log row a request writes belong to the participation it works on. Then a step of a request leaves what belongs to another one as it is (`Kept`), table by table. |
| `SettledIsFinalSafe` : `Spec => SettledIsFinal` | `LockInv`: a request past its lock check has read a participation that was open; so on a settled participation that nobody read before, a request has nothing left but to fail or to complete it. |
| `DecisionProofs!DecisionOnceSafe` : `Spec => []DecisionOnce` | Strengthened by: a request at `SaveLog` whose submission is already decided saw another one at `SaveLog` with it when that one inserted, so the submission is in `raced`. |
| `DecisionProofs!LifecycleImplemented` : `Spec => FollowsLifecycle` | Strengthened by: of the requests on a participation outside `contended` at most one is active, and what it read of the status is still there. Then every `SaveStatus` is an edge. |
| `OneSubmissionSafe`, `VerifiedHasEvidenceSafe`, `DecisionsLandSafe`, `IntactSubmissionSafe` : `Spec => []...` | One invariant, `SerialInv`, of each participation outside `contended`: it has one submission at most and the request at work on it has it as it stands, or is about to insert it; a review that writes the status has its decision in the log; a verified status has its evidence, a decision its effect; a submission without files is being refilled or removed. It rests on `Flow` (where a handler can go), `NamedInv` (foreign keys) and the invariant of `LifecycleImplemented`. |
| `OpportunitiesProofs!TypeCorrect` : `Spec => []TypeOK` | Strengthened by what a request has read and checked by the point where it stands. `StepCases` sums `Next` up: a creation, the start of a request, or a step of one (`AdvanceFrame`). |
| `OneParticipationSafe` : `Spec => []OneParticipation` | Inductive with the types: the constraint guards the one action that writes `reg`. |
| `RegisteredAfterPublishingSafe` : `Spec => []RegisteredAfterPublishing` | Strengthened by `LeftDraft`: a state other than draft, in a row or in what a request read, is of an opportunity that has been published. |
| `DeletedUnusedSafe` : `Spec => []DeletedUnused` | Strengthened by `PublicationInv`: of the requests that write an uncontested row one at most is active and what it read is still there; a deleted row is a draft; a row somebody registers for is not. |
| `OneCallsRowsSafe` : `Spec => []OneCallsRows` | `ListsInv`: of the calls that set a list nobody else sets one at most is active, and what it deleted is still gone when it inserts. |
| `PublicationImplemented` : `Spec => FollowsPublication` | From the same invariant: every save of an uncontested row is an edit or a move. |
| `SessionsProofs!TypeCorrect` : `Spec => []TypeOK` | Strengthened by `Placed` and `Rows`: a request that reads the row of its token has one that is there, and a token is inserted once. |
| `OneRefreshPerPageSafe` : `Spec => []OneRefreshPerPage` | Strengthened by `Refreshing`: a refresh that a page waits for is the one the page knows. A failed one is forgotten in the step that delivers the failure, also when it loads the page anew. |
| `OneLiveTokenSafe` : `Spec => []OneLiveToken` | Strengthened by `Rotation`: a family outside `raced` is in one request's hand at most, and while one has it the only live token is the one it is about to revoke. A family is founded by a login that has inserted its token, so that a new login is in nobody's. Most steps are `Calm`: no token gets live, none is taken in hand. |
| `RevokedForGoodSafe` : `Spec => []RevokedForGood` | From `DeadStay` of the same invariant: an ended family outside `raced` has no live token, and no request that could insert one. |
| `SessionKeptSafe`, `UserShownSafe` : `Spec => []...` | One invariant, `Quiet`: as long as nothing overlapped or failed, of the browser's requests one at most is in progress, and what it has done so far will leave the cookie, the stored user and the pages agreeing: a login and a refresh that are through have a live token, one that is refused has no cookie left to be wrong about. For any number of pages and requests. |
| `RosterProofs!NoOrphansSafe` : `Spec => []NoOrphans` | `TypeInv` says what a request knows at each point and that rows are placed in rows of the right kind; a unit never goes away and keeps its kind (`Stay`). `Emptied`: a removal that has counted still finds the unit empty of what it counts, but for what is `late`. The branch of an enrollment is not counted: it lives as long as it is that of the section, whose own branch the same invariant keeps. `Change` is what every step does to the rows, in the words of that argument. |
| `LeaderHoldsRoleSafe` : `Spec => []LeaderHoldsRole` | A step that names a leader either gives the role with it or is an update (`HeadsKept`); of the rows of a file for one group the last one counts, and all get the role. |
| `NothingUnreportedSafe` : `Spec => []NothingUnreported` | Strengthened by `Reported`: the rows a request has inserted are at the places its history has counted; before it is through there are none (`Unused`). |
| `DeciderSeesSafe` : `Spec => []DeciderSees` | Strengthened by `DecidedInv`: outside `raced` and `late` a student who has a group keeps it, so that what an update or a registration read of his group is still true when it saves. Uses `NoOrphans` (his group is there, so an update gives it back) and `LeaderHoldsRole`. |
| `SuccessIsCompleteSafe` : `Spec => SuccessIsComplete` | `ImportInv`: while nobody else writes (`shifted`), what the validation found for a row is still so when the row's turn comes, and the effect made of it is the one the row asks for (`Right`), or none for a student who is left alone. Names are unique (`NamesUnique`), so that the second lookup of the students' import finds the section of the first. Of the rows for one unit the last says who leads it. |
| `PagesProofs!SeesOwnSafe` : `Spec => []SeesOwn` | `Kept`: a key that is behind what a call has done is being fetched from a version that has it, or shows its error, or will fetch when it is mounted. |
| `ButtonsWorkSafe` : `Spec => []ButtonsWork` | Page by page: the condition of each button and the premises about what it does not look at (the five exceptions) imply every check of the endpoint, those of the enrollment and of the named leader included. |
| `OneCallPerRowSafe` : `Spec => []OneCallPerRow` | `Apart`: an upload that no click may repeat has the mark; the chooser was not opened by the card with the mark; what waits for the page's mutation has one call. |
| `ListingsProofs!QueueAccountedForSafe` : `Spec => []QueueAccountedFor` | From the types of the tables alone: the queue and what is kept out of it are disjoint, and together what the dashboard counts. |
| `OfferedIsTakeableSafe` : `Spec => []OfferedIsTakeable` | From the types: what is offered passes each check of `RegisterAccepted`; the tiles count five disjoint statuses of one list. |
| `AnalyticsAddUpSafe` : `Spec => []AnalyticsAddUp` | `Total` folds a function by a recursive definition. The subsets of its domain for which the fold and a proposed sum differ would have a smallest one (`TotalIs`, by the well-founded order on finite sets), so there is none; then a sum of counts is the count of the union, `CountedBy`. |
| `RatesInRangeSafe` : `Spec => []RatesInRange` | Strengthened by `Once`: nobody registers twice for an opportunity, so the finished of a certification are an injective image into the students of the group (`DoneOnce`); a sum of smaller numbers is smaller (`TotalGrows`, by counting cells). |
| `NothingMissedSafe` : `Spec => []NothingMissed` | `Turning`, of a reader who has turned some pages: unless a row has left, what was there all the time is seen or has at least as many newer rows as those pages hold; unless one has come, what he has seen has fewer. Rows that come push the others down and rows that leave pull them up (`RanksGrow`), and the pages there are hold all the rows (`PagesHold`). |
| `DashboardAddsUpSafe` : `Spec => []DashboardAddsUp` | `LoadInv`: what the browser holds of a group is nothing while its request is out or when it failed, and otherwise, while nobody writes, the first page of that group's list as the tables have it; the count of the first answer is still the length of the table. Cells and rows are then matched one to one by the id of the participation, and summed up with `CountedBy`. A list of follow-ups is as long as the rows it is cut from or the bound, and all of them when they are no more (`LongestIs`). |
| `AccessProofs!ServedSafe` : `Spec => []Served` | First the tables, without induction: `PageServed`, whoever may open a page may make each call it shows, from `Guarded`, `CallsOf`, `Api` and `Routes`, for any set of roles. Then an invariant: a call is on its way only if the guard let the user in (`PassedGuard`), and the token has his roles unless they changed (`Fresh`). |
| `OfferedOpensSafe` : `Spec => []OfferedOpens` | `MenuOpens`, `LinksOpen`, `HomesOpen`: each page that is offered is one that `RoleGuard` opens. `OfferInv` keeps it: the guard asks the stored user, which only a login or the end of a session changes. |
| `OneHopSafe` : `Spec => []OneHop` | `HopInv` and `LeavingInv`: after a redirect the user may open the page and no logout is on its way, for one that is leaves him on the landing page, or where a link has led. |

`OrganisationsAssumption` of `Roster` says that the tables to begin with are consistent: rows in live rows of the right kind,
leaders with their role, no two rows alike where the database has a unique index. `RowsAssumption` of `Review` keeps `Null` apart from the rows, `OpenedAssumption` of `Sessions` and
`TourAssumption` of `Pages` are the types of their parameters. `PeriodsAssumption` of `Pages` says that a period is a set of opportunities. `DatabasesAssumption` of `Listings` is the types of the
tables to begin with, and that no student is registered twice for an opportunity (the unique index of the table);
`CountedAssumption` that opportunities, groups and enrollments can be counted. `MaxRows` bounds the rows of a file and the rows there are to begin with, and may be any positive number.

Only model-checked: liveness under fairness (`CallsSettle`, `LoadingEnds`), and `ENABLED`, which are out of the prover's reach and stay with TLC.
Every other property that a passing run checks has its theorem above.
`RECURSIVE` operators are not used; the one recursive function, the fold behind `Total`, is reasoned about as above.

## 5. Not modelled

* Academic periods, years and batches: reference data the program only reads.
* Notifications (an entity and an empty service), mail and health (one call each), configuration, scripts, end-to-end tests,
  containers and CI.
* Of iam, the dates of validity, except as a change of roles in `Access`; of users, the password hashes; of the public pages,
  the plain totals; of the common code, filters and logging; of the schema, tables nobody writes.
* Of the admin's dashboard, the students at risk (useAdminDashboardData.ts:180), a list that nothing else is compared with.
* Of the frontend, what a page looks like, the landing and help pages and their animation, and the validation inside the forms.
  These are most of the lines that the map leaves out.

`PROJECT.json` "components" has each part with its reason.

## 6. Plan

1. Models: the dates of validity of role assignments and academic periods, once the code writes them; notifications, once they are sent.
