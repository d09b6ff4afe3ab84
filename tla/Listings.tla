------------------------------ MODULE Listings ------------------------------
(***************************************************************************)
(* What the program says about its tables: the lists of participations,    *)
(* submissions and verification logs, the review queue of a team leader,   *)
(* the opportunities a student is offered, and the numbers of the          *)
(* dashboards, of the analytics and of the public page.  Several queries   *)
(* answer the same question in different words; the properties compare     *)
(* them.  A write is a whole request here: Review, Opportunities and       *)
(* Roster take the requests apart.  A list is read page by page and the    *)
(* admin's dashboard request by request, while others write.               *)
(*                                                                         *)
(* A definition commented as a mutant is the wrong form of the one after   *)
(* it: no action uses it, and a property has to tell the two apart.        *)
(***************************************************************************)
EXTENDS Integers, Sequences, FiniteSets, FiniteSetsExt, TLC

CONSTANTS
  Users, Enrollments, Sections, Opportunities,
  Groups,            \* numbered as they were created
  UserOf, PeriodOf,  \* whose an enrollment is; the period it or an opportunity is of
  SectionOf, NameOf, \* the section of an enrollment or a group; the name of a group
  TypeOf, Target,    \* the type of an opportunity; its section and group, or Null
  Databases,         \* the tables to begin with
  Limits,            \* the page sizes a reader may ask for
  MaxLimit,          \* the largest page: the dashboard asks for one such page
  DefaultLimit,      \* the page of a request that names no size
  MaxFollowUps,      \* how many follow-ups a dashboard shows
  Staff,             \* bound: the users who are named leader or mentor of something
  MaxBefore,         \* bound: writes before someone begins to read
  MaxWrites,         \* bound: writes in a behaviour
  Null

ASSUME LimitsAssumption == Limits \cup {MaxLimit, DefaultLimit, MaxFollowUps} \subseteq Nat \ {0}
ASSUME WritesAssumption == {MaxBefore, MaxWrites} \subseteq Nat
ASSUME GroupsAssumption == Groups \subseteq Nat
ASSUME StaffAssumption == Staff \subseteq Users
ASSUME NullAssumption == Null \notin Users \cup Groups \cup Sections
ASSUME CountedAssumption == IsFiniteSet(Opportunities \cup Groups \cup Enrollments)

VARIABLES
  enr,     \* enrollments: "none", "live" or "removed"; active; group
  grp,     \* groups: live; the column leader; heads, who holds its role
  sec,     \* sections: the column mentor; heads, who holds its role
  opp,     \* opportunities: state; open, "early", "now" or "over"
  posted,  \* the opportunities there are, oldest first
  part,    \* participations, oldest first
  subs,    \* submissions, oldest first: participation; live
  log,     \* verification_logs, oldest first: the submission decided on
  reader,  \* someone who turns the pages of a list
  load,    \* the admin's dashboard while it loads, and when it is shown
  writes   \* how many writes there have been

tables == <<enr, grp, sec, opp, posted, part, subs, log>>
vars == <<tables, reader, load, writes>>

Statuses == {"not_started", "in_progress", "submitted", "verified",
             "rejected", "incomplete", "completed"}
Done == {"verified", "completed"}

\* What the rows of the tables may hold.
EnrollmentRow == [state : {"none", "live", "removed"}, active : BOOLEAN, group : Groups \cup {Null}]
GroupRow == [live : BOOLEAN, leader : Users \cup {Null}, heads : SUBSET Users]
SectionRow == [mentor : Users \cup {Null}, heads : SUBSET Users]
OpportunityRow ==
  [state : {"none", "draft", "published", "open", "closed", "cancelled", "archived", "removed"},
   open : {"early", "now", "over"}]
Participation ==
  [opp : Opportunities, enr : Enrollments, status : Statuses, leader : Users \cup {Null}]
Submission == [part : Nat, live : BOOLEAN]

Tables ==
  [enr : [Enrollments -> EnrollmentRow], grp : [Groups -> GroupRow],
   sec : [Sections -> SectionRow], opp : [Opportunities -> OpportunityRow],
   posted : Seq(Opportunities), part : Seq(Participation), subs : Seq(Submission),
   log : Seq(Nat)]

\* uq_participations_opportunity_enrollment.
Once(rows) == \A i, j \in DOMAIN rows :
  rows[i].opp = rows[j].opp /\ rows[i].enr = rows[j].enr => i = j

ASSUME DatabasesAssumption == Databases \subseteq Tables /\ \A d \in Databases : Once(d.part)

-----------------------------------------------------------------------------
(* Who is where.                                                           *)

Live(e) == enr[e].state = "live"
Active(e) == Live(e) /\ enr[e].active
EnrollmentsOf(u) == {e \in Enrollments : Live(e) /\ UserOf[e] = u}
GroupOf(i) == enr[part[i].enr].group
SectionOfRow(i) == SectionOf[part[i].enr]

\* findTeamLeaderGroups and findMentorSections go by role_assignments.
GroupsLed(u) == {g \in Groups : grp[g].live /\ u \in grp[g].heads}
SectionsMentored(u) == {s \in Sections : u \in sec[s].heads}

Handed(i) == \E k \in DOMAIN subs : subs[k].live /\ subs[k].part = i
SubmissionOf(i) == CHOOSE k \in DOMAIN subs : subs[k].live /\ subs[k].part = i

\* The sum of the values of a function.
Total(f) == MapThenSumSet(LAMBDA x : f[x], DOMAIN f)
Count(P(_)) == Cardinality({i \in DOMAIN part : P(i)})
Percent(n, of) == IF of = 0 THEN 0 ELSE (200 * n + of) \div (2 * of)

-----------------------------------------------------------------------------
(* The lists.  A list is the set of the ids of its rows.                   *)

ByGroup(g) == {i \in DOMAIN part : Active(part[i].enr) /\ GroupOf(i) = g}
BySection(s) == {i \in DOMAIN part : Active(part[i].enr) /\ SectionOfRow(i) = s}
\* findByMentor goes by the column of the section, not by role_assignments.
ByMentor(u) == {i \in DOMAIN part : Active(part[i].enr) /\ sec[SectionOfRow(i)].mentor = u}
ByOpportunity(o) == {i \in DOMAIN part : part[i].opp = o}
MyParticipations(u) == {i \in DOMAIN part : Active(part[i].enr) /\ UserOf[part[i].enr] = u}

SubmissionsFor(rows) == {k \in DOMAIN subs : subs[k].live /\ subs[k].part \in rows}
MySubmissions(u) == {k \in DOMAIN subs : subs[k].live /\ UserOf[part[subs[k].part].enr] = u}
LogsFor(rows) == {l \in DOMAIN log : log[l] \in SubmissionsFor(rows)}

Posted == {k \in DOMAIN posted : opp[posted[k]].state # "removed"}

\* The lists with pages, by name and argument; their rows.
Lists == {<<"opportunities", Null>>}
  \cup {"group", "group submissions", "group logs"} \X Groups
  \cup {"section", "section submissions", "section logs"} \X Sections
  \cup {"mine", "my submissions", "mentor"} \X Users
  \cup {"opportunity"} \X Opportunities

Rows(list) ==
  CASE list[1] = "opportunities" -> Posted
    [] list[1] = "group" -> ByGroup(list[2])
    [] list[1] = "group submissions" -> SubmissionsFor(ByGroup(list[2]))
    [] list[1] = "group logs" -> LogsFor(ByGroup(list[2]))
    [] list[1] = "section" -> BySection(list[2])
    [] list[1] = "section submissions" -> SubmissionsFor(BySection(list[2]))
    [] list[1] = "section logs" -> LogsFor(BySection(list[2]))
    [] list[1] = "mine" -> MyParticipations(list[2])
    [] list[1] = "my submissions" -> MySubmissions(list[2])
    [] list[1] = "mentor" -> ByMentor(list[2])
    [] list[1] = "opportunity" -> ByOpportunity(list[2])

\* Whose list a team leader, or a mentor, may see; other roles see them all.
Leads(u) == \E g \in Groups : u \in grp[g].heads
Mentors(u) == \E s \in Sections : u \in sec[s].heads
MayList(u, list) ==
  /\ list[1] \in {"group", "group submissions", "group logs"} /\ Leads(u) => list[2] \in GroupsLed(u)
  /\ list[1] \in {"section", "section submissions", "section logs"} /\ Mentors(u)
       => list[2] \in SectionsMentored(u)
  /\ list[1] \in {"mine", "my submissions", "mentor"} => list[2] = u

\* Mutant: the first page skips a page.
PageFromNext(rows, page, limit) ==
  {i \in rows : LET before == Cardinality({j \in rows : j > i})
                IN page * limit <= before /\ before < (page + 1) * limit}
\* A page of a list, newest rows first.
Page(rows, page, limit) ==
  {i \in rows : LET before == Cardinality({j \in rows : j > i})
                IN (page - 1) * limit <= before /\ before < page * limit}

\* createPaginationMeta: at least one page, the last one maybe not full.
TotalPages(rows, limit) == Max({1, (Cardinality(rows) + limit - 1) \div limit})

-----------------------------------------------------------------------------
(* The team leader's queue and the numbers above it.                       *)

\* Mutant: the queue shows what inactive enrollments have submitted.
QueueOfInactive(u) == {i \in DOMAIN part : /\ Live(part[i].enr) /\ GroupOf(i) \in GroupsLed(u)
                                           /\ part[i].status = "submitted" /\ Handed(i)}
\* findPending: what is submitted in the groups he leads, and has a submission.
Queue(u) == {i \in DOMAIN part : /\ Active(part[i].enr) /\ GroupOf(i) \in GroupsLed(u)
                                 /\ part[i].status = "submitted" /\ Handed(i)}

\* getTeamLeaderDashboard goes by the column, and asks of neither the group
\* nor the enrollment of a participation whether it is deleted.
LeaderRows(u) == {i \in DOMAIN part : GroupOf(i) # Null /\ grp[GroupOf(i)].leader = u}
LeaderDashboard(u) ==
  [pending |-> Cardinality({i \in LeaderRows(u) : part[i].status = "submitted"}),
   verified |-> Cardinality({i \in LeaderRows(u) : part[i].status = "verified"}),
   rejected |-> Cardinality({i \in LeaderRows(u) : part[i].status = "rejected"})]

-----------------------------------------------------------------------------
(* The opportunities a student is offered.                                 *)

Taken(u) == {o \in Opportunities :
  \E i \in DOMAIN part : part[i].opp = o /\ part[i].enr \in EnrollmentsOf(u)}
\* Branch and batch narrow an opportunity down as the section does.
Targeted(o, u) ==
  /\ Target[o].section # Null => \E e \in EnrollmentsOf(u) : SectionOf[e] = Target[o].section
  /\ Target[o].group # Null => \E e \in EnrollmentsOf(u) : enr[e].group = Target[o].group
OnOffer(u) == {o \in Opportunities :
  opp[o].state \in {"published", "open"} /\ o \notin Taken(u) /\ Targeted(o, u)}

\* Mutant: what the student has begun is offered again.
FindAvailableAgain(u) == {o \in Opportunities :
  opp[o].state \in {"published", "open"} /\ Targeted(o, u) /\ opp[o].open = "now"}
FindAvailable(u) == {o \in OnOffer(u) : opp[o].open = "now"}

\* The student's dashboard does not look at the window.
StudentDashboard(u) ==
  LET mine == {i \in DOMAIN part : part[i].enr \in EnrollmentsOf(u)}
      of(status) == Cardinality({i \in mine : part[i].status = status})
  IN  [assignedOpportunities |-> Cardinality(mine), inProgress |-> of("in_progress"),
       submitted |-> of("submitted"), verified |-> of("verified"), completed |-> of("completed"),
       rejected |-> of("rejected"), availableOpportunities |-> Cardinality(OnOffer(u))]

\* The tiles the student sees.
Summary(u) ==
  LET told == StudentDashboard(u) IN
  [assigned |-> told.assignedOpportunities, inProgress |-> told.inProgress,
   completed |-> told.completed + told.verified, pendingVerification |-> told.submitted,
   rejected |-> told.rejected, available |-> told.availableOpportunities]

-----------------------------------------------------------------------------
(* Analytics.                                                              *)

\* The groups a caller's numbers are about: getOpportunityAnalytics looks at
\* his roles in this order.
Scopes == {"admin", "mentor", "team_leader"}

\* Mutant: a team leader sees every group.
ScopeOfAll(as, u) ==
  IF as = "mentor" THEN {g \in Groups : grp[g].live /\ SectionOf[g] \in SectionsMentored(u)}
                   ELSE {g \in Groups : grp[g].live}
Scope(as, u) ==
  CASE as = "admin" -> {g \in Groups : grp[g].live}
    [] as = "mentor" -> {g \in Groups : grp[g].live /\ SectionOf[g] \in SectionsMentored(u)}
    [] as = "team_leader" -> GroupsLed(u)

\* A participation counts for the group of its enrollment, which the query
\* does not load when it is deleted.
Registered(o, g) == Count(LAMBDA i : part[i].opp = o /\ Live(part[i].enr) /\ GroupOf(i) = g)
Analytics(o, as, u) ==
  [g \in {h \in Scope(as, u) : Registered(o, h) > 0} |-> Registered(o, g)]
TotalRegistered(o, as, u) == Total(Analytics(o, as, u))

\* getCertificationBreakdown: what is posted for a group, or for its section.
Certifications(g) == {o \in Opportunities :
  /\ Target[o].group = g \/ (Target[o].group = Null /\ Target[o].section = SectionOf[g])
  /\ TypeOf[o] \notin {"placement", "internship"}
  /\ opp[o].state \notin {"none", "removed", "draft", "cancelled"}}
Counted(g) == {e \in Enrollments : Active(e) /\ enr[e].group = g}
CountOf(o, g, statuses) ==
  LET counted == Counted(g) IN
  Count(LAMBDA i : part[i].opp = o /\ part[i].status \in statuses /\ part[i].enr \in counted)
Breakdown(o, g) ==
  [totalStudents |-> Cardinality(Counted(g)), done |-> CountOf(o, g, Done)]

\* A group without students has no row.
BreakdownGroups(as, u) == {g \in Scope(as, u) : Counted(g) # {}}

\* The mentor's page and the report sum the breakdown up in the browser.
GroupRate(g) ==
  LET certs == Certifications(g) IN
  Percent(Total([o \in certs |-> Breakdown(o, g).done]),
          Total([o \in certs |-> Breakdown(o, g).totalStudents]))
OverallRate(as, u) ==
  LET all == UNION {{g} \X Certifications(g) : g \in BreakdownGroups(as, u)}
  IN  Percent(Total([c \in all |-> Breakdown(c[2], c[1]).done]),
              Total([c \in all |-> Breakdown(c[2], c[1]).totalStudents]))

-----------------------------------------------------------------------------
(* The numbers of the dashboards and of the public page.                   *)

\* Mutant: the rate leaves the verified out of all.
CompletionRateOfOthers(v, s, r) ==
  IF s + r = 0 THEN 0 ELSE (20000 * v + s + r) \div (2 * (s + r))
\* In hundredths of a percent.
CompletionRate(v, s, r) ==
  LET total == v + s + r IN IF total = 0 THEN 0 ELSE (20000 * v + total) \div (2 * total)

AdminDashboard ==
  LET of(status) == Count(LAMBDA i : part[i].status = status) IN
  [totalStudents |-> Cardinality({UserOf[e] : e \in {f \in Enrollments : Active(f)}}),
   totalOpportunities |-> Cardinality(Posted),
   activeOpportunities |->
     Cardinality({k \in Posted : opp[posted[k]].state \in {"published", "open"}}),
   participations |-> Len(part),
   completionRate |-> CompletionRate(of("verified"), of("submitted"), of("rejected"))]

\* getMentorDashboard counts inactive enrollments, findByMentor does not.
MentorRows(u) == {i \in DOMAIN part : Live(part[i].enr) /\ sec[SectionOfRow(i)].mentor = u}
MentorFollowUps(u) == {i \in MentorRows(u) : part[i].status \in {"submitted", "in_progress"}}

\* The lists that the sort by the days since submittedAt, and the cut after it,
\* may leave of these rows.  The tables here do not have the day: any of the
\* rows may be those that have waited longest.
Longest(rows) == kSubset(Min({Cardinality(rows), MaxFollowUps}), rows)

MentorDashboard(u) ==
  LET of(status) == Cardinality({i \in MentorRows(u) : part[i].status = status}) IN
  [assignedSections |-> Cardinality({s \in Sections : sec[s].mentor = u}),
   totalStudents |->
     Cardinality({UserOf[e] : e \in {f \in Enrollments : Live(f) /\ sec[SectionOf[f]].mentor = u}}),
   opportunitiesActive |-> Cardinality({part[i].opp : i \in MentorRows(u)}),
   followUp |-> Longest(MentorFollowUps(u)),
   completionRate |-> CompletionRate(of("verified"), of("submitted"), of("rejected"))]

\* The public page counts deleted enrollments in its rates.
PublicGroup(g) ==
  Percent(Count(LAMBDA i : GroupOf(i) = g /\ part[i].status \in Done),
          Count(LAMBDA i : GroupOf(i) = g))
PublicCertification(o) ==
  Percent(Cardinality({i \in ByOpportunity(o) : part[i].status \in Done}),
          Cardinality(ByOpportunity(o)))
PlacementReadiness ==
  Percent(Count(LAMBDA i : part[i].status \in Done), Cardinality({e \in Enrollments : Active(e)}))

-----------------------------------------------------------------------------
(* The admin's dashboard in the browser.  It asks for four things, then    *)
(* for the participations of every group, one page of each list; a group   *)
(* whose request fails is shown without any.  The names in the tables come *)
(* from what was asked for, whatever has been written since.               *)

Blank == [pc |-> "idle", todo |-> {}, groups |-> {}, opps |-> {}, parts |-> <<>>,
          counted |-> 0, failed |-> {}, quiet |-> TRUE]
First == {"dashboard", "groups", "opportunities"}

\* A list of what opportunity and status the participations of a group have.
Snapshot(rows) == {[id |-> i, opp |-> part[i].opp, status |-> part[i].status] : i \in rows}
Trainings == {o \in load.opps : TypeOf[o] = "training"}
\* The rows of all groups in one list, each with the group it was asked for.
AllRows == UNION {{g} \X load.parts[g] : g \in load.groups}

\* One group's row of the performance table.
Performance(g) ==
  [completed |-> Cardinality({p \in load.parts[g] : p.status \in Done}),
   inProgress |-> Cardinality({p \in load.parts[g] : p.status \in {"in_progress", "submitted"}}),
   notStarted |-> Cardinality({p \in load.parts[g] : p.status = "not_started"}),
   total |-> Cardinality(load.parts[g])]
CompletionPct(g) == Percent(Performance(g).completed, Performance(g).total)

\* An opportunity's row of the certification table.
Stats(o) ==
  LET rows == {p \in AllRows : p[2].opp = o} IN
  [assigned |-> Cardinality(rows),
   started |-> Cardinality({p \in rows : p[2].status \in Done \cup {"in_progress", "submitted"}}),
   completed |-> Cardinality({p \in rows : p[2].status \in Done})]

\* Mutant: a cell counts the group's participations in anything.
CellOfAll(o, g) ==
  [assigned |-> Cardinality(load.parts[g]),
   completed |-> Cardinality({p \in load.parts[g] : p.status \in Done})]
Cell(o, g) ==
  LET rows == {p \in load.parts[g] : p.opp = o} IN
  [assigned |-> Cardinality(rows), completed |-> Cardinality({p \in rows : p.status \in Done})]
\* The heat map has a cell for every name: of groups with one name the last
\* in the list, the oldest, has it.
HeatMap(o) ==
  [n \in {NameOf[g] : g \in load.groups} |-> Cell(o, Min({g \in load.groups : NameOf[g] = n}))]

\* The lists that the browser may show of those that wait.
Waiting == {p \in AllRows : p[2].status \in {"submitted", "in_progress"}}
FollowUp == Longest(Waiting)

OpenDashboard ==
  /\ load.pc = "idle" /\ reader.pc = "idle" /\ writes <= MaxBefore
  /\ load' = [Blank EXCEPT !.pc = "first", !.todo = First]
  /\ UNCHANGED <<tables, reader, writes>>

\* One of the first answers; the participations are asked for after the last.
AnswerFirst(what) ==
  LET groups == Page({g \in Groups : grp[g].live}, 1, MaxLimit)
      opps == {posted[k] : k \in Page(Posted, 1, DefaultLimit)}
      told == [load EXCEPT !.todo = @ \ {what},
                 !.counted = IF what = "dashboard" THEN AdminDashboard.participations ELSE @,
                 !.groups = IF what = "groups" THEN groups ELSE @,
                 !.opps = IF what = "opportunities" THEN opps ELSE @]
  IN  /\ load.pc = "first" /\ what \in load.todo
      /\ load' = IF told.todo # {} THEN told
                 ELSE [told EXCEPT !.todo = told.groups, !.parts = [g \in told.groups |-> {}],
                                   !.pc = IF told.groups = {} THEN "shown" ELSE "groups"]
      /\ UNCHANGED <<tables, reader, writes>>

AnswerGroup(g, ok) ==
  /\ load.pc = "groups" /\ g \in load.todo
  /\ load' = [load EXCEPT !.todo = @ \ {g}, !.failed = IF ok THEN @ ELSE @ \cup {g},
                !.parts[g] = IF ok THEN Snapshot(Page(ByGroup(g), 1, MaxLimit)) ELSE {},
                !.pc = IF load.todo = {g} THEN "shown" ELSE @]
  /\ UNCHANGED <<tables, reader, writes>>

-----------------------------------------------------------------------------
(* Turning the pages of a list.                                            *)

Closed == [pc |-> "idle", list |-> <<"none", Null>>, limit |-> 0, page |-> 0,
           seen |-> {}, twice |-> FALSE, there |-> {}, left |-> FALSE, came |-> FALSE]

\* A page is answered; the button to the next one is off on the last.
ReadPage(rd) ==
  LET rows == Page(Rows(rd.list), rd.page, rd.limit) IN
  [rd EXCEPT !.seen = @ \cup rows, !.twice = @ \/ rows \cap rd.seen # {},
             !.pc = IF rd.page < TotalPages(Rows(rd.list), rd.limit) THEN "reading" ELSE "done"]

StartReading(u, list, limit) ==
  /\ reader.pc = "idle" /\ load.pc = "idle" /\ writes <= MaxBefore
  /\ MayList(u, list)
  /\ reader' = ReadPage([Closed EXCEPT !.list = list, !.limit = limit, !.page = 1,
                                       !.there = Rows(list)])
  /\ UNCHANGED <<tables, load, writes>>

NextPage ==
  /\ reader.pc = "reading"
  /\ reader' = ReadPage([reader EXCEPT !.page = @ + 1])
  /\ UNCHANGED <<tables, load, writes>>

-----------------------------------------------------------------------------
(* The writes.                                                             *)

\* What a write does to those who are reading; what comes after they have
\* read everything is not followed.
Watched ==
  /\ writes < MaxWrites /\ reader.pc # "done" /\ load.pc # "shown"
  /\ writes' = writes + 1
  /\ load' = [load EXCEPT !.quiet = load.pc = "idle"]
  /\ \E list \in {reader.list} : reader' =
       IF reader.pc # "reading" THEN reader
       ELSE LET was == Rows(list)  now == Rows(list)'
            IN  [reader EXCEPT !.there = @ \cap now, !.left = @ \/ ~(was \subseteq now),
                               !.came = @ \/ ~(now \subseteq was)]

Row(o, e, leader) == [opp |-> o, enr |-> e, status |-> "not_started", leader |-> leader]

RegisterAccepted(o, e) ==
  /\ opp[o].state \notin {"none", "removed", "draft"}
  /\ Active(e) /\ PeriodOf[e] = PeriodOf[o]
  /\ ~\E i \in DOMAIN part : part[i].opp = o /\ part[i].enr = e

Register(o, e) ==
  /\ RegisterAccepted(o, e)
  /\ part' = Append(part, Row(o, e, IF enr[e].group = Null \/ ~grp[enr[e].group].live THEN Null
                                    ELSE grp[enr[e].group].leader))
  /\ UNCHANGED <<enr, grp, sec, opp, posted, subs, log>> /\ Watched

Transitions ==
  [not_started |-> {"in_progress"}, in_progress |-> {"submitted", "completed"},
   submitted |-> {"verified", "rejected", "incomplete"}, rejected |-> {"in_progress"},
   incomplete |-> {"in_progress"}, verified |-> {"completed"}, completed |-> {}]

\* updateStatus, by the owner or by the leader the participation was given.
Mark(i, to) ==
  /\ to \in Transitions[part[i].status]
  /\ Live(part[i].enr) \/ part[i].leader # Null
  /\ part' = [part EXCEPT ![i].status = to]
  /\ UNCHANGED <<enr, grp, sec, opp, posted, subs, log>> /\ Watched

\* An upload: the one submission of the participation is made or replaced.
HandIn(i) ==
  /\ Live(part[i].enr) /\ part[i].status \notin Done
  /\ opp[part[i].opp].state \in {"published", "open"}
  /\ subs' = IF Handed(i) THEN subs ELSE Append(subs, [part |-> i, live |-> TRUE])
  /\ part' = [part EXCEPT ![i].status = "submitted"]
  /\ UNCHANGED <<enr, grp, sec, opp, posted, log>> /\ Watched

\* The submission goes, its logs with it; the status stays.
Withdraw(i) ==
  /\ Handed(i) /\ part[i].status \notin Done
  /\ subs' = [subs EXCEPT ![SubmissionOf(i)].live = FALSE]
  /\ UNCHANGED <<enr, grp, sec, opp, posted, part, log>> /\ Watched

\* approve and reject: once for each submission, by the leader of the row.
Decide(i, to) ==
  /\ Handed(i) /\ part[i].status = "submitted" /\ part[i].leader # Null
  /\ \A l \in DOMAIN log : log[l] # SubmissionOf(i)
  /\ log' = Append(log, SubmissionOf(i))
  /\ part' = [part EXCEPT ![i].status = to]
  /\ UNCHANGED <<enr, grp, sec, opp, posted, subs>> /\ Watched

Enroll(e, g) ==
  /\ enr[e].state = "none"
  /\ \A f \in EnrollmentsOf(UserOf[e]) : PeriodOf[f] # PeriodOf[e]
  /\ enr' = [enr EXCEPT ![e] = [state |-> "live", active |-> TRUE, group |-> g]]
  /\ UNCHANGED <<grp, sec, opp, posted, part, subs, log>> /\ Watched

Activate(e) ==
  /\ Live(e)
  /\ enr' = [enr EXCEPT ![e].active = ~@]
  /\ UNCHANGED <<grp, sec, opp, posted, part, subs, log>> /\ Watched

\* Who is in no group, or a removed one, can be given one.
Regroup(e, g) ==
  /\ Live(e) /\ grp[g].live
  /\ enr[e].group \notin {h \in Groups : grp[h].live}
  /\ enr' = [enr EXCEPT ![e].group = g]
  /\ UNCHANGED <<grp, sec, opp, posted, part, subs, log>> /\ Watched

Unenroll(e) ==
  /\ Live(e)
  /\ enr' = [enr EXCEPT ![e].state = "removed"]
  /\ UNCHANGED <<grp, sec, opp, posted, part, subs, log>> /\ Watched

\* A leader named by hand is written to the column, one imported gets the
\* role besides; nobody loses a role.
NameLeader(g, u, imported) ==
  /\ grp[g].live
  /\ grp' = [grp EXCEPT ![g].leader = u, ![g].heads = IF imported THEN @ \cup {u} ELSE @]
  /\ UNCHANGED <<enr, sec, opp, posted, part, subs, log>> /\ Watched

NameMentor(s, u, imported) ==
  /\ sec' = [sec EXCEPT ![s].mentor = u, ![s].heads = IF imported THEN @ \cup {u} ELSE @]
  /\ UNCHANGED <<enr, grp, opp, posted, part, subs, log>> /\ Watched

RemoveGroup(g) ==
  /\ grp[g].live /\ \A e \in Enrollments : Live(e) => enr[e].group # g
  /\ grp' = [grp EXCEPT ![g].live = FALSE]
  /\ UNCHANGED <<enr, sec, opp, posted, part, subs, log>> /\ Watched

Post(o) ==
  /\ opp[o].state = "none"
  /\ opp' = [opp EXCEPT ![o].state = "draft"]
  /\ posted' = Append(posted, o)
  /\ UNCHANGED <<enr, grp, sec, part, subs, log>> /\ Watched

Move(o, from, to) ==
  /\ opp[o].state \in from
  /\ opp' = [opp EXCEPT ![o].state = to]
  /\ UNCHANGED <<enr, grp, sec, posted, part, subs, log>> /\ Watched
Publish(o) == Move(o, {"draft"}, "published")
Archive(o) == Move(o, {"published", "open", "closed", "cancelled"}, "archived")
Remove(o) == Move(o, {"draft"}, "removed")

\* Time passes: the window of an opportunity opens, or closes.
Pass(o) ==
  /\ opp[o].open \in {"early", "now"}
  /\ opp' = [opp EXCEPT ![o].open = IF @ = "early" THEN "now" ELSE "over"]
  /\ UNCHANGED <<enr, grp, sec, posted, part, subs, log>> /\ Watched

Write ==
  \/ \E o \in Opportunities : \/ Post(o) \/ Publish(o) \/ Archive(o) \/ Remove(o) \/ Pass(o)
                              \/ \E e \in Enrollments : Register(o, e)
  \/ \E i \in DOMAIN part : \/ HandIn(i) \/ Withdraw(i)
                            \/ \E to \in Statuses : Mark(i, to)
                            \/ \E to \in {"verified", "rejected"} : Decide(i, to)
  \/ \E e \in Enrollments : \/ Activate(e) \/ Unenroll(e)
                            \/ \E g \in Groups \cup {Null} : Enroll(e, g)
                            \/ \E g \in Groups : Regroup(e, g)
  \/ \E g \in Groups : RemoveGroup(g) \/ \E u \in Staff, b \in BOOLEAN : NameLeader(g, u, b)
  \/ \E s \in Sections : \/ NameMentor(s, Null, FALSE)
                         \/ \E u \in Staff, b \in BOOLEAN : NameMentor(s, u, b)

Read ==
  \/ OpenDashboard
  \/ \E what \in First : AnswerFirst(what)
  \/ \E g \in Groups, ok \in BOOLEAN : AnswerGroup(g, ok)
  \/ \E u \in Users, list \in Lists, limit \in Limits : StartReading(u, list, limit)
  \/ NextPage

Init ==
  /\ \E d \in Databases :
       /\ enr = d.enr /\ grp = d.grp /\ sec = d.sec /\ opp = d.opp /\ posted = d.posted
       /\ part = d.part /\ subs = d.subs /\ log = d.log
  /\ reader = Closed /\ load = Blank /\ writes = 0

Next == Write \/ Read

Spec == Init /\ [][Next]_vars

-----------------------------------------------------------------------------
(* Properties.                                                             *)

\* When the columns and the roles name u for the same groups, every item that
\* the dashboard calls pending is in his queue, or its enrollment is inactive
\* or deleted, its group is, or nothing was handed in (getTeamLeaderDashboard
\* against findPending).
QueueAccountedFor ==
  \A u \in Users : (\A g \in Groups : grp[g].leader = u <=> u \in grp[g].heads) =>
    LeaderDashboard(u).pending =
      Cardinality(Queue(u))
      + Cardinality({i \in LeaderRows(u) : /\ part[i].status = "submitted"
           /\ ~(Active(part[i].enr) /\ grp[GroupOf(i)].live /\ Handed(i))})

\* The total of an opportunity's analytics counts each participation of the
\* caller's groups once, a mentor's is part of an admin's, and a team leader's
\* is about the groups he leads and no other
\* (getOpportunityAnalytics).
AnalyticsAddUp ==
  \A o \in Opportunities : LET all == TotalRegistered(o, "admin", Null) IN
    /\ all = Cardinality({i \in ByOpportunity(o) : Live(part[i].enr) /\ GroupOf(i) \in Scope("admin", Null)})
    /\ all > 0 => \A u \in Users :
         /\ Mentors(u) => TotalRegistered(o, "mentor", u) <= all
         /\ Leads(u) => TotalRegistered(o, "team_leader", u) =
              Cardinality({i \in ByOpportunity(o) : Live(part[i].enr) /\ GroupOf(i) \in GroupsLed(u)})

\* A student enrolled in the period can register for what the list of
\* available opportunities offers him; the dashboard counts at least these, and
\* what his own list shows when all his enrollments are active, each once
\* (findAvailable, create, findMyParticipations, getStudentDashboard).
OfferedIsTakeable ==
  \A u \in Users :
    LET offered == FindAvailable(u)
        told == Summary(u)
        list == MyParticipations(u)
        mine == {i \in list : part[i].status \notin {"not_started", "incomplete"}}
    IN  /\ \A o \in offered, e \in EnrollmentsOf(u) :
             Active(e) /\ PeriodOf[e] = PeriodOf[o] => RegisterAccepted(o, e)
        /\ Cardinality(offered) <= told.available
        /\ (\A e \in EnrollmentsOf(u) : Active(e)) =>
             /\ told.assigned = Cardinality(list)
             /\ told.inProgress + told.completed + told.pendingVerification + told.rejected
                  = Cardinality(mine)

\* No rate is above a hundred percent.  PlacementReadiness divides by students
\* what it counts in participations, deleted enrollments' included: it is not
\* above only while each student in the tables has one at most
\* (dashboard.service.ts, analytics.service.ts, public.controller.ts).
RatesInRange ==
  /\ AdminDashboard.completionRate \in 0 .. 10000
  /\ OverallRate("admin", Null) \in 0 .. 100
  /\ \A u \in Users : /\ MentorDashboard(u).completionRate \in 0 .. 10000
                      /\ Mentors(u) => OverallRate("mentor", u) \in 0 .. 100
  /\ \A g \in Groups : PublicGroup(g) \in 0 .. 100 /\ GroupRate(g) \in 0 .. 100
  /\ \A o \in Opportunities : PublicCertification(o) \in 0 .. 100
  /\ (\A i \in DOMAIN part : part[i].status \in Done =>
        /\ Active(part[i].enr)
        /\ \A j \in DOMAIN part : part[j].status \in Done /\ part[j].enr = part[i].enr => i = j)
     => PlacementReadiness \in 0 .. 100

\* Who turns all the pages of a list has seen every row that was in it all the
\* time unless a row has left it meanwhile, and none twice unless one has come
\* (the skip and take of every list, createPaginationMeta).
NothingMissed ==
  reader.pc = "done" => /\ ~reader.left => reader.there \subseteq reader.seen
                        /\ reader.twice => reader.came

\* The cells of a certification's row of the heat map add up to the students
\* it was assigned to when all groups have names of their own.  The tile of the
\* follow-ups has what the performance table has in progress, as far as the
\* list goes.  And unless something was written or failed while the dashboard
\* loaded, or a group has more participations than a page, a cell agrees with
\* the certification analytics; what the follow-ups have of a mentor's rows is on
\* his own list unless that is cut, and what his list has of the groups is among
\* them unless they are (useAdminDashboardData.ts against analytics.service.ts
\* and dashboard.service.ts, which both cut after twenty).
DashboardAddsUp ==
  load.pc = "shown" =>
    /\ (\A g, h \in load.groups : NameOf[g] = NameOf[h] => g = h) =>
         \A o \in Trainings :
           Stats(o).assigned = Total([n \in DOMAIN HeatMap(o) |-> HeatMap(o)[n].assigned])
    /\ \A g \in load.groups : LET row == Performance(g) IN
         row.completed + row.inProgress + row.notStarted <= row.total
    /\ \A list \in FollowUp :
         LET busy == Total([g \in load.groups |-> Performance(g).inProgress])
         IN  Cardinality(list) = IF busy <= MaxFollowUps THEN busy ELSE MaxFollowUps
    /\ load.quiet => Cardinality(AllRows) <= load.counted
    /\ load.quiet /\ load.failed = {} /\ (\A g \in load.groups : Cardinality(ByGroup(g)) <= MaxLimit) =>
         /\ \A g \in load.groups : \A o \in Trainings \cap Certifications(g) :
              Cell(o, g).completed = Breakdown(o, g).done
         /\ \A list \in FollowUp, u \in Users : \A mine \in MentorDashboard(u).followUp :
              LET shown == {p[2].id : p \in list} IN
              /\ Cardinality(MentorFollowUps(u)) <= MaxFollowUps =>
                   shown \cap MentorRows(u) \subseteq mine
              /\ Cardinality(Waiting) <= MaxFollowUps =>
                   {i \in mine : Active(part[i].enr) /\ GroupOf(i) \in load.groups} \subseteq shown
=============================================================================
