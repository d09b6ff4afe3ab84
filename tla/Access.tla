------------------------------- MODULE Access -------------------------------
(***************************************************************************)
(* Who gets where: the routes of the frontend with their guards, the menu  *)
(* and the buttons that lead to them, the calls each page makes, and the   *)
(* endpoints of the server with the roles they ask for.  A user's roles    *)
(* are known in three places, the server, the access token and the user    *)
(* that the browser stored at login, and may change while he works.        *)
(*                                                                         *)
(* A definition commented as a mutant is the wrong form of the one after   *)
(* it: no action uses it, and a property has to tell the two apart.        *)
(***************************************************************************)
EXTENDS Naturals

CONSTANTS
  MaxChanges  \* bound: changes of the user's roles

ASSUME MaxChangesAssumption == MaxChanges \in Nat

Roles == {"admin", "mentor", "team_leader", "student"}
Staff == {"admin", "mentor", "team_leader"}
Teachers == {"admin", "mentor"}

\* In place of a user's roles: nobody is signed in.
Nobody == {"nobody"}

VARIABLES
  granted,  \* role assignments and enrollment, in the database
  token,    \* the roles in the page's access token
  user,     \* the roles of the stored user
  path,     \* where the browser is
  mounted,  \* did the guard let the page through?
  modal,    \* on the landing page: is the login form open?
  landing,  \* after a login: has the redirect to come yet?
  leaving,  \* is a logout on its way?
  calls,    \* calls of the page that are on their way
  refused,  \* calls of the page that the server refused
  offered,  \* history: the page was reached from a link made for this user
  hops,     \* history: redirects since the last link
  changes   \* history: changes of the roles, and the number there were at login

vars == <<granted, token, user, path, mounted, modal, landing, leaving,
          calls, refused, offered, hops, changes>>

-----------------------------------------------------------------------------
(* The server: every route of the controllers, each after the roles of     *)
(* which it asks for one; {} asks for nothing but a valid token.           *)

To(roles, routes) == {roles} \X routes

\* Mutant: rounds, like targets, are for the placement officer.
OpportunityRoutesOfOfficer ==
  To({}, {"GET opportunities", "GET opportunities/available", "GET opportunities/:id",
          "GET opportunities/:id/targets", "GET opportunities/:id/rounds"})
  \cup To(Staff, {"POST opportunities", "PATCH opportunities/:id", "DELETE opportunities/:id",
                "POST opportunities/:id/publish", "POST opportunities/:id/archive"})
  \cup To({"admin"}, {"POST opportunities/:id/targets", "POST opportunities/:id/rounds"})
OpportunityRoutes ==
  To({}, {"GET opportunities", "GET opportunities/available", "GET opportunities/:id",
          "GET opportunities/:id/targets", "GET opportunities/:id/rounds"})
  \cup To(Staff, {"POST opportunities", "PATCH opportunities/:id", "DELETE opportunities/:id",
                "POST opportunities/:id/publish", "POST opportunities/:id/archive",
                "POST opportunities/:id/rounds"})
  \cup To({"admin"}, {"POST opportunities/:id/targets"})

ParticipationRoutes ==
  To({}, {"POST participations", "GET participations/me", "GET participations/:id",
          "PATCH participations/:id/status"})
  \cup To(Staff, {"GET participations/opportunity/:id", "GET participations/opportunity/:id/analytics",
                "GET participations/group/:id"})
  \cup To(Teachers, {"GET participations/section/:id", "GET participations/mentor/:id"})

SubmissionRoutes ==
  To({}, {"POST submissions", "GET submissions/me", "GET submissions/participation/:id",
          "GET submissions/:id", "PATCH submissions/:id", "DELETE submissions/:id",
          "GET submissions/files/:id/download"})
  \cup To(Staff, {"GET submissions/group/:id"})
  \cup To(Teachers, {"GET submissions/section/:id"})

VerificationRoutes ==
  To({}, {"GET verifications/pending", "POST verifications/:id/approve", "POST verifications/:id/reject"})
  \cup To(Staff, {"GET verifications/group/:id", "GET verifications/submission/:id"})
  \cup To(Teachers, {"GET verifications/section/:id"})

SectionRoutes ==
  To({}, {"GET sections", "GET sections/:id", "GET sections/:id/groups"})
  \cup To({"admin"}, {"POST sections", "PATCH sections/:id", "DELETE sections/:id"})
  \cup To(Teachers, {"GET sections/:id/students"})

GroupRoutes ==
  To({}, {"GET groups", "GET groups/:id"})
  \cup To({"admin"}, {"POST groups", "PATCH groups/:id", "DELETE groups/:id"})
  \cup To(Staff, {"GET groups/:id/students"})

BranchRoutes ==
  To({}, {"GET branches", "GET branches/:id"})
  \cup To({"admin"}, {"POST branches", "PATCH branches/:id", "DELETE branches/:id"})

EnrollmentRoutes ==
  To({"admin"}, {"GET enrollments", "GET enrollments/:id", "POST enrollments",
                 "PATCH enrollments/:id", "DELETE enrollments/:id"})

ImportRoutes ==
  To({"admin"}, {"GET imports/history"}
       \cup {"POST imports/students/validate", "POST imports/students/import",
             "POST imports/groups/validate", "POST imports/groups/import",
             "POST imports/team-leaders/validate", "POST imports/team-leaders/import",
             "POST imports/mentors/validate", "POST imports/mentors/import"})

LookupRoutes == To({}, {"GET mentors/:id/sections", "GET team-leaders/:id/groups"})
PeriodRoutes == To({}, {"GET academic-periods"})

DashboardRoutes ==
  To({"admin"}, {"GET dashboard/admin"})
  \cup To(Teachers, {"GET dashboard/mentor"})
  \cup To({"admin", "team_leader"}, {"GET dashboard/team-leader"})
  \cup To({"admin", "student"}, {"GET dashboard/student"})

AnalyticsRoutes == To(Teachers, {"GET analytics/certifications"})

Routes ==
  OpportunityRoutes \cup ParticipationRoutes \cup SubmissionRoutes \cup VerificationRoutes
    \cup SectionRoutes \cup GroupRoutes \cup BranchRoutes \cup EnrollmentRoutes \cup ImportRoutes
    \cup LookupRoutes \cup PeriodRoutes \cup DashboardRoutes \cup AnalyticsRoutes

\* There is such a route, and RolesGuard lets a token with these roles pass.
Admits(route, roles) == \E r \in Routes : r[2] = route /\ (r[1] = {} \/ r[1] \cap roles # {})

-----------------------------------------------------------------------------
(* The functions of the frontend's api, and the routes they call.          *)

OpportunitiesApi ==
  {<<"listOpportunities", "GET opportunities">>, <<"getOpportunity", "GET opportunities/:id">>,
   <<"createOpportunity", "POST opportunities">>, <<"updateOpportunity", "PATCH opportunities/:id">>,
   <<"deleteOpportunity", "DELETE opportunities/:id">>,
   <<"publishOpportunity", "POST opportunities/:id/publish">>,
   <<"archiveOpportunity", "POST opportunities/:id/archive">>,
   <<"getAvailableOpportunities", "GET opportunities/available">>,
   <<"setOpportunityRounds", "POST opportunities/:id/rounds">>,
   <<"getOpportunityRounds", "GET opportunities/:id/rounds">>}

\* listParticipations calls a route that there is not; no page uses it.
ParticipationsApi ==
  {<<"listParticipations", "GET participations">>, <<"getParticipation", "GET participations/:id">>,
   <<"createParticipation", "POST participations">>,
   <<"updateParticipationStatus", "PATCH participations/:id/status">>,
   <<"getMyParticipations", "GET participations/me">>,
   <<"getGroupParticipations", "GET participations/group/:id">>,
   <<"getSectionParticipations", "GET participations/section/:id">>,
   <<"getOpportunityAnalytics", "GET participations/opportunity/:id/analytics">>}

SubmissionsApi ==
  {<<"getSubmissionsByParticipation", "GET submissions/participation/:id">>,
   <<"createSubmission", "POST submissions">>, <<"deleteSubmission", "DELETE submissions/:id">>,
   <<"getMySubmissions", "GET submissions/me">>, <<"downloadFile", "GET submissions/files/:id/download">>}

VerificationsApi ==
  {<<"getPendingVerifications", "GET verifications/pending">>,
   <<"approveSubmission", "POST verifications/:id/approve">>,
   <<"rejectSubmission", "POST verifications/:id/reject">>,
   <<"getVerificationsByGroup", "GET verifications/group/:id">>,
   <<"getVerificationsBySection", "GET verifications/section/:id">>}

SectionsApi ==
  {<<"listSections", "GET sections">>, <<"getSection", "GET sections/:id">>,
   <<"getSectionGroups", "GET sections/:id/groups">>, <<"getSectionStudents", "GET sections/:id/students">>}

GroupsApi ==
  {<<"listGroups", "GET groups">>, <<"getGroup", "GET groups/:id">>,
   <<"getGroupStudents", "GET groups/:id/students">>}

DashboardApi ==
  {<<"getAdminDashboard", "GET dashboard/admin">>, <<"getMentorDashboard", "GET dashboard/mentor">>,
   <<"getTeamLeaderDashboard", "GET dashboard/team-leader">>,
   <<"getStudentDashboard", "GET dashboard/student">>}

AnalyticsApi == {<<"getCertificationBreakdown", "GET analytics/certifications">>}
PeriodsApi == {<<"listAcademicPeriods", "GET academic-periods">>}

Api == OpportunitiesApi \cup ParticipationsApi \cup SubmissionsApi \cup VerificationsApi
         \cup SectionsApi \cup GroupsApi \cup DashboardApi \cup AnalyticsApi \cup PeriodsApi

\* The server answers a call of the page: its route is there and admits it.
Serves(call, roles) == \E c \in Api : c[1] = call /\ Admits(c[2], roles)

-----------------------------------------------------------------------------
(* The pages.                                                              *)

\* The routes behind a RoleGuard, with the roles of which it asks for one.
Guarded ==
  To({"admin"}, {"admin/dashboard", "admin/students", "admin/verifications", "admin/reports"})
  \cup To(Staff, {"admin/opportunities", "admin/opportunities/new",
                "admin/opportunities/:id/edit", "admin/opportunities/:id/analytics"})
  \cup To({"mentor", "team_leader"}, {"dashboard"})
  \cup To({"mentor"}, {"mentor/dashboard"})
  \cup To({"team_leader"}, {"team-leader/dashboard"})
  \cup To({"student"}, {"student/dashboard", "student/certifications", "student/placements",
                      "student/submissions", "student/profile"})

\* The others: the landing page, help, the form for a new password, and "*".
Free == {"", "help", "auth/reset-password", "*"}
GuardedPages == {g[2] : g \in Guarded}
Pages == GuardedPages \cup Free

\* RoleGuard, for a stored user with these roles.
MayOpen(p, roles) == \E g \in Guarded : g[2] = p /\ g[1] \cap roles # {}

\* Mutant: mentors start on their own dashboard, team leaders too.
HomeOnMentors ==
  [admin |-> "admin/dashboard", mentor |-> "mentor/dashboard",
   team_leader |-> "mentor/dashboard", student |-> "student/dashboard"]
Home ==
  [admin |-> "admin/dashboard", mentor |-> "dashboard",
   team_leader |-> "dashboard", student |-> "student/dashboard"]

\* The first role decides; the student's comes last, the others in any order.
Homes(roles) ==
  {Home[r] : r \in IF roles \subseteq {"student"} THEN roles ELSE roles \ {"student"}}

\* What a page asks the server for, when it is mounted and by its buttons.
AdminDashboardCalls == {"getAdminDashboard", "listGroups", "listSections", "listOpportunities",
                        "getSectionStudents", "getGroupParticipations", "getGroupStudents"}
StudentsListCalls == {"listSections", "getSectionStudents"}
VerificationsListCalls == {"listSections", "getSectionParticipations"}
ReportsCalls == {"getCertificationBreakdown"}
MentorDashboardCalls == {"getMentorDashboard", "getCertificationBreakdown"}
TeamLeaderDashboardCalls == {"getTeamLeaderDashboard", "getPendingVerifications",
                             "approveSubmission", "rejectSubmission"}
HubCalls == {"getMentorDashboard", "getTeamLeaderDashboard", "getStudentDashboard"}
OpportunityListCalls == {"listOpportunities", "publishOpportunity", "archiveOpportunity",
                         "deleteOpportunity"}
OpportunityCreateCalls == {"listAcademicPeriods", "createOpportunity", "setOpportunityRounds"}
OpportunityEditCalls == {"getOpportunity", "updateOpportunity", "setOpportunityRounds"}
OpportunityAnalyticsCalls == {"getOpportunityAnalytics"}
StudentDashboardCalls == {"getStudentDashboard", "getSection", "getGroup",
                          "getMyParticipations", "getAvailableOpportunities"}
CertificationsCalls == {"getMyParticipations", "getAvailableOpportunities", "createParticipation",
                        "updateParticipationStatus", "createSubmission",
                        "getSubmissionsByParticipation", "downloadFile"}
SubmissionsCalls == {"getMyParticipations", "getMySubmissions", "downloadFile"}
ProfileCalls == {"getSection", "getGroup"}

CallsOf(p) ==
  CASE p = "admin/dashboard" -> AdminDashboardCalls
    [] p = "admin/students" -> StudentsListCalls
    [] p = "admin/verifications" -> VerificationsListCalls
    [] p = "admin/reports" -> ReportsCalls
    [] p = "mentor/dashboard" -> MentorDashboardCalls
    [] p = "team-leader/dashboard" -> TeamLeaderDashboardCalls
    [] p = "dashboard" -> HubCalls
    [] p = "admin/opportunities" -> OpportunityListCalls
    [] p = "admin/opportunities/new" -> OpportunityCreateCalls
    [] p = "admin/opportunities/:id/edit" -> OpportunityEditCalls
    [] p = "admin/opportunities/:id/analytics" -> OpportunityAnalyticsCalls
    [] p = "student/dashboard" -> StudentDashboardCalls
    [] p \in {"student/certifications", "student/placements"} -> CertificationsCalls
    [] p = "student/submissions" -> SubmissionsCalls
    [] p = "student/profile" -> ProfileCalls
    [] OTHER -> {}

\* The hub asks for all three dashboards and shows those of the user's roles.
HubTiles(roles) ==
  UNION {IF "mentor" \in roles THEN {"getMentorDashboard"} ELSE {},
         IF "team_leader" \in roles THEN {"getTeamLeaderDashboard"} ELSE {},
         IF "student" \in roles THEN {"getStudentDashboard"} ELSE {}}
Shown(p, roles) == IF p = "dashboard" THEN HubTiles(roles) ELSE CallsOf(p)

\* Mutant: the student's dashboard has its link for everybody.
MenuForAll(roles) ==
  LET hub == roles \cap {"mentor", "team_leader"} # {} IN
  UNION {
    IF "admin" \in roles THEN {"admin/dashboard", "admin/students", "admin/opportunities",
                               "admin/verifications", "admin/reports"} ELSE {},
    IF hub THEN {"dashboard", "admin/opportunities"} ELSE {"student/dashboard"},
    IF "student" \in roles THEN {"student/certifications", "student/placements",
                                 "student/submissions", "student/profile"} ELSE {}}
\* The sidebar: one dashboard for who is a mentor or team leader and a student.
Menu(roles) ==
  LET hub == roles \cap {"mentor", "team_leader"} # {} IN
  UNION {
    IF "admin" \in roles THEN {"admin/dashboard", "admin/students", "admin/opportunities",
                               "admin/verifications", "admin/reports"} ELSE {},
    IF hub THEN {"dashboard", "admin/opportunities"} ELSE {},
    IF "student" \in roles THEN {"student/certifications", "student/placements",
                                 "student/submissions", "student/profile"} ELSE {},
    IF "student" \in roles /\ ~hub THEN {"student/dashboard"} ELSE {}}

\* The links on the pages themselves.
Links(p, roles) ==
  CASE p = "dashboard" ->
         {CASE c = "getMentorDashboard" -> "mentor/dashboard"
            [] c = "getTeamLeaderDashboard" -> "team-leader/dashboard"
            [] OTHER -> "student/dashboard" : c \in HubTiles(roles) \ refused}
    [] p = "admin/opportunities" -> {"admin/opportunities/new", "admin/opportunities/:id/edit",
                                     "admin/opportunities/:id/analytics"}
    [] p \in {"admin/opportunities/new", "admin/opportunities/:id/edit",
              "admin/opportunities/:id/analytics"} -> {"admin/opportunities"}
    [] p = "student/dashboard" -> {"student/certifications", "student/placements"}
    [] OTHER -> {}

-----------------------------------------------------------------------------
SignedIn == user # Nobody
Browsing == mounted /\ path \in GuardedPages

\* The browser leaves the page for p: what was on its way is not waited for.
GoTo(p) ==
  /\ path' = p
  /\ mounted' = (p \in Free)
  /\ calls' = {}
  /\ refused' = {}
  /\ landing' = FALSE

\* An address that is typed, a bookmark, a reload: the page starts with the
\* stored user, and gets a new token, or drops the user.
Load(p) ==
  /\ GoTo(p)
  /\ modal' = FALSE
  /\ \/ SignedIn /\ token' = granted /\ UNCHANGED user
     \/ token' = {} /\ user' = Nobody
  /\ leaving' = FALSE
  /\ offered' = FALSE /\ hops' = 0
  /\ UNCHANGED <<granted, changes>>

\* A link of the menu or of the page.
Follow(p) ==
  /\ Browsing /\ SignedIn
  /\ p \in Menu(user) \cup Links(path, user)
  /\ GoTo(p)
  /\ offered' = TRUE /\ hops' = 0
  /\ UNCHANGED <<granted, token, user, modal, leaving, changes>>

\* "Go to Dashboard" on the page that is not found, whoever the user is; and
\* "Back to sign in".
Return ==
  /\ \/ path = "*" /\ GoTo("admin/dashboard") /\ UNCHANGED modal
     \/ path \in {"help", "auth/reset-password"} /\ GoTo("") /\ modal' = TRUE
  /\ offered' = FALSE /\ hops' = 0
  /\ UNCHANGED <<granted, token, user, leaving, changes>>

\* Where the guard sends a user who must not see the page.
SentTo(roles) == IF roles \in {Nobody, {}} THEN {""} ELSE Homes(roles)

Guard ==
  /\ path \in GuardedPages /\ ~mounted
  /\ IF SignedIn /\ MayOpen(path, user)
       THEN /\ mounted' = TRUE
            /\ calls' = CallsOf(path)
            /\ UNCHANGED <<path, refused, landing, modal, hops>>
       ELSE \E p \in SentTo(user) :
              /\ GoTo(p)
              /\ modal' = (p = "")
              /\ hops' = hops + 1
  /\ UNCHANGED <<granted, token, user, leaving, offered, changes>>

\* A page that loses its user goes through its guard again.
GuardAgain == mounted' = (mounted /\ path \notin GuardedPages)

Answer(c) ==
  /\ c \in calls
  /\ calls' = calls \ {c}
  /\ refused' = IF Serves(c, token) THEN refused ELSE refused \cup {c}
  /\ UNCHANGED <<granted, token, user, path, mounted, modal, landing, leaving, offered, hops, changes>>

\* The token has expired, and the client gets another one.
Refresh ==
  /\ SignedIn /\ token # granted
  /\ token' = granted
  /\ UNCHANGED <<granted, user, path, mounted, modal, landing, leaving, calls, refused,
                 offered, hops, changes>>

OpenModal(open) ==
  /\ path = "" /\ modal = ~open
  /\ modal' = open
  /\ landing' = FALSE
  /\ UNCHANGED <<granted, token, user, path, mounted, leaving, calls, refused, offered, hops, changes>>

\* The login form stays open for a user who has no role.
SignIn ==
  /\ path = "" /\ modal
  /\ user' = granted
  /\ token' = granted
  /\ landing' = TRUE
  /\ changes' = [changes EXCEPT !.atLogin = changes.total]
  /\ offered' = FALSE /\ hops' = 0
  /\ UNCHANGED <<granted, path, mounted, modal, leaving, calls, refused>>

Land ==
  /\ landing /\ SignedIn /\ user # {}
  /\ \E p \in Homes(user) : GoTo(p)
  /\ modal' = FALSE
  /\ offered' = TRUE /\ hops' = 0
  /\ UNCHANGED <<granted, token, user, leaving, changes>>

\* The page is left first, the server told next, the user dropped last.
SignOut ==
  /\ Browsing
  /\ GoTo("")
  /\ modal' = FALSE
  /\ leaving' = TRUE
  /\ offered' = FALSE /\ hops' = 0
  /\ UNCHANGED <<granted, token, user, changes>>

SignedOut ==
  /\ leaving
  /\ leaving' = FALSE
  /\ user' = Nobody
  /\ token' = {}
  /\ GuardAgain
  /\ UNCHANGED <<granted, path, modal, landing, calls, refused, offered, hops, changes>>

\* An import, a date of validity or the end of a period.
Regrant ==
  /\ changes.total < MaxChanges
  /\ granted' \in SUBSET Roles \ {granted}
  /\ changes' = [changes EXCEPT !.total = @ + 1]
  /\ UNCHANGED <<token, user, path, mounted, modal, landing, leaving, calls, refused, offered, hops>>

-----------------------------------------------------------------------------
Init ==
  /\ granted \in SUBSET Roles
  /\ token = {} /\ user = Nobody
  /\ path = "" /\ mounted = TRUE /\ modal = FALSE
  /\ landing = FALSE /\ leaving = FALSE
  /\ calls = {} /\ refused = {}
  /\ offered = FALSE /\ hops = 0
  /\ changes = [total |-> 0, atLogin |-> 0]

Next ==
  \/ \E p \in Pages : Load(p) \/ Follow(p)
  \/ Return \/ Guard \/ Refresh \/ Land \/ SignIn \/ SignOut \/ SignedOut \/ Regrant
  \/ \E c \in calls : Answer(c)
  \/ \E open \in BOOLEAN : OpenModal(open)

Spec == Init /\ [][Next]_vars

-----------------------------------------------------------------------------
(* Properties.                                                             *)

\* What the variables hold; a page waits for its own calls only.
TypeOK ==
  /\ granted \subseteq Roles /\ token \subseteq Roles
  /\ user = Nobody \/ user \subseteq Roles
  /\ path \in Pages
  /\ {mounted, modal, landing, leaving, offered} \subseteq BOOLEAN
  /\ (calls \cup refused) \subseteq CallsOf(path)
  /\ hops \in Nat
  /\ changes \in [total : 0 .. MaxChanges, atLogin : 0 .. MaxChanges]

\* The guards of the pages and the guards of the endpoints agree: as long as
\* the user's roles are those of his login, nothing a page shows is refused.
Served == SignedIn /\ changes.total = changes.atLogin => refused \cap Shown(path, user) = {}

\* A link that is made for the user, by the menu, a tile or the login, opens
\* the page it names, without a redirect.
OfferedOpens == offered /\ SignedIn => hops = 0

\* Whatever address a signed-in user comes from, one redirect is enough: the
\* dashboard it leads to lets him in.
OneHop == hops <= 1
=============================================================================
