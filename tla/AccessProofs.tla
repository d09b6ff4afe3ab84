---------------------------- MODULE AccessProofs ----------------------------
(***************************************************************************)
(* For any number of changes of the roles: what a page shows is not        *)
(* refused, what a user is offered opens, and no guard sends him twice.    *)
(***************************************************************************)
EXTENDS Access, TLAPS

-----------------------------------------------------------------------------
(* The tables: which roles a page needs, and which its calls need.         *)

\* A call whose route asks for one of some roles.
Asks(call, roles) == \E route : <<call, route>> \in Api /\ <<roles, route>> \in Routes

LEMMA AskIsServed ==
  ASSUME NEW call, NEW asked, Asks(call, asked), NEW roles, asked = {} \/ asked \cap roles # {}
  PROVE  Serves(call, roles)
<1>1. PICK route : <<call, route>> \in Api /\ <<asked, route>> \in Routes
  BY DEF Asks
<1>2. Admits(route, roles)
  BY <1>1 DEF Admits
<1>. QED  BY <1>1, <1>2 DEF Serves

OpenCalls ==
  {"listOpportunities", "getOpportunity", "getAvailableOpportunities", "createParticipation",
   "updateParticipationStatus", "getMyParticipations", "createSubmission",
   "getSubmissionsByParticipation", "getMySubmissions", "downloadFile", "getPendingVerifications",
   "approveSubmission", "rejectSubmission", "listSections", "getSection", "listGroups", "getGroup",
   "listAcademicPeriods"}
StaffCalls ==
  {"createOpportunity", "updateOpportunity", "deleteOpportunity", "publishOpportunity",
   "archiveOpportunity", "setOpportunityRounds", "getOpportunityAnalytics",
   "getGroupParticipations", "getGroupStudents"}
TeacherCalls ==
  {"getSectionParticipations", "getSectionStudents", "getCertificationBreakdown",
   "getMentorDashboard"}

LEMMA OpenAsk == \A call \in OpenCalls : Asks(call, {})
<1>1. ASSUME NEW call \in {"listOpportunities", "getOpportunity", "getAvailableOpportunities"}
      PROVE  Asks(call, {})
  BY DEF Asks, Api, OpportunitiesApi, Routes, OpportunityRoutes, To
<1>2. ASSUME NEW call \in {"createParticipation", "updateParticipationStatus", "getMyParticipations"}
      PROVE  Asks(call, {})
  BY DEF Asks, Api, ParticipationsApi, Routes, ParticipationRoutes, To
<1>3. ASSUME NEW call \in {"createSubmission", "getSubmissionsByParticipation", "getMySubmissions",
                           "downloadFile"}
      PROVE  Asks(call, {})
  BY DEF Asks, Api, SubmissionsApi, Routes, SubmissionRoutes, To
<1>4. ASSUME NEW call \in {"getPendingVerifications", "approveSubmission", "rejectSubmission"}
      PROVE  Asks(call, {})
  BY DEF Asks, Api, VerificationsApi, Routes, VerificationRoutes, To
<1>5. ASSUME NEW call \in {"listSections", "getSection"} PROVE Asks(call, {})
  BY DEF Asks, Api, SectionsApi, Routes, SectionRoutes, To
<1>6. ASSUME NEW call \in {"listGroups", "getGroup"} PROVE Asks(call, {})
  BY DEF Asks, Api, GroupsApi, Routes, GroupRoutes, To
<1>7. Asks("listAcademicPeriods", {})
  BY DEF Asks, Api, PeriodsApi, Routes, PeriodRoutes, To
<1>. QED  BY <1>1, <1>2, <1>3, <1>4, <1>5, <1>6, <1>7 DEF OpenCalls

LEMMA StaffAsk == \A call \in StaffCalls : Asks(call, Staff)
<1>1. ASSUME NEW call \in {"createOpportunity", "updateOpportunity", "deleteOpportunity",
                           "publishOpportunity", "archiveOpportunity", "setOpportunityRounds"}
      PROVE  Asks(call, Staff)
  BY DEF Asks, Api, OpportunitiesApi, Routes, OpportunityRoutes, To
<1>2. ASSUME NEW call \in {"getOpportunityAnalytics", "getGroupParticipations"}
      PROVE  Asks(call, Staff)
  BY DEF Asks, Api, ParticipationsApi, Routes, ParticipationRoutes, To
<1>3. Asks("getGroupStudents", Staff)
  BY DEF Asks, Api, GroupsApi, Routes, GroupRoutes, To
<1>. QED  BY <1>1, <1>2, <1>3 DEF StaffCalls

LEMMA TeachersAsk == \A call \in TeacherCalls : Asks(call, Teachers)
<1>1. Asks("getSectionParticipations", Teachers)
  BY DEF Asks, Api, ParticipationsApi, Routes, ParticipationRoutes, To
<1>2. Asks("getSectionStudents", Teachers)
  BY DEF Asks, Api, SectionsApi, Routes, SectionRoutes, To
<1>3. Asks("getCertificationBreakdown", Teachers)
  BY DEF Asks, Api, AnalyticsApi, Routes, AnalyticsRoutes, To
<1>4. Asks("getMentorDashboard", Teachers)
  BY DEF Asks, Api, DashboardApi, Routes, DashboardRoutes, To
<1>. QED  BY <1>1, <1>2, <1>3, <1>4 DEF TeacherCalls

LEMMA DashboardsAsk ==
  /\ Asks("getAdminDashboard", {"admin"})
  /\ Asks("getTeamLeaderDashboard", {"admin", "team_leader"})
  /\ Asks("getStudentDashboard", {"admin", "student"})
BY DEF Asks, Api, DashboardApi, Routes, DashboardRoutes, To

\* The pages, by the roles of which the guard asks for one.
AdminPages == {"admin/dashboard", "admin/students", "admin/verifications", "admin/reports"}
StaffPages == {"admin/opportunities", "admin/opportunities/new", "admin/opportunities/:id/edit",
               "admin/opportunities/:id/analytics"}
StudentPages == {"student/dashboard", "student/certifications", "student/placements",
                 "student/submissions", "student/profile"}

LEMMA GuardedAre ==
  /\ \A asked, p : <<asked, p>> \in Guarded <=>
       \/ asked = {"admin"} /\ p \in AdminPages
       \/ asked = Staff /\ p \in StaffPages
       \/ asked = {"mentor", "team_leader"} /\ p = "dashboard"
       \/ asked = {"mentor"} /\ p = "mentor/dashboard"
       \/ asked = {"team_leader"} /\ p = "team-leader/dashboard"
       \/ asked = {"student"} /\ p \in StudentPages
  /\ \A g \in Guarded : g = <<g[1], g[2]>>
BY DEF Guarded, To, AdminPages, StaffPages, StudentPages

LEMMA GuardedPagesAre ==
  GuardedPages = AdminPages \cup StaffPages \cup StudentPages
                   \cup {"dashboard", "mentor/dashboard", "team-leader/dashboard"}
<1>1. ASSUME NEW p \in GuardedPages PROVE \E asked : <<asked, p>> \in Guarded
  <2>1. PICK g \in Guarded : g[2] = p
    BY DEF GuardedPages
  <2>2. <<g[1], p>> \in Guarded
    BY <2>1, GuardedAre
  <2>. QED  BY <2>2
<1>2. ASSUME NEW p, NEW asked, <<asked, p>> \in Guarded PROVE p \in GuardedPages
  <2>1. <<asked, p>>[2] = p
    OBVIOUS
  <2>. QED  BY <1>2, <2>1 DEF GuardedPages
<1> DEFINE all == AdminPages \cup StaffPages \cup StudentPages
                    \cup {"dashboard", "mentor/dashboard", "team-leader/dashboard"}
<1>3. ASSUME NEW p \in GuardedPages PROVE p \in all
  <2>1. PICK asked : <<asked, p>> \in Guarded
    BY <1>1
  <2>. QED  BY <2>1, GuardedAre
<1>4. ASSUME NEW p \in all PROVE p \in GuardedPages
  <2>1. CASE p \in AdminPages
    BY <1>2, <2>1, GuardedAre
  <2>2. CASE p \in StaffPages
    BY <1>2, <2>2, GuardedAre
  <2>3. CASE p \in StudentPages
    BY <1>2, <2>3, GuardedAre
  <2>4. CASE p \in {"dashboard", "mentor/dashboard", "team-leader/dashboard"}
    BY <1>2, <2>4, GuardedAre
  <2>. QED  BY <2>1, <2>2, <2>3, <2>4
<1>. QED  BY <1>3, <1>4

LEMMA PagesApart ==
  /\ \A p \in AdminPages : p \notin StaffPages /\ p \notin StudentPages
  /\ \A p \in StaffPages : p \notin AdminPages /\ p \notin StudentPages
  /\ \A p \in StudentPages : p \notin AdminPages /\ p \notin StaffPages
  /\ \A p \in {"dashboard", "mentor/dashboard", "team-leader/dashboard"} :
       p \notin AdminPages /\ p \notin StaffPages /\ p \notin StudentPages
BY DEF AdminPages, StaffPages, StudentPages

LEMMA FreeAre == Free \cap GuardedPages = {} /\ "" \in Free /\ "*" \in Free
BY GuardedPagesAre DEF Free, AdminPages, StaffPages, StudentPages

LEMMA MayOpenAre ==
  ASSUME NEW roles
  PROVE  /\ \A p \in AdminPages : MayOpen(p, roles) <=> "admin" \in roles
         /\ \A p \in StaffPages : MayOpen(p, roles) <=> Staff \cap roles # {}
         /\ \A p \in StudentPages : MayOpen(p, roles) <=> "student" \in roles
         /\ MayOpen("dashboard", roles) <=> {"mentor", "team_leader"} \cap roles # {}
         /\ MayOpen("mentor/dashboard", roles) <=> "mentor" \in roles
         /\ MayOpen("team-leader/dashboard", roles) <=> "team_leader" \in roles
<1>1. ASSUME NEW p, NEW asked, \A other : <<other, p>> \in Guarded <=> other = asked
      PROVE  MayOpen(p, roles) <=> asked \cap roles # {}
  <2>1. ASSUME NEW g \in Guarded, g[2] = p PROVE g[1] = asked
    <3>1. <<g[1], p>> \in Guarded
      BY <2>1, GuardedAre
    <3>. QED  BY <1>1, <3>1
  <2>2. <<asked, p>> \in Guarded /\ <<asked, p>>[1] = asked /\ <<asked, p>>[2] = p
    BY <1>1
  <2>. QED  BY <2>1, <2>2 DEF MayOpen
<1>2. /\ {"admin"} \cap roles # {} <=> "admin" \in roles
      /\ {"student"} \cap roles # {} <=> "student" \in roles
      /\ {"mentor"} \cap roles # {} <=> "mentor" \in roles
      /\ {"team_leader"} \cap roles # {} <=> "team_leader" \in roles
  OBVIOUS
<1>3. ASSUME NEW p \in AdminPages PROVE \A other : <<other, p>> \in Guarded <=> other = {"admin"}
  BY GuardedAre, PagesApart
<1>4. ASSUME NEW p \in StaffPages PROVE \A other : <<other, p>> \in Guarded <=> other = Staff
  BY GuardedAre, PagesApart
<1>5. ASSUME NEW p \in StudentPages PROVE \A other : <<other, p>> \in Guarded <=> other = {"student"}
  BY GuardedAre, PagesApart
<1>6. /\ \A other : <<other, "dashboard">> \in Guarded <=> other = {"mentor", "team_leader"}
      /\ \A other : <<other, "mentor/dashboard">> \in Guarded <=> other = {"mentor"}
      /\ \A other : <<other, "team-leader/dashboard">> \in Guarded <=> other = {"team_leader"}
  BY GuardedAre, PagesApart
<1>7. \A p \in AdminPages : MayOpen(p, roles) <=> "admin" \in roles
  BY <1>1, <1>2, <1>3
<1>8. \A p \in StaffPages : MayOpen(p, roles) <=> Staff \cap roles # {}
  BY <1>1, <1>4
<1>9. \A p \in StudentPages : MayOpen(p, roles) <=> "student" \in roles
  BY <1>1, <1>2, <1>5
<1>10. /\ MayOpen("dashboard", roles) <=> {"mentor", "team_leader"} \cap roles # {}
       /\ MayOpen("mentor/dashboard", roles) <=> "mentor" \in roles
       /\ MayOpen("team-leader/dashboard", roles) <=> "team_leader" \in roles
  BY <1>1, <1>2, <1>6
<1>. QED  BY <1>7, <1>8, <1>9, <1>10

LEMMA CallsOfFree == \A p \in Free : CallsOf(p) = {}
BY DEF Free, CallsOf

LEMMA TilesAre ==
  ASSUME NEW roles, NEW tile \in HubTiles(roles)
  PROVE  \/ tile = "getMentorDashboard" /\ "mentor" \in roles
         \/ tile = "getTeamLeaderDashboard" /\ "team_leader" \in roles
         \/ tile = "getStudentDashboard" /\ "student" \in roles
BY DEF HubTiles

\* What a page shows its user is served to him.
LEMMA PageServed ==
  ASSUME NEW roles, NEW p \in GuardedPages, MayOpen(p, roles), NEW call \in Shown(p, roles)
  PROVE  Serves(call, roles)
<1>1. call \in OpenCalls => Serves(call, roles)
  BY OpenAsk, AskIsServed
<1>2. call \in StaffCalls /\ Staff \cap roles # {} => Serves(call, roles)
  BY StaffAsk, AskIsServed
<1>3. call \in TeacherCalls /\ Teachers \cap roles # {} => Serves(call, roles)
  BY TeachersAsk, AskIsServed
<1>4. /\ call = "getAdminDashboard" /\ "admin" \in roles => Serves(call, roles)
      /\ call = "getTeamLeaderDashboard" /\ "team_leader" \in roles => Serves(call, roles)
      /\ call = "getStudentDashboard" /\ "student" \in roles => Serves(call, roles)
  <2>1. /\ "admin" \in roles => {"admin"} \cap roles # {}
        /\ "team_leader" \in roles => {"admin", "team_leader"} \cap roles # {}
        /\ "student" \in roles => {"admin", "student"} \cap roles # {}
    OBVIOUS
  <2>. QED  BY <2>1, DashboardsAsk, AskIsServed
<1>5. /\ "admin" \in roles => Staff \cap roles # {} /\ Teachers \cap roles # {}
      /\ "mentor" \in roles => Teachers \cap roles # {}
  BY DEF Staff, Teachers
<1>6. CASE p \in AdminPages
  <2>1. "admin" \in roles
    BY <1>6, MayOpenAre
  <2>2. call \in OpenCalls \cup StaffCalls \cup TeacherCalls \cup {"getAdminDashboard"}
    <3>1. call \in CallsOf(p)
      BY <1>6 DEF Shown, AdminPages
    <3>2. CASE p = "admin/dashboard"
      BY <3>1, <3>2 DEF CallsOf, AdminDashboardCalls, OpenCalls, StaffCalls, TeacherCalls
    <3>3. CASE p = "admin/students"
      BY <3>1, <3>3 DEF CallsOf, StudentsListCalls, OpenCalls, TeacherCalls
    <3>4. CASE p = "admin/verifications"
      BY <3>1, <3>4 DEF CallsOf, VerificationsListCalls, OpenCalls, TeacherCalls
    <3>5. CASE p = "admin/reports"
      BY <3>1, <3>5 DEF CallsOf, ReportsCalls, TeacherCalls
    <3>. QED  BY <1>6, <3>2, <3>3, <3>4, <3>5 DEF AdminPages
  <2>. QED  BY <1>1, <1>2, <1>3, <1>4, <1>5, <2>1, <2>2
<1>7. CASE p \in StaffPages
  <2>1. Staff \cap roles # {}
    BY <1>7, MayOpenAre
  <2>2. call \in OpenCalls \cup StaffCalls
    <3>1. call \in CallsOf(p)
      BY <1>7 DEF Shown, StaffPages
    <3>2. CASE p = "admin/opportunities"
      BY <3>1, <3>2 DEF CallsOf, OpportunityListCalls, OpenCalls, StaffCalls
    <3>3. CASE p = "admin/opportunities/new"
      BY <3>1, <3>3 DEF CallsOf, OpportunityCreateCalls, OpenCalls, StaffCalls
    <3>4. CASE p = "admin/opportunities/:id/edit"
      BY <3>1, <3>4 DEF CallsOf, OpportunityEditCalls, OpenCalls, StaffCalls
    <3>5. CASE p = "admin/opportunities/:id/analytics"
      BY <3>1, <3>5 DEF CallsOf, OpportunityAnalyticsCalls, StaffCalls
    <3>. QED  BY <1>7, <3>2, <3>3, <3>4, <3>5 DEF StaffPages
  <2>. QED  BY <1>1, <1>2, <2>1, <2>2
<1>8. CASE p \in StudentPages
  <2>1. "student" \in roles
    BY <1>8, MayOpenAre
  <2>2. call \in OpenCalls \cup {"getStudentDashboard"}
    <3>1. call \in CallsOf(p)
      BY <1>8 DEF Shown, StudentPages
    <3>2. CASE p = "student/dashboard"
      BY <3>1, <3>2 DEF CallsOf, StudentDashboardCalls, OpenCalls
    <3>3. CASE p \in {"student/certifications", "student/placements"}
      BY <3>1, <3>3 DEF CallsOf, CertificationsCalls, OpenCalls
    <3>4. CASE p = "student/submissions"
      BY <3>1, <3>4 DEF CallsOf, SubmissionsCalls, OpenCalls
    <3>5. CASE p = "student/profile"
      BY <3>1, <3>5 DEF CallsOf, ProfileCalls, OpenCalls
    <3>. QED  BY <1>8, <3>2, <3>3, <3>4, <3>5 DEF StudentPages
  <2>. QED  BY <1>1, <1>4, <2>1, <2>2
<1>9. CASE p = "dashboard"
  <2>1. \/ call = "getMentorDashboard" /\ "mentor" \in roles
        \/ call = "getTeamLeaderDashboard" /\ "team_leader" \in roles
        \/ call = "getStudentDashboard" /\ "student" \in roles
    BY <1>9, TilesAre DEF Shown
  <2>2. "getMentorDashboard" \in TeacherCalls
    BY DEF TeacherCalls
  <2>. QED  BY <1>3, <1>4, <1>5, <2>1, <2>2
<1>10. CASE p = "mentor/dashboard"
  <2>1. "mentor" \in roles
    BY <1>10, MayOpenAre
  <2>2. call \in TeacherCalls
    BY <1>10 DEF Shown, CallsOf, MentorDashboardCalls, TeacherCalls
  <2>. QED  BY <1>3, <1>5, <2>1, <2>2
<1>11. CASE p = "team-leader/dashboard"
  <2>1. "team_leader" \in roles
    BY <1>11, MayOpenAre
  <2>2. call \in OpenCalls \cup {"getTeamLeaderDashboard"}
    BY <1>11 DEF Shown, CallsOf, TeamLeaderDashboardCalls, OpenCalls
  <2>. QED  BY <1>1, <1>4, <2>1, <2>2
<1>. QED  BY <1>6, <1>7, <1>8, <1>9, <1>10, <1>11, GuardedPagesAre
-----------------------------------------------------------------------------
(* The pages that the menu, the links and the homes name.                  *)

LEMMA NobodyOpens == \A p : ~MayOpen(p, Nobody) /\ ~MayOpen(p, {})
<1>1. \A asked, p : <<asked, p>> \in Guarded => "nobody" \notin asked
  BY GuardedAre DEF Staff
<1>. QED  BY <1>1, GuardedAre DEF MayOpen, Nobody

LEMMA OpenIsGuarded == \A p, roles : MayOpen(p, roles) => p \in GuardedPages
BY DEF MayOpen, GuardedPages

LEMMA MenuOpens ==
  ASSUME NEW roles, NEW p \in Menu(roles)
  PROVE  MayOpen(p, roles)
<1> DEFINE hub == roles \cap {"mentor", "team_leader"} # {}
<1>1. \/ "admin" \in roles /\ p \in {"admin/dashboard", "admin/students", "admin/opportunities",
                                     "admin/verifications", "admin/reports"}
      \/ hub /\ p \in {"dashboard", "admin/opportunities"}
      \/ "student" \in roles /\ p \in {"student/certifications", "student/placements",
                                       "student/submissions", "student/profile"}
      \/ "student" \in roles /\ p = "student/dashboard"
  BY DEF Menu
<1>2. /\ p \in {"admin/dashboard", "admin/students", "admin/verifications", "admin/reports"}
           => p \in AdminPages
      /\ p = "admin/opportunities" => p \in StaffPages
      /\ p \in {"student/certifications", "student/placements", "student/submissions",
                "student/profile"} => p \in StudentPages
      /\ p = "student/dashboard" => p \in StudentPages
  BY DEF AdminPages, StaffPages, StudentPages
<1>3. /\ "admin" \in roles => Staff \cap roles # {}
      /\ hub => Staff \cap roles # {} /\ {"mentor", "team_leader"} \cap roles # {}
  BY DEF Staff
<1> HIDE DEF hub
<1>. QED  BY <1>1, <1>2, <1>3, MayOpenAre

LEMMA LinksOpen ==
  ASSUME NEW p, NEW roles, MayOpen(p, roles), NEW to \in Links(p, roles)
  PROVE  MayOpen(to, roles)
<1>1. CASE p = "dashboard"
  <2>1. PICK tile \in HubTiles(roles) :
          to = CASE tile = "getMentorDashboard" -> "mentor/dashboard"
                 [] tile = "getTeamLeaderDashboard" -> "team-leader/dashboard"
                 [] OTHER -> "student/dashboard"
    BY <1>1 DEF Links
  <2>2. \/ to = "mentor/dashboard" /\ "mentor" \in roles
        \/ to = "team-leader/dashboard" /\ "team_leader" \in roles
        \/ to = "student/dashboard" /\ "student" \in roles
    BY <2>1, TilesAre
  <2>3. "student/dashboard" \in StudentPages
    BY DEF StudentPages
  <2>. QED  BY <2>2, <2>3, MayOpenAre
<1>2. CASE p \in StaffPages
  <2>1. to \in StaffPages
    BY <1>2 DEF Links, StaffPages
  <2>. QED  BY <1>2, <2>1, MayOpenAre
<1>3. CASE p = "student/dashboard"
  <2>1. to \in StudentPages /\ p \in StudentPages
    BY <1>3 DEF Links, StudentPages
  <2>. QED  BY <2>1, MayOpenAre
<1>4. CASE p # "dashboard" /\ p \notin StaffPages /\ p # "student/dashboard"
  BY <1>4 DEF Links, StaffPages
<1>. QED  BY <1>1, <1>2, <1>3, <1>4

LEMMA HomesOpen ==
  ASSUME NEW roles \in SUBSET Roles, NEW p \in Homes(roles)
  PROVE  MayOpen(p, roles)
<1>1. PICK r \in roles : p = Home[r]
  BY DEF Homes
<1>2. /\ r = "admin" => p = "admin/dashboard" /\ p \in AdminPages
      /\ r \in {"mentor", "team_leader"} => p = "dashboard"
      /\ r = "student" => p = "student/dashboard" /\ p \in StudentPages
  BY <1>1 DEF Home, AdminPages, StudentPages
<1>3. r \in {"admin", "mentor", "team_leader", "student"}
  BY DEF Roles
<1>4. r \in {"mentor", "team_leader"} => {"mentor", "team_leader"} \cap roles # {}
  OBVIOUS
<1>. QED  BY <1>2, <1>3, <1>4, MayOpenAre

-----------------------------------------------------------------------------
(* The invariant.                                                          *)

\* The roles of the login are those that the browser and its token hold.
Fresh ==
  /\ changes.atLogin <= changes.total
  /\ SignedIn /\ changes.total = changes.atLogin => user = granted /\ token = granted

\* A guarded page is shown, and asks the server, when its user may open it.
PassedGuard ==
  /\ mounted /\ path \in GuardedPages => MayOpen(path, user)
  /\ calls # {} /\ SignedIn => MayOpen(path, user)

\* A link made for the user names a page that he may open.
OfferInv == offered /\ SignedIn => hops = 0 /\ MayOpen(path, user)

\* Until a logout ends, its user is there: on the landing page, or where a
\* link made for him has led.
LeavingInv == leaving => SignedIn /\ (path = "" \/ offered)

\* After a redirect the guard lets the user in, and no logout takes him away.
HopInv == hops <= 1 /\ (hops = 1 /\ path \in GuardedPages => MayOpen(path, user) /\ ~leaving)

Inv == TypeOK /\ Fresh /\ PassedGuard /\ OfferInv /\ LeavingInv /\ HopInv /\ Served

LEMMA InitInv == Init => Inv
<1>. SUFFICES ASSUME Init PROVE Inv
  OBVIOUS
<1>0. hops = 0 /\ changes = [total |-> 0, atLogin |-> 0]
  BY Zenon DEF Init
<1>1. TypeOK
  <2>1. {mounted, modal, landing, leaving, offered} \subseteq BOOLEAN
    BY Zenon DEF Init
  <2>2. path \in Pages
    BY DEF Init, Pages, Free
  <2>3. changes \in [total : 0 .. MaxChanges, atLogin : 0 .. MaxChanges]
    BY <1>0, MaxChangesAssumption
  <2>4. granted \subseteq Roles /\ token \subseteq Roles /\ user = Nobody
    BY DEF Init
  <2>5. calls \cup refused \subseteq CallsOf(path) /\ hops \in Nat
    BY DEF Init
  <2>. QED  BY <2>1, <2>2, <2>3, <2>4, <2>5 DEF TypeOK
<1>2. /\ ~SignedIn /\ path \notin GuardedPages /\ calls = {} /\ refused = {}
      /\ ~offered /\ ~leaving
  BY Zenon, FreeAre DEF SignedIn, Init
<1>3. hops = 0 /\ changes.atLogin <= changes.total
  BY <1>0
<1>4. Fresh /\ PassedGuard /\ OfferInv /\ LeavingInv /\ Served
  BY Zenon, <1>2, <1>3 DEF Fresh, PassedGuard, OfferInv, LeavingInv, Served
<1>5. HopInv
  BY <1>3 DEF HopInv
<1>. QED  BY <1>1, <1>4, <1>5 DEF Inv

\* After a step to another page nothing is shown, and nothing asked for.
LEMMA Moved ==
  ASSUME NEW p \in Pages, GoTo(p)
  PROVE  /\ path' = p /\ {mounted, landing}' \subseteq BOOLEAN
         /\ calls' = {} /\ refused' = {}
         /\ PassedGuard' /\ Served'
<1>1. path' = p /\ calls' = {} /\ refused' = {}
  BY Zenon DEF GoTo
<1>2. mounted' = (p \in Free) /\ landing' = FALSE
  BY Zenon DEF GoTo
<1>3. {mounted, landing}' \subseteq BOOLEAN
  <2>1. (p \in Free) \in BOOLEAN
    OBVIOUS
  <2>. QED  BY Zenon, <1>2, <2>1
<1>4. p \notin Free => ~mounted'
  BY Zenon, <1>2
<1>5. PassedGuard'
  BY <1>1, <1>4, FreeAre DEF PassedGuard
<1>6. Served'
  BY <1>1 DEF Served
<1>. QED  BY <1>1, <1>3, <1>5, <1>6

\* A link that is followed, and an address that is typed, start a new count.
LEMMA NoHops == hops' = 0 => HopInv'
<1>. SUFFICES ASSUME hops' = 0 PROVE HopInv'
  OBVIOUS
<1>1. 0 <= 1 /\ 0 # 1
  OBVIOUS
<1>. QED  BY Zenon, <1>1 DEF HopInv

LEMMA LoadStep == ASSUME Inv, NEW p \in Pages, Load(p) PROVE Inv'
<1>1. /\ path' = p /\ {mounted, landing}' \subseteq BOOLEAN
      /\ calls' = {} /\ refused' = {} /\ PassedGuard' /\ Served'
  BY Moved DEF Load
<1>2. modal' = FALSE /\ leaving' = FALSE /\ offered' = FALSE /\ hops' = 0
  BY Zenon DEF Load
<1>3. /\ granted' = granted /\ changes' = changes
      /\ \/ SignedIn /\ token' = granted /\ user' = user
         \/ token' = {} /\ user' = Nobody
  BY DEF Load
<1>4. TypeOK'
  <2>1. {mounted, modal, landing, leaving, offered}' \subseteq BOOLEAN
    BY Zenon, <1>1, <1>2
  <2>2. user' = Nobody \/ user' \subseteq Roles
    BY <1>3 DEF Inv, TypeOK
  <2>3. granted' \subseteq Roles /\ token' \subseteq Roles
    BY <1>3 DEF Inv, TypeOK
  <2>4. /\ (calls \cup refused)' \subseteq CallsOf(path)' /\ hops' \in Nat /\ path' \in Pages
        /\ (changes \in [total : 0 .. MaxChanges, atLogin : 0 .. MaxChanges])'
    BY <1>1, <1>2, <1>3 DEF Inv, TypeOK
  <2>. QED  BY <2>1, <2>2, <2>3, <2>4 DEF TypeOK
<1>5. Fresh'
  BY <1>3 DEF Inv, Fresh, SignedIn
<1>6. OfferInv' /\ LeavingInv'
  BY Zenon, <1>2 DEF OfferInv, LeavingInv
<1>7. HopInv'
  BY Zenon, <1>2, NoHops
<1>. QED  BY <1>1, <1>4, <1>5, <1>6, <1>7 DEF Inv

LEMMA FollowStep == ASSUME Inv, NEW p \in Pages, Follow(p) PROVE Inv'
<1>1. /\ path' = p /\ {mounted, landing}' \subseteq BOOLEAN
      /\ calls' = {} /\ refused' = {} /\ PassedGuard' /\ Served'
  BY Moved DEF Follow
<1>2. modal' = modal /\ leaving' = leaving /\ offered' = TRUE /\ hops' = 0
  BY Zenon DEF Follow
<1>3. /\ granted' = granted /\ token' = token /\ user' = user /\ changes' = changes
      /\ SignedIn /\ p \in Menu(user) \cup Links(path, user)
  BY Zenon DEF Follow
<1>4. MayOpen(p, user)
  <2>1. MayOpen(path, user)
    BY DEF Follow, Browsing, Inv, PassedGuard
  <2>. QED  BY <1>3, <2>1, MenuOpens, LinksOpen
<1>5. TypeOK'
  <2>1. {mounted, modal, landing, leaving, offered}' \subseteq BOOLEAN
    BY Zenon, <1>1, <1>2 DEF Inv, TypeOK
  <2>2. /\ granted' \subseteq Roles /\ token' \subseteq Roles
        /\ user' = Nobody \/ user' \subseteq Roles
        /\ (calls \cup refused)' \subseteq CallsOf(path)' /\ hops' \in Nat /\ path' \in Pages
        /\ (changes \in [total : 0 .. MaxChanges, atLogin : 0 .. MaxChanges])'
    BY <1>1, <1>2, <1>3 DEF Inv, TypeOK
  <2>. QED  BY <2>1, <2>2 DEF TypeOK
<1>6. Fresh'
  BY <1>3 DEF Inv, Fresh, SignedIn
<1>7. OfferInv'
  BY <1>1, <1>2, <1>3, <1>4 DEF OfferInv
<1>8. LeavingInv'
  BY Zenon, <1>2, <1>3 DEF LeavingInv, SignedIn
<1>9. HopInv'
  BY Zenon, <1>2, NoHops
<1>. QED  BY <1>1, <1>5, <1>6, <1>7, <1>8, <1>9 DEF Inv

LEMMA ReturnStep == ASSUME Inv, Return PROVE Inv'
<1>1. PICK p \in {"admin/dashboard", ""} :
        /\ GoTo(p) /\ path \in Free \ {""} /\ (modal' = modal \/ modal' = TRUE)
  BY Zenon DEF Return, Free
<1>2. p \in Pages
  BY GuardedPagesAre, FreeAre DEF Pages, AdminPages
<1>3. /\ path' = p /\ {mounted, landing}' \subseteq BOOLEAN
      /\ calls' = {} /\ refused' = {} /\ PassedGuard' /\ Served'
  BY <1>1, <1>2, Moved
<1>4. /\ leaving' = leaving /\ offered' = FALSE /\ hops' = 0
      /\ granted' = granted /\ token' = token /\ user' = user /\ changes' = changes
  BY Zenon DEF Return
<1>5. ~leaving
  <2>1. ~MayOpen(path, user) /\ path # ""
    BY <1>1, OpenIsGuarded, FreeAre
  <2>. QED  BY Zenon, <2>1 DEF Inv, LeavingInv, OfferInv
<1>6. TypeOK'
  <2>1. {mounted, modal, landing, leaving, offered}' \subseteq BOOLEAN
    BY Zenon, <1>1, <1>3, <1>4 DEF Inv, TypeOK
  <2>2. /\ granted' \subseteq Roles /\ token' \subseteq Roles
        /\ user' = Nobody \/ user' \subseteq Roles
        /\ (calls \cup refused)' \subseteq CallsOf(path)' /\ hops' \in Nat /\ path' \in Pages
        /\ (changes \in [total : 0 .. MaxChanges, atLogin : 0 .. MaxChanges])'
    BY <1>2, <1>3, <1>4 DEF Inv, TypeOK
  <2>. QED  BY <2>1, <2>2 DEF TypeOK
<1>7. Fresh'
  BY <1>4 DEF Inv, Fresh, SignedIn
<1>8. OfferInv' /\ LeavingInv'
  BY Zenon, <1>4, <1>5 DEF OfferInv, LeavingInv
<1>9. HopInv'
  BY Zenon, <1>4, NoHops
<1>. QED  BY <1>3, <1>6, <1>7, <1>8, <1>9 DEF Inv

LEMMA GuardStep == ASSUME Inv, Guard PROVE Inv'
<1>1. /\ path \in GuardedPages /\ ~mounted
      /\ granted' = granted /\ token' = token /\ user' = user /\ changes' = changes
      /\ leaving' = leaving /\ offered' = offered
  BY Zenon DEF Guard
<1>2. Fresh'
  BY <1>1 DEF Inv, Fresh, SignedIn
<1>3. CASE SignedIn /\ MayOpen(path, user)
  <2>1. /\ mounted' = TRUE /\ calls' = CallsOf(path) /\ path' = path /\ refused' = refused
        /\ landing' = landing /\ modal' = modal /\ hops' = hops
    BY Zenon, <1>3 DEF Guard
  <2>2. TypeOK'
    <3>1. {mounted, modal, landing, leaving, offered}' \subseteq BOOLEAN
      BY Zenon, <1>1, <2>1 DEF Inv, TypeOK
    <3>2. /\ granted' \subseteq Roles /\ token' \subseteq Roles
          /\ user' = Nobody \/ user' \subseteq Roles
          /\ (calls \cup refused)' \subseteq CallsOf(path)' /\ hops' \in Nat /\ path' \in Pages
          /\ (changes \in [total : 0 .. MaxChanges, atLogin : 0 .. MaxChanges])'
      BY <1>1, <2>1 DEF Inv, TypeOK
    <3>. QED  BY <3>1, <3>2 DEF TypeOK
  <2>3. PassedGuard'
    BY Zenon, <1>1, <1>3, <2>1 DEF PassedGuard
  <2>4. OfferInv' /\ LeavingInv' /\ HopInv'
    BY Zenon, <1>1, <2>1 DEF Inv, OfferInv, LeavingInv, HopInv, SignedIn
  <2>5. Served'
    BY Zenon, <1>1, <2>1 DEF Inv, Served, SignedIn
  <2>. QED  BY <1>2, <2>2, <2>3, <2>4, <2>5 DEF Inv
<1>4. CASE ~(SignedIn /\ MayOpen(path, user))
  <2>1. PICK p \in SentTo(user) : GoTo(p) /\ modal' = (p = "") /\ hops' = hops + 1
    BY Zenon, <1>4 DEF Guard
  <2>2. ~MayOpen(path, user)
    BY <1>4, NobodyOpens DEF SignedIn
  <2>3. p = "" \/ (SignedIn /\ MayOpen(p, user))
    <3>1. CASE user \in {Nobody, {}}
      <4>1. SentTo(user) = {""}
        BY Zenon, <3>1 DEF SentTo
      <4>. QED  BY Zenon, <2>1, <4>1
    <3>2. CASE user \notin {Nobody, {}}
      <4>1. SentTo(user) = Homes(user)
        BY Zenon, <3>2 DEF SentTo
      <4>2. SignedIn /\ user \in SUBSET Roles
        BY <3>2 DEF SignedIn, Inv, TypeOK
      <4>. QED  BY <2>1, <4>1, <4>2, HomesOpen
    <3>. QED  BY <3>1, <3>2
  <2>4. p \in Pages
    BY <2>3, OpenIsGuarded, FreeAre DEF Pages
  <2>5. /\ path' = p /\ {mounted, landing}' \subseteq BOOLEAN
        /\ calls' = {} /\ refused' = {} /\ PassedGuard' /\ Served'
    BY <2>1, <2>4, Moved
  <2>6. hops = 0
    <3>1. hops # 1
      BY <1>1, <2>2 DEF Inv, HopInv
    <3>2. hops \in Nat /\ hops <= 1
      BY DEF Inv, TypeOK, HopInv
    <3>. QED  BY <3>1, <3>2
  <2>7. ~(offered /\ SignedIn)
    BY Zenon, <2>2 DEF Inv, OfferInv
  <2>8. ~leaving
    <3>1. path # ""
      BY <1>1, FreeAre
    <3>. QED  BY Zenon, <2>7, <3>1 DEF Inv, LeavingInv
  <2>9. TypeOK'
    <3>1. (p = "") \in BOOLEAN
      OBVIOUS
    <3>2. modal' \in BOOLEAN
      BY Zenon, <2>1, <3>1
    <3>3. {mounted, modal, landing, leaving, offered}' \subseteq BOOLEAN
      BY Zenon, <1>1, <2>5, <3>2 DEF Inv, TypeOK
    <3>4. /\ granted' \subseteq Roles /\ token' \subseteq Roles
          /\ user' = Nobody \/ user' \subseteq Roles
          /\ (calls \cup refused)' \subseteq CallsOf(path)' /\ path' \in Pages
          /\ (changes \in [total : 0 .. MaxChanges, atLogin : 0 .. MaxChanges])'
      BY <1>1, <2>4, <2>5 DEF Inv, TypeOK
    <3>5. hops' \in Nat
      <4>1. 0 + 1 \in Nat
        OBVIOUS
      <4>. QED  BY Zenon, <2>1, <2>6, <4>1
    <3>. QED  BY <3>3, <3>4, <3>5 DEF TypeOK
  <2>10. OfferInv' /\ LeavingInv'
    BY Zenon, <1>1, <2>7, <2>8 DEF OfferInv, LeavingInv, SignedIn
  <2>11. HopInv'
    <3>1. hops' <= 1
      <4>1. 0 + 1 <= 1
        OBVIOUS
      <4>. QED  BY Zenon, <2>1, <2>6, <4>1
    <3>2. path' \in GuardedPages => MayOpen(path', user')
      BY <1>1, <2>3, <2>5, FreeAre
    <3>. QED  BY Zenon, <1>1, <2>8, <3>1, <3>2 DEF HopInv
  <2>. QED  BY <1>2, <2>5, <2>9, <2>10, <2>11 DEF Inv
<1>. QED  BY <1>3, <1>4

LEMMA AnswerStep == ASSUME Inv, NEW c \in calls, Answer(c) PROVE Inv'
<1>1. /\ mounted' = mounted /\ modal' = modal /\ landing' = landing /\ leaving' = leaving
      /\ offered' = offered
  BY Zenon DEF Answer
<1>2. /\ granted' = granted /\ token' = token /\ user' = user /\ path' = path /\ hops' = hops
      /\ changes' = changes /\ calls' = calls \ {c}
  BY Zenon DEF Answer
<1>3. refused' = refused \/ (refused' = refused \cup {c} /\ ~Serves(c, token))
  BY DEF Answer
<1>4. TypeOK'
  <2>1. {mounted, modal, landing, leaving, offered}' \subseteq BOOLEAN
    BY Zenon, <1>1 DEF Inv, TypeOK
  <2>2. /\ granted' \subseteq Roles /\ token' \subseteq Roles
        /\ user' = Nobody \/ user' \subseteq Roles
        /\ (calls \cup refused)' \subseteq CallsOf(path)' /\ hops' \in Nat /\ path' \in Pages
        /\ (changes \in [total : 0 .. MaxChanges, atLogin : 0 .. MaxChanges])'
    BY <1>2, <1>3 DEF Inv, TypeOK
  <2>. QED  BY <2>1, <2>2 DEF TypeOK
<1>5. Fresh'
  BY <1>2 DEF Inv, Fresh, SignedIn
<1>6. PassedGuard'
  BY <1>1, <1>2 DEF Inv, PassedGuard, SignedIn
<1>7. OfferInv' /\ LeavingInv' /\ HopInv'
  BY Zenon, <1>1, <1>2 DEF Inv, OfferInv, LeavingInv, HopInv, SignedIn
<1>8. Served'
  <2>. SUFFICES ASSUME SignedIn, changes.total = changes.atLogin
                PROVE  refused' \cap Shown(path, user) = {}
    BY <1>2 DEF Served, SignedIn
  <2>1. refused \cap Shown(path, user) = {} /\ token = user /\ MayOpen(path, user)
    BY DEF Inv, Served, Fresh, PassedGuard
  <2>2. c \in Shown(path, user) => Serves(c, token)
    BY <2>1, OpenIsGuarded, PageServed
  <2>. QED  BY <1>3, <2>1, <2>2
<1>. QED  BY <1>4, <1>5, <1>6, <1>7, <1>8 DEF Inv

LEMMA RefreshStep == ASSUME Inv, Refresh PROVE Inv'
<1>1. /\ mounted' = mounted /\ modal' = modal /\ landing' = landing /\ leaving' = leaving
      /\ offered' = offered
  BY Zenon DEF Refresh
<1>2. /\ granted' = granted /\ token' = granted /\ user' = user /\ path' = path /\ hops' = hops
      /\ changes' = changes /\ calls' = calls /\ refused' = refused
  BY Zenon DEF Refresh
<1>3. TypeOK'
  <2>1. {mounted, modal, landing, leaving, offered}' \subseteq BOOLEAN
    BY Zenon, <1>1 DEF Inv, TypeOK
  <2>2. /\ granted' \subseteq Roles /\ token' \subseteq Roles
        /\ user' = Nobody \/ user' \subseteq Roles
        /\ (calls \cup refused)' \subseteq CallsOf(path)' /\ hops' \in Nat /\ path' \in Pages
        /\ (changes \in [total : 0 .. MaxChanges, atLogin : 0 .. MaxChanges])'
    BY <1>2 DEF Inv, TypeOK
  <2>. QED  BY <2>1, <2>2 DEF TypeOK
<1>4. Fresh'
  BY <1>2 DEF Inv, Fresh, SignedIn
<1>5. PassedGuard' /\ OfferInv' /\ LeavingInv' /\ HopInv' /\ Served'
  BY Zenon, <1>1, <1>2 DEF Inv, PassedGuard, OfferInv, LeavingInv, HopInv, Served, SignedIn
<1>. QED  BY <1>3, <1>4, <1>5 DEF Inv

LEMMA OpenModalStep == ASSUME Inv, NEW open \in BOOLEAN, OpenModal(open) PROVE Inv'
<1>1. /\ mounted' = mounted /\ modal' = open /\ landing' = FALSE /\ leaving' = leaving
      /\ offered' = offered
  BY Zenon DEF OpenModal
<1>2. /\ granted' = granted /\ token' = token /\ user' = user /\ path' = path /\ hops' = hops
      /\ changes' = changes /\ calls' = calls /\ refused' = refused
  BY Zenon DEF OpenModal
<1>3. TypeOK'
  <2>1. {mounted, modal, landing, leaving, offered}' \subseteq BOOLEAN
    BY Zenon, <1>1 DEF Inv, TypeOK
  <2>2. /\ granted' \subseteq Roles /\ token' \subseteq Roles
        /\ user' = Nobody \/ user' \subseteq Roles
        /\ (calls \cup refused)' \subseteq CallsOf(path)' /\ hops' \in Nat /\ path' \in Pages
        /\ (changes \in [total : 0 .. MaxChanges, atLogin : 0 .. MaxChanges])'
    BY <1>2 DEF Inv, TypeOK
  <2>. QED  BY <2>1, <2>2 DEF TypeOK
<1>4. Fresh'
  BY <1>2 DEF Inv, Fresh, SignedIn
<1>5. PassedGuard' /\ OfferInv' /\ LeavingInv' /\ HopInv' /\ Served'
  BY Zenon, <1>1, <1>2 DEF Inv, PassedGuard, OfferInv, LeavingInv, HopInv, Served, SignedIn
<1>. QED  BY <1>3, <1>4, <1>5 DEF Inv

LEMMA SignInStep == ASSUME Inv, SignIn PROVE Inv'
<1>1. /\ mounted' = mounted /\ modal' = modal /\ landing' = TRUE /\ leaving' = leaving
      /\ offered' = FALSE
  BY Zenon DEF SignIn
<1>2. /\ granted' = granted /\ token' = granted /\ user' = granted /\ hops' = 0
      /\ path = "" /\ path' = path /\ calls' = calls /\ refused' = refused
      /\ changes' = [changes EXCEPT !.atLogin = changes.total]
  BY Zenon DEF SignIn
<1>3. calls = {} /\ refused = {} /\ path \notin GuardedPages
  BY <1>2, FreeAre, CallsOfFree DEF Inv, TypeOK
<1>4. /\ (changes \in [total : 0 .. MaxChanges, atLogin : 0 .. MaxChanges])'
      /\ changes'.atLogin = changes'.total
  BY <1>2 DEF Inv, TypeOK
<1>5. TypeOK'
  <2>1. {mounted, modal, landing, leaving, offered}' \subseteq BOOLEAN
    BY Zenon, <1>1 DEF Inv, TypeOK
  <2>2. /\ granted' \subseteq Roles /\ token' \subseteq Roles /\ user' \subseteq Roles
        /\ (calls \cup refused)' \subseteq CallsOf(path)' /\ hops' \in Nat /\ path' \in Pages
    BY <1>2 DEF Inv, TypeOK
  <2>. QED  BY <1>4, <2>1, <2>2 DEF TypeOK
<1>6. Fresh'
  <2>1. changes'.total \in Nat
    BY <1>4, MaxChangesAssumption
  <2>2. changes'.atLogin <= changes'.total
    BY <1>4, <2>1
  <2>. QED  BY Zenon, <1>2, <2>2 DEF Fresh
<1>7. PassedGuard' /\ Served'
  BY <1>2, <1>3 DEF PassedGuard, Served
<1>8. OfferInv'
  BY Zenon, <1>1 DEF OfferInv
<1>9. LeavingInv'
  <2>1. SignedIn'
    BY <1>2 DEF SignedIn, Nobody, Inv, TypeOK, Roles
  <2>. QED  BY Zenon, <1>2, <2>1 DEF LeavingInv
<1>10. HopInv'
  BY Zenon, <1>2, NoHops
<1>. QED  BY <1>5, <1>6, <1>7, <1>8, <1>9, <1>10 DEF Inv

LEMMA LandStep == ASSUME Inv, Land PROVE Inv'
<1>1. PICK p \in Homes(user) : GoTo(p)
  BY Zenon DEF Land
<1>2. SignedIn /\ MayOpen(p, user)
  <2>1. SignedIn
    BY Zenon DEF Land
  <2>2. user \in SUBSET Roles
    BY <2>1 DEF SignedIn, Inv, TypeOK
  <2>. QED  BY <1>1, <2>1, <2>2, HomesOpen
<1>3. p \in Pages
  BY <1>2, OpenIsGuarded DEF Pages
<1>4. /\ path' = p /\ {mounted, landing}' \subseteq BOOLEAN
      /\ calls' = {} /\ refused' = {} /\ PassedGuard' /\ Served'
  BY <1>1, <1>3, Moved
<1>5. modal' = FALSE /\ leaving' = leaving /\ offered' = TRUE
  BY Zenon DEF Land
<1>6. hops' = 0 /\ granted' = granted /\ token' = token /\ user' = user /\ changes' = changes
  BY Zenon DEF Land
<1>7. TypeOK'
  <2>1. {mounted, modal, landing, leaving, offered}' \subseteq BOOLEAN
    BY Zenon, <1>4, <1>5 DEF Inv, TypeOK
  <2>2. /\ granted' \subseteq Roles /\ token' \subseteq Roles
        /\ user' = Nobody \/ user' \subseteq Roles
        /\ (calls \cup refused)' \subseteq CallsOf(path)' /\ hops' \in Nat /\ path' \in Pages
        /\ (changes \in [total : 0 .. MaxChanges, atLogin : 0 .. MaxChanges])'
    BY <1>3, <1>4, <1>6 DEF Inv, TypeOK
  <2>. QED  BY <2>1, <2>2 DEF TypeOK
<1>8. Fresh'
  BY <1>6 DEF Inv, Fresh, SignedIn
<1>9. OfferInv' /\ LeavingInv'
  BY Zenon, <1>2, <1>4, <1>5, <1>6 DEF OfferInv, LeavingInv, SignedIn
<1>10. HopInv'
  BY Zenon, <1>6, NoHops
<1>. QED  BY <1>4, <1>7, <1>8, <1>9, <1>10 DEF Inv

LEMMA SignOutStep == ASSUME Inv, SignOut PROVE Inv'
<1>1. GoTo("") /\ "" \in Pages
  BY Zenon, FreeAre DEF SignOut, Pages
<1>2. /\ path' = "" /\ {mounted, landing}' \subseteq BOOLEAN
      /\ calls' = {} /\ refused' = {} /\ PassedGuard' /\ Served'
  BY <1>1, Moved
<1>3. modal' = FALSE /\ leaving' = TRUE /\ offered' = FALSE
  BY Zenon DEF SignOut
<1>4. hops' = 0 /\ granted' = granted /\ token' = token /\ user' = user /\ changes' = changes
  BY Zenon DEF SignOut
<1>5. SignedIn
  BY NobodyOpens DEF SignOut, Browsing, Inv, PassedGuard, SignedIn
<1>6. TypeOK'
  <2>1. {mounted, modal, landing, leaving, offered}' \subseteq BOOLEAN
    BY Zenon, <1>2, <1>3 DEF Inv, TypeOK
  <2>2. /\ granted' \subseteq Roles /\ token' \subseteq Roles
        /\ user' = Nobody \/ user' \subseteq Roles
        /\ (calls \cup refused)' \subseteq CallsOf(path)' /\ hops' \in Nat /\ path' \in Pages
        /\ (changes \in [total : 0 .. MaxChanges, atLogin : 0 .. MaxChanges])'
    BY <1>1, <1>2, <1>4 DEF Inv, TypeOK
  <2>. QED  BY <2>1, <2>2 DEF TypeOK
<1>7. Fresh'
  BY <1>4 DEF Inv, Fresh, SignedIn
<1>8. OfferInv' /\ LeavingInv'
  BY Zenon, <1>2, <1>3, <1>4, <1>5 DEF OfferInv, LeavingInv, SignedIn
<1>9. HopInv'
  BY Zenon, <1>4, NoHops
<1>. QED  BY <1>2, <1>6, <1>7, <1>8, <1>9 DEF Inv

LEMMA SignedOutStep == ASSUME Inv, SignedOut PROVE Inv'
<1>1. /\ mounted' = (mounted /\ path \notin GuardedPages)
      /\ modal' = modal /\ landing' = landing /\ leaving' = FALSE /\ offered' = offered
  BY Zenon DEF SignedOut, GuardAgain
<1>2. /\ granted' = granted /\ token' = {} /\ user' = Nobody /\ path' = path /\ hops' = hops
      /\ changes' = changes /\ calls' = calls /\ refused' = refused
  BY Zenon DEF SignedOut
<1>3. ~SignedIn'
  BY <1>2 DEF SignedIn
<1>4. TypeOK'
  <2>1. (mounted /\ path \notin GuardedPages) \in BOOLEAN
    OBVIOUS
  <2>2. {mounted, modal, landing, leaving, offered}' \subseteq BOOLEAN
    BY Zenon, <1>1, <2>1 DEF Inv, TypeOK
  <2>3. /\ granted' \subseteq Roles /\ token' \subseteq Roles /\ user' = Nobody
        /\ (calls \cup refused)' \subseteq CallsOf(path)' /\ hops' \in Nat /\ path' \in Pages
        /\ (changes \in [total : 0 .. MaxChanges, atLogin : 0 .. MaxChanges])'
    BY <1>2 DEF Inv, TypeOK
  <2>. QED  BY <2>2, <2>3 DEF TypeOK
<1>5. Fresh'
  BY <1>2, <1>3 DEF Inv, Fresh
<1>6. PassedGuard'
  <2>1. path \in GuardedPages => ~mounted'
    BY Zenon, <1>1
  <2>. QED  BY <1>2, <1>3, <2>1 DEF PassedGuard
<1>7. OfferInv' /\ LeavingInv' /\ Served'
  BY Zenon, <1>1, <1>3 DEF OfferInv, LeavingInv, Served
<1>8. HopInv'
  <2>1. leaving
    BY Zenon DEF SignedOut
  <2>. QED  BY <1>2, <2>1 DEF Inv, HopInv
<1>. QED  BY <1>4, <1>5, <1>6, <1>7, <1>8 DEF Inv

LEMMA RegrantStep == ASSUME Inv, Regrant PROVE Inv'
<1>1. /\ mounted' = mounted /\ modal' = modal /\ landing' = landing /\ leaving' = leaving
      /\ offered' = offered
  BY Zenon DEF Regrant
<1>2. /\ granted' \in SUBSET Roles /\ token' = token /\ user' = user /\ path' = path
      /\ hops' = hops /\ calls' = calls /\ refused' = refused
  BY Zenon DEF Regrant
<1>3. /\ changes.total < MaxChanges
      /\ changes' = [changes EXCEPT !.total = @ + 1]
  BY Zenon DEF Regrant
<1>4. /\ (changes \in [total : 0 .. MaxChanges, atLogin : 0 .. MaxChanges])'
      /\ changes'.atLogin < changes'.total
  BY <1>3, MaxChangesAssumption DEF Inv, TypeOK, Fresh
<1>5. TypeOK'
  <2>1. {mounted, modal, landing, leaving, offered}' \subseteq BOOLEAN
    BY Zenon, <1>1 DEF Inv, TypeOK
  <2>2. /\ granted' \subseteq Roles /\ token' \subseteq Roles
        /\ user' = Nobody \/ user' \subseteq Roles
        /\ (calls \cup refused)' \subseteq CallsOf(path)' /\ hops' \in Nat /\ path' \in Pages
    BY <1>2 DEF Inv, TypeOK
  <2>. QED  BY <1>4, <2>1, <2>2 DEF TypeOK
<1>6. changes'.atLogin <= changes'.total /\ changes'.total # changes'.atLogin
  BY <1>4, MaxChangesAssumption
<1>7. Fresh' /\ Served'
  BY Zenon, <1>6 DEF Fresh, Served
<1>8. PassedGuard' /\ OfferInv' /\ LeavingInv' /\ HopInv'
  BY Zenon, <1>1, <1>2 DEF Inv, PassedGuard, OfferInv, LeavingInv, HopInv, SignedIn
<1>. QED  BY <1>5, <1>7, <1>8 DEF Inv

\* The invariant holds in every state that the system can reach.
THEOREM InvSafe == Spec => []Inv
<1>1. Inv /\ [Next]_vars => Inv'
  <2>. SUFFICES ASSUME Inv, [Next]_vars PROVE Inv'
    OBVIOUS
  <2>1. ASSUME NEW p \in Pages, Load(p) \/ Follow(p) PROVE Inv'
    BY <2>1, LoadStep, FollowStep
  <2>2. CASE Return \/ Guard \/ Refresh \/ Land
    BY <2>2, ReturnStep, GuardStep, RefreshStep, LandStep
  <2>3. CASE SignIn \/ SignOut \/ SignedOut \/ Regrant
    BY <2>3, SignInStep, SignOutStep, SignedOutStep, RegrantStep
  <2>4. ASSUME NEW c \in calls, Answer(c) PROVE Inv'
    BY <2>4, AnswerStep
  <2>5. ASSUME NEW open \in BOOLEAN, OpenModal(open) PROVE Inv'
    BY <2>5, OpenModalStep
  <2>6. CASE UNCHANGED vars
    BY Zenon, <2>6 DEF vars, Inv, TypeOK, Fresh, PassedGuard, OfferInv, LeavingInv, HopInv, Served,
                       SignedIn
  <2>. QED  BY Zenon, <2>1, <2>2, <2>3, <2>4, <2>5, <2>6 DEF Next
<1>. QED  BY <1>1, InitInv, PTL DEF Spec

\* Every variable keeps to what it holds, whatever happens: the redirects are
\* counted, and a page waits for its own calls only.
THEOREM TypeSafe == Spec => []TypeOK
<1>1. Inv => TypeOK
  BY DEF Inv
<1>. QED  BY <1>1, InvSafe, PTL

\* RoleGuard of a page, RolesGuard of each endpoint the page calls: as long as
\* the roles are those of the login, no call that the page shows is refused,
\* whichever roles the user has and however he got to the page.
THEOREM ServedSafe == Spec => []Served
<1>1. Inv => Served
  BY DEF Inv
<1>. QED  BY <1>1, InvSafe, PTL

\* What the sidebar, a tile of the hub, a button of a page or the redirect of
\* the login offers a user, RoleGuard lets him open, without a redirect, for
\* every set of roles, also when they have changed since.
THEOREM OfferedOpensSafe == Spec => []OfferedOpens
<1>1. Inv => OfferedOpens
  BY DEF Inv, OfferInv, OfferedOpens
<1>. QED  BY <1>1, InvSafe, PTL

\* The dashboard to which RoleGuard sends a user lets him in: there is never a
\* second redirect, also when a logout ends in between.
THEOREM OneHopSafe == Spec => []OneHop
<1>1. Inv => OneHop
  BY DEF Inv, HopInv, OneHop
<1>. QED  BY <1>1, InvSafe, PTL
=============================================================================
