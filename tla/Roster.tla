------------------------------- MODULE Roster -------------------------------
(***************************************************************************)
(* The organisation: branches, their sections and the sections' groups,    *)
(* the enrollments of students, who leads a group and who mentors a        *)
(* section, and the four imports that fill these tables from a file.  The  *)
(* endpoints save rows one awaited call after another; an import is        *)
(* validated first and then runs in one transaction, whose writes nobody   *)
(* sees before it commits.                                                 *)
(*                                                                         *)
(* A definition commented as a mutant is the wrong form of the one after   *)
(* it: no action uses it, and a property has to tell the two apart.        *)
(***************************************************************************)
EXTENDS Integers, Sequences, FiniteSets, TLC

CONSTANTS
  Requests,   \* the calls of a behaviour, each made at most once
  Emails,     \* users, by the address that names them
  Names,      \* names of branches, codes of sections and names of groups, by kind
  Files,      \* what may be imported: sequences of rows, by import
  Organisations,  \* the tables to begin with
  MaxActive,  \* bound: requests in flight at once
  MaxRows,    \* bound: rows of a file, and rows that a table holds to begin with
  Null

Kinds == {"branch", "section", "group"}
Imports == {"groups", "team_leaders", "mentors", "students"}

\* A row is named by the request that inserted it, and its place in the file.
Ids == ({0} \cup Requests) \X (1 .. MaxRows)

\* A row of branches, sections and groups, of enrollments, of import_history
\* and of a file.
UnitRow == [kind : Kinds, up : Ids \cup {Null}, name : {Null} \cup UNION {Names[k] : k \in Kinds},
            head : Emails \cup {Null}, dead : BOOLEAN]
EnrollmentRow == [user : Emails, branch : Ids, section : Ids, group : Ids \cup {Null},
                  active : BOOLEAN, dead : BOOLEAN]
HistoryRow == [status : {"SUCCESS", "PARTIAL", "FAILED"}, ok : Nat]
FileRow == [email : Emails, branch : Names["branch"], section : Names["section"],
            group : Names["group"] \cup {Null}]

\* Where a unit is: a section is in a branch, a group in a section.
Above(kind) == IF kind = "group" THEN "section" ELSE IF kind = "section" THEN "branch" ELSE "none"

\* The partial unique indexes: of branches by code, of sections by branch and
\* code, in the one academic period of the model.
Alike(row, other) ==
  /\ row.kind # "group" /\ ~row.dead /\ ~other.dead
  /\ other.kind = row.kind /\ other.up = row.up /\ other.name = row.name

ASSUME RequestsAssumption == Requests \subseteq Nat \ {0}
ASSUME MaxActiveAssumption == MaxActive \in Nat
ASSUME MaxRowsAssumption == MaxRows \in Nat \ {0}
ASSUME NullAssumption == Null \notin Emails \cup Requests \cup Ids \cup UnitRow \cup EnrollmentRow
                                    \cup HistoryRow
ASSUME FilesAssumption ==
  /\ DOMAIN Names = Kinds /\ DOMAIN Files = Imports
  /\ \A op \in Imports : \A f \in Files[op] : f \in Seq(FileRow) /\ Len(f) <= MaxRows
ASSUME OrganisationsAssumption ==
  \A o \in Organisations :
    /\ DOMAIN o.unit \cup DOMAIN o.enr \subseteq {0} \X (1 .. MaxRows)
    /\ o.users \subseteq Emails
    /\ \A i \in DOMAIN o.unit : LET row == o.unit[i] IN
         /\ row \in UnitRow /\ ~row.dead
         /\ IF row.kind = "branch" THEN row.up = Null
            ELSE row.up \in DOMAIN o.unit /\ o.unit[row.up].kind = Above(row.kind)
         /\ row.head # Null => <<row.head, i>> \in o.role
         /\ \A j \in DOMAIN o.unit : Alike(row, o.unit[j]) => i = j
    /\ \A i \in DOMAIN o.enr : LET row == o.enr[i] IN
         /\ row \in EnrollmentRow
         /\ row.branch \in DOMAIN o.unit /\ o.unit[row.branch].kind = "branch"
         /\ row.section \in DOMAIN o.unit /\ o.unit[row.section].kind = "section"
         /\ row.group # Null => row.group \in DOMAIN o.unit /\ o.unit[row.group].kind = "group"

VARIABLES
  unit,     \* branches, sections and groups
  enr,      \* enrollments
  users,    \* users, by email
  role,     \* role_assignments: team leaders of groups and mentors of sections
  part,     \* participations, by enrollment: the team leader they were given
  history,  \* import_history
  req,      \* the requests: control point and local variables
  late,     \* history: rows put below a unit after its removal had counted
  shifted,  \* history: imports during which another request wrote
  byHand,   \* history: units that were changed one by one
  raced     \* history: enrollments that two requests have changed at once

tables == <<unit, enr, users, role, part, history>>
vars == <<tables, req, late, shifted, byHand, raced>>

Request(pc, op, id, mem, file) ==
  [pc |-> pc, op |-> op, id |-> id, mem |-> mem, file |-> file, eff |-> <<>>]
Blank == Request("idle", "none", Null, Null, <<>>)

Active(r) == req[r].pc \notin {"idle", "done"}

Exists(i) == unit[i] # Null
Live(i) == Exists(i) /\ ~unit[i].dead
Enrolled(i) == enr[i] # Null /\ ~enr[i].dead
EnrollmentsOf(u) == {i \in Ids : Enrolled(i) /\ enr[i].user = u}

\* What a unit may be put into.
Parents(kind) == IF kind = "branch" THEN {Null}
                 ELSE {p \in Ids : Exists(p) /\ unit[p].kind = Above(kind)}
Groups == {g \in Ids : Exists(g) /\ unit[g].kind = "group"}
\* Whom the caller may name as the leader or mentor; nobody, of a section.
Heads(kind) == CASE kind = "branch" -> {} [] kind = "group" -> users [] kind = "section" -> users \cup {Null}

-----------------------------------------------------------------------------
(* What a request's own steps have in common.                              *)

\* Requests are numbered as they arrive.
Arrives(r) ==
  /\ req[r].pc = "idle"
  /\ \A q \in Requests : q < r => req[q].pc # "idle"
  /\ Cardinality({q \in Requests : Active(q)}) < MaxActive

Begin(r, op, id, mem, pc) ==
  /\ Arrives(r)
  /\ req' = [req EXCEPT ![r] = Request(pc, op, id, mem, <<>>)]

Goto(r, pc) == req' = [req EXCEPT ![r].pc = pc]
End(r) == req' = [req EXCEPT ![r] = Request("done", req[r].op, Null, Null, req[r].file)]

\* Has a removal of p looked for what is below it, and found nothing?
Counted(p) ==
  \/ Exists(p) /\ unit[p].dead
  \/ \E q \in Requests : req[q].op = "remove" /\ req[q].id = p /\ req[q].pc \in {"CountMore", "Delete"}

\* The history of a write: the imports it happens under, rows it puts too late.
Wrote(r, rows, above) ==
  /\ shifted' = shifted \cup {q \in Requests \ {r} : Active(q) /\ req[q].op \in Imports}
  /\ late' = IF \E p \in above : p # Null /\ Counted(p) THEN late \cup rows ELSE late

\* The indexes refuse a row that is like another.
Unique(id, row) == \A j \in Ids \ {id} : Exists(j) => ~Alike(row, unit[j])

-----------------------------------------------------------------------------
(* BranchesService, SectionsService, GroupsService.                        *)

\* The parent is whatever the caller names: the foreign key is content with a
\* row that is marked as deleted.
CreateUnit(r, kind) ==
  /\ Begin(r, "create", Null, Null, "done")
  /\ \E up \in Parents(kind), name \in Names[kind],
        head \in {Null} \cup IF kind = "section" THEN Heads(kind) ELSE {} :
       LET row == [kind |-> kind, up |-> up, name |-> name, head |-> head, dead |-> FALSE] IN
       /\ Unique(<<r, 1>>, row)
       /\ unit' = [unit EXCEPT ![<<r, 1>>] = row]
       /\ byHand' = IF head = Null THEN byHand ELSE byHand \cup {<<r, 1>>}
       /\ Wrote(r, {<<r, 1>>}, {up})
  /\ UNCHANGED <<enr, users, role, part, history, raced>>

\* Read, change, and save the whole row as it was read: TypeORM writes every
\* column that differs from the row by then, the mark of deletion too.
BeginUpdate(r, id) ==
  /\ Live(id)
  /\ \E up \in Parents(unit[id].kind), name \in Names[unit[id].kind],
        head \in {unit[id].head} \cup Heads(unit[id].kind) :
       Begin(r, "update", id, [unit[id] EXCEPT !.up = up, !.name = name, !.head = head], "Save")
  /\ UNCHANGED <<tables, late, shifted, byHand, raced>>

SaveUnit(r) ==
  LET id == req[r].id  row == req[r].mem IN
  /\ req[r].op = "update" /\ req[r].pc = "Save"
  /\ Unique(id, row)
  /\ unit' = [unit EXCEPT ![id] = row]
  /\ byHand' = byHand \cup {id}
  /\ Wrote(r, {id}, {row.up})
  /\ End(r)
  /\ UNCHANGED <<enr, users, role, part, history, raced>>

BeginRemove(r, id) ==
  /\ Live(id)
  /\ Begin(r, "remove", id, unit[id], "Count")
  /\ UNCHANGED <<tables, late, shifted, byHand, raced>>

\* Mutant: only groups are counted, so that a branch always seems empty.
UnitsBelowGroups(id) == {j \in Ids : Live(j) /\ unit[j].up = id /\ unit[j].kind = "group"}
UnitsBelow(id) == {j \in Ids : Live(j) /\ unit[j].up = id}

EnrolledIn(id) == {i \in Ids : Enrolled(i) /\ id \in {enr[i].section, enr[i].group}}

\* A branch is asked for sections, a section for groups, a group for students.
Count(r) ==
  LET id == req[r].id  kind == req[r].mem.kind IN
  /\ req[r].pc = "Count"
  /\ IF kind = "group" THEN EnrolledIn(id) = {} ELSE UnitsBelow(id) = {}
  /\ Goto(r, IF kind = "section" THEN "CountMore" ELSE "Delete")
  /\ UNCHANGED <<tables, late, shifted, byHand, raced>>

CountMore(r) ==
  /\ req[r].pc = "CountMore"
  /\ EnrolledIn(req[r].id) = {}
  /\ Goto(r, "Delete")
  /\ UNCHANGED <<tables, late, shifted, byHand, raced>>

SoftRemove(r) ==
  /\ req[r].pc = "Delete"
  /\ unit' = [unit EXCEPT ![req[r].id].dead = TRUE]
  /\ Wrote(r, {}, {})
  /\ End(r)
  /\ UNCHANGED <<enr, users, role, part, history, byHand, raced>>

-----------------------------------------------------------------------------
(* EnrollmentsService.                                                     *)

\* A transaction in flight has inserted the user or his enrollment: an insert
\* of the same key waits until it ends.
Held(r, u) == \E q \in Requests \ {r} :
  /\ req[q].op \in {"students", "mentors"}
  /\ \E i \in DOMAIN req[q].eff : req[q].file[i].email = u

\* Branch, section and group are whatever the caller names, each for itself.
Enroll(r) ==
  /\ Begin(r, "enroll", Null, Null, "done")
  /\ \E u \in users, b \in Parents("section"), s \in Parents("group"), g \in {Null} \cup Groups :
       /\ EnrollmentsOf(u) = {} /\ ~Held(r, u)
       /\ enr' = [enr EXCEPT ![<<r, 1>>] = [user |-> u, branch |-> b, section |-> s, group |-> g,
                                            active |-> TRUE, dead |-> FALSE]]
       /\ Wrote(r, {<<r, 1>>}, {s, g})
  /\ UNCHANGED <<unit, users, role, part, history, byHand, raced>>

\* Mutant: the row is read without its relations.
RelatedByColumn(was, named) == named
\* The row is read with its relations, and a relation that was found goes
\* before the column that the caller sets: a student can be given a group, or
\* a branch or a section for one that was removed, but not moved.
Related(was, named) == IF was # Null /\ Live(was) THEN {was} ELSE {was} \cup named

BeginAlter(r, i) ==
  /\ Enrolled(i)
  /\ \E b \in Related(enr[i].branch, Parents("section")),
        s \in Related(enr[i].section, Parents("group")),
        g \in Related(enr[i].group, Groups), a \in BOOLEAN :
       Begin(r, "alter", i, [enr[i] EXCEPT !.branch = b, !.section = s, !.group = g, !.active = a],
             "Save")
  /\ raced' = IF \E q \in Requests : req[q].op = "alter" /\ req[q].id = i
               THEN raced \cup {i} ELSE raced
  /\ UNCHANGED <<tables, late, shifted, byHand>>

SaveEnrollment(r) ==
  LET i == req[r].id  row == req[r].mem IN
  /\ req[r].op = "alter" /\ req[r].pc = "Save"
  /\ EnrollmentsOf(row.user) \subseteq {i} /\ ~Held(r, row.user)
  /\ enr' = [enr EXCEPT ![i] = row]
  /\ Wrote(r, {i}, {row.section, row.group})
  /\ End(r)
  /\ UNCHANGED <<unit, users, role, part, history, byHand, raced>>

BeginUnenroll(r, i) ==
  /\ Enrolled(i)
  /\ Begin(r, "unenroll", i, Null, "Delete row")
  /\ UNCHANGED <<tables, late, shifted, byHand, raced>>

Unenroll(r) ==
  /\ req[r].pc = "Delete row"
  /\ enr' = [enr EXCEPT ![req[r].id].dead = TRUE]
  /\ Wrote(r, {}, {})
  /\ End(r)
  /\ UNCHANGED <<unit, users, role, part, history, byHand, raced>>

-----------------------------------------------------------------------------
(* ParticipationsService.create, as far as the team leader goes.           *)

LeaderOf(g) == IF g # Null /\ Live(g) THEN unit[g].head ELSE Null

BeginRegister(r, i) ==
  /\ Enrolled(i) /\ enr[i].active /\ part[i] = Null
  /\ Begin(r, "register", i, enr[i], "Register")
  /\ UNCHANGED <<tables, late, shifted, byHand, raced>>

Register(r) ==
  /\ req[r].pc = "Register"
  /\ part[req[r].id] = Null
  /\ part' = [part EXCEPT ![req[r].id] = [leader |-> LeaderOf(req[r].mem.group)]]
  /\ End(r)
  /\ UNCHANGED <<unit, enr, users, role, history, late, shifted, byHand, raced>>

-----------------------------------------------------------------------------
(* The imports.                                                            *)

\* ImportValidatorEngine.buildCache: sections by the codes of their branch and
\* their own, groups by name.  Of groups of one name in one section the map
\* keeps one.
SectionsNamed(row) ==
  {s \in Ids : /\ Live(s) /\ unit[s].kind = "section" /\ unit[s].name = row.section
               /\ Live(unit[s].up) /\ unit[unit[s].up].name = row.branch}
GroupsNamed(s, name) == {g \in Ids : Live(g) /\ unit[g].kind = "group" /\ unit[g].up = s
                                              /\ unit[g].name = name}
EnrolledUsers == {enr[i].user : i \in {i \in Ids : Enrolled(i) /\ enr[i].active}}

\* No two rows of the file have the same key.
Distinct(f, Key(_)) == \A i, j \in DOMAIN f : Key(f[i]) = Key(f[j]) => i = j

GroupsFile(f) ==
  /\ Distinct(f, LAMBDA row : <<row.branch, row.section, row.group>>)
  /\ \A i \in DOMAIN f : \E s \in SectionsNamed(f[i]) : GroupsNamed(s, f[i].group) = {}

LeadersFile(f) ==
  /\ Distinct(f, LAMBDA row : row.email)
  /\ \A i \in DOMAIN f :
       /\ f[i].email \in users
       /\ \E s \in SectionsNamed(f[i]) : GroupsNamed(s, f[i].group) # {}

MentorsFile(f) ==
  /\ Distinct(f, LAMBDA row : row.email) /\ Distinct(f, LAMBDA row : <<row.branch, row.section>>)
  /\ \A i \in DOMAIN f : SectionsNamed(f[i]) # {}

\* Mutant: the group of a student is not looked for.
StudentsFileUngrouped(f) ==
  \A i \in DOMAIN f : SectionsNamed(f[i]) # {} /\ f[i].email \notin EnrolledUsers
\* ExcelParserEngine.parse lets no row without a group through.
\* The roll numbers differ, so that a student may be there twice.
StudentsFile(f) ==
  \A i \in DOMAIN f :
    /\ \E s \in SectionsNamed(f[i]) : GroupsNamed(s, f[i].group) # {}
    /\ f[i].email \notin EnrolledUsers

Valid(op, f) ==
  CASE op = "groups" -> GroupsFile(f)
    [] op = "team_leaders" -> LeadersFile(f)
    [] op = "mentors" -> MentorsFile(f)
    [] op = "students" -> StudentsFile(f)

\* Before the transaction begins.
Validate(r, op) ==
  /\ Arrives(r)
  /\ \E f \in Files[op] :
       req' = [req EXCEPT ![r] =
                 Request(IF f # <<>> /\ Valid(op, f) THEN "Rows" ELSE "Refuse", op, Null, Null, f)]
  /\ UNCHANGED <<tables, late, shifted, byHand, raced>>

\* A file with errors, or without rows, only leaves its history.
Refuse(r) ==
  /\ req[r].pc = "Refuse"
  /\ history' = [history EXCEPT ![r] = [status |-> "FAILED", ok |-> 0]]
  /\ End(r)
  /\ UNCHANGED <<unit, enr, users, role, part, late, shifted, byHand, raced>>

\* What becomes of a row: it is skipped, or it has an effect.  The branch is
\* the one that the section was found in.
Skipped == [ok |-> FALSE, new |-> FALSE, branch |-> Null, section |-> Null, group |-> Null]
Effect(new, s, g) == [ok |-> TRUE, new |-> new, branch |-> IF s = Null THEN Null ELSE unit[s].up,
                      section |-> s, group |-> g]

GroupEffects(row) ==
  LET found == {s \in SectionsNamed(row) : GroupsNamed(s, row.group) = {}} IN
  IF found = {} THEN {Skipped} ELSE {Effect(TRUE, s, Null) : s \in found}

LeaderEffects(row) ==
  LET found == UNION {GroupsNamed(s, row.group) : s \in SectionsNamed(row)} IN
  IF found = {} \/ row.email \notin users THEN {Skipped}
  ELSE {Effect(FALSE, Null, g) : g \in found}

MentorEffects(row) ==
  IF SectionsNamed(row) = {} THEN {Skipped}
  ELSE {Effect(FALSE, s, Null) : s \in SectionsNamed(row)}

\* A group that is not found any more is left out; an enrollment that is there
\* already, in use or not, is left as it is.
StudentEffects(row, earlier) ==
  LET new == EnrollmentsOf(row.email) = {} /\ row.email \notin earlier
      groups(s) == IF GroupsNamed(s, row.group) = {} THEN {Null} ELSE GroupsNamed(s, row.group)
      found == {sg \in SectionsNamed(row) \X (Ids \cup {Null}) : sg[2] \in groups(sg[1])}
  IN  IF found = {} THEN {Skipped} ELSE {Effect(new, sg[1], sg[2]) : sg \in found}

EffectsOf(op, row) ==
  CASE op = "groups" -> GroupEffects(row)
    [] op = "team_leaders" -> LeaderEffects(row)
    [] op = "mentors" -> MentorEffects(row)

\* Groups, team leaders and mentors are looked up in one cache: the rows
\* follow each other, and nobody sees them.
Rows(r) ==
  LET op == req[r].op  f == req[r].file IN
  /\ req[r].pc = "Rows" /\ op # "students"
  /\ op = "mentors" => \A i \in DOMAIN f : ~Held(r, f[i].email)
  /\ \E eff \in [DOMAIN f -> UNION {EffectsOf(op, f[i]) : i \in DOMAIN f}] :
       /\ \A i \in DOMAIN f : eff[i] \in EffectsOf(op, f[i])
       /\ req' = [req EXCEPT ![r].eff = eff, ![r].pc = "Commit"]
  /\ UNCHANGED <<tables, late, shifted, byHand, raced>>

\* The students of the rows before that will be enrolled.
Earlier(r) == {req[r].file[i].email : i \in {i \in DOMAIN req[r].eff : req[r].eff[i].new}}

\* Students are looked up row by row, and each row in a new cache.
StudentRow(r) ==
  LET f == req[r].file  i == Len(req[r].eff) + 1 IN
  /\ req[r].pc = "Rows" /\ req[r].op = "students"
  /\ ~Held(r, f[i].email)
  /\ \E eff \in StudentEffects(f[i], Earlier(r)) :
       req' = [req EXCEPT ![r].eff = Append(@, eff),
                          ![r].pc = IF i = Len(f) THEN "Commit" ELSE "Rows"]
  /\ UNCHANGED <<tables, late, shifted, byHand, raced>>

Done(r) == {i \in DOMAIN req[r].eff : req[r].eff[i].ok}

\* Mutant: a role is only given to who has none yet.
RolesOfFirst(r) ==
  IF req[r].op \in {"team_leaders", "mentors"}
    THEN {<<req[r].file[i].email, IF req[r].op = "mentors" THEN req[r].eff[i].section
                                  ELSE req[r].eff[i].group>> :
           i \in {i \in Done(r) : ~\E g \in Ids : <<req[r].file[i].email, g>> \in role}}
    ELSE {}
\* The assignments that an import adds to those there are.
RolesOf(r) ==
  IF req[r].op \in {"team_leaders", "mentors"}
    THEN {<<req[r].file[i].email, IF req[r].op = "mentors" THEN req[r].eff[i].section
                                  ELSE req[r].eff[i].group>> : i \in Done(r)}
    ELSE {}

\* The last row for a group or a section says who leads or mentors it.
HeadOf(r, id, rows) ==
  LET its == {i \in rows : id \in {req[r].eff[i].section, req[r].eff[i].group}}
  IN  IF its = {} THEN unit[id].head
      ELSE req[r].file[CHOOSE i \in its : \A j \in its : j <= i].email

\* The tables with these rows of the import.
UnitsOf(r, rows) == [id \in Ids |->
  IF req[r].op = "groups" /\ id[1] = r /\ id[2] \in rows
    THEN [kind |-> "group", up |-> req[r].eff[id[2]].section, name |-> req[r].file[id[2]].group,
          head |-> Null, dead |-> FALSE]
  ELSE IF req[r].op \in {"team_leaders", "mentors"} /\ Exists(id)
    THEN [unit[id] EXCEPT !.head = HeadOf(r, id, rows)]
    ELSE unit[id]]

EnrollmentsBy(r, rows) == [id \in Ids |->
  IF req[r].op = "students" /\ id[1] = r /\ id[2] \in rows /\ req[r].eff[id[2]].new
    THEN [user |-> req[r].file[id[2]].email, branch |-> req[r].eff[id[2]].branch,
          section |-> req[r].eff[id[2]].section, group |-> req[r].eff[id[2]].group,
          active |-> TRUE, dead |-> FALSE]
    ELSE enr[id]]

\* Students and mentors become users before their row is looked at.
NewUsers(r) == IF req[r].op \in {"students", "mentors"}
                 THEN {req[r].file[i].email : i \in DOMAIN req[r].eff} ELSE {}

\* Only the students' import counts the rows it has left out.
Status(op, n, ok) == IF op = "students" /\ ok < n
                       THEN IF ok > 0 THEN "PARTIAL" ELSE "FAILED"
                       ELSE "SUCCESS"

Commit(r) ==
  LET done == Cardinality(Done(r))
      placed == {req[r].eff[i] : i \in Done(r)}
  IN  /\ req[r].pc = "Commit"
      /\ unit' = UnitsOf(r, Done(r))
      /\ enr' = EnrollmentsBy(r, Done(r))
      /\ users' = users \cup NewUsers(r)
      /\ role' = role \cup RolesOf(r)
      /\ history' = [history EXCEPT ![r] =
           [status |-> Status(req[r].op, Len(req[r].file), done), ok |-> done]]
      /\ Wrote(r, {<<r, i>> : i \in Done(r)}, {p.section : p \in placed} \cup {p.group : p \in placed})
      /\ End(r)
      /\ UNCHANGED <<part, byHand, raced>>

\* Mutant: the rows before the one that fails stay.
KeptRows(r) == Done(r)
\* What a failed import leaves: the error of a row is caught, but Postgres has
\* aborted the transaction, and the save of the history fails too.
Kept(r) == {}

\* Also when the server dies, or two transactions wait for each other.
Fail(r) ==
  /\ Active(r)
  /\ unit' = IF req[r].op \in Imports THEN UnitsOf(r, Kept(r)) ELSE unit
  /\ enr' = IF req[r].op \in Imports THEN EnrollmentsBy(r, Kept(r)) ELSE enr
  /\ End(r)
  /\ UNCHANGED <<users, role, part, history, late, shifted, byHand, raced>>

-----------------------------------------------------------------------------
Init ==
  /\ \E o \in Organisations :
       /\ unit = [i \in Ids |-> IF i \in DOMAIN o.unit THEN o.unit[i] ELSE Null]
       /\ enr = [i \in Ids |-> IF i \in DOMAIN o.enr THEN o.enr[i] ELSE Null]
       /\ users = o.users /\ role = o.role
  /\ part = [i \in Ids |-> Null]
  /\ history = [r \in Requests |-> Null]
  /\ req = [r \in Requests |-> Blank]
  /\ late = {} /\ shifted = {} /\ byHand = {} /\ raced = {}

Start(r) ==
  /\ Arrives(r)
  /\ \/ \E kind \in Kinds : CreateUnit(r, kind)
     \/ \E i \in Ids : BeginUpdate(r, i) \/ BeginRemove(r, i) \/ BeginAlter(r, i)
                         \/ BeginUnenroll(r, i) \/ BeginRegister(r, i)
     \/ Enroll(r)
     \/ \E op \in Imports : Validate(r, op)

Continue(r) ==
  \/ SaveUnit(r) \/ Count(r) \/ CountMore(r) \/ SoftRemove(r)
  \/ SaveEnrollment(r) \/ Unenroll(r) \/ Register(r)
  \/ Refuse(r) \/ Rows(r) \/ StudentRow(r) \/ Commit(r)
  \/ Fail(r)

Next == \E r \in Requests : Start(r) \/ Continue(r)

Spec == Init /\ [][Next]_vars

-----------------------------------------------------------------------------
(* Properties.                                                             *)

\* A section or group is only removed when nobody is in it, and a branch when
\* no section is: what is below it nevertheless was put there after the removal
\* had counted.  Students are not counted for a branch, so that theirs is safe
\* for its sections' sake alone: who names another branch than his section is
\* in may see it removed.
NoOrphans ==
  \A i \in Ids \ late :
    /\ Live(i) /\ unit[i].up # Null => Live(unit[i].up)
    /\ Enrolled(i) => LET s == enr[i].section IN
         /\ Live(s) /\ (enr[i].group # Null => Live(enr[i].group))
         /\ s \notin late /\ unit[s].up = enr[i].branch => Live(enr[i].branch)

\* A students' row that its import has nothing to do for: an earlier row of the
\* file is for the same student, or he has an enrollment that is out of use,
\* which stays as it is, wherever it is.
LeftAlone(r, i) ==
  LET f == req[r].file IN
  \/ \E j \in DOMAIN f : j < i /\ f[j].email = f[i].email
  \/ \E e \in EnrollmentsOf(f[i].email) : e[1] # r /\ ~enr[e].active

\* Is what row i asks for in the tables?
InEffect(r, i) ==
  LET op == req[r].op  f == req[r].file  row == f[i]
      groups == UNION {GroupsNamed(s, row.group) : s \in SectionsNamed(row)}
  IN  CASE op = "groups" -> groups # {}
        [] op = "team_leaders" ->
             \E g \in groups : <<row.email, g>> \in role /\ \E j \in DOMAIN f : unit[g].head = f[j].email
        [] op = "mentors" ->
             \E s \in SectionsNamed(row) : <<row.email, s>> \in role /\ unit[s].head = row.email
        [] op = "students" ->
             \/ LeftAlone(r, i)
             \/ \E s \in SectionsNamed(row) : \E g \in GroupsNamed(s, row.group) :
                  enr[<<r, i>>] = [user |-> row.email, branch |-> unit[s].up, section |-> s,
                                   group |-> g, active |-> TRUE, dead |-> FALSE]

\* An import that reports success has done all its file asks for, but for the
\* students it leaves alone and yet counts, unless somebody else wrote after the
\* file had been validated.
SuccessIsComplete ==
  [][\A r \in Requests \ shifted :
       history[r] = Null /\ history'[r] # Null /\ history'[r].status = "SUCCESS"
         => \A i \in DOMAIN req[r].file : InEffect(r, i)']_vars

\* What an import has inserted is in its history: one that fails leaves nothing.
NothingUnreported ==
  \A r \in Requests : req[r].op \in Imports =>
    Cardinality({i \in Ids : i[1] = r /\ (Exists(i) \/ enr[i] # Null)})
      <= IF history[r] = Null THEN 0 ELSE history[r].ok

\* groups.team_leader_user_id and sections.mentor_user_id name somebody who
\* holds the role for it in role_assignments; an update sets the column alone,
\* which only the rows that no update was for are safe from.
LeaderHoldsRole ==
  \A i \in Ids \ byHand : Exists(i) /\ unit[i].head # Null => <<unit[i].head, i>> \in role

\* VerificationService.findPending, for submitted participations.
Queue(u) == {i \in Ids : part[i] # Null /\ Enrolled(i) /\ enr[i].active /\ enr[i].group # Null
                            /\ Live(enr[i].group) /\ <<u, enr[i].group>> \in role}

\* The team leader who may decide on a participation has it in his queue, as
\* long as the enrollment is in use and its group is there, not removed while
\* the student was put into it, and its leader not set by an update.
DeciderSees ==
  \A i \in Ids \ (raced \cup late) :
    /\ part[i] # Null /\ part[i].leader # Null
    /\ Enrolled(i) /\ enr[i].active /\ Live(enr[i].group) /\ enr[i].group \notin byHand
    => i \in Queue(part[i].leader)
=============================================================================
