--------------------------- MODULE ListingsProofs ---------------------------
(***************************************************************************)
(* For every number of users, groups, sections, opportunities and writes,  *)
(* and pages of every size: the queue of a team leader against his         *)
(* dashboard, what a student is offered against what he may register for,  *)
(* the sums and the rates of the analytics, what a reader who turns the    *)
(* pages of a list has seen in the end, and the tables of the admin's      *)
(* dashboard against each other and against the server's numbers.          *)
(***************************************************************************)
EXTENDS Listings, FiniteSetTheorems, TLAPS

-----------------------------------------------------------------------------
(* Types.                                                                  *)

Types ==
  /\ enr \in [Enrollments -> EnrollmentRow]
  /\ grp \in [Groups -> GroupRow]
  /\ sec \in [Sections -> SectionRow]
  /\ opp \in [Opportunities -> OpportunityRow]
  /\ posted \in Seq(Opportunities)
  /\ part \in Seq(Participation)
  /\ subs \in Seq(Submission)
  /\ log \in Seq(Nat)

LEMMA TypesInit == Init => Types
<1>. SUFFICES ASSUME Init PROVE Types
  OBVIOUS
<1>1. PICK d \in Databases :
        /\ enr = d.enr /\ grp = d.grp /\ sec = d.sec /\ opp = d.opp /\ posted = d.posted
        /\ part = d.part /\ subs = d.subs /\ log = d.log
  BY DEF Init
<1>2. d \in Tables
  BY <1>1, DatabasesAssumption
<1>. QED  BY <1>1, <1>2 DEF Types, Tables

\* A row of a sequence that is replaced by one of its kind leaves the kind.
LEMMA Replaced ==
  ASSUME NEW S, NEW q \in Seq(S), NEW i \in DOMAIN q, NEW x \in S
  PROVE  [q EXCEPT ![i] = x] \in Seq(S)
OBVIOUS

LEMMA MarkTypes ==
  ASSUME Types, NEW i \in DOMAIN part, NEW to \in Statuses
  PROVE  [part EXCEPT ![i].status = to] \in Seq(Participation)
<1>1. part[i] \in Participation
  BY DEF Types
<1>2. [part[i] EXCEPT !.status = to] \in Participation
  BY <1>1 DEF Participation
<1>3. [part EXCEPT ![i].status = to] = [part EXCEPT ![i] = [part[i] EXCEPT !.status = to]]
  BY DEF Types
<1>. QED  BY <1>2, <1>3, Replaced DEF Types

LEMMA SubmissionOfHanded ==
  ASSUME Types, NEW i \in DOMAIN part, Handed(i)
  PROVE  SubmissionOf(i) \in DOMAIN subs
BY DEF Handed, SubmissionOf

LEMMA PartTypes ==
  ASSUME Types, NEW i \in DOMAIN part,
         \/ HandIn(i) \/ Withdraw(i) \/ \E to \in Statuses : Mark(i, to)
         \/ \E to \in {"verified", "rejected"} : Decide(i, to)
  PROVE  Types'
<1>. i \in Nat
  BY DEF Types
<1>1. CASE HandIn(i)
  <2>1. part' \in Seq(Participation)
    BY <1>1, MarkTypes DEF HandIn, Statuses
  <2>2. [part |-> i, live |-> TRUE] \in Submission
    BY DEF Submission
  <2>3. subs' \in Seq(Submission)
    BY <1>1, <2>2 DEF HandIn, Types
  <2>. QED  BY <1>1, <2>1, <2>3 DEF HandIn, Types
<1>2. CASE Withdraw(i)
  <2> DEFINE k == SubmissionOf(i)
  <2>1. k \in DOMAIN subs
    BY <1>2, SubmissionOfHanded DEF Withdraw
  <2>2. subs' = [subs EXCEPT ![k] = [subs[k] EXCEPT !.live = FALSE]]
    BY <1>2 DEF Withdraw, Types
  <2> HIDE DEF k
  <2>3. subs[k] \in Submission
    BY <2>1 DEF Types
  <2>4. [subs[k] EXCEPT !.live = FALSE] \in Submission
    BY <2>3 DEF Submission
  <2>5. subs' \in Seq(Submission)
    BY <2>1, <2>2, <2>4, Replaced DEF Types
  <2>. QED  BY <1>2, <2>5 DEF Withdraw, Types
<1>3. ASSUME NEW to \in Statuses, Mark(i, to) PROVE Types'
  <2>1. part' \in Seq(Participation)
    BY <1>3, MarkTypes DEF Mark
  <2>. QED  BY <1>3, <2>1 DEF Mark, Types
<1>4. ASSUME NEW to \in {"verified", "rejected"}, Decide(i, to) PROVE Types'
  <2>1. part' \in Seq(Participation)
    BY <1>4, MarkTypes DEF Decide, Statuses
  <2>2. SubmissionOf(i) \in Nat
    BY <1>4, SubmissionOfHanded DEF Decide, Types
  <2>3. log' \in Seq(Nat)
    BY <1>4, <2>2 DEF Decide, Types
  <2>. QED  BY <1>4, <2>1, <2>3 DEF Decide, Types
<1>. QED  BY <1>1, <1>2, <1>3, <1>4

LEMMA EnrollmentTypes ==
  ASSUME Types, NEW e \in Enrollments,
         \/ Activate(e) \/ Unenroll(e) \/ \E g \in Groups \cup {Null} : Enroll(e, g)
         \/ \E g \in Groups : Regroup(e, g)
  PROVE  Types'
<1>1. PICK row \in EnrollmentRow : enr' = [enr EXCEPT ![e] = row]
  <2>1. enr[e] \in EnrollmentRow
    BY DEF Types
  <2>2. CASE Activate(e)
    <3>1. [enr[e] EXCEPT !.active = ~@] \in EnrollmentRow
      BY <2>1 DEF EnrollmentRow
    <3>. QED  BY <2>2, <3>1 DEF Activate, Types
  <2>3. CASE Unenroll(e)
    <3>1. [enr[e] EXCEPT !.state = "removed"] \in EnrollmentRow
      BY <2>1 DEF EnrollmentRow
    <3>. QED  BY <2>3, <3>1 DEF Unenroll, Types
  <2>4. ASSUME NEW g \in Groups \cup {Null}, Enroll(e, g)
        PROVE  \E row \in EnrollmentRow : enr' = [enr EXCEPT ![e] = row]
    BY <2>4 DEF Enroll, EnrollmentRow
  <2>5. ASSUME NEW g \in Groups, Regroup(e, g)
        PROVE  \E row \in EnrollmentRow : enr' = [enr EXCEPT ![e] = row]
    <3>1. [enr[e] EXCEPT !.group = g] \in EnrollmentRow
      BY <2>1 DEF EnrollmentRow
    <3>. QED  BY <2>5, <3>1 DEF Regroup, Types
  <2>. QED  BY <2>2, <2>3, <2>4, <2>5
<1>2. UNCHANGED <<grp, sec, opp, posted, part, subs, log>>
  BY DEF Activate, Unenroll, Enroll, Regroup
<1>. QED  BY <1>1, <1>2 DEF Types

LEMMA LeaderTypes ==
  ASSUME Types, NEW g \in Groups,
         RemoveGroup(g) \/ \E u \in Staff, b \in BOOLEAN : NameLeader(g, u, b)
  PROVE  Types'
<1>1. PICK row \in GroupRow : grp' = [grp EXCEPT ![g] = row]
  <2>1. grp[g] \in GroupRow
    BY DEF Types
  <2>2. CASE RemoveGroup(g)
    <3>1. [grp[g] EXCEPT !.live = FALSE] \in GroupRow
      BY <2>1 DEF GroupRow
    <3>. QED  BY <2>2, <3>1 DEF RemoveGroup, Types
  <2>3. ASSUME NEW u \in Staff, NEW b \in BOOLEAN, NameLeader(g, u, b)
        PROVE  \E row \in GroupRow : grp' = [grp EXCEPT ![g] = row]
    <3> DEFINE row == [live |-> grp[g].live, leader |-> u,
                       heads |-> IF b THEN grp[g].heads \cup {u} ELSE grp[g].heads]
    <3>1. row \in GroupRow
      BY <2>1, StaffAssumption DEF GroupRow
    <3> DEFINE led == [grp EXCEPT ![g].leader = u]
    <3>2. led[g] = [live |-> grp[g].live, leader |-> u, heads |-> grp[g].heads]
      BY <2>1 DEF Types, GroupRow
    <3>3. grp' = [led EXCEPT ![g].heads = IF b THEN @ \cup {u} ELSE @]
      BY <2>3 DEF NameLeader
    <3>4. led \in [Groups -> GroupRow]
      BY <2>1, <3>2, StaffAssumption DEF Types, GroupRow
    <3> HIDE DEF led
    <3>5. grp' = [led EXCEPT ![g] = [led[g] EXCEPT !.heads = IF b THEN @ \cup {u} ELSE @]]
      BY <3>3, <3>4
    <3>6. [led[g] EXCEPT !.heads = IF b THEN @ \cup {u} ELSE @] = row
      BY <3>2
    <3>7. grp' = [led EXCEPT ![g] = row]
      BY <3>5, <3>6
    <3>8. grp' = [grp EXCEPT ![g] = row]
      BY <3>7, <2>1 DEF led, Types
    <3>. QED  BY <3>1, <3>8
  <2>. QED  BY <2>2, <2>3
<1>2. UNCHANGED <<enr, sec, opp, posted, part, subs, log>>
  BY DEF RemoveGroup, NameLeader
<1>. QED  BY <1>1, <1>2 DEF Types

LEMMA MentorTypes ==
  ASSUME Types, NEW s \in Sections,
         NameMentor(s, Null, FALSE) \/ \E u \in Staff, b \in BOOLEAN : NameMentor(s, u, b)
  PROVE  Types'
<1>1. PICK u \in Users \cup {Null}, b \in BOOLEAN : NameMentor(s, u, b) /\ (b => u \in Users)
  BY StaffAssumption
<1> DEFINE row == [mentor |-> u, heads |-> IF b THEN sec[s].heads \cup {u} ELSE sec[s].heads]
<1>2. sec[s] \in SectionRow
  BY DEF Types
<1>3. row \in SectionRow
  BY <1>1, <1>2 DEF SectionRow
<1>4. sec' = [sec EXCEPT ![s] = row]
  BY <1>1, <1>2 DEF NameMentor, Types, SectionRow
<1>5. UNCHANGED <<enr, grp, opp, posted, part, subs, log>>
  BY <1>1 DEF NameMentor
<1>. QED  BY <1>3, <1>4, <1>5 DEF Types

LEMMA OpportunityTypes ==
  ASSUME Types, NEW o \in Opportunities,
         Post(o) \/ Publish(o) \/ Archive(o) \/ Remove(o) \/ Pass(o)
  PROVE  Types'
<1>0. opp[o] \in OpportunityRow
  BY DEF Types
<1>1. PICK row \in OpportunityRow : opp' = [opp EXCEPT ![o] = row]
  <2>1. ASSUME NEW to \in {"draft", "published", "archived", "removed"},
               opp' = [opp EXCEPT ![o].state = to]
        PROVE  \E row \in OpportunityRow : opp' = [opp EXCEPT ![o] = row]
    <3>1. [opp[o] EXCEPT !.state = to] \in OpportunityRow
      BY <1>0 DEF OpportunityRow
    <3>. QED  BY <2>1, <3>1 DEF Types
  <2>2. CASE Pass(o)
    <3>1. [opp[o] EXCEPT !.open = IF @ = "early" THEN "now" ELSE "over"] \in OpportunityRow
      BY <1>0 DEF OpportunityRow
    <3>. QED  BY <2>2, <3>1 DEF Pass, Types
  <2>. QED  BY <2>1, <2>2 DEF Post, Publish, Archive, Remove, Move
<1>2. UNCHANGED <<enr, grp, sec, part, subs, log>>
  BY DEF Post, Publish, Archive, Remove, Move, Pass
<1>3. posted' = posted \/ posted' = Append(posted, o)
  BY DEF Post, Publish, Archive, Remove, Move, Pass
<1>4. Append(posted, o) \in Seq(Opportunities) /\ posted \in Seq(Opportunities)
  BY DEF Types
<1>. QED  BY <1>1, <1>2, <1>3, <1>4 DEF Types

LEMMA RegisterTypes ==
  ASSUME Types, NEW o \in Opportunities, NEW e \in Enrollments, Register(o, e)
  PROVE  Types'
<1> DEFINE leader == IF enr[e].group = Null \/ ~grp[enr[e].group].live THEN Null
                     ELSE grp[enr[e].group].leader
<1>1. leader \in Users \cup {Null}
  BY DEF Types, EnrollmentRow, GroupRow
<1> HIDE DEF leader
<1>2. Row(o, e, leader) \in Participation
  BY <1>1 DEF Row, Participation, Statuses
<1>3. part' = Append(part, Row(o, e, leader))
  BY DEF Register, leader
<1>4. part' \in Seq(Participation)
  BY <1>2, <1>3 DEF Types
<1>. QED  BY <1>4 DEF Register, Types

LEMMA WriteTypes ==
  ASSUME Types, Write
  PROVE  Types'
BY OpportunityTypes, RegisterTypes, PartTypes, EnrollmentTypes, LeaderTypes, MentorTypes DEF Write

LEMMA TypesStep ==
  ASSUME Types, [Next]_vars
  PROVE  Types'
<1>1. CASE Write
  BY <1>1, WriteTypes
<1>2. CASE UNCHANGED tables
  BY <1>2 DEF tables, Types
<1>3. Read => UNCHANGED tables
  BY DEF Read, OpenDashboard, AnswerFirst, AnswerGroup, StartReading, NextPage
<1>4. UNCHANGED vars => UNCHANGED tables
  BY DEF vars
<1>. QED  BY <1>1, <1>2, <1>3, <1>4 DEF Next

-----------------------------------------------------------------------------
(* Counting.                                                               *)

LEMMA Disjoint ==
  ASSUME NEW S, NEW T, IsFiniteSet(S), IsFiniteSet(T), S \cap T = {}
  PROVE  /\ IsFiniteSet(S \cup T)
         /\ Cardinality(S \cup T) = Cardinality(S) + Cardinality(T)
BY FS_Union, FS_EmptySet, FS_CardinalityType

\* A table is finite, and so is what is picked from it.
LEMMA Finite ==
  ASSUME NEW A, NEW q \in Seq(A), NEW S \in SUBSET (DOMAIN q)
  PROVE  /\ S \subseteq Nat /\ IsFiniteSet(S) /\ Cardinality(S) \in Nat
<1>1. DOMAIN q = 1 .. Len(q) /\ Len(q) \in Nat
  OBVIOUS
<1>2. IsFiniteSet(DOMAIN q)
  BY <1>1, FS_Interval
<1>. QED  BY <1>1, <1>2, FS_Subset, FS_CardinalityType

LEMMA OneToOne ==
  ASSUME NEW S, NEW T, IsFiniteSet(T), NEW f \in [S -> T],
         \A x, y \in S : f[x] = f[y] => x = y
  PROVE  IsFiniteSet(S) /\ Cardinality(S) <= Cardinality(T)
<1>1. f \in Injection(S, T)
  BY DEF Injection, IsInjective
<1>. QED  BY <1>1, FS_Injection

LEMMA RowTypes ==
  ASSUME Types, NEW i \in DOMAIN part
  PROVE  /\ part[i].enr \in Enrollments /\ part[i].status \in Statuses
         /\ GroupOf(i) \in Groups \cup {Null}
<1>1. part[i] \in Participation
  BY DEF Types
<1>2. part[i].enr \in Enrollments /\ part[i].status \in Statuses
  BY <1>1 DEF Participation
<1>3. enr[part[i].enr] \in EnrollmentRow
  BY <1>2 DEF Types
<1>4. GroupOf(i) \in Groups \cup {Null}
  BY <1>3 DEF GroupOf, EnrollmentRow
<1>. QED  BY <1>2, <1>4

-----------------------------------------------------------------------------
(* Sums.  Total folds its function by a recursive definition; the sets for *)
(* which that goes wrong have a smallest one, so that there is none.       *)

LEMMA TotalIs ==
  ASSUME NEW f, IsFiniteSet(DOMAIN f), NEW h, h[{}] = 0,
         \A s \in SUBSET DOMAIN f : \A x \in s : h[s] = f[x] + h[s \ {x}]
  PROVE  Total(f) = h[DOMAIN f]
<1> DEFINE D == DOMAIN f
           Step(g, s) == IF s = {} THEN 0
                         ELSE f[CHOOSE x \in s : TRUE] + g[s \ {CHOOSE x \in s : TRUE}]
           Adds(g) == g = [s \in SUBSET D |-> Step(g, s)]
           iter == CHOOSE g : Adds(g)
<1>1. Total(f) = iter[D]
  BY DEF Total, MapThenSumSet, MapThenFoldSet
<1>2. Adds([s \in SUBSET D |-> h[s]])
  <2>1. ASSUME NEW s \in SUBSET D PROVE h[s] = Step([t \in SUBSET D |-> h[t]], s)
    <3>1. CASE s = {}
      BY <3>1
    <3>2. CASE s # {}
      <4>1. PICK x : x = (CHOOSE y \in s : TRUE)
        OBVIOUS
      <4>2. x \in s /\ s \ {x} \in SUBSET D
        BY <3>2, <4>1
      <4>. QED  BY <3>2, <4>1, <4>2
    <3>. QED  BY <3>1, <3>2
  <2>. QED  BY <2>1
<1>3. Adds(iter)
  <2> HIDE DEF Adds
  <2>. QED  BY <1>2
<1>4. \A s \in SUBSET D : iter[s] = Step(iter, s)
  BY <1>3, Zenon
<1> HIDE DEF iter
<1> DEFINE wrong == {s \in SUBSET D : iter[s] # h[s]}
<1>5. ASSUME wrong # {} PROVE FALSE
  <2>1. wrong \subseteq FiniteSubsetsOf(D)
    BY FS_FiniteSubsetsOfFinite
  <2>2. PICK s \in wrong : \A t \in wrong : <<t, s>> \notin StrictSubsetOrdering(D)
    BY <1>5, <2>1, FS_StrictSubsetOrderingWellFounded, WFMin
  <2>3. s # {}
    BY <1>4, <2>2
  <2>4. PICK x : x = (CHOOSE y \in s : TRUE)
    OBVIOUS
  <2>5. x \in s /\ iter[s] = f[x] + iter[s \ {x}]
    BY <1>4, <2>2, <2>3, <2>4
  <2>6. <<s \ {x}, s>> \in StrictSubsetOrdering(D) /\ s \ {x} \in SUBSET D
    BY <2>2, <2>5 DEF StrictSubsetOrdering
  <2>7. iter[s \ {x}] = h[s \ {x}]
    BY <2>2, <2>6
  <2>. QED  BY <2>2, <2>5, <2>7
<1>. QED  BY <1>1, <1>5

\* Rows counted by what they are counted for are counted once each.
LEMMA CountedBy ==
  ASSUME NEW R, IsFiniteSet(R), NEW m, NEW f, IsFiniteSet(DOMAIN f),
         \A x \in DOMAIN f : f[x] = Cardinality({i \in R : m[i] = x})
  PROVE  Total(f) = Cardinality({i \in R : m[i] \in DOMAIN f}) /\ Total(f) \in Nat
<1> DEFINE D == DOMAIN f
           of(s) == {i \in R : m[i] \in s}
           h == [s \in SUBSET D |-> Cardinality(of(s))]
<1>1. \A s : IsFiniteSet(of(s)) /\ Cardinality(of(s)) \in Nat
  BY FS_Subset, FS_CardinalityType
<1>2. h[{}] = 0
  <2>1. of({}) = {}
    OBVIOUS
  <2>. QED  BY <2>1, FS_EmptySet
<1>3. ASSUME NEW s \in SUBSET D, NEW x \in s PROVE h[s] = f[x] + h[s \ {x}]
  <2>1. of(s) = of({x}) \cup of(s \ {x}) /\ of({x}) \cap of(s \ {x}) = {}
    OBVIOUS
  <2>2. f[x] = Cardinality(of({x}))
    <3>1. {i \in R : m[i] = x} = of({x})
      OBVIOUS
    <3>. QED  BY <3>1
  <2> HIDE DEF of
  <2>3. Cardinality(of(s)) = Cardinality(of({x})) + Cardinality(of(s \ {x}))
    BY <1>1, <2>1, Disjoint
  <2>. QED  BY <2>2, <2>3
<1>4. Total(f) = h[D]
  <2> HIDE DEF h, D
  <2>1. \A s \in SUBSET DOMAIN f : \A x \in s : h[s] = f[x] + h[s \ {x}]
    BY <1>3 DEF D
  <2>. QED  BY <1>2, <2>1, TotalIs DEF D
<1>. QED  BY <1>1, <1>4

\* A sum is the number of the cells of its columns.
Column(f, x) == {x} \X (1 .. f[x])
Cells(f) == UNION {Column(f, x) : x \in DOMAIN f}

LEMMA TotalCells ==
  ASSUME NEW D, IsFiniteSet(D), NEW f \in [D -> Nat]
  PROVE  IsFiniteSet(Cells(f)) /\ Total(f) = Cardinality(Cells(f)) /\ Total(f) \in Nat
<1> DEFINE columns == {Column(f, x) : x \in D}
<1>1. ASSUME NEW x \in D
      PROVE  IsFiniteSet(Column(f, x)) /\ Cardinality(Column(f, x)) = f[x]
  <2>1. f[x] \in Nat /\ IsFiniteSet(1 .. f[x]) /\ Cardinality(1 .. f[x]) = f[x]
    BY FS_Interval
  <2>2. IsFiniteSet({x}) /\ Cardinality({x}) = 1
    BY FS_Singleton
  <2>. QED  BY <2>1, <2>2, FS_Product DEF Column
<1>2. IsFiniteSet(columns)
  <2>1. [x \in D |-> Column(f, x)] \in Surjection(D, columns)
    BY DEF Surjection
  <2>. QED  BY <2>1, FS_Surjection
<1>3. Cells(f) = UNION columns
  BY DEF Cells
<1>4. IsFiniteSet(Cells(f))
  <2>1. \A T \in columns : IsFiniteSet(T)
    BY <1>1
  <2> HIDE DEF columns
  <2>. QED  BY <1>2, <1>3, <2>1, FS_UNION
<1> DEFINE m == [p \in Cells(f) |-> p[1]]
<1>5. ASSUME NEW x \in D PROVE f[x] = Cardinality({p \in Cells(f) : m[p] = x})
  <2>1. \A y \in D : \A p \in Column(f, y) : p[1] = y
    BY DEF Column
  <2>2. {p \in Cells(f) : m[p] = x} = Column(f, x)
    BY <2>1 DEF Cells
  <2>. QED  BY <1>1, <2>2
<1>6. {p \in Cells(f) : m[p] \in D} = Cells(f)
  BY DEF Cells, Column
<1>7. DOMAIN f = D
  OBVIOUS
<1> HIDE DEF m
<1>. QED  BY <1>4, <1>5, <1>6, <1>7, CountedBy

LEMMA TotalGrows ==
  ASSUME NEW D, IsFiniteSet(D), NEW f \in [D -> Nat], NEW g \in [D -> Nat],
         \A x \in D : f[x] <= g[x]
  PROVE  Total(f) \in Nat /\ Total(g) \in Nat /\ Total(f) <= Total(g)
<1>1. ASSUME NEW x \in D PROVE Column(f, x) \subseteq Column(g, x)
  <2>1. 1 .. f[x] \subseteq 1 .. g[x]
    OBVIOUS
  <2>. QED  BY <2>1 DEF Column
<1>2. Cells(f) \subseteq Cells(g)
  BY <1>1 DEF Cells
<1>. QED  BY <1>2, TotalCells, FS_Subset

LEMMA PercentRange ==
  ASSUME NEW n \in Nat, NEW of \in Nat, n <= of
  PROVE  Percent(n, of) \in 0 .. 100
<1>1. CASE of = 0
  BY <1>1 DEF Percent
<1>2. CASE of # 0
  <2> DEFINE q == (200 * n + of) \div (2 * of)
  <2>1. q \in Nat /\ q * (2 * of) <= 200 * n + of
    BY <1>2
  <2> HIDE DEF q
  <2>2. q >= 101 => q * (2 * of) >= 101 * (2 * of)
    BY <2>1
  <2>3. q <= 100
    BY <1>2, <2>1, <2>2
  <2>. QED  BY <1>2, <2>1, <2>3 DEF Percent, q
<1>. QED  BY <1>1, <1>2

\* The range of a rate in hundredths of a percent, by name: written out it is
\* taken for a set of ten thousand elements.
Hundredths == 0 .. 10000

LEMMA InHundredths == \A n \in Nat : n <= 10000 => n \in Hundredths
BY DEF Hundredths

LEMMA CompletionRange ==
  ASSUME NEW v \in Nat, NEW s \in Nat, NEW r \in Nat
  PROVE  CompletionRate(v, s, r) \in Hundredths
<1> DEFINE total == v + s + r
<1>1. CASE total = 0
  BY <1>1, InHundredths DEF CompletionRate
<1>2. CASE total # 0
  <2> DEFINE q == (20000 * v + total) \div (2 * total)
  <2>1. total \in Nat /\ v <= total
    OBVIOUS
  <2> HIDE DEF total
  <2>2. q \in Nat /\ q * (2 * total) <= 20000 * v + total
    BY <1>2, <2>1
  <2> HIDE DEF q
  <2>3. q >= 10001 => q * (2 * total) >= 10001 * (2 * total)
    BY <2>1, <2>2
  <2>4. q <= 10000
    BY <1>2, <2>1, <2>2, <2>3
  <2>. QED  BY <1>2, <2>2, <2>4, InHundredths DEF CompletionRate, q, total
<1>. QED  BY <1>1, <1>2

-----------------------------------------------------------------------------
(* The analytics of an opportunity.                                        *)

LEMMA Countable ==
  /\ IsFiniteSet(Opportunities) /\ IsFiniteSet(Groups) /\ IsFiniteSet(Enrollments)
  /\ \A S \in SUBSET Opportunities : IsFiniteSet(S)
  /\ \A S \in SUBSET Groups : IsFiniteSet(S)
  /\ \A S \in SUBSET Enrollments : IsFiniteSet(S) /\ Cardinality(S) \in Nat
BY CountedAssumption, FS_Subset, FS_CardinalityType

LEMMA RegisteredTotal ==
  ASSUME Types, NEW o \in Opportunities, NEW as \in Scopes, NEW u
  PROVE  /\ TotalRegistered(o, as, u) =
              Cardinality({i \in ByOpportunity(o) : Live(part[i].enr) /\ GroupOf(i) \in Scope(as, u)})
         /\ IsFiniteSet({i \in ByOpportunity(o) : Live(part[i].enr)})
<1> DEFINE R == {i \in ByOpportunity(o) : Live(part[i].enr)}
           m == [i \in R |-> GroupOf(i)]
           f == Analytics(o, as, u)
<1>1. IsFiniteSet(R)
  <2>1. R \in SUBSET (DOMAIN part)
    BY DEF ByOpportunity
  <2>. QED  BY <2>1, Finite DEF Types
<1>2. DOMAIN f = {g \in Scope(as, u) : Registered(o, g) > 0} /\ DOMAIN f \subseteq Groups
  BY DEF Analytics, Scope, Scopes, GroupsLed
<1>3. \A g : Registered(o, g) = Cardinality({i \in R : m[i] = g})
  <2>1. \A g : {i \in DOMAIN part : part[i].opp = o /\ Live(part[i].enr) /\ GroupOf(i) = g}
               = {i \in R : m[i] = g}
    BY DEF ByOpportunity
  <2>. QED  BY <2>1 DEF Registered, Count
<1>4. \A g \in DOMAIN f : f[g] = Cardinality({i \in R : m[i] = g})
  BY <1>2, <1>3 DEF Analytics
<1>5. {i \in R : m[i] \in DOMAIN f} = {i \in R : GroupOf(i) \in Scope(as, u)}
  <2>1. ASSUME NEW i \in R, GroupOf(i) \in Scope(as, u) PROVE Registered(o, GroupOf(i)) > 0
    <3> DEFINE same == {j \in R : m[j] = GroupOf(i)}
    <3>1. IsFiniteSet(same) /\ Cardinality(same) \in Nat /\ i \in same
      BY <1>1, FS_Subset, FS_CardinalityType
    <3>2. Registered(o, GroupOf(i)) = Cardinality(same)
      BY <1>3
    <3> HIDE DEF same
    <3>. QED  BY <3>1, <3>2, FS_EmptySet
  <2>. QED  BY <1>2, <2>1
<1>6. IsFiniteSet(DOMAIN f)
  BY <1>2, Countable
<1> HIDE DEF f, m, R
<1>7. Total(f) = Cardinality({i \in R : m[i] \in DOMAIN f})
  BY <1>1, <1>4, <1>6, CountedBy
<1>8. {i \in ByOpportunity(o) : Live(part[i].enr) /\ GroupOf(i) \in Scope(as, u)}
        = {i \in R : GroupOf(i) \in Scope(as, u)}
  BY DEF R
<1>. QED  BY <1>1, <1>5, <1>7, <1>8 DEF TotalRegistered, f, R

LEMMA AnalyticsHolds == Types => AnalyticsAddUp
<1>. SUFFICES ASSUME Types, NEW o \in Opportunities
     PROVE  LET all == TotalRegistered(o, "admin", Null)
                rows == {i \in ByOpportunity(o) : Live(part[i].enr)} IN
            /\ all = Cardinality({i \in ByOpportunity(o) :
                         Live(part[i].enr) /\ GroupOf(i) \in Scope("admin", Null)})
            /\ \A u \in Users :
                 /\ TotalRegistered(o, "mentor", u) <= all
                 /\ TotalRegistered(o, "team_leader", u) =
                      Cardinality({i \in ByOpportunity(o) :
                         Live(part[i].enr) /\ GroupOf(i) \in GroupsLed(u)})
  BY DEF AnalyticsAddUp
<1> DEFINE of(as, u) == {i \in ByOpportunity(o) : Live(part[i].enr) /\ GroupOf(i) \in Scope(as, u)}
<1>1. \A as \in Scopes : \A u : TotalRegistered(o, as, u) = Cardinality(of(as, u))
  BY RegisteredTotal
<1>2. ASSUME NEW u \in Users
      PROVE  Cardinality(of("mentor", u)) <= Cardinality(of("admin", Null))
  <2>1. of("mentor", u) \subseteq of("admin", Null)
    BY DEF Scope
  <2>2. IsFiniteSet({i \in ByOpportunity(o) : Live(part[i].enr)})
    BY RegisteredTotal DEF Scopes
  <2>3. IsFiniteSet(of("admin", Null))
    BY <2>2, FS_Subset
  <2>. QED  BY <2>1, <2>3, FS_Subset
<1>3. \A u : Scope("team_leader", u) = GroupsLed(u)
  BY DEF Scope
<1>4. \A u : of("team_leader", u) =
         {i \in ByOpportunity(o) : Live(part[i].enr) /\ GroupOf(i) \in GroupsLed(u)}
  BY <1>3
<1>5. /\ TotalRegistered(o, "admin", Null) = Cardinality(of("admin", Null))
      /\ \A u : TotalRegistered(o, "mentor", u) = Cardinality(of("mentor", u))
      /\ \A u : TotalRegistered(o, "team_leader", u) = Cardinality(of("team_leader", u))
  BY <1>1 DEF Scopes
<1>6. \A u \in Users : TotalRegistered(o, "mentor", u) <= TotalRegistered(o, "admin", Null)
  BY <1>2, <1>5
<1>. QED  BY <1>4, <1>5, <1>6

-----------------------------------------------------------------------------
(* The rates.                                                              *)

\* What is counted out of what it is a part of.
LEMMA PartRange ==
  ASSUME NEW S, IsFiniteSet(S), NEW T \in SUBSET S
  PROVE  Percent(Cardinality(T), Cardinality(S)) \in 0 .. 100
BY FS_Subset, FS_CardinalityType, PercentRange

LEMMA RowsCounted ==
  ASSUME Types
  PROVE  \A S \in SUBSET (DOMAIN part) : IsFiniteSet(S) /\ Cardinality(S) \in Nat
BY Finite DEF Types

\* No two rows are of one student and one opportunity.
LEMMA DoneOnce ==
  ASSUME Types, Once(part), NEW o, NEW g
  PROVE  /\ Breakdown(o, g).done \in Nat /\ Breakdown(o, g).totalStudents \in Nat
         /\ Breakdown(o, g).done <= Breakdown(o, g).totalStudents
<1> DEFINE S == {i \in DOMAIN part : /\ part[i].opp = o /\ part[i].status \in Done
                                    /\ part[i].enr \in Counted(g)}
           whose == [i \in S |-> part[i].enr]
<1>1. IsFiniteSet(Counted(g)) /\ Cardinality(Counted(g)) \in Nat
  <2>1. Counted(g) \in SUBSET Enrollments
    BY DEF Counted
  <2>. QED  BY <2>1, Countable
<1>2. IsFiniteSet(S) /\ Cardinality(S) \in Nat
  <2>1. S \in SUBSET (DOMAIN part)
    OBVIOUS
  <2>. QED  BY <2>1, RowsCounted
<1>3. whose \in [S -> Counted(g)]
  OBVIOUS
<1>4. Cardinality(S) <= Cardinality(Counted(g))
  <2>1. ASSUME NEW i \in S, NEW j \in S, whose[i] = whose[j] PROVE i = j
    BY <2>1 DEF Once
  <2> HIDE DEF S, whose
  <2>. QED  BY <1>1, <1>3, <2>1, OneToOne
<1>5. Breakdown(o, g).done = Cardinality(S) /\ Breakdown(o, g).totalStudents = Cardinality(Counted(g))
  BY DEF Breakdown, CountOf, Count
<1>. QED  BY <1>1, <1>2, <1>4, <1>5

LEMMA GroupRange ==
  ASSUME Types, Once(part), NEW g
  PROVE  GroupRate(g) \in 0 .. 100
<1> DEFINE certs == Certifications(g)
           done == [o \in certs |-> Breakdown(o, g).done]
           all == [o \in certs |-> Breakdown(o, g).totalStudents]
<1>1. IsFiniteSet(certs)
  <2>1. certs \in SUBSET Opportunities
    BY DEF Certifications
  <2>. QED  BY <2>1, Countable
<1>2. done \in [certs -> Nat] /\ all \in [certs -> Nat] /\ \A o \in certs : done[o] <= all[o]
  BY DoneOnce
<1>3. GroupRate(g) = Percent(Total(done), Total(all))
  BY DEF GroupRate
<1> HIDE DEF done, all, certs
<1>. QED  BY <1>1, <1>2, <1>3, TotalGrows, PercentRange

LEMMA OverallRange ==
  ASSUME Types, Once(part), NEW as \in Scopes, NEW u
  PROVE  OverallRate(as, u) \in 0 .. 100
<1> DEFINE cells == UNION {{g} \X Certifications(g) : g \in BreakdownGroups(as, u)}
           done == [c \in cells |-> Breakdown(c[2], c[1]).done]
           all == [c \in cells |-> Breakdown(c[2], c[1]).totalStudents]
<1>1. IsFiniteSet(cells)
  <2>1. BreakdownGroups(as, u) \subseteq Groups
    BY DEF BreakdownGroups, Scope, Scopes, GroupsLed
  <2>2. \A g : Certifications(g) \subseteq Opportunities
    BY DEF Certifications
  <2>3. ASSUME NEW g \in Groups PROVE {g} \X Certifications(g) \subseteq Groups \X Opportunities
    BY <2>2
  <2>4. cells \in SUBSET (Groups \X Opportunities)
    BY <2>1, <2>3
  <2>. QED  BY <2>4, Countable, FS_Product, FS_Subset
<1>2. done \in [cells -> Nat] /\ all \in [cells -> Nat] /\ \A c \in cells : done[c] <= all[c]
  BY DoneOnce
<1>3. OverallRate(as, u) = Percent(Total(done), Total(all))
  BY DEF OverallRate
<1> HIDE DEF done, all, cells
<1>. QED  BY <1>1, <1>2, <1>3, TotalGrows, PercentRange

LEMMA RatesHold == Types /\ Once(part) => RatesInRange
<1>. SUFFICES ASSUME Types, Once(part) PROVE RatesInRange
  OBVIOUS
<1>1. AdminDashboard.completionRate \in Hundredths
  <2> DEFINE of(status) == {i \in DOMAIN part : part[i].status = status}
  <2>1. \A status : Cardinality(of(status)) \in Nat
    BY RowsCounted
  <2>2. AdminDashboard.completionRate = CompletionRate(Cardinality(of("verified")),
           Cardinality(of("submitted")), Cardinality(of("rejected")))
    BY DEF AdminDashboard, Count
  <2>. QED  BY <2>1, <2>2, CompletionRange
<1>2. ASSUME NEW u \in Users PROVE MentorDashboard(u).completionRate \in Hundredths
  <2> DEFINE of(status) == {i \in MentorRows(u) : part[i].status = status}
  <2>1. \A status : of(status) \in SUBSET (DOMAIN part)
    BY DEF MentorRows
  <2>2. \A status : Cardinality(of(status)) \in Nat
    BY <2>1, RowsCounted
  <2>3. MentorDashboard(u).completionRate = CompletionRate(Cardinality(of("verified")),
           Cardinality(of("submitted")), Cardinality(of("rejected")))
    BY DEF MentorDashboard
  <2> HIDE DEF of
  <2>. QED  BY <2>2, <2>3, CompletionRange
<1>3. ASSUME NEW g \in Groups PROVE PublicGroup(g) \in 0 .. 100
  <2> DEFINE S == {i \in DOMAIN part : GroupOf(i) = g}
             T == {i \in DOMAIN part : GroupOf(i) = g /\ part[i].status \in Done}
  <2>1. IsFiniteSet(S) /\ T \subseteq S
    BY RowsCounted
  <2>2. PublicGroup(g) = Percent(Cardinality(T), Cardinality(S))
    BY DEF PublicGroup, Count
  <2>. QED  BY <2>1, <2>2, PartRange
<1>4. ASSUME NEW o \in Opportunities PROVE PublicCertification(o) \in 0 .. 100
  <2>1. ByOpportunity(o) \in SUBSET (DOMAIN part)
    BY DEF ByOpportunity
  <2>2. IsFiniteSet(ByOpportunity(o))
    BY <2>1, RowsCounted
  <2>. QED  BY <2>2, PartRange DEF PublicCertification
<1>5. ASSUME \A i \in DOMAIN part : part[i].status \in Done =>
               /\ Active(part[i].enr)
               /\ \A j \in DOMAIN part : part[j].status \in Done /\ part[j].enr = part[i].enr => i = j
      PROVE  PlacementReadiness \in 0 .. 100
  <2> DEFINE S == {i \in DOMAIN part : part[i].status \in Done}
             students == {e \in Enrollments : Active(e)}
             whose == [i \in S |-> part[i].enr]
  <2>1. /\ IsFiniteSet(S) /\ Cardinality(S) \in Nat
        /\ IsFiniteSet(students) /\ Cardinality(students) \in Nat
    BY RowsCounted, Countable
  <2>2. whose \in [S -> students]
    <3>1. \A i \in S : part[i].enr \in students
      BY <1>5, RowTypes
    <3>. QED  BY <3>1
  <2>3. Cardinality(S) <= Cardinality(students)
    <3>1. ASSUME NEW i \in S, NEW j \in S, whose[i] = whose[j] PROVE i = j
      BY <1>5, <3>1
    <3> HIDE DEF S, whose, students
    <3>. QED  BY <2>1, <2>2, <3>1, OneToOne
  <2>4. PlacementReadiness = Percent(Cardinality(S), Cardinality(students))
    BY DEF PlacementReadiness, Count
  <2>. QED  BY <2>1, <2>3, <2>4, PercentRange
<1>. QED  BY <1>1, <1>2, <1>3, <1>4, <1>5, GroupRange, OverallRange
          DEF RatesInRange, Scopes, Hundredths

-----------------------------------------------------------------------------
(* The queue of a team leader.                                             *)

LEMMA QueueHolds == Types => QueueAccountedFor
<1>. SUFFICES ASSUME Types, NEW u \in Users,
                     \A g \in Groups : grp[g].leader = u <=> u \in grp[g].heads
     PROVE  LeaderDashboard(u).pending =
              Cardinality(Queue(u))
              + Cardinality({i \in LeaderRows(u) : /\ part[i].status = "submitted"
                   /\ ~(Active(part[i].enr) /\ grp[GroupOf(i)].live /\ Handed(i))})
  BY DEF QueueAccountedFor
<1> DEFINE pending == {i \in LeaderRows(u) : part[i].status = "submitted"}
           rest == {i \in LeaderRows(u) : /\ part[i].status = "submitted"
                      /\ ~(Active(part[i].enr) /\ grp[GroupOf(i)].live /\ Handed(i))}
<1>1. \A i \in DOMAIN part : GroupOf(i) \in Groups \cup {Null}
  BY RowTypes
<1>2. pending = Queue(u) \cup rest
  <2>1. ASSUME NEW i \in DOMAIN part PROVE i \in Queue(u) => i \in pending
    BY <2>1, NullAssumption DEF Queue, GroupsLed, LeaderRows
  <2>2. ASSUME NEW i \in pending PROVE i \in Queue(u) \cup rest
    BY <2>2, <1>1 DEF Queue, GroupsLed, LeaderRows
  <2>. QED  BY <2>1, <2>2 DEF Queue
<1>3. Queue(u) \cap rest = {}
  BY DEF Queue, GroupsLed
<1>4. IsFiniteSet(Queue(u)) /\ IsFiniteSet(rest)
  <2>1. Queue(u) \subseteq DOMAIN part /\ rest \subseteq DOMAIN part
    BY DEF Queue, LeaderRows
  <2>. QED  BY <2>1, Finite DEF Types
<1>5. LeaderDashboard(u).pending = Cardinality(pending)
  BY DEF LeaderDashboard
<1> HIDE DEF pending, rest
<1>6. Cardinality(Queue(u) \cup rest) = Cardinality(Queue(u)) + Cardinality(rest)
  BY <1>3, <1>4, Disjoint
<1>7. LeaderDashboard(u).pending = Cardinality(Queue(u)) + Cardinality(rest)
  BY <1>2, <1>5, <1>6
<1>. QED  BY <1>7 DEF rest

-----------------------------------------------------------------------------
(* What a student is offered, and the tiles of his dashboard.              *)

LEMMA OfferedHolds == Types => OfferedIsTakeable
<1>. SUFFICES ASSUME Types, NEW u \in Users
     PROVE  /\ \A o \in FindAvailable(u), e \in EnrollmentsOf(u) :
                  Active(e) /\ PeriodOf[e] = PeriodOf[o] => RegisterAccepted(o, e)
            /\ Cardinality(FindAvailable(u)) <= Summary(u).available
            /\ (\A e \in EnrollmentsOf(u) : Active(e)) =>
                 /\ Summary(u).assigned = Cardinality(MyParticipations(u))
                 /\ Summary(u).inProgress + Summary(u).completed + Summary(u).pendingVerification
                      + Summary(u).rejected
                      = Cardinality({i \in MyParticipations(u) :
                                       part[i].status \notin {"not_started", "incomplete"}})
  BY DEF OfferedIsTakeable
<1>1. ASSUME NEW o \in FindAvailable(u), NEW e \in EnrollmentsOf(u),
             Active(e), PeriodOf[e] = PeriodOf[o]
      PROVE  RegisterAccepted(o, e)
  BY <1>1 DEF FindAvailable, OnOffer, Taken, RegisterAccepted
<1>2. Cardinality(FindAvailable(u)) <= Summary(u).available
  <2>1. IsFiniteSet(OnOffer(u))
    BY CountedAssumption, FS_Subset DEF OnOffer
  <2>2. FindAvailable(u) \subseteq OnOffer(u)
    BY DEF FindAvailable
  <2>3. Summary(u).available = Cardinality(OnOffer(u))
    BY DEF Summary, StudentDashboard
  <2>. QED  BY <2>1, <2>2, <2>3, FS_Subset
<1>3. ASSUME \A e \in EnrollmentsOf(u) : Active(e)
      PROVE  /\ Summary(u).assigned = Cardinality(MyParticipations(u))
             /\ Summary(u).inProgress + Summary(u).completed + Summary(u).pendingVerification
                  + Summary(u).rejected
                  = Cardinality({i \in MyParticipations(u) :
                                   part[i].status \notin {"not_started", "incomplete"}})
  <2> DEFINE mine == MyParticipations(u)
             of(status) == {i \in mine : part[i].status = status}
  <2>1. {i \in DOMAIN part : part[i].enr \in EnrollmentsOf(u)} = mine
    BY <1>3, RowTypes DEF MyParticipations, EnrollmentsOf, Active
  <2>2. /\ Summary(u).assigned = Cardinality(mine)
        /\ Summary(u).inProgress = Cardinality(of("in_progress"))
        /\ Summary(u).completed = Cardinality(of("completed")) + Cardinality(of("verified"))
        /\ Summary(u).pendingVerification = Cardinality(of("submitted"))
        /\ Summary(u).rejected = Cardinality(of("rejected"))
    BY <2>1 DEF Summary, StudentDashboard
  <2>3. /\ IsFiniteSet(of("in_progress")) /\ Cardinality(of("in_progress")) \in Nat
        /\ IsFiniteSet(of("completed")) /\ Cardinality(of("completed")) \in Nat
        /\ IsFiniteSet(of("verified")) /\ Cardinality(of("verified")) \in Nat
        /\ IsFiniteSet(of("submitted")) /\ Cardinality(of("submitted")) \in Nat
        /\ IsFiniteSet(of("rejected")) /\ Cardinality(of("rejected")) \in Nat
    <3>1. \A status : of(status) \in SUBSET (DOMAIN part)
      BY DEF MyParticipations
    <3> HIDE DEF of
    <3>. QED  BY <3>1, Finite DEF Types
  <2>4. of("completed") \cap of("verified") = {}
    OBVIOUS
  <2>5. of("in_progress") \cap (of("completed") \cup of("verified")) = {}
    OBVIOUS
  <2>6. (of("in_progress") \cup (of("completed") \cup of("verified"))) \cap of("submitted") = {}
    OBVIOUS
  <2>7. (of("in_progress") \cup (of("completed") \cup of("verified")) \cup of("submitted"))
          \cap of("rejected") = {}
    OBVIOUS
  <2>8. {i \in mine : part[i].status \notin {"not_started", "incomplete"}} =
          of("in_progress") \cup (of("completed") \cup of("verified")) \cup of("submitted")
            \cup of("rejected")
    <3>1. \A i \in mine : part[i].status \in Statuses
      BY RowTypes DEF MyParticipations
    <3>. QED  BY <3>1 DEF Statuses
  <2> HIDE DEF of
  <2>9. Cardinality(of("in_progress") \cup (of("completed") \cup of("verified"))
                      \cup of("submitted") \cup of("rejected"))
          = Cardinality(of("in_progress"))
            + (Cardinality(of("completed")) + Cardinality(of("verified")))
            + Cardinality(of("submitted")) + Cardinality(of("rejected"))
    <3> DEFINE two == of("completed") \cup of("verified")
               three == of("in_progress") \cup two
               four == three \cup of("submitted")
    <3>1. /\ IsFiniteSet(two)
          /\ Cardinality(two) = Cardinality(of("completed")) + Cardinality(of("verified"))
      BY <2>3, <2>4, Disjoint
    <3>2. /\ IsFiniteSet(three)
          /\ Cardinality(three) = Cardinality(of("in_progress")) + Cardinality(two)
      <4> HIDE DEF two
      <4>. QED  BY <2>3, <2>5, <3>1, Disjoint DEF two
    <3>3. IsFiniteSet(four) /\ Cardinality(four) = Cardinality(three) + Cardinality(of("submitted"))
      BY <2>3, <2>6, <3>2, Disjoint
    <3>4. Cardinality(four \cup of("rejected")) = Cardinality(four) + Cardinality(of("rejected"))
      BY <2>3, <2>7, <3>3, Disjoint
    <3>. QED  BY <3>1, <3>2, <3>3, <3>4
  <2>. QED  BY <2>2, <2>8, <2>9
<1>. QED  BY <1>1, <1>2, <1>3

-----------------------------------------------------------------------------
(* Turning the pages of a list.  A page is cut by how many newer rows there *)
(* are: what is on it and what is not yet seen shift as rows come and go.   *)

Rank(rows, i) == Cardinality({j \in rows : j > i})

LEMMA RowsFinite ==
  ASSUME Types, NEW list \in Lists
  PROVE  Rows(list) \subseteq Nat /\ IsFiniteSet(Rows(list)) /\ Cardinality(Rows(list)) \in Nat
<1> DEFINE Of(q) == Rows(list) \subseteq DOMAIN q
<1>1. Of(posted) \/ Of(part) \/ Of(subs) \/ Of(log)
  <2>1. list[1] \in {"opportunities", "group", "group submissions", "group logs", "section",
                     "section submissions", "section logs", "mine", "my submissions", "mentor",
                     "opportunity"}
    <3>1. CASE list = <<"opportunities", Null>>
      BY <3>1
    <3>2. ASSUME NEW names, NEW S, list \in names \X S PROVE list[1] \in names
      BY <3>2
    <3>. QED  BY <3>1, <3>2 DEF Lists
  <2>2. CASE list[1] = "opportunities"
    BY <2>2 DEF Rows, Posted
  <2>3. CASE list[1] \in {"group", "section", "mine", "mentor", "opportunity"}
    BY <2>3 DEF Rows, ByGroup, BySection, MyParticipations, ByMentor, ByOpportunity
  <2>4. CASE list[1] \in {"group submissions", "section submissions", "my submissions"}
    BY <2>4 DEF Rows, SubmissionsFor, MySubmissions
  <2>5. CASE list[1] \in {"group logs", "section logs"}
    BY <2>5 DEF Rows, LogsFor
  <2>. QED  BY <2>1, <2>2, <2>3, <2>4, <2>5
<1>. QED  BY <1>1, Finite DEF Types

LEMMA Ranks ==
  ASSUME NEW rows \in SUBSET Nat, IsFiniteSet(rows), NEW i \in Nat
  PROVE  /\ IsFiniteSet({j \in rows : j > i}) /\ Rank(rows, i) \in Nat
         /\ i \in rows => Rank(rows, i) < Cardinality(rows)
<1> DEFINE newer == {j \in rows : j > i}
<1>1. IsFiniteSet(newer) /\ Rank(rows, i) \in Nat
  BY FS_Subset, FS_CardinalityType DEF Rank
<1>2. ASSUME i \in rows PROVE Rank(rows, i) < Cardinality(rows)
  <2>1. IsFiniteSet(rows \ {i}) /\ Cardinality(rows \ {i}) = Cardinality(rows) - 1
    BY <1>2, FS_RemoveElement
  <2>2. newer \subseteq rows \ {i}
    OBVIOUS
  <2>3. Rank(rows, i) <= Cardinality(rows \ {i})
    BY <2>1, <2>2, FS_Subset DEF Rank
  <2>. QED  BY <1>1, <2>1, <2>3, FS_CardinalityType
<1>. QED  BY <1>1, <1>2

\* What comes to a list pushes its rows down, what leaves it pulls them up.
LEMMA RanksGrow ==
  ASSUME NEW rows \in SUBSET Nat, IsFiniteSet(rows), NEW fewer \in SUBSET rows, NEW i \in Nat
  PROVE  Rank(fewer, i) <= Rank(rows, i)
<1>1. {j \in fewer : j > i} \subseteq {j \in rows : j > i}
  OBVIOUS
<1>2. IsFiniteSet({j \in rows : j > i})
  BY FS_Subset
<1>. QED  BY <1>1, <1>2, FS_Subset DEF Rank

\* The pages there are hold all the rows.
LEMMA PagesHold ==
  ASSUME NEW rows, Cardinality(rows) \in Nat, NEW limit \in Nat \ {0}, NEW page \in Nat,
         ~(page < TotalPages(rows, limit))
  PROVE  Cardinality(rows) <= page * limit
<1> DEFINE n == Cardinality(rows)
           q == (n + limit - 1) \div limit
<1>0. n \in Nat
  OBVIOUS
<1> HIDE DEF n
<1>1. q \in Nat /\ n + limit - 1 < q * limit + limit
  BY <1>0
<1> HIDE DEF q
<1>2. TotalPages(rows, limit) = Max({1, q})
  BY DEF TotalPages, q, n
<1>3. Max({1, q}) >= q
  <2>1. \E x \in {1, q} : \A y \in {1, q} : x >= y
    BY <1>1
  <2>. QED  BY <2>1 DEF Max
<1>4. Max({1, q}) \in {1, q}
  <2>1. \E x \in {1, q} : \A y \in {1, q} : x >= y
    BY <1>1
  <2>. QED  BY <2>1 DEF Max
<1>5. q <= page
  BY <1>1, <1>2, <1>3, <1>4
<1>6. q * limit <= page * limit
  BY <1>1, <1>5
<1>7. n <= q * limit
  <2>1. n < q * limit + 1
    BY <1>0, <1>1
  <2>2. q * limit \in Nat
    BY <1>1
  <2>. QED  BY <1>0, <2>1, <2>2
<1>. QED  BY <1>1, <1>6, <1>7 DEF n

Listed(list) ==
  Rows(list) \subseteq Nat /\ IsFiniteSet(Rows(list)) /\ Cardinality(Rows(list)) \in Nat

AllListed == \A list \in Lists : Listed(list)

LEMMA ListedNow == Types => AllListed
BY RowsFinite DEF Listed, AllListed

LEMMA ListedNext == Types' => AllListed'
BY ListedNow, PTL

Reading ==
  [pc : {"idle", "reading", "done"}, list : Lists, limit : Limits, page : Nat,
   seen : SUBSET Nat, twice : BOOLEAN, there : SUBSET Nat, left : BOOLEAN, came : BOOLEAN]

\* With the rows of his list, and the pages he has turned: what was there all
\* the time is seen, or is below those pages; what he has seen is not below.
Turning(rd, rows, page) ==
  /\ rd.there \subseteq rows
  /\ ~rd.left => \A i \in rd.there : i \in rd.seen \/ Rank(rows, i) >= page * rd.limit
  /\ ~rd.came => \A i \in rd.seen \cap rows : Rank(rows, i) < page * rd.limit
  /\ rd.twice => rd.came

Missed(rd) ==
  rd.pc = "done" => /\ ~rd.left => rd.there \subseteq rd.seen
                    /\ rd.twice => rd.came

ReaderInv ==
  /\ reader = Closed \/ reader \in Reading
  /\ reader.pc = "reading" => Turning(reader, Rows(reader.list), reader.page)
  /\ NothingMissed

\* He turns to the next page.
LEMMA Turned ==
  ASSUME Types, NEW rd \in Reading, NEW page \in Nat, rd.page = page + 1,
         Turning(rd, Rows(rd.list), page)
  PROVE  LET next == ReadPage(rd)
         IN  next \in Reading /\ Turning(next, Rows(next.list), next.page) /\ Missed(next)
<1> DEFINE rows == Rows(rd.list)
           limit == rd.limit
           shown == Page(rows, rd.page, limit)
           next == ReadPage(rd)
<1>1. /\ rd.list \in Lists /\ limit \in Nat \ {0}
      /\ rd.seen \subseteq Nat /\ rd.there \subseteq Nat
  BY LimitsAssumption DEF Reading
<1>2. rows \subseteq Nat /\ IsFiniteSet(rows) /\ Cardinality(rows) \in Nat
  BY <1>1, RowsFinite
<1>3. shown \subseteq rows
  BY DEF Page
<1>4. next = [rd EXCEPT !.seen = rd.seen \cup shown,
                        !.twice = rd.twice \/ shown \cap rd.seen # {},
                        !.pc = IF rd.page < TotalPages(rows, limit) THEN "reading" ELSE "done"]
  BY DEF ReadPage, Reading
<1> HIDE DEF next, shown
<1>5. next \in Reading
  BY <1>2, <1>3, <1>4 DEF Reading
<1>6. /\ next.list = rd.list /\ next.limit = limit /\ next.page = page + 1
      /\ next.seen = rd.seen \cup shown /\ next.there = rd.there
      /\ next.left = rd.left /\ next.came = rd.came
      /\ next.twice = (rd.twice \/ shown \cap rd.seen # {})
      /\ next.pc = "done" => ~(page + 1 < TotalPages(rows, limit))
  BY <1>4 DEF Reading
<1>7. \A i \in rows : Rank(rows, i) \in Nat /\ Rank(rows, i) < Cardinality(rows)
  BY <1>2, Ranks
<1>8. \A i \in rows : i \in shown <=> /\ page * limit <= Rank(rows, i)
                                    /\ Rank(rows, i) < (page + 1) * limit
  <2>1. rd.page = page + 1 /\ rd.page - 1 = page
    BY <1>1
  <2>. QED  BY <2>1 DEF shown, Page, Rank
<1>9. /\ page * limit \in Nat /\ (page + 1) * limit \in Nat
       /\ page * limit <= (page + 1) * limit
  BY <1>1
<1> HIDE DEF rows, limit
<1>10. rd.there \subseteq rows
  BY DEF Turning, rows
<1>11. ASSUME ~rd.left, NEW i \in rd.there
       PROVE  i \in next.seen \/ Rank(rows, i) >= (page + 1) * limit
  <2>1. i \in rd.seen \/ Rank(rows, i) >= page * limit
    BY <1>11 DEF Turning, rows, limit
  <2>. QED  BY <2>1, <1>6, <1>7, <1>8, <1>9, <1>10
<1>12. ASSUME ~rd.came, NEW i \in next.seen \cap rows
       PROVE  Rank(rows, i) < (page + 1) * limit
  <2>1. i \in rd.seen => Rank(rows, i) < page * limit
    BY <1>12 DEF Turning, rows, limit
  <2>. QED  BY <2>1, <1>6, <1>7, <1>8, <1>9
<1>13. ASSUME next.twice PROVE rd.came
  <2>1. CASE rd.twice
    BY <2>1 DEF Turning
  <2>2. ASSUME NEW i \in shown \cap rd.seen, ~rd.came PROVE FALSE
    <3>1. i \in rows /\ page * limit <= Rank(rows, i)
      BY <1>3, <1>8 DEF shown, rows, limit
    <3>2. Rank(rows, i) < page * limit
      BY <2>2, <3>1 DEF Turning, rows, limit
    <3>. QED  BY <3>1, <3>2, <1>7, <1>9
  <2>. QED  BY <1>6, <1>13, <2>1, <2>2
<1>14. Turning(next, Rows(next.list), next.page)
  BY <1>6, <1>10, <1>11, <1>12, <1>13 DEF Turning, rows
<1>15. Missed(next)
  <2>1. ASSUME next.pc = "done", ~next.left, NEW i \in next.there PROVE i \in next.seen
    <3>1. Cardinality(rows) <= (page + 1) * limit
      BY <1>1, <1>2, <1>6, <2>1, PagesHold DEF limit
    <3>2. i \in rows /\ (i \in next.seen \/ Rank(rows, i) >= (page + 1) * limit)
      BY <1>6, <1>10, <1>11, <2>1
    <3>. QED  BY <3>1, <3>2, <1>2, <1>7, <1>9
  <2>. QED  BY <2>1, <1>6, <1>13 DEF Missed
<1>. QED  BY <1>5, <1>14, <1>15 DEF next

\* Someone writes while he reads.
LEMMA Shifted ==
  ASSUME NEW was \in SUBSET Nat, IsFiniteSet(was), NEW now \in SUBSET Nat, IsFiniteSet(now),
         NEW rd \in Reading, Turning(rd, was, rd.page)
  PROVE  LET next == [rd EXCEPT !.there = @ \cap now, !.left = @ \/ ~(was \subseteq now),
                                !.came = @ \/ ~(now \subseteq was)]
         IN  next \in Reading /\ Turning(next, now, next.page)
<1> DEFINE next == [rd EXCEPT !.there = @ \cap now, !.left = @ \/ ~(was \subseteq now),
                              !.came = @ \/ ~(now \subseteq was)]
           below == rd.page * rd.limit
<1>1. rd.page \in Nat /\ rd.limit \in Nat
  BY LimitsAssumption DEF Reading
<1>2. below \in Nat
  BY <1>1
<1>3. next \in Reading
  BY DEF Reading
<1>4. /\ next.page * next.limit = below /\ next.seen = rd.seen /\ next.pc = rd.pc
      /\ next.there = rd.there \cap now /\ next.twice = rd.twice
      /\ next.left = (rd.left \/ ~(was \subseteq now))
      /\ next.came = (rd.came \/ ~(now \subseteq was))
  BY DEF Reading
<1> HIDE DEF next
<1>5. \A i \in Nat : Rank(was, i) \in Nat /\ Rank(now, i) \in Nat
  BY Ranks
<1>6. ASSUME ~next.left, NEW i \in next.there
      PROVE  i \in next.seen \/ Rank(now, i) >= below
  <2>1. ~rd.left /\ was \subseteq now /\ i \in rd.there /\ i \in Nat
    BY <1>4, <1>6
  <2>2. i \in rd.seen \/ Rank(was, i) >= below
    BY <2>1 DEF Turning
  <2>3. Rank(was, i) <= Rank(now, i)
    BY <2>1, RanksGrow
  <2>. QED  BY <1>2, <1>4, <1>5, <2>1, <2>2, <2>3
<1>7. ASSUME ~next.came, NEW i \in next.seen \cap now
      PROVE  Rank(now, i) < below
  <2>1. ~rd.came /\ now \subseteq was /\ i \in rd.seen \cap was /\ i \in Nat
    BY <1>4, <1>7
  <2>2. Rank(was, i) < below
    BY <2>1 DEF Turning
  <2>3. Rank(now, i) <= Rank(was, i)
    BY <2>1, RanksGrow
  <2>. QED  BY <1>2, <1>5, <2>1, <2>2, <2>3
<1>8. next.twice => next.came
  BY <1>4 DEF Turning
<1>9. Turning(next, now, next.page)
  BY <1>4, <1>6, <1>7, <1>8 DEF Turning
<1>. QED  BY <1>3, <1>9 DEF next

LEMMA WatchedInv ==
  ASSUME Types, Types', ReaderInv, Watched
  PROVE  ReaderInv'
<1>1. PICK list \in {reader.list} : reader' =
        IF reader.pc # "reading" THEN reader
        ELSE [reader EXCEPT !.there = @ \cap Rows(list)',
                            !.left = @ \/ ~(Rows(list) \subseteq Rows(list)'),
                            !.came = @ \/ ~(Rows(list)' \subseteq Rows(list))]
  BY DEF Watched
<1>2. CASE reader.pc # "reading"
  <2>1. reader.pc # "done"
    BY DEF Watched
  <2>. QED  BY <1>1, <1>2, <2>1 DEF ReaderInv, NothingMissed
<1>3. CASE reader.pc = "reading"
  <2>1. reader \in Reading /\ Turning(reader, Rows(list), reader.page) /\ list \in Lists
    BY <1>1, <1>3 DEF ReaderInv, Closed, Reading
  <2>2. Listed(list) /\ Listed(list)'
    BY <2>1, ListedNow, ListedNext DEF AllListed
  <2> DEFINE next == [reader EXCEPT !.there = @ \cap Rows(list)',
                                   !.left = @ \/ ~(Rows(list) \subseteq Rows(list)'),
                                   !.came = @ \/ ~(Rows(list)' \subseteq Rows(list))]
  <2>3. reader' \in Reading /\ Turning(reader', Rows(list)', reader'.page)
    <3>1. next \in Reading /\ Turning(next, Rows(list)', next.page)
      BY <2>1, <2>2, Shifted DEF Listed
    <3>2. reader' = next
      BY <1>1, <1>3
    <3> HIDE DEF next
    <3>. QED  BY <3>1, <3>2
  <2>4. reader'.list = list /\ reader'.pc = "reading"
    BY <1>1, <1>3, <2>1 DEF Reading
  <2>5. Rows(reader.list)' = Rows(list)'
    BY <2>4
  <2>. QED  BY <2>3, <2>4, <2>5 DEF ReaderInv, NothingMissed
<1>. QED  BY <1>2, <1>3

LEMMA SameRows ==
  ASSUME UNCHANGED tables, NEW list
  PROVE  Rows(list)' = Rows(list)
BY DEF tables, Rows, Posted, ByGroup, BySection, ByMentor, ByOpportunity, MyParticipations,
       SubmissionsFor, MySubmissions, LogsFor, Active, Live, GroupOf, SectionOfRow

LEMMA TurnedInv ==
  ASSUME Types, NEW rd \in Reading, NEW page \in Nat, rd.page = page + 1,
         Turning(rd, Rows(rd.list), page), UNCHANGED tables, reader' = ReadPage(rd)
  PROVE  ReaderInv'
<1>1. reader' \in Reading /\ Turning(reader', Rows(reader'.list), reader'.page) /\ Missed(reader')
  BY Turned
<1>2. Rows(reader.list)' = Rows(reader'.list)
  BY SameRows
<1>. QED  BY <1>1, <1>2 DEF ReaderInv, NothingMissed, Missed

LEMMA ReaderStep ==
  ASSUME Types, Types', ReaderInv, [Next]_vars
  PROVE  ReaderInv'
<1>1. CASE UNCHANGED <<tables, reader>>
  <2>1. Rows(reader.list)' = Rows(reader.list)
    BY <1>1, SameRows
  <2>. QED  BY <1>1, <2>1 DEF ReaderInv, NothingMissed
<1>2. Write => Watched
  BY DEF Write, Post, Publish, Archive, Remove, Move, Pass, Register, HandIn, Withdraw, Mark,
         Decide, Activate, Unenroll, Enroll, Regroup, RemoveGroup, NameLeader, NameMentor
<1>3. ASSUME NEW u \in Users, NEW list \in Lists, NEW limit \in Limits,
             StartReading(u, list, limit)
      PROVE  ReaderInv'
  <2> DEFINE rd == [Closed EXCEPT !.list = list, !.limit = limit, !.page = 1, !.there = Rows(list)]
  <2>1. /\ limit \in Nat /\ Rows(list) \subseteq Nat
        /\ \A i \in Rows(list) : Rank(Rows(list), i) \in Nat
    BY LimitsAssumption, RowsFinite, Ranks
  <2>2. rd \in Reading
    BY <2>1 DEF Closed, Reading
  <2>3. /\ rd.page = 0 + 1 /\ rd.limit = limit /\ rd.list = list /\ rd.seen = {}
        /\ rd.there = Rows(list) /\ ~rd.twice
    BY DEF Closed
  <2>4. reader' = ReadPage(rd) /\ UNCHANGED tables
    BY <1>3 DEF StartReading
  <2> HIDE DEF rd
  <2>5. Turning(rd, Rows(rd.list), 0)
    <3>1. 0 * rd.limit = 0
      BY <2>1, <2>3
    <3>. QED  BY <2>1, <2>3, <3>1 DEF Turning
  <2>. QED  BY <2>2, <2>3, <2>4, <2>5, TurnedInv
<1>4. CASE NextPage
  <2> DEFINE rd == [reader EXCEPT !.page = @ + 1]
  <2>1. reader \in Reading /\ Turning(reader, Rows(reader.list), reader.page)
    BY <1>4 DEF NextPage, ReaderInv, Closed
  <2>2. /\ rd \in Reading /\ rd.list = reader.list /\ rd.page = reader.page + 1
        /\ reader.page \in Nat /\ rd.limit = reader.limit /\ rd.seen = reader.seen
        /\ rd.there = reader.there /\ rd.left = reader.left /\ rd.came = reader.came
        /\ rd.twice = reader.twice
    BY <2>1 DEF Reading
  <2>3. reader' = ReadPage(rd) /\ UNCHANGED tables
    BY <1>4 DEF NextPage
  <2> HIDE DEF rd
  <2>4. Turning(rd, Rows(rd.list), reader.page)
    BY <2>1, <2>2 DEF Turning
  <2>. QED  BY <2>2, <2>3, <2>4, TurnedInv
<1>5. CASE OpenDashboard \/ (\E what \in First : AnswerFirst(what))
           \/ (\E g \in Groups, ok \in BOOLEAN : AnswerGroup(g, ok))
  BY <1>1, <1>5 DEF OpenDashboard, AnswerFirst, AnswerGroup
<1>6. CASE UNCHANGED vars
  BY <1>1, <1>6 DEF vars
<1>. QED  BY <1>2, <1>3, <1>4, <1>5, <1>6, WatchedInv DEF Next, Read

-----------------------------------------------------------------------------
(* Nobody registers twice.                                                 *)

LEMMA SameOnce ==
  ASSUME NEW rows, Once(rows), NEW next, DOMAIN next = DOMAIN rows,
         \A i \in DOMAIN rows : next[i].opp = rows[i].opp /\ next[i].enr = rows[i].enr
  PROVE  Once(next)
BY DEF Once

LEMMA MarkOnce ==
  ASSUME Types, Once(part), NEW i \in DOMAIN part, NEW to
  PROVE  Once([part EXCEPT ![i].status = to])
<1> DEFINE next == [part EXCEPT ![i].status = to]
<1>1. DOMAIN next = DOMAIN part
  BY DEF Types
<1>2. ASSUME NEW j \in DOMAIN part
      PROVE  next[j].opp = part[j].opp /\ next[j].enr = part[j].enr
  <2>1. part[j] \in Participation
    BY DEF Types
  <2>2. next[j] = IF j = i THEN [part[j] EXCEPT !.status = to] ELSE part[j]
    BY DEF Types
  <2> HIDE DEF next
  <2>. QED  BY <2>1, <2>2 DEF Participation
<1> HIDE DEF next
<1>3. Once(next)
  BY <1>1, <1>2, SameOnce
<1>. QED  BY <1>3 DEF next

LEMMA RegisterOnce ==
  ASSUME Types, Once(part), NEW o \in Opportunities, NEW e \in Enrollments, Register(o, e)
  PROVE  Once(part')
<1>1. PICK row : part' = Append(part, row) /\ row.opp = o /\ row.enr = e
  BY DEF Register, Row
<1>2. DOMAIN part' = DOMAIN part \cup {Len(part) + 1} /\ Len(part) + 1 \notin DOMAIN part
  BY <1>1 DEF Types
<1>3. \A i \in DOMAIN part : part'[i] = part[i]
  BY <1>1 DEF Types
<1>4. part'[Len(part) + 1] = row
  BY <1>1 DEF Types
<1>5. \A i \in DOMAIN part : ~(part[i].opp = o /\ part[i].enr = e)
  BY DEF Register, RegisterAccepted
<1>. QED  BY <1>1, <1>2, <1>3, <1>4, <1>5 DEF Once

LEMMA OnceStep ==
  ASSUME Types, Once(part), [Next]_vars
  PROVE  Once(part)'
<1>1. ASSUME NEW o \in Opportunities, NEW e \in Enrollments, Register(o, e) PROVE Once(part')
  BY <1>1, RegisterOnce
<1>2. ASSUME NEW i \in DOMAIN part,
             \/ HandIn(i) \/ \E to \in Statuses : Mark(i, to)
             \/ \E to \in {"verified", "rejected"} : Decide(i, to)
      PROVE  Once(part')
  <2>1. PICK to : part' = [part EXCEPT ![i].status = to]
    BY <1>2 DEF HandIn, Mark, Decide
  <2>. QED  BY <2>1, MarkOnce
<1>3. CASE UNCHANGED part
  BY <1>3 DEF Once
<1>4. Read \/ UNCHANGED vars => UNCHANGED part
  BY DEF Read, OpenDashboard, AnswerFirst, AnswerGroup, StartReading, NextPage, vars, tables
<1>5. Write => \/ UNCHANGED part
               \/ \E o \in Opportunities, e \in Enrollments : Register(o, e)
               \/ \E i \in DOMAIN part : \/ HandIn(i) \/ \E to \in Statuses : Mark(i, to)
                                         \/ \E to \in {"verified", "rejected"} : Decide(i, to)
  BY DEF Write, Post, Publish, Archive, Remove, Move, Pass, Withdraw, Activate, Unenroll, Enroll,
         Regroup, RemoveGroup, NameLeader, NameMentor
<1>. QED  BY <1>1, <1>2, <1>3, <1>4, <1>5 DEF Next

LEMMA OnceInit == Init => Once(part)
BY DatabasesAssumption DEF Init, Once

-----------------------------------------------------------------------------
(* The admin's dashboard while it loads: what it has asked for and what it *)
(* has been told, and that this is what the tables say while nobody        *)
(* writes.                                                                 *)

\* A participation as the dashboard sees it, and its answers, by group.
Shown == [id : Nat, opp : Opportunities, status : Statuses]
Answers == UNION {[S -> SUBSET Shown] : S \in SUBSET Groups}

Loading ==
  [pc : {"idle", "first", "groups", "shown"}, todo : SUBSET (First \cup Groups),
   groups : SUBSET Groups, opps : SUBSET Opportunities, parts : Answers, counted : Nat,
   failed : SUBSET Groups, quiet : BOOLEAN]

Asked(g) == Snapshot(Page(ByGroup(g), 1, MaxLimit))

\* The requests for the groups are out, or answered.
Loaded(ld) == ld.pc \in {"groups", "shown"}

Typed(ld) ==
  /\ ld \in Loading
  /\ ld.pc = "first" => ld.todo \subseteq First /\ ld.failed = {}
  /\ Loaded(ld) => /\ ld.todo \subseteq ld.groups /\ ld.todo \cap ld.failed = {}
                   /\ DOMAIN ld.parts = ld.groups
                   /\ \A g \in ld.groups : IsFiniteSet(ld.parts[g])
  /\ ld.pc = "shown" => ld.todo = {}

\* Nobody has written: ld is what the tables say.
Current(ld) ==
  ld.quiet => /\ Loaded(ld) \/ (ld.pc = "first" /\ "dashboard" \notin ld.todo) => ld.counted = Len(part)
              /\ Loaded(ld) => \A g \in ld.groups :
                   ld.parts[g] = IF g \in ld.todo \cup ld.failed THEN {} ELSE Asked(g)

LoadInv == Typed(load) /\ Current(load)

LEMMA AskedFinite ==
  ASSUME Types, NEW g
  PROVE  /\ ByGroup(g) \subseteq DOMAIN part /\ IsFiniteSet(ByGroup(g))
         /\ Asked(g) \subseteq Shown /\ IsFiniteSet(Asked(g))
<1> DEFINE rows == Page(ByGroup(g), 1, MaxLimit)
           seen(i) == [id |-> i, opp |-> part[i].opp, status |-> part[i].status]
<1>1. ByGroup(g) \subseteq DOMAIN part /\ IsFiniteSet(ByGroup(g))
  <2>1. ByGroup(g) \subseteq DOMAIN part
    BY DEF ByGroup
  <2>. QED  BY <2>1, RowsCounted
<1>2. rows \subseteq DOMAIN part /\ IsFiniteSet(rows)
  <2>1. rows \subseteq ByGroup(g)
    BY DEF Page
  <2>. QED  BY <1>1, <2>1, FS_Subset
<1>3. \A i \in DOMAIN part : seen(i) \in Shown
  <2>1. \A i \in DOMAIN part : part[i] \in Participation /\ i \in Nat
    BY DEF Types
  <2>. QED  BY <2>1 DEF Shown, Participation
<1>4. Asked(g) = {seen(i) : i \in rows}
  BY DEF Asked, Snapshot
<1> HIDE DEF rows, seen
<1>5. IsFiniteSet(Asked(g))
  <2>1. [i \in rows |-> seen(i)] \in Surjection(rows, Asked(g))
    BY <1>4 DEF Surjection
  <2>. QED  BY <1>2, <2>1, FS_Surjection
<1>. QED  BY <1>1, <1>2, <1>3, <1>4, <1>5

LEMMA BlankTyped == Blank \in Loading
<1>1. <<>> \in Answers
  <2>1. <<>> \in [{} -> SUBSET Shown]
    OBVIOUS
  <2>. QED  BY <2>1 DEF Answers
<1>. QED  BY <1>1 DEF Blank, Loading

LEMMA LoadInit == Init => LoadInv
BY BlankTyped DEF Init, LoadInv, Typed, Current, Loaded, Blank

LEMMA LoadWatched ==
  ASSUME LoadInv, Watched
  PROVE  LoadInv'
<1>1. load \in Loading /\ load.pc # "shown"
  BY DEF LoadInv, Typed, Watched
<1>2. load' = [load EXCEPT !.quiet = load.pc = "idle"]
  BY DEF Watched
<1>3. load' \in Loading
  BY <1>1, <1>2 DEF Loading
<1>4. /\ load'.pc = load.pc /\ load'.todo = load.todo /\ load'.groups = load.groups
      /\ load'.parts = load.parts /\ load'.failed = load.failed /\ load'.quiet = (load.pc = "idle")
  BY <1>1, <1>2 DEF Loading
<1>5. Typed(load')
  BY <1>3, <1>4 DEF LoadInv, Typed, Loaded
<1>6. Current(load)'
  BY <1>4 DEF Current, Loaded
<1>. QED  BY <1>5, <1>6 DEF LoadInv, Typed, Loaded

LEMMA SameCurrent ==
  ASSUME UNCHANGED tables, NEW ld, Current(ld)
  PROVE  Current(ld)'
<1>1. \A g : Asked(g)' = Asked(g)
  BY DEF tables, Asked, Snapshot, Page, ByGroup, Active, Live, GroupOf
<1>2. part' = part
  BY DEF tables
<1>. QED  BY <1>1, <1>2 DEF Current

\* Every step of the dashboard: what it holds next is typed, and as the
\* tables say.
LEMMA Told ==
  ASSUME UNCHANGED tables, NEW ld, load' = ld, Typed(ld), Current(ld)
  PROVE  LoadInv'
<1>1. Current(ld)'
  BY SameCurrent
<1>. QED  BY <1>1 DEF LoadInv, Typed, Current, Loaded

LEMMA OpenInv ==
  ASSUME OpenDashboard
  PROVE  LoadInv'
<1> DEFINE ld == [Blank EXCEPT !.pc = "first", !.todo = First]
<1>1. ld \in Loading
  BY BlankTyped DEF Loading
<1>2. ld.pc = "first" /\ ld.todo = First /\ ld.failed = {}
  BY DEF Blank
<1>3. load' = ld /\ UNCHANGED tables
  BY DEF OpenDashboard
<1> HIDE DEF ld
<1>4. Typed(ld) /\ Current(ld)
  BY <1>1, <1>2 DEF Typed, Current, Loaded, First
<1>. QED  BY <1>3, <1>4, Told

LEMMA AnswerFirstInv ==
  ASSUME Types, LoadInv, NEW what \in First, AnswerFirst(what)
  PROVE  LoadInv'
<1> DEFINE groups == Page({g \in Groups : grp[g].live}, 1, MaxLimit)
           opps == {posted[k] : k \in Page(Posted, 1, DefaultLimit)}
           told == [load EXCEPT !.todo = @ \ {what},
                      !.counted = IF what = "dashboard" THEN AdminDashboard.participations ELSE @,
                      !.groups = IF what = "groups" THEN groups ELSE @,
                      !.opps = IF what = "opportunities" THEN opps ELSE @]
           asked == [told EXCEPT !.todo = told.groups, !.parts = [g \in told.groups |-> {}],
                                 !.pc = IF told.groups = {} THEN "shown" ELSE "groups"]
<1>1. /\ load \in Loading /\ load.pc = "first" /\ what \in load.todo
      /\ load.todo \subseteq First /\ load.failed = {}
      /\ load.quiet /\ "dashboard" \notin load.todo => load.counted = Len(part)
  BY DEF AnswerFirst, LoadInv, Typed, Current
<1>2. groups \subseteq Groups
  BY DEF Page
<1>3. opps \subseteq Opportunities
  <2>1. Page(Posted, 1, DefaultLimit) \subseteq DOMAIN posted
    BY DEF Page, Posted
  <2>. QED  BY <2>1 DEF Types
<1>4. AdminDashboard.participations = Len(part) /\ Len(part) \in Nat
  BY DEF AdminDashboard, Types
<1>5. /\ load' = IF told.todo # {} THEN told ELSE asked
      /\ UNCHANGED tables
  BY DEF AnswerFirst
<1> HIDE DEF groups, opps
<1>6. told \in Loading
  BY <1>1, <1>2, <1>3, <1>4 DEF Loading
<1>7. /\ told.pc = "first" /\ told.todo = load.todo \ {what} /\ told.failed = {}
      /\ told.quiet = load.quiet
      /\ told.counted = IF what = "dashboard" THEN AdminDashboard.participations ELSE load.counted
  BY <1>1 DEF Loading
<1> HIDE DEF told
<1>8. told.quiet /\ "dashboard" \notin told.todo => told.counted = Len(part)
  BY <1>1, <1>4, <1>7
<1>9. CASE told.todo # {}
  <2>1. Typed(told) /\ Current(told)
    BY <1>1, <1>6, <1>7, <1>8 DEF Typed, Current, Loaded
  <2>. QED  BY <1>5, <1>9, <2>1, Told
<1>10. CASE told.todo = {}
  <2>1. [g \in told.groups |-> {}] \in Answers
    <3>1. told.groups \in SUBSET Groups
      BY <1>6 DEF Loading
    <3>2. [g \in told.groups |-> {}] \in [told.groups -> SUBSET Shown]
      OBVIOUS
    <3>. QED  BY <3>1, <3>2 DEF Answers
  <2>2. asked \in Loading
    BY <1>6, <2>1 DEF Loading
  <2>3. /\ asked.pc = IF told.groups = {} THEN "shown" ELSE "groups"
        /\ asked.todo = told.groups /\ asked.groups = told.groups /\ asked.failed = {}
        /\ asked.parts = [g \in told.groups |-> {}] /\ asked.quiet = told.quiet
        /\ asked.counted = told.counted
    BY <1>6, <1>7 DEF Loading
  <2> HIDE DEF asked
  <2>4. Typed(asked)
    BY <2>2, <2>3, FS_EmptySet DEF Typed, Loaded
  <2>5. Current(asked)
    BY <1>8, <1>10, <2>3 DEF Current, Loaded
  <2>. QED  BY <1>5, <1>10, <2>4, <2>5, Told
<1>. QED  BY <1>9, <1>10

LEMMA AnswerGroupInv ==
  ASSUME Types, LoadInv, NEW g \in Groups, NEW ok \in BOOLEAN, AnswerGroup(g, ok)
  PROVE  LoadInv'
<1> DEFINE answer == IF ok THEN Asked(g) ELSE {}
           parts == [load.parts EXCEPT ![g] = answer]
           ld == [load EXCEPT !.todo = @ \ {g}, !.failed = IF ok THEN @ ELSE @ \cup {g},
                              !.parts[g] = answer,
                              !.pc = IF load.todo = {g} THEN "shown" ELSE @]
<1>1. /\ load \in Loading /\ load.pc = "groups" /\ g \in load.todo
      /\ load.todo \subseteq load.groups /\ load.todo \cap load.failed = {}
      /\ DOMAIN load.parts = load.groups /\ \A h \in load.groups : IsFiniteSet(load.parts[h])
  BY DEF AnswerGroup, LoadInv, Typed, Loaded
<1>2. answer \subseteq Shown /\ IsFiniteSet(answer)
  BY AskedFinite, FS_EmptySet
<1>3. load' = ld /\ UNCHANGED tables
  BY DEF AnswerGroup, Asked
<1> HIDE DEF answer
<1>4. /\ load.parts \in [load.groups -> SUBSET Shown] /\ load.groups \in SUBSET Groups
  <2>1. load.parts \in Answers /\ load.groups \in SUBSET Groups
    BY <1>1 DEF Loading
  <2>. QED  BY <1>1, <2>1 DEF Answers
<1>5. /\ parts \in Answers /\ DOMAIN parts = load.groups
      /\ \A h \in load.groups : parts[h] = IF h = g THEN answer ELSE load.parts[h]
  <2>1. parts \in [load.groups -> SUBSET Shown]
    BY <1>2, <1>4
  <2>. QED  BY <1>1, <1>4, <2>1 DEF Answers
<1>6. ld = [load EXCEPT !.todo = @ \ {g}, !.failed = IF ok THEN @ ELSE @ \cup {g},
                        !.parts = parts, !.pc = IF load.todo = {g} THEN "shown" ELSE @]
  BY <1>1 DEF Loading
<1> HIDE DEF ld, parts
<1>7. ld \in Loading
  BY <1>1, <1>5, <1>6 DEF Loading
<1>8. /\ ld.pc = (IF load.todo = {g} THEN "shown" ELSE "groups") /\ ld.todo = load.todo \ {g}
      /\ ld.failed = (IF ok THEN load.failed ELSE load.failed \cup {g})
      /\ ld.parts = parts /\ ld.groups = load.groups /\ ld.quiet = load.quiet
      /\ ld.counted = load.counted
  BY <1>1, <1>6 DEF Loading
<1>9. Typed(ld)
  <2>1. ld.todo \subseteq ld.groups /\ ld.todo \cap ld.failed = {}
    BY <1>1, <1>8
  <2>2. DOMAIN ld.parts = ld.groups /\ \A h \in ld.groups : IsFiniteSet(ld.parts[h])
    BY <1>1, <1>2, <1>5, <1>8
  <2>3. ld.pc # "first" /\ (ld.pc = "shown" => ld.todo = {})
    BY <1>8
  <2>. QED  BY <1>7, <2>1, <2>2, <2>3 DEF Typed
<1>10. Current(ld)
  <2>1. ld.quiet => ld.counted = Len(part)
    BY <1>1, <1>8 DEF LoadInv, Current, Loaded
  <2>2. ASSUME ld.quiet, NEW h \in ld.groups
        PROVE  ld.parts[h] = IF h \in ld.todo \cup ld.failed THEN {} ELSE Asked(h)
    <3>1. load.parts[h] = IF h \in load.todo \cup load.failed THEN {} ELSE Asked(h)
      BY <1>1, <1>8, <2>2 DEF LoadInv, Current, Loaded
    <3>2. CASE h = g
      BY <1>1, <1>5, <1>8, <2>2, <3>2 DEF answer
    <3>3. CASE h # g
      BY <1>5, <1>8, <2>2, <3>1, <3>3
    <3>. QED  BY <3>2, <3>3
  <2>. QED  BY <2>1, <2>2 DEF Current
<1>. QED  BY <1>3, <1>9, <1>10, Told

LEMMA LoadStep ==
  ASSUME Types, LoadInv, [Next]_vars
  PROVE  LoadInv'
<1>1. CASE UNCHANGED <<tables, load>>
  BY <1>1, Told DEF LoadInv
<1>2. CASE UNCHANGED vars
  BY <1>1, <1>2 DEF vars
<1>3. Write => Watched
  BY DEF Write, Post, Publish, Archive, Remove, Move, Pass, Register, HandIn, Withdraw, Mark,
         Decide, Activate, Unenroll, Enroll, Regroup, RemoveGroup, NameLeader, NameMentor
<1>4. CASE NextPage \/ \E u \in Users, list \in Lists, limit \in Limits : StartReading(u, list, limit)
  BY <1>1, <1>4 DEF NextPage, StartReading
<1>. QED  BY <1>2, <1>3, <1>4, LoadWatched, OpenInv, AnswerFirstInv, AnswerGroupInv DEF Next, Read

LEMMA AllRowsAre ==
  ASSUME LoadInv, Loaded(load)
  PROVE  /\ load.groups \subseteq Groups /\ IsFiniteSet(load.groups) /\ IsFiniteSet(AllRows)
         /\ \A g \in load.groups : IsFiniteSet(load.parts[g])
         /\ \A g \in load.groups : \A p \in load.parts[g] : <<g, p>> \in AllRows
         /\ \A r \in AllRows : r[1] \in load.groups /\ r[2] \in load.parts[r[1]] /\ r = <<r[1], r[2]>>
<1> DEFINE column(g) == {g} \X load.parts[g]
           columns == {column(g) : g \in load.groups}
<1>1. load.groups \subseteq Groups /\ IsFiniteSet(load.groups)
  <2>1. load.groups \in SUBSET Groups
    BY DEF LoadInv, Typed, Loading
  <2>. QED  BY <2>1, Countable
<1>2. \A g \in load.groups : IsFiniteSet(load.parts[g])
  BY DEF LoadInv, Typed
<1>3. \A g \in load.groups : IsFiniteSet(column(g))
  BY <1>2, FS_Product, FS_Singleton
<1>4. IsFiniteSet(columns)
  <2>1. [g \in load.groups |-> column(g)] \in Surjection(load.groups, columns)
    BY DEF Surjection
  <2>. QED  BY <1>1, <2>1, FS_Surjection
<1>5. \A T \in columns : IsFiniteSet(T)
  BY <1>3
<1>6. AllRows = UNION columns
  BY DEF AllRows
<1>7. \A g \in load.groups : \A p \in load.parts[g] : <<g, p>> \in AllRows
  BY <1>6
<1>8. \A r \in AllRows : r[1] \in load.groups /\ r[2] \in load.parts[r[1]] /\ r = <<r[1], r[2]>>
  BY <1>6
<1> HIDE DEF columns
<1>9. IsFiniteSet(AllRows)
  BY <1>4, <1>5, <1>6, FS_UNION
<1>. QED  BY <1>1, <1>2, <1>7, <1>8, <1>9

LEMMA Tagged ==
  ASSUME NEW g, NEW S, IsFiniteSet(S)
  PROVE  IsFiniteSet({g} \X S) /\ Cardinality({g} \X S) = Cardinality(S)
<1>1. IsFiniteSet({g}) /\ Cardinality({g}) = 1 /\ Cardinality(S) \in Nat
  BY FS_Singleton, FS_CardinalityType
<1>2. Cardinality({g} \X S) = Cardinality({g}) * Cardinality(S)
  BY <1>1, FS_Product
<1>. QED  BY <1>1, <1>2, FS_Product

\* The cells of a row of the heat map.
LEMMA HeatMapAdds ==
  ASSUME LoadInv, Loaded(load), \A g, h \in load.groups : NameOf[g] = NameOf[h] => g = h, NEW o
  PROVE  Stats(o).assigned = Total([n \in DOMAIN HeatMap(o) |-> HeatMap(o)[n].assigned])
<1> DEFINE names == {NameOf[g] : g \in load.groups}
           f == [n \in names |-> HeatMap(o)[n].assigned]
           R == {p \in AllRows : p[2].opp = o}
           m == [p \in R |-> NameOf[p[1]]]
           of(g) == {p \in load.parts[g] : p.opp = o}
<1>1. IsFiniteSet(R)
  BY AllRowsAre, FS_Subset
<1>2. IsFiniteSet(names)
  <2>1. [g \in load.groups |-> NameOf[g]] \in Surjection(load.groups, names)
    BY DEF Surjection
  <2>. QED  BY <2>1, AllRowsAre, FS_Surjection
<1>3. DOMAIN HeatMap(o) = names
  BY DEF HeatMap
<1>4. ASSUME NEW n \in names PROVE f[n] = Cardinality({p \in R : m[p] = n})
  <2>1. PICK g \in load.groups : NameOf[g] = n
    OBVIOUS
  <2>2. {h \in load.groups : NameOf[h] = n} = {g}
    BY <2>1
  <2>3. Min({g}) = g
    <3>1. g \in Nat
      BY AllRowsAre, GroupsAssumption
    <3>. QED  BY <3>1 DEF Min
  <2>4. HeatMap(o)[n] = Cell(o, g)
    BY <2>2, <2>3 DEF HeatMap
  <2>5. f[n] = Cardinality(of(g))
    <3>1. Cell(o, g).assigned = Cardinality(of(g))
      BY DEF Cell
    <3>2. f[n] = HeatMap(o)[n].assigned
      OBVIOUS
    <3> HIDE DEF f, of
    <3>. QED  BY <2>4, <3>1, <3>2
  <2>6. {p \in R : m[p] = n} = {g} \X of(g)
    <3>1. ASSUME NEW r \in R, m[r] = n PROVE r \in {g} \X of(g)
      BY <2>1, <3>1, AllRowsAre
    <3>2. ASSUME NEW p \in of(g) PROVE <<g, p>> \in R /\ m[<<g, p>>] = n
      BY <2>1, AllRowsAre
    <3> HIDE DEF R, m, of
    <3>3. \A r \in {g} \X of(g) : r \in R /\ m[r] = n
      BY <3>2
    <3>. QED  BY <3>1, <3>3
  <2>7. IsFiniteSet(of(g))
    BY AllRowsAre, FS_Subset
  <2> HIDE DEF of, f, m, R
  <2>. QED  BY <2>5, <2>6, <2>7, Tagged
<1>5. {p \in R : m[p] \in names} = R
  BY AllRowsAre
<1>6. Stats(o).assigned = Cardinality(R)
  BY DEF Stats
<1>7. DOMAIN f = names
  OBVIOUS
<1> HIDE DEF f, m, R, names
<1>8. Total(f) = Cardinality(R)
  BY <1>1, <1>2, <1>4, <1>5, <1>7, CountedBy
<1>. QED  BY <1>3, <1>6, <1>8 DEF f

\* What a group's row of the performance table counts.
LEMMA PerformanceFits ==
  ASSUME LoadInv, Loaded(load), NEW g \in load.groups
  PROVE  Performance(g).completed + Performance(g).inProgress + Performance(g).notStarted
           <= Performance(g).total
<1> DEFINE rows == load.parts[g]
           done == {p \in rows : p.status \in Done}
           busy == {p \in rows : p.status \in {"in_progress", "submitted"}}
           new == {p \in rows : p.status = "not_started"}
<1>1. IsFiniteSet(rows)
  BY AllRowsAre
<1>2. IsFiniteSet(done) /\ IsFiniteSet(busy) /\ IsFiniteSet(new)
  BY <1>1, FS_Subset
<1>3. done \cap busy = {} /\ (done \cup busy) \cap new = {} /\ (done \cup busy) \cup new \subseteq rows
  BY DEF Done
<1>4. /\ Performance(g).completed = Cardinality(done) /\ Performance(g).inProgress = Cardinality(busy)
      /\ Performance(g).notStarted = Cardinality(new) /\ Performance(g).total = Cardinality(rows)
  BY DEF Performance
<1> HIDE DEF rows, done, busy, new
<1>5. /\ IsFiniteSet(done \cup busy)
      /\ Cardinality(done \cup busy) = Cardinality(done) + Cardinality(busy)
  BY <1>2, <1>3, Disjoint
<1>6. Cardinality((done \cup busy) \cup new) = Cardinality(done \cup busy) + Cardinality(new)
  BY <1>2, <1>3, <1>5, Disjoint
<1>7. Cardinality((done \cup busy) \cup new) <= Cardinality(rows)
  BY <1>1, <1>3, FS_Subset
<1>. QED  BY <1>4, <1>5, <1>6, <1>7

\* The row of the table an answer is about.
LEMMA AskedRows ==
  ASSUME NEW g, NEW p \in Asked(g)
  PROVE  /\ p.id \in ByGroup(g) /\ p.id \in Page(ByGroup(g), 1, MaxLimit)
         /\ p = [id |-> p.id, opp |-> part[p.id].opp, status |-> part[p.id].status]
         /\ p.opp = part[p.id].opp /\ p.status = part[p.id].status
<1>1. PICK i \in Page(ByGroup(g), 1, MaxLimit) :
        p = [id |-> i, opp |-> part[i].opp, status |-> part[i].status]
  BY DEF Asked, Snapshot
<1>2. i \in ByGroup(g)
  BY DEF Page
<1>3. p.id = i /\ p.opp = part[i].opp /\ p.status = part[i].status
  BY <1>1
<1>. QED  BY <1>1, <1>2, <1>3

LEMMA AnsweredRows ==
  ASSUME LoadInv, Loaded(load), load.quiet, NEW r \in AllRows
  PROVE  r[2] \in Asked(r[1])
<1>1. r[1] \in load.groups /\ r[2] \in load.parts[r[1]]
  BY AllRowsAre
<1>. QED  BY <1>1 DEF LoadInv, Current

LEMMA CountedCovers ==
  ASSUME Types, LoadInv, Loaded(load), load.quiet
  PROVE  Cardinality(AllRows) <= load.counted
<1> DEFINE w == [r \in AllRows |-> r[2].id]
<1>1. \A r \in AllRows : r[2].id \in ByGroup(r[1])
  BY AnsweredRows, AskedRows
<1>2. w \in [AllRows -> DOMAIN part]
  BY <1>1 DEF ByGroup
<1>3. ASSUME NEW r \in AllRows, NEW q \in AllRows, w[r] = w[q] PROVE r = q
  <2>1. r[2].id = q[2].id
    BY <1>3
  <2>2. r[1] = q[1]
    BY <1>1, <2>1 DEF ByGroup
  <2>3. r[2] = q[2]
    <3>1. /\ r[2] = [id |-> r[2].id, opp |-> part[r[2].id].opp, status |-> part[r[2].id].status]
          /\ q[2] = [id |-> q[2].id, opp |-> part[q[2].id].opp, status |-> part[q[2].id].status]
      BY AnsweredRows, AskedRows
    <3>. QED  BY <2>1, <3>1
  <2>. QED  BY <2>2, <2>3, AllRowsAre
<1>4. IsFiniteSet(DOMAIN part) /\ Cardinality(DOMAIN part) = Len(part)
  <2>1. PICK n \in Nat : n = Len(part) /\ DOMAIN part = 1 .. n
    BY DEF Types
  <2>2. IsFiniteSet(1 .. n) /\ Cardinality(1 .. n) = n
    BY FS_Interval
  <2>. QED  BY <2>1, <2>2
<1>5. load.counted = Len(part)
  BY DEF LoadInv, Current
<1> HIDE DEF w
<1>. QED  BY <1>2, <1>3, <1>4, <1>5, OneToOne

\* A list that fits on a page is that page.
LEMMA OnePage ==
  ASSUME NEW rows \in SUBSET Nat, IsFiniteSet(rows), Cardinality(rows) <= MaxLimit
  PROVE  Page(rows, 1, MaxLimit) = rows
<1>1. MaxLimit \in Nat /\ (1 - 1) * MaxLimit = 0 /\ 1 * MaxLimit = MaxLimit
  BY LimitsAssumption
<1>2. Cardinality(rows) \in Nat
  BY FS_CardinalityType
<1>3. ASSUME NEW i \in rows PROVE 0 <= Rank(rows, i) /\ Rank(rows, i) < MaxLimit
  <2>1. i \in Nat
    OBVIOUS
  <2>2. Rank(rows, i) \in Nat /\ Rank(rows, i) < Cardinality(rows)
    BY <2>1, Ranks
  <2>. QED  BY <1>1, <1>2, <2>2
<1>. QED  BY <1>1, <1>3 DEF Page, Rank

\* A cell of the heat map against the analytics of a certification.
LEMMA CellAgrees ==
  ASSUME Types, LoadInv, Loaded(load), load.quiet, NEW g \in load.groups, NEW o,
         load.parts[g] = Asked(g), Cardinality(ByGroup(g)) <= MaxLimit
  PROVE  Cell(o, g).completed = Breakdown(o, g).done
<1> DEFINE told == {p \in Asked(g) : p.opp = o /\ p.status \in Done}
           rows == {i \in ByGroup(g) : part[i].opp = o /\ part[i].status \in Done}
           seen == [i \in rows |-> [id |-> i, opp |-> part[i].opp, status |-> part[i].status]]
           w == [p \in told |-> p.id]
<1>1. ByGroup(g) \subseteq Nat /\ IsFiniteSet(ByGroup(g))
  <2>1. DOMAIN part \subseteq Nat
    BY DEF Types
  <2>. QED  BY <2>1, AskedFinite
<1>2. Page(ByGroup(g), 1, MaxLimit) = ByGroup(g)
  BY <1>1, OnePage
<1>3. Asked(g) = Snapshot(ByGroup(g))
  BY <1>2 DEF Asked
<1>4. IsFiniteSet(told) /\ IsFiniteSet(rows) /\ Cardinality(told) \in Nat /\ Cardinality(rows) \in Nat
  BY <1>1, AskedFinite, FS_Subset, FS_CardinalityType
<1>5. Cell(o, g).completed = Cardinality(told)
  <2>1. Cell(o, g).completed =
          Cardinality({p \in {q \in load.parts[g] : q.opp = o} : p.status \in Done})
    BY DEF Cell
  <2>2. {p \in {q \in load.parts[g] : q.opp = o} : p.status \in Done} = told
    OBVIOUS
  <2>. QED  BY <2>1, <2>2
<1>6. Breakdown(o, g).done = Cardinality(rows)
  <2>1. Breakdown(o, g).done = Cardinality({i \in DOMAIN part :
           part[i].opp = o /\ part[i].status \in Done /\ part[i].enr \in Counted(g)})
    BY DEF Breakdown, CountOf, Count
  <2>2. {i \in DOMAIN part : part[i].opp = o /\ part[i].status \in Done /\ part[i].enr \in Counted(g)}
          = rows
    BY RowTypes DEF Counted, ByGroup, GroupOf
  <2>. QED  BY <2>1, <2>2
<1>7. Cardinality(rows) <= Cardinality(told)
  <2>1. ASSUME NEW i \in rows PROVE seen[i] \in told
    <3>1. seen[i] = [id |-> i, opp |-> part[i].opp, status |-> part[i].status]
      OBVIOUS
    <3>2. seen[i] \in Asked(g)
      BY <1>3, <3>1 DEF Snapshot
    <3>. QED  BY <3>1, <3>2
  <2>2. \A i, j \in rows : seen[i] = seen[j] => i = j
    OBVIOUS
  <2>3. seen \in [rows -> told]
    BY <2>1
  <2> HIDE DEF seen, rows, told
  <2>. QED  BY <1>4, <2>2, <2>3, OneToOne
<1>8. Cardinality(told) <= Cardinality(rows)
  <2>1. w \in [told -> rows]
    BY AskedRows
  <2>2. ASSUME NEW p \in told, NEW q \in told, w[p] = w[q] PROVE p = q
    <3>1. p.id = q.id
      BY <2>2
    <3>2. /\ p = [id |-> p.id, opp |-> part[p.id].opp, status |-> part[p.id].status]
          /\ q = [id |-> q.id, opp |-> part[q.id].opp, status |-> part[q.id].status]
      BY AskedRows
    <3>. QED  BY <3>1, <3>2
  <2> HIDE DEF w, rows, told
  <2>. QED  BY <1>4, <2>1, <2>2, OneToOne
<1> HIDE DEF told, rows
<1>. QED  BY <1>4, <1>5, <1>6, <1>7, <1>8

\* What is left of a list after the cut.
LEMMA LongestAre ==
  ASSUME NEW rows, IsFiniteSet(rows), NEW list \in Longest(rows)
  PROVE  /\ list \subseteq rows
         /\ Cardinality(list) = IF Cardinality(rows) <= MaxFollowUps THEN Cardinality(rows) ELSE MaxFollowUps
         /\ Cardinality(rows) <= MaxFollowUps => list = rows
<1>1. Cardinality(rows) \in Nat /\ MaxFollowUps \in Nat
  BY LimitsAssumption, FS_CardinalityType
<1>2. list \in SUBSET rows /\ Cardinality(list) = Min({Cardinality(rows), MaxFollowUps})
  BY DEF Longest, kSubset
<1>3. ASSUME NEW m \in Nat, NEW n \in Nat PROVE Min({m, n}) = IF m <= n THEN m ELSE n
  <2>1. \A x \in {m, n} : (\A y \in {m, n} : x =< y) => x = IF m <= n THEN m ELSE n
    OBVIOUS
  <2>2. \E x \in {m, n} : \A y \in {m, n} : x =< y
    OBVIOUS
  <2>. QED  BY <2>1, <2>2 DEF Min
<1>4. Cardinality(list) = IF Cardinality(rows) <= MaxFollowUps THEN Cardinality(rows) ELSE MaxFollowUps
  BY <1>1, <1>2, <1>3
<1>. QED  BY <1>1, <1>2, <1>4, FS_Subset

\* What waits in all groups is what the performance table has in progress.
LEMMA BusyTotal ==
  ASSUME LoadInv, Loaded(load)
  PROVE  /\ IsFiniteSet(Waiting)
         /\ Total([g \in load.groups |-> Performance(g).inProgress]) = Cardinality(Waiting)
<1> DEFINE f == [g \in load.groups |-> Performance(g).inProgress]
           m == [p \in Waiting |-> p[1]]
           of(g) == {p \in load.parts[g] : p.status \in {"in_progress", "submitted"}}
<1>1. IsFiniteSet(Waiting)
  BY AllRowsAre, FS_Subset DEF Waiting
<1>2. ASSUME NEW g \in load.groups PROVE f[g] = Cardinality({p \in Waiting : m[p] = g})
  <2>1. f[g] = Cardinality(of(g))
    BY DEF Performance
  <2>2. {p \in Waiting : m[p] = g} = {g} \X of(g)
    <3>1. ASSUME NEW r \in Waiting, m[r] = g PROVE r \in {g} \X of(g)
      BY <3>1, AllRowsAre DEF Waiting
    <3>2. ASSUME NEW p \in of(g) PROVE <<g, p>> \in Waiting /\ m[<<g, p>>] = g
      BY AllRowsAre DEF Waiting
    <3> HIDE DEF m, of
    <3>3. \A r \in {g} \X of(g) : r \in Waiting /\ m[r] = g
      BY <3>2
    <3>. QED  BY <3>1, <3>3
  <2>3. IsFiniteSet(of(g))
    BY AllRowsAre, FS_Subset
  <2> HIDE DEF f, m, of
  <2>. QED  BY <2>1, <2>2, <2>3, Tagged
<1>3. {p \in Waiting : m[p] \in load.groups} = Waiting
  BY AllRowsAre DEF Waiting
<1>4. DOMAIN f = load.groups /\ IsFiniteSet(load.groups)
  BY AllRowsAre
<1> HIDE DEF f, m
<1>5. Total(f) = Cardinality(Waiting)
  BY <1>1, <1>2, <1>3, <1>4, CountedBy
<1>. QED  BY <1>1, <1>5 DEF f

LEMMA FollowUpSize ==
  ASSUME LoadInv, Loaded(load), NEW list \in FollowUp
  PROVE  LET busy == Total([g \in load.groups |-> Performance(g).inProgress])
         IN  Cardinality(list) = IF busy <= MaxFollowUps THEN busy ELSE MaxFollowUps
<1>1. Cardinality(list) = IF Cardinality(Waiting) <= MaxFollowUps THEN Cardinality(Waiting) ELSE MaxFollowUps
  BY BusyTotal, LongestAre DEF FollowUp
<1>. QED  BY <1>1, BusyTotal

\* What the dashboard asks the mentors to follow up, against a mentor's own list.
LEMMA FollowUpAgrees ==
  ASSUME Types, LoadInv, Loaded(load), load.quiet, NEW u,
         \A g \in load.groups : load.parts[g] = Asked(g) /\ Cardinality(ByGroup(g)) <= MaxLimit,
         NEW list \in FollowUp, NEW mine \in MentorDashboard(u).followUp
  PROVE  LET shown == {p[2].id : p \in list} IN
         /\ Cardinality(MentorFollowUps(u)) <= MaxFollowUps => shown \cap MentorRows(u) \subseteq mine
         /\ Cardinality(Waiting) <= MaxFollowUps =>
              {i \in mine : Active(part[i].enr) /\ GroupOf(i) \in load.groups} \subseteq shown
<1>1. mine \in Longest(MentorFollowUps(u))
  BY DEF MentorDashboard
<1>2. IsFiniteSet(MentorFollowUps(u))
  <2>1. MentorFollowUps(u) \in SUBSET (DOMAIN part)
    BY DEF MentorFollowUps, MentorRows
  <2>. QED  BY <2>1, Finite DEF Types
<1>3. mine \subseteq MentorFollowUps(u) /\ (Cardinality(MentorFollowUps(u)) <= MaxFollowUps => mine = MentorFollowUps(u))
  BY <1>1, <1>2, LongestAre
<1>4. list \subseteq Waiting /\ (Cardinality(Waiting) <= MaxFollowUps => list = Waiting)
  BY BusyTotal, LongestAre DEF FollowUp
<1>5. ASSUME NEW r \in Waiting PROVE part[r[2].id].status \in {"submitted", "in_progress"}
  BY <1>5, AnsweredRows, AskedRows DEF Waiting
<1>6. ASSUME NEW i \in MentorFollowUps(u), Active(part[i].enr), GroupOf(i) \in load.groups
      PROVE  \E r \in Waiting : r[2].id = i
  <2> DEFINE g == GroupOf(i)
             p == [id |-> i, opp |-> part[i].opp, status |-> part[i].status]
  <2>1. i \in ByGroup(g) /\ part[i].status \in {"submitted", "in_progress"}
    BY <1>6 DEF MentorFollowUps, MentorRows, ByGroup
  <2>2. Page(ByGroup(g), 1, MaxLimit) = ByGroup(g)
    <3>1. ByGroup(g) \subseteq Nat /\ IsFiniteSet(ByGroup(g))
      <4>1. DOMAIN part \subseteq Nat
        BY DEF Types
      <4>. QED  BY <4>1, AskedFinite
    <3>. QED  BY <1>6, <3>1, OnePage
  <2>3. p \in load.parts[g]
    BY <1>6, <2>1, <2>2 DEF Asked, Snapshot
  <2>4. <<g, p>> \in AllRows
    BY <1>6, <2>3, AllRowsAre
  <2>5. <<g, p>> \in Waiting
    BY <2>1, <2>4 DEF Waiting
  <2>. QED  BY <2>5
<1>7. \A i : i \in MentorRows(u) /\ part[i].status \in {"submitted", "in_progress"} => i \in MentorFollowUps(u)
  BY DEF MentorFollowUps
<1>. QED  BY <1>3, <1>4, <1>5, <1>6, <1>7

LEMMA DashboardHolds == Types /\ LoadInv => DashboardAddsUp
<1>. SUFFICES ASSUME Types, LoadInv, load.pc = "shown" PROVE DashboardAddsUp
  BY DEF DashboardAddsUp
<1>1. Loaded(load)
  BY DEF Loaded
<1>2. ASSUME load.quiet, load.failed = {}, NEW g \in load.groups PROVE load.parts[g] = Asked(g)
  BY <1>1, <1>2 DEF LoadInv, Typed, Current
<1>3. ASSUME \A g, h \in load.groups : NameOf[g] = NameOf[h] => g = h
      PROVE  \A o \in Trainings :
               Stats(o).assigned = Total([n \in DOMAIN HeatMap(o) |-> HeatMap(o)[n].assigned])
  BY <1>1, <1>3, HeatMapAdds
<1>4. \A g \in load.groups :
        Performance(g).completed + Performance(g).inProgress + Performance(g).notStarted
          <= Performance(g).total
  BY <1>1, PerformanceFits
<1>5. load.quiet => Cardinality(AllRows) <= load.counted
  BY <1>1, CountedCovers
<1>6. ASSUME load.quiet, load.failed = {}, \A g \in load.groups : Cardinality(ByGroup(g)) <= MaxLimit
      PROVE  \A g \in load.groups : \A o \in Trainings \cap Certifications(g) :
               Cell(o, g).completed = Breakdown(o, g).done
  BY <1>1, <1>2, <1>6, CellAgrees
<1>7. ASSUME load.quiet, load.failed = {}, \A g \in load.groups : Cardinality(ByGroup(g)) <= MaxLimit,
             NEW list \in FollowUp, NEW u \in Users, NEW mine \in MentorDashboard(u).followUp
      PROVE  LET shown == {p[2].id : p \in list} IN
             /\ Cardinality(MentorFollowUps(u)) <= MaxFollowUps => shown \cap MentorRows(u) \subseteq mine
             /\ Cardinality(Waiting) <= MaxFollowUps =>
                  {i \in mine : Active(part[i].enr) /\ GroupOf(i) \in load.groups} \subseteq shown
  BY <1>1, <1>2, <1>7, FollowUpAgrees
<1>8. \A list \in FollowUp :
        LET busy == Total([g \in load.groups |-> Performance(g).inProgress])
        IN  Cardinality(list) = IF busy <= MaxFollowUps THEN busy ELSE MaxFollowUps
  BY <1>1, FollowUpSize
<1>. QED  BY <1>3, <1>4, <1>5, <1>6, <1>7, <1>8 DEF DashboardAddsUp

-----------------------------------------------------------------------------
(* The theorems.                                                           *)

Inv == Types /\ Once(part) /\ ReaderInv /\ LoadInv

\* The tables keep their types, nobody registers twice, a reader has seen what
\* he should have of the pages he has turned while any writes come between, and
\* the dashboard holds what it has been told (the list queries, create,
\* useAdminDashboardData.ts).
THEOREM ListingsInvariant == Spec => []Inv
<1>1. Init => Inv
  <2>1. Init => ReaderInv
    BY DEF Init, ReaderInv, NothingMissed, Closed
  <2>. QED  BY <2>1, TypesInit, OnceInit, LoadInit DEF Inv
<1>2. Inv /\ [Next]_vars => Inv'
  BY TypesStep, OnceStep, ReaderStep, LoadStep DEF Inv
<1>. QED  BY <1>1, <1>2, PTL DEF Spec

\* Every item the dashboard of a team leader calls pending is in his queue, or
\* kept out of it for a reason (getTeamLeaderDashboard, findPending).
THEOREM QueueAccountedForSafe == Spec => []QueueAccountedFor
<1>1. Inv => QueueAccountedFor
  BY QueueHolds DEF Inv
<1>. QED  BY <1>1, ListingsInvariant, PTL

\* What a student is offered he can register for, and the tiles of his
\* dashboard add up to his list (findAvailable, create, getStudentDashboard).
THEOREM OfferedIsTakeableSafe == Spec => []OfferedIsTakeable
<1>1. Inv => OfferedIsTakeable
  BY OfferedHolds DEF Inv
<1>. QED  BY <1>1, ListingsInvariant, PTL

\* The numbers of the groups add up to what there is to count: no participation
\* is counted twice or left out (getOpportunityAnalytics).
THEOREM AnalyticsAddUpSafe == Spec => []AnalyticsAddUp
<1>1. Inv => AnalyticsAddUp
  BY AnalyticsHolds DEF Inv
<1>. QED  BY <1>1, ListingsInvariant, PTL

\* No rate passes a hundred percent, the certification rates because nobody
\* registers twice (dashboard.service.ts, analytics.service.ts,
\* public.controller.ts).
THEOREM RatesInRangeSafe == Spec => []RatesInRange
<1>1. Inv => RatesInRange
  BY RatesHold DEF Inv
<1>. QED  BY <1>1, ListingsInvariant, PTL

\* Who turns all the pages misses no row unless one has left meanwhile, and
\* sees none twice unless one has come (skip and take, createPaginationMeta).
THEOREM NothingMissedSafe == Spec => []NothingMissed
<1>1. Inv => NothingMissed
  BY DEF Inv, ReaderInv
<1>. QED  BY <1>1, ListingsInvariant, PTL

\* The tables the admin's dashboard puts together from many answers agree with
\* each other, and, while nobody writes, with the numbers the server computes
\* (useAdminDashboardData.ts, analytics.service.ts, dashboard.service.ts).
THEOREM DashboardAddsUpSafe == Spec => []DashboardAddsUp
<1>1. Inv => DashboardAddsUp
  BY DashboardHolds DEF Inv
<1>. QED  BY <1>1, ListingsInvariant, PTL
=============================================================================
