------------------------- MODULE OpportunitiesProofs -------------------------
(***************************************************************************)
(* For every number of requests, opportunities and enrollments: types, one *)
(* participation per student, no participation before publication, and the *)
(* publication of opportunities as readers of the table may rely on it.    *)
(***************************************************************************)
EXTENDS Opportunities, FiniteSetTheorems, TLAPS

-----------------------------------------------------------------------------
(* Types, and what a handler has read by the points it reaches.            *)

Route(me) ==
  \/ me.pc = "SaveRow" /\ me.op \in {"update", "publish", "archive"}
  \/ me.pc = "SoftRemove" /\ me.op = "remove"
  \/ me.pc \in {"DeleteRows", "InsertRows"} /\ me.op \in Lists
  \/ me.pc \in {"FindExisting", "SaveRegistration"} /\ me.op = "register"
     /\ me.enr \in Enrollments

\* The checks at the beginning, of the row as it was read.
Passed(me) ==
  /\ me.op \in {"publish", "remove"} => me.mem.state = "draft"
  /\ me.op = "archive" => me.mem.state = "published"
  /\ me.op = "register" => me.mem.state # "draft"

Working(me) ==
  /\ me.opp \in Opportunities
  /\ me.mem \in Row /\ ~me.mem.deleted
  /\ Route(me) /\ Passed(me)

Locals == \A r \in Requests : Active(r) => Working(req[r]) /\ row[req[r].opp] \in Row \ {Null}

TypeInv == TypeOK /\ Locals

\* A request begins as me; it has read the row of its opportunity.
Start(r, me) ==
  /\ req[r].pc = "idle" /\ Live(me.opp) /\ me.mem = row[me.opp]
  /\ me \in Request /\ Working(me)
  /\ me.pc \in {"SaveRow", "SoftRemove", "DeleteRows", "FindExisting"}
  /\ req' = [req EXCEPT ![r] = me]
  /\ contested' =
       IF \E q \in Requests : Active(q) /\ req[q].opp = me.opp /\ Touches(req[q].op) = Touches(me.op)
         THEN contested \cup {<<me.opp, Touches(me.op)>>} ELSE contested
  /\ UNCHANGED <<row, lists, reg, published>>

\* A request takes a step, or ends.
Advance(r) ==
  /\ Active(r)
  /\ \E next : /\ next \in {"done", "failed"} \/ Route([req[r] EXCEPT !.pc = next])
               /\ req' = [req EXCEPT ![r].pc = next]
  /\ UNCHANGED contested

LEMMA StartCases ==
  ASSUME TypeInv, NEW r \in Requests, NEW o \in Opportunities,
         \/ BeginUpdate(r, o) \/ BeginPublish(r, o) \/ BeginArchive(r, o) \/ BeginRemove(r, o)
         \/ \E l \in Lists : BeginSet(r, l, o)
         \/ \E e \in Enrollments : BeginRegister(r, o, e)
  PROVE  \E me : Start(r, me)
<1>t. req[r] \in Request /\ row[o] \in Row \cup {Null}
  BY DEF TypeInv, TypeOK
<1>1. ASSUME NEW op, NEW e \in Enrollments \cup {Null}, NEW pc, Begin(r, op, o, e, pc),
             UNCHANGED <<row, lists, reg, published>>,
             op \in {"update", "publish", "archive", "remove", "register"} \cup Lists,
             pc \in {"SaveRow", "SoftRemove", "DeleteRows", "FindExisting"},
             \/ pc = "SaveRow" /\ op \in {"update", "publish", "archive"}
             \/ pc = "SoftRemove" /\ op = "remove"
             \/ pc = "DeleteRows" /\ op \in Lists
             \/ pc = "FindExisting" /\ op = "register" /\ e \in Enrollments,
             op \in {"publish", "remove"} => row[o].state = "draft",
             op = "archive" => row[o].state = "published",
             op = "register" => row[o].state # "draft"
      PROVE  \E me : Start(r, me)
  <2> DEFINE me == [pc |-> pc, op |-> op, opp |-> o, enr |-> e, mem |-> row[o]]
  <2>1. me \in Request
    BY <1>t, <1>1 DEF Request
  <2>2. me.opp \in Opportunities /\ me.mem \in Row /\ ~me.mem.deleted
    BY <1>t, <1>1 DEF Begin, Live
  <2>3. Route(me) /\ Passed(me)
    BY <1>1 DEF Route, Passed
  <2>4. Start(r, me)
    BY <1>1, <2>1, <2>2, <2>3 DEF Start, Begin, Working
  <2>5. QED
    BY <2>4
<1>2. CASE BeginUpdate(r, o)
  BY <1>1, <1>2 DEF BeginUpdate
<1>3. CASE BeginPublish(r, o)
  BY <1>1, <1>3 DEF BeginPublish, Publishable
<1>4. CASE BeginArchive(r, o)
  BY <1>1, <1>4 DEF BeginArchive, Archivable
<1>5. CASE BeginRemove(r, o)
  BY <1>1, <1>5 DEF BeginRemove, Removable
<1>6. ASSUME NEW l \in Lists, BeginSet(r, l, o) PROVE \E me : Start(r, me)
  BY <1>1, <1>6 DEF BeginSet, Lists
<1>7. ASSUME NEW e \in Enrollments, BeginRegister(r, o, e) PROVE \E me : Start(r, me)
  BY <1>1, <1>7 DEF BeginRegister, OpenToRegistration
<1>8. QED
  BY <1>2, <1>3, <1>4, <1>5, <1>6, <1>7

LEMMA AdvanceCases ==
  ASSUME TypeInv, NEW r \in Requests,
         \/ SaveRow(r) \/ SoftRemove(r) \/ DeleteRows(r) \/ InsertRows(r)
         \/ FindExisting(r) \/ SaveRegistration(r) \/ Fail(r)
  PROVE  Advance(r)
<1>t. req[r] \in Request
  BY DEF TypeInv, TypeOK
<1>1. Active(r) => Route(req[r])
  BY DEF TypeInv, Locals, Working
<1>2. CASE SaveRow(r) \/ SoftRemove(r) \/ InsertRows(r) \/ SaveRegistration(r) \/ Fail(r)
  BY <1>2 DEF SaveRow, SoftRemove, InsertRows, SaveRegistration, Fail, Step, Advance, Active
<1>3. CASE DeleteRows(r) \/ FindExisting(r)
  BY <1>1, <1>3, <1>t DEF DeleteRows, FindExisting, Step, Advance, Active, Route, Request
<1>4. QED
  BY <1>2, <1>3

\* A request keeps what it read, and an ended one stays ended.
LEMMA AdvanceFrame ==
  ASSUME TypeInv, NEW r \in Requests, Advance(r)
  PROVE  \A q \in Requests :
           /\ req'[q] = [req[q] EXCEPT !.pc = req'[q].pc]
           /\ q # r => req'[q] = req[q]
           /\ req'[q].opp = req[q].opp /\ req'[q].mem = req[q].mem /\ req'[q].op = req[q].op
           /\ Active(q)' => Active(q)
<1> SUFFICES ASSUME NEW q \in Requests
             PROVE  /\ req'[q] = [req[q] EXCEPT !.pc = req'[q].pc]
                    /\ q # r => req'[q] = req[q]
                    /\ req'[q].opp = req[q].opp /\ req'[q].mem = req[q].mem
                    /\ req'[q].op = req[q].op
                    /\ Active(q)' => Active(q)
  OBVIOUS
<1>t. req \in [Requests -> Request] /\ req[q] \in Request
  BY DEF TypeInv, TypeOK
<1>1. PICK next : req' = [req EXCEPT ![r].pc = next]
  BY DEF Advance
<1>2. CASE q = r
  <2>1. req'[q] = [req[q] EXCEPT !.pc = next]
    BY <1>1, <1>2, <1>t
  <2>2. QED
    BY <1>2, <1>t, <2>1 DEF Request, Advance
<1>3. CASE q # r
  <2>1. req'[q] = req[q]
    BY <1>1, <1>3, <1>t
  <2>2. QED
    BY <1>3, <1>t, <2>1 DEF Request, Active
<1>4. QED
  BY <1>2, <1>3

LEMMA StartTypes ==
  ASSUME TypeInv, NEW r \in Requests, NEW me, Start(r, me)
  PROVE  TypeInv'
<1>1. Touches(me.op) \in Lists \cup {"row", "registration"}
  BY DEF Start, Touches, Request, Lists
<1>2. TypeOK'
  BY <1>1 DEF Start, TypeInv, TypeOK, Working
<1>3. Locals'
  <2> SUFFICES ASSUME NEW q \in Requests, Active(q)'
               PROVE  Working(req'[q]) /\ row[req'[q].opp] \in Row \ {Null}
    BY DEF Locals, Start
  <2>t. req \in [Requests -> Request] /\ row \in [Opportunities -> Row \cup {Null}]
    BY DEF TypeInv, TypeOK
  <2>1. CASE q = r
    BY <2>1, <2>t DEF Start, Live, Working
  <2>2. CASE q # r
    BY <2>2, <2>t DEF Start, Active, TypeInv, Locals
  <2>3. QED
    BY <2>1, <2>2
<1>4. QED
  BY <1>2, <1>3 DEF TypeInv

LEMMA SavedRow ==
  ASSUME TypeInv, NEW r \in Requests, SaveRow(r)
  PROVE  /\ Saved(r) \in Row \ {Null} /\ ~Saved(r).deleted
         /\ req[r].op = "publish" => Saved(r).state = "published"
         /\ req[r].op = "archive" => Saved(r).state = "archived"
         /\ req[r].op = "update"  => Saved(r).state = req[r].mem.state
         /\ req[r].op \in {"publish", "archive"} => Saved(r).edit = req[r].mem.edit
         /\ req[r].op \in {"update", "publish", "archive"}
<1>1. /\ req[r].mem \in Row /\ ~req[r].mem.deleted
      /\ req[r].op \in {"update", "publish", "archive"}
  BY DEF SaveRow, Step, TypeInv, Locals, Active, Working, Route
<1>2. CASE req[r].op = "publish"
  <2>1. Saved(r) = [req[r].mem EXCEPT !.state = "published"]
    BY <1>2, Zenon DEF Saved
  <2>2. QED
    BY <1>1, <1>2, <2>1, NullAssumption DEF Row, States
<1>3. CASE req[r].op = "archive"
  <2>1. Saved(r) = [req[r].mem EXCEPT !.state = "archived"]
    BY <1>3 DEF Saved
  <2>2. QED
    BY <1>1, <1>3, <2>1, NullAssumption DEF Row, States
<1>4. CASE req[r].op = "update"
  <2>1. Saved(r) = [req[r].mem EXCEPT !.edit = r]
    BY <1>4 DEF Saved
  <2>2. QED
    BY <1>1, <1>4, <2>1, NullAssumption DEF Row, States
<1>5. QED
  BY <1>1, <1>2, <1>3, <1>4

\* What the steps do to the tables.
LEMMA AdvanceTables ==
  ASSUME TypeInv, NEW r \in Requests,
         \/ SaveRow(r) \/ SoftRemove(r) \/ DeleteRows(r) \/ InsertRows(r)
         \/ FindExisting(r) \/ SaveRegistration(r) \/ Fail(r)
  PROVE  /\ row' \in [Opportunities -> Row \cup {Null}]
         /\ \A o \in Opportunities : row[o] \in Row \ {Null} => row'[o] \in Row \ {Null}
         /\ published \subseteq published' /\ published' \subseteq Opportunities
         /\ reg' \in [Requests -> Registration \cup {Null}]
         /\ lists' \in [Lists -> [Opportunities -> SUBSET Requests]]
<1>t. TypeOK /\ Active(r) /\ Working(req[r])
  BY DEF TypeInv, Locals, SaveRow, SoftRemove, DeleteRows, InsertRows, FindExisting,
         SaveRegistration, Fail, Step, Active
<1>1. CASE SaveRow(r)
  BY <1>1, <1>t, SavedRow DEF SaveRow, TypeOK, Working
<1>2. CASE SoftRemove(r)
  <2>1. /\ row' = [row EXCEPT ![req[r].opp].deleted = TRUE]
        /\ UNCHANGED <<lists, reg, published>>
    BY <1>2 DEF SoftRemove
  <2>2. row[req[r].opp] \in Row
    BY <1>t DEF TypeInv, Locals
  <2>3. [row[req[r].opp] EXCEPT !.deleted = TRUE] \in Row
    BY <2>2 DEF Row
  <2>4. QED
    BY <2>1, <2>3, <1>t, NullAssumption DEF TypeOK, Working
<1>3. CASE DeleteRows(r)
  BY <1>3, <1>t DEF DeleteRows, RowsLeft, TypeOK, Working, Lists
<1>4. CASE InsertRows(r)
  <2>1. req[r].op \in Lists
    BY <1>4, <1>t DEF InsertRows, Step, Working, Route
  <2>2. QED
    BY <2>1, <1>4, <1>t DEF InsertRows, TypeOK, Working, Lists
<1>5. CASE FindExisting(r) \/ Fail(r)
  BY <1>5, <1>t DEF FindExisting, Fail, TypeOK
<1>6. CASE SaveRegistration(r)
  <2>1. [opp |-> req[r].opp, enr |-> req[r].enr] \in Registration
    BY <1>6, <1>t DEF SaveRegistration, Step, Working, Route, Registration
  <2>2. QED
    BY <2>1, <1>6, <1>t DEF SaveRegistration, TypeOK
<1>7. QED
  BY <1>1, <1>2, <1>3, <1>4, <1>5, <1>6

LEMMA AdvanceTypes ==
  ASSUME TypeInv, NEW r \in Requests,
         \/ SaveRow(r) \/ SoftRemove(r) \/ DeleteRows(r) \/ InsertRows(r)
         \/ FindExisting(r) \/ SaveRegistration(r) \/ Fail(r)
  PROVE  TypeInv'
<1>t. /\ req[r] \in Request /\ req \in [Requests -> Request] /\ TypeOK
      /\ Working(req[r]) /\ row[req[r].opp] \in Row \ {Null} /\ Advance(r)
  BY AdvanceCases DEF TypeInv, TypeOK, Locals, Advance
<1>1. PICK next : /\ next \in {"done", "failed"} \/ Route([req[r] EXCEPT !.pc = next])
                  /\ req' = [req EXCEPT ![r].pc = next]
  BY <1>t DEF Advance
<1>2. TypeOK'
  <2>1. [req[r] EXCEPT !.pc = next] \in Request
    BY <1>1, <1>t DEF Request, Route
  <2>2. req' \in [Requests -> Request] /\ contested' = contested
    BY <1>1, <1>t, <2>1 DEF Advance
  <2>3. QED
    BY <2>2, <1>t, AdvanceTables DEF TypeOK
<1>3. Locals'
  <2> SUFFICES ASSUME NEW q \in Requests, Active(q)'
               PROVE  (Working(req[q]) /\ row[req[q].opp] \in Row \ {Null})'
    BY DEF Locals
  <2>1. CASE q = r
    <3>1. /\ req'[r] = [req[r] EXCEPT !.pc = next]
          /\ Route(req'[r])
      BY <1>1, <1>t, <2>1 DEF Active, Request
    <3>2. Working(req'[r]) /\ req'[r].opp = req[r].opp
      BY <3>1, <1>t DEF Working, Passed, Request
    <3>3. QED
      BY <2>1, <3>2, <1>t, AdvanceTables DEF Working
  <2>2. CASE q # r
    <3>1. req'[q] = req[q] /\ Active(q)
      BY <2>2, <1>1, <1>t DEF Active
    <3>2. QED
      BY <3>1, AdvanceTables DEF TypeInv, Locals, Working
  <2>3. QED
    BY <2>1, <2>2
<1>4. QED
  BY <1>2, <1>3 DEF TypeInv

LEMMA CreateTypes ==
  ASSUME TypeInv, NEW o \in Opportunities, Create(o)
  PROVE  TypeInv'
<1>1. [state |-> "draft", deleted |-> FALSE, edit |-> Null] \in Row \ {Null}
  <2>1. [state |-> "draft", deleted |-> FALSE, edit |-> Null] \in Row
    BY DEF Row, States
  <2>2. QED
    BY <2>1, NullAssumption
<1>2. TypeOK'
  BY <1>1 DEF Create, TypeInv, TypeOK
<1>3. Locals'
  <2>1. UNCHANGED req /\ row' = [row EXCEPT ![o] = [state |-> "draft", deleted |-> FALSE, edit |-> Null]]
    BY DEF Create
  <2>2. \A q \in Opportunities : row[q] \in Row \ {Null} => row'[q] \in Row \ {Null}
    BY <1>1, <2>1 DEF TypeInv, TypeOK
  <2>3. QED
    BY <2>1, <2>2 DEF TypeInv, Locals, Active, Working, Route, Passed
<1>4. QED
  BY <1>2, <1>3 DEF TypeInv

\* A step is a creation, the start of a request, or one of its steps.
LEMMA StepCases ==
  ASSUME TypeInv, Next
  PROVE  \/ \E o \in Opportunities : Create(o)
         \/ \E r \in Requests :
              \/ \E me : Start(r, me)
              \/ SaveRow(r) \/ SoftRemove(r) \/ DeleteRows(r) \/ InsertRows(r)
              \/ FindExisting(r) \/ SaveRegistration(r) \/ Fail(r)
  BY StartCases DEF Next

\* A handler works on a row that it found, at a point its operation reaches
\* (opportunities.service.ts, create of participations.service.ts).
THEOREM TypeInvariant == Spec => []TypeInv
<1>1. Init => TypeInv
  <2>1. Init => TypeOK
    BY DEF Init, TypeOK, Blank, Request
  <2>2. Init => Locals
    BY DEF Init, Locals, Active, Blank
  <2>3. QED
    BY <2>1, <2>2 DEF TypeInv
<1>2. TypeInv /\ [Next]_vars => TypeInv'
  <2> SUFFICES ASSUME TypeInv, [Next]_vars PROVE TypeInv'
    OBVIOUS
  <2>1. CASE UNCHANGED vars
    BY <2>1 DEF vars, TypeInv, TypeOK, Locals, Active, Working
  <2>2. CASE Next
    BY <2>2, StepCases, CreateTypes, StartTypes, AdvanceTypes
  <2>3. QED
    BY <2>1, <2>2
<1>3. QED
  BY <1>1, <1>2, PTL DEF Spec

\* Every behaviour keeps the types of its variables: the tables, the
\* histories and what a request holds at each point of its handler.
THEOREM TypeCorrect == Spec => []TypeOK
<1>1. TypeInv => TypeOK
  BY DEF TypeInv
<1>2. QED
  BY <1>1, TypeInvariant, PTL

-----------------------------------------------------------------------------
(* Registrations.                                                          *)

\* Two calls of one student may both find no participation; only one of them
\* gets its row in, for the unique index fails the other.
THEOREM OneParticipationSafe == Spec => []OneParticipation
<1>1. Init => OneParticipation
  BY DEF Init, OneParticipation
<1>2. TypeInv /\ OneParticipation /\ [Next]_vars => OneParticipation'
  <2> SUFFICES ASSUME TypeInv, OneParticipation, [Next]_vars PROVE OneParticipation'
    OBVIOUS
  <2>1. CASE reg' = reg
    BY <2>1 DEF OneParticipation
  <2>2. ASSUME NEW r \in Requests, SaveRegistration(r) PROVE OneParticipation'
    <3>1. /\ ~Registered(req[r].opp, req[r].enr)
          /\ reg' = [reg EXCEPT ![r] = [opp |-> req[r].opp, enr |-> req[r].enr]]
          /\ reg \in [Requests -> Registration \cup {Null}]
      BY <2>2 DEF SaveRegistration, Step, Throws, TypeInv, TypeOK
    <3>2. QED
      BY <3>1 DEF OneParticipation, Registered
  <2>3. CASE UNCHANGED vars
    BY <2>1, <2>3 DEF vars
  <2>4. CASE Next
    BY <2>1, <2>2, <2>4, StepCases
       DEF Create, Start, SaveRow, SoftRemove, DeleteRows, InsertRows, FindExisting, Fail
  <2>5. QED
    BY <2>3, <2>4
<1>3. QED
  BY <1>1, <1>2, TypeInvariant, PTL DEF Spec

\* A state other than draft is only ever written after a publication, in a
\* row or in the memory of a request that read such a row.
LeftDraft ==
  /\ \A o \in Opportunities : row[o] # Null /\ row[o].state # "draft" => o \in published
  /\ \A r \in Requests : Active(r) /\ req[r].mem.state # "draft" => req[r].opp \in published
  /\ \A r \in Requests : reg[r] # Null => reg[r].opp \in published

LEMMA StartLeftDraft ==
  ASSUME TypeInv, LeftDraft, NEW r \in Requests, NEW me, Start(r, me)
  PROVE  LeftDraft'
<1>t. req \in [Requests -> Request]
  BY DEF TypeInv, TypeOK
<1>1. me.mem.state # "draft" => me.opp \in published
  BY DEF Start, Live, LeftDraft, Working
<1>2. QED
  BY <1>1, <1>t DEF Start, LeftDraft, Active

LEMMA AdvanceLeftDraft ==
  ASSUME TypeInv, LeftDraft, NEW r \in Requests,
         \/ SaveRow(r) \/ SoftRemove(r) \/ DeleteRows(r) \/ InsertRows(r)
         \/ FindExisting(r) \/ SaveRegistration(r) \/ Fail(r)
  PROVE  LeftDraft'
<1>t. /\ req \in [Requests -> Request] /\ req[r] \in Request /\ Active(r) /\ Working(req[r])
      /\ row \in [Opportunities -> Row \cup {Null}]
      /\ reg \in [Requests -> Registration \cup {Null}]
  BY AdvanceCases DEF TypeInv, TypeOK, Locals, Advance
<1>1. \A q \in Requests : Active(q)' => /\ Active(q) /\ req'[q].mem = req[q].mem
                                        /\ req'[q].opp = req[q].opp
  BY AdvanceCases, AdvanceFrame
<1>2. published \subseteq published'
  BY AdvanceTables
<1>3. \A q \in Requests : Active(q)' /\ req'[q].mem.state # "draft" => req'[q].opp \in published'
  BY <1>1, <1>2 DEF LeftDraft
<1>4. \A o \in Opportunities : row'[o] # Null /\ row'[o].state # "draft" => o \in published'
  <2>1. CASE SaveRow(r)
    <3>1. /\ row' = [row EXCEPT ![req[r].opp] = Saved(r)]
          /\ req[r].op = "publish" => req[r].opp \in published'
      BY <2>1 DEF SaveRow
    <3>2. Saved(r).state # "draft" => req[r].opp \in published'
      BY <2>1, <3>1, <1>2, <1>t, SavedRow DEF LeftDraft, Working, Passed
    <3>3. QED
      BY <3>1, <3>2, <1>2, <1>t DEF LeftDraft
  <2>2. CASE SoftRemove(r)
    <3>1. /\ row' = [row EXCEPT ![req[r].opp].deleted = TRUE]
          /\ row[req[r].opp] \in Row \ {Null}
      BY <2>2, <1>t DEF SoftRemove, TypeInv, Locals
    <3>2. row'[req[r].opp].state = row[req[r].opp].state
      BY <3>1, <1>t DEF Working, Row
    <3>3. QED
      BY <3>1, <3>2, <1>2, <1>t DEF LeftDraft
  <2>3. CASE ~SaveRow(r) /\ ~SoftRemove(r)
    BY <2>3, <1>2
       DEF LeftDraft, DeleteRows, InsertRows, FindExisting, SaveRegistration, Fail
  <2>4. QED
    BY <2>1, <2>2, <2>3
<1>5. \A q \in Requests : reg'[q] # Null => reg'[q].opp \in published'
  <2>1. CASE SaveRegistration(r)
    <3>1. req[r].opp \in published
      BY <2>1, <1>t DEF SaveRegistration, Step, LeftDraft, Working, Route, Passed, Lists
    <3>2. QED
      BY <2>1, <3>1, <1>2, <1>t DEF SaveRegistration, LeftDraft
  <2>2. CASE ~SaveRegistration(r)
    BY <2>2, <1>2 DEF LeftDraft, SaveRow, SoftRemove, DeleteRows, InsertRows, FindExisting, Fail
  <2>3. QED
    BY <2>1, <2>2
<1>6. QED
  BY <1>3, <1>4, <1>5 DEF LeftDraft

\* Nobody has registered, or is registering, for an opportunity that was
\* never published, although a stale save may take it back to draft later.
THEOREM RegisteredAfterPublishingSafe == Spec => []RegisteredAfterPublishing
<1>1. Init => LeftDraft
  BY DEF Init, LeftDraft, Active, Blank
<1>2. TypeInv /\ LeftDraft /\ [Next]_vars => LeftDraft'
  <2> SUFFICES ASSUME TypeInv, LeftDraft, [Next]_vars PROVE LeftDraft'
    OBVIOUS
  <2>1. CASE UNCHANGED vars
    BY <2>1 DEF vars, LeftDraft, Active
  <2>2. ASSUME NEW o \in Opportunities, Create(o) PROVE LeftDraft'
    BY <2>2 DEF Create, LeftDraft, Active, TypeInv, TypeOK
  <2>3. CASE Next
    BY <2>2, <2>3, StepCases, StartLeftDraft, AdvanceLeftDraft
  <2>4. QED
    BY <2>1, <2>3
<1>3. TypeInv /\ LeftDraft => RegisteredAfterPublishing
  BY DEF TypeInv, LeftDraft, RegisteredAfterPublishing, Locals, Working, Passed
<1>4. QED
  BY <1>1, <1>2, <1>3, TypeInvariant, PTL DEF Spec

-----------------------------------------------------------------------------
(* The row of an opportunity while no two requests write it at once.       *)

OnRow(r, o) == Active(r) /\ req[r].opp = o /\ req[r].op \in {"update", "publish", "archive", "remove"}

\* One request writes the row, and what it read of it is still there.
Alone(o) ==
  \A r \in Requests : OnRow(r, o) =>
    /\ req[r].mem = row[o]
    /\ \A q \in Requests : OnRow(q, o) => q = r

\* Who registers or has registered, did so after the row had left draft.
Entered(o) ==
  \/ \E e \in Enrollments : Registered(o, e)
  \/ \E r \in Requests : Active(r) /\ req[r].opp = o /\ req[r].op = "register"

Undisturbed(o) ==
  /\ Alone(o)
  /\ row[o] # Null /\ row[o].deleted => row[o].state = "draft"
  /\ Entered(o) => row[o] # Null /\ row[o].state # "draft"

PublicationInv == \A o \in Opportunities \ ContestedRows : Undisturbed(o)

LEMMA TouchesRow ==
  ASSUME NEW op \in {"update", "publish", "archive", "remove"}
  PROVE  Touches(op) = "row"
<1>1. op \notin Lists
  BY DEF Lists
<1>2. QED
  BY <1>1 DEF Touches

LEMMA StartUndisturbed ==
  ASSUME TypeInv, NEW r \in Requests, NEW me, Start(r, me),
         NEW o \in Opportunities \ ContestedRows', Undisturbed(o)
  PROVE  Undisturbed(o)'
<1>t. /\ req \in [Requests -> Request] /\ req' = [req EXCEPT ![r] = me]
      /\ UNCHANGED <<row, reg>> /\ me.mem = row[me.opp] /\ Live(me.opp) /\ Passed(me)
      /\ ~Active(r)
  BY DEF Start, TypeInv, TypeOK, Working, Active
<1>1. \A q \in Requests \ {r} : OnRow(q, o)' <=> OnRow(q, o)
  BY <1>t DEF OnRow, Active
<1>2. OnRow(r, o)' => \A q \in Requests : ~OnRow(q, o)
  <2> SUFFICES ASSUME OnRow(r, o)', NEW q \in Requests, OnRow(q, o) PROVE FALSE
    OBVIOUS
  <2>1. /\ me.opp = o /\ Touches(me.op) = "row"
        /\ Active(q) /\ req[q].opp = o /\ Touches(req[q].op) = "row"
    BY <1>t, TouchesRow DEF OnRow
  <2>2. <<o, "row">> \in contested'
    BY <2>1 DEF Start
  <2>3. QED
    BY <2>2 DEF ContestedRows
<1>3. Alone(o)'
  BY <1>1, <1>2, <1>t DEF Undisturbed, Alone, OnRow
<1>4. Entered(o)' => Entered(o) \/ (me.opp = o /\ me.op = "register")
  BY <1>t DEF Entered, Registered, Active
<1>5. Entered(o)' => row[o] # Null /\ row[o].state # "draft"
  BY <1>4, <1>t DEF Undisturbed, Passed, Live
<1>6. QED
  BY <1>3, <1>5, <1>t DEF Undisturbed

LEMMA AdvanceUndisturbed ==
  ASSUME TypeInv, NEW r \in Requests, NEW o \in Opportunities, Undisturbed(o),
         \/ SaveRow(r) \/ SoftRemove(r) \/ DeleteRows(r) \/ InsertRows(r)
         \/ FindExisting(r) \/ SaveRegistration(r) \/ Fail(r)
  PROVE  Undisturbed(o)'
<1>t. /\ Active(r) /\ Working(req[r])
      /\ row \in [Opportunities -> Row \cup {Null}]
      /\ reg \in [Requests -> Registration \cup {Null}]
      /\ req \in [Requests -> Request]
  BY AdvanceCases DEF TypeInv, TypeOK, Locals, Advance
<1>1. \A q \in Requests : /\ Active(q)' => Active(q)
                          /\ req'[q].opp = req[q].opp /\ req'[q].mem = req[q].mem
                          /\ req'[q].op = req[q].op
  BY AdvanceCases, AdvanceFrame
<1>2. \A q \in Requests : OnRow(q, o)' => OnRow(q, o)
  BY <1>1 DEF OnRow
<1>3. Entered(o)' => Entered(o)
  <2>1. CASE SaveRegistration(r)
    <3>1. /\ reg' = [reg EXCEPT ![r] = [opp |-> req[r].opp, enr |-> req[r].enr]]
          /\ req[r].op = "register"
      BY <2>1, <1>t DEF SaveRegistration, Step, Working, Route, Lists
    <3>2. QED
      BY <3>1, <1>1, <1>t DEF Entered, Registered
  <2>2. CASE ~SaveRegistration(r)
    <3>1. reg' = reg
      BY <2>2 DEF SaveRow, SoftRemove, DeleteRows, InsertRows, FindExisting, Fail
    <3>2. QED
      BY <3>1, <1>1 DEF Entered, Registered
  <2>3. QED
    BY <2>1, <2>2
<1>4. CASE row'[o] = row[o]
  BY <1>1, <1>2, <1>3, <1>4 DEF Undisturbed, Alone
<1>5. CASE SaveRow(r) /\ req[r].opp = o
  <2>1. row'[o] = Saved(r) /\ ~Active(r)' /\ OnRow(r, o)
    BY <1>5, <1>t, SavedRow DEF SaveRow, Step, OnRow, Active, Request
  <2>2. \A q \in Requests : ~OnRow(q, o)'
    BY <1>2, <2>1 DEF Undisturbed, Alone, OnRow
  <2>3. row[o].state # "draft" => Saved(r).state # "draft"
    BY <1>5, <2>1, SavedRow DEF Undisturbed, Alone
  <2>4. QED
    BY <1>3, <1>5, <2>1, <2>2, <2>3, SavedRow DEF Undisturbed, Alone
<1>6. CASE SoftRemove(r) /\ req[r].opp = o
  <2>1. /\ row' = [row EXCEPT ![o].deleted = TRUE] /\ row[o] \in Row \ {Null}
        /\ ~Active(r)' /\ OnRow(r, o)
    BY <1>6, <1>t DEF SoftRemove, Step, OnRow, Active, Request, Working, Route, Lists,
                      TypeInv, Locals
  <2>2. row'[o].state = row[o].state
    BY <2>1, <1>t DEF Row
  <2>3. row[o].state = "draft"
    BY <1>t, <2>1, <1>6 DEF Undisturbed, Alone, Working, Passed, Route, SoftRemove, Step
  <2>4. \A q \in Requests : ~OnRow(q, o)'
    BY <1>2, <2>1 DEF Undisturbed, Alone, OnRow
  <2>5. QED
    BY <1>3, <2>2, <2>3, <2>4 DEF Undisturbed, Alone
<1>7. row'[o] = row[o] \/ ((SaveRow(r) \/ SoftRemove(r)) /\ req[r].opp = o)
  BY <1>t DEF SaveRow, SoftRemove, DeleteRows, InsertRows, FindExisting, SaveRegistration, Fail
<1>8. QED
  BY <1>4, <1>5, <1>6, <1>7

LEMMA CreateUndisturbed ==
  ASSUME TypeInv, NEW n \in Opportunities, Create(n), NEW o \in Opportunities, Undisturbed(o)
  PROVE  Undisturbed(o)'
<1>1. UNCHANGED <<req, reg>> /\ row[n] = Null /\ \A p \in Opportunities \ {n} : row'[p] = row[p]
  BY DEF Create, TypeInv, TypeOK
<1>2. CASE o = n
  <2>1. ~Entered(o) /\ \A r \in Requests : ~OnRow(r, o)
    BY <1>1, <1>2 DEF Undisturbed, TypeInv, Locals, OnRow
  <2>2. row'[o].deleted = FALSE
    BY <1>2 DEF Create, TypeInv, TypeOK
  <2>3. QED
    BY <1>1, <2>1, <2>2 DEF Undisturbed, Alone, OnRow, Active, Entered, Registered
<1>3. CASE o # n
  BY <1>1, <1>3 DEF Undisturbed, Alone, OnRow, Active, Entered, Registered
<1>4. QED
  BY <1>2, <1>3

LEMMA PublicationStep ==
  ASSUME TypeInv, PublicationInv, [Next]_vars
  PROVE  PublicationInv'
<1> SUFFICES ASSUME NEW o \in Opportunities \ ContestedRows' PROVE Undisturbed(o)'
  BY DEF PublicationInv
<1>1. CASE UNCHANGED vars
  BY <1>1 DEF vars, PublicationInv, ContestedRows, Undisturbed, Alone, OnRow, Active,
              Entered, Registered
<1>2. CASE Next
  <2>1. contested \subseteq contested'
    BY <1>2, StepCases, AdvanceCases DEF Create, Start, Advance
  <2>2. Undisturbed(o)
    BY <2>1 DEF PublicationInv, ContestedRows
  <2>3. QED
    BY <1>2, <2>2, StepCases, CreateUndisturbed, StartUndisturbed, AdvanceUndisturbed
<1>3. QED
  BY <1>1, <1>2

\* What the one request on an uncontested row has read of it is still true,
\* so that its save does not undo another one's (publish, update, remove).
THEOREM PublicationInvariant == Spec => []PublicationInv
<1>1. Init => PublicationInv
  <2> SUFFICES ASSUME Init PROVE PublicationInv
    OBVIOUS
  <2>1. /\ \A r \in Requests : ~Active(r) /\ reg[r] = Null
        /\ \A o \in Opportunities : row[o] = Null
    BY DEF Init, Active, Blank
  <2>2. \A o \in Opportunities, e \in Enrollments : ~Registered(o, e)
    BY <2>1, NullAssumption DEF Registered, Registration
  <2>3. QED
    BY <2>1, <2>2 DEF PublicationInv, Undisturbed, Alone, OnRow, Entered
<1>2. QED
  BY <1>1, PublicationStep, TypeInvariant, PTL DEF Spec

\* A deleted opportunity has no participations, unless two requests wrote its
\* row at once: a registration sees a published row, a remove sees a draft.
THEOREM DeletedUnusedSafe == Spec => []DeletedUnused
<1>1. PublicationInv => DeletedUnused
  BY DEF PublicationInv, DeletedUnused, Undisturbed, Entered
<1>2. QED
  BY <1>1, PublicationInvariant, PTL

-----------------------------------------------------------------------------
(* Opportunities implements Publication.                                   *)

LEMMA AdvancePublication ==
  ASSUME TypeInv, PublicationInv, NEW r \in Requests,
         \/ SaveRow(r) \/ SoftRemove(r) \/ DeleteRows(r) \/ InsertRows(r)
         \/ FindExisting(r) \/ SaveRegistration(r) \/ Fail(r)
  PROVE  [P!Next]_<<row, ContestedRows>>
<1> DEFINE o == req[r].opp
<1>t. /\ Active(r) /\ Working(req[r]) /\ o \in Opportunities
      /\ row \in [Opportunities -> Row \cup {Null}]
      /\ row[o] \in Row \ {Null} /\ req[r].mem \in Row
      /\ contested' = contested /\ ContestedRows' = ContestedRows
  BY AdvanceCases DEF TypeInv, TypeOK, Locals, Advance, Working, ContestedRows
<1>1. CASE SaveRow(r) /\ o \in ContestedRows
  <2>1. row' = [row EXCEPT ![o] = Saved(r)] /\ Saved(r) \in P!Rows
    BY <1>1, SavedRow DEF SaveRow, Row, States, P!Rows, P!States
  <2>2. P!Overwrite(o)
    BY <1>1, <1>t, <2>1 DEF P!Overwrite
  <2>3. QED
    BY <1>t, <2>2 DEF P!Next
<1>2. CASE SaveRow(r) /\ o \notin ContestedRows
  <2>1. /\ row' = [row EXCEPT ![o] = Saved(r)] /\ req[r].mem = row[o] /\ P!Live(o)
        /\ req[r].op \in {"update", "publish", "archive"}
    BY <1>2, <1>t, SavedRow
       DEF SaveRow, PublicationInv, Undisturbed, Alone, OnRow, Working, P!Live
  <2>2. CASE req[r].op = "update"
    <3>1. Saved(r) = [row[o] EXCEPT !.edit = r]
      BY <2>1, <2>2 DEF Saved
    <3>2. P!Edit(o, r)
      BY <2>1, <3>1, <1>t DEF P!Edit
    <3>3. QED
      BY <3>2, <1>t DEF P!Next
  <2>3. CASE req[r].op = "publish"
    <3>1. Saved(r) = [row[o] EXCEPT !.state = "published"] /\ row[o].state = "draft"
      BY <2>1, <2>3, <1>t DEF Saved, Working, Passed
    <3>2. P!Move(o, "published")
      BY <2>1, <3>1, <1>t DEF P!Move, P!Edges
    <3>3. QED
      BY <3>2, <1>t DEF P!Next, P!States
  <2>4. CASE req[r].op = "archive"
    <3>1. Saved(r) = [row[o] EXCEPT !.state = "archived"] /\ row[o].state = "published"
      BY <2>1, <2>4, <1>t DEF Saved, Working, Passed
    <3>2. P!Move(o, "archived")
      BY <2>1, <3>1, <1>t DEF P!Move, P!Edges
    <3>3. QED
      BY <3>2, <1>t DEF P!Next, P!States
  <2>5. QED
    BY <2>1, <2>2, <2>3, <2>4
<1>3. CASE SoftRemove(r)
  <2>1. /\ row' = [row EXCEPT ![o].deleted = TRUE] /\ OnRow(r, o)
        /\ req[r].op = "remove"
    BY <1>3, <1>t DEF SoftRemove, Step, OnRow, Working, Route, Lists
  <2>2. CASE o \in ContestedRows
    <3>1. [row[o] EXCEPT !.deleted = TRUE] \in P!Rows
      BY <1>t DEF Row, States, P!Rows, P!States
    <3>2. P!Overwrite(o)
      BY <2>1, <2>2, <3>1, <1>t DEF P!Overwrite
    <3>3. QED
      BY <3>2, <1>t DEF P!Next
  <2>3. CASE o \notin ContestedRows
    <3>1. req[r].mem = row[o]
      BY <2>1, <2>3, <1>t DEF PublicationInv, Undisturbed, Alone
    <3>2. P!Live(o) /\ row[o].state = "draft"
      BY <2>1, <3>1, <1>t DEF P!Live, Working, Passed
    <3>3. P!Remove(o)
      BY <2>1, <3>2, <1>t DEF P!Remove
    <3>4. QED
      BY <3>3, <1>t DEF P!Next
  <2>4. QED
    BY <2>2, <2>3
<1>4. CASE ~SaveRow(r) /\ ~SoftRemove(r)
  BY <1>4, <1>t DEF DeleteRows, InsertRows, FindExisting, SaveRegistration, Fail
<1>5. QED
  BY <1>1, <1>2, <1>3, <1>4

\* The row of an opportunity goes from draft to published to archived, keeps
\* the text of its last edit and is deleted as a draft only, until two
\* requests write it at once.
THEOREM PublicationImplemented == Spec => FollowsPublication
<1>1. Init => P!Init
  BY DEF Init, P!Init, ContestedRows
<1>2. TypeInv /\ PublicationInv /\ [Next]_vars => [P!Next]_<<row, ContestedRows>>
  <2> SUFFICES ASSUME TypeInv, PublicationInv, [Next]_vars
               PROVE  [P!Next]_<<row, ContestedRows>>
    OBVIOUS
  <2>1. CASE UNCHANGED vars
    BY <2>1 DEF vars, ContestedRows
  <2>2. ASSUME NEW o \in Opportunities, Create(o) PROVE P!Next
    <3>1. P!Create(o)
      BY <2>2 DEF Create, P!Create, ContestedRows
    <3>2. QED
      BY <3>1 DEF P!Next
  <2>3. ASSUME NEW r \in Requests, NEW me, Start(r, me)
        PROVE  [P!Next]_<<row, ContestedRows>>
    <3>1. /\ row' = row /\ me.opp \in Opportunities
          /\ contested' = contested \/ contested' = contested \cup {<<me.opp, Touches(me.op)>>}
      BY <2>3 DEF Start, Working
    <3>2. ContestedRows' = ContestedRows \/ ContestedRows' = ContestedRows \cup {me.opp}
      BY <3>1 DEF ContestedRows
    <3>3. CASE ContestedRows' = ContestedRows \cup {me.opp}
      BY <3>1, <3>3 DEF P!Next, P!Overlap
    <3>4. QED
      BY <3>1, <3>2, <3>3
  <2>4. CASE Next
    BY <2>2, <2>3, <2>4, StepCases, AdvancePublication
  <2>5. QED
    BY <2>1, <2>4
<1>3. QED
  BY <1>1, <1>2, TypeInvariant, PublicationInvariant, PTL DEF Spec, FollowsPublication, P!Spec

-----------------------------------------------------------------------------
(* Targets and rounds.                                                     *)

\* A call of setTargets or setRounds is at work on a list of an opportunity.
Setting(r, l, o) == Active(r) /\ req[r].op = l /\ req[r].opp = o

\* A list that no two calls set at once: of the calls that set it at most one
\* is active, what that one deleted is still gone when it inserts, and the
\* rows are those of one call.
SetAlone(l, o) ==
  /\ \A q, r \in Requests : Setting(q, l, o) /\ Setting(r, l, o) => q = r
  /\ \A r \in Requests :
       Setting(r, l, o) /\ req[r].pc = "InsertRows" => lists[l][o] = {}
  /\ \A a, b \in lists[l][o] : a = b

ListsInv ==
  \A l \in Lists, o \in Opportunities : <<o, l>> \notin contested => SetAlone(l, o)

LEMMA TouchesList ==
  ASSUME NEW op, NEW l \in Lists
  PROVE  Touches(op) = l <=> op = l
  BY DEF Touches, Lists

LEMMA StartSetAlone ==
  ASSUME TypeInv, NEW r \in Requests, NEW me, Start(r, me),
         NEW l \in Lists, NEW o \in Opportunities, <<o, l>> \notin contested', SetAlone(l, o)
  PROVE  SetAlone(l, o)'
<1>t. /\ req \in [Requests -> Request] /\ req' = [req EXCEPT ![r] = me]
      /\ lists' = lists /\ ~Active(r) /\ Working(me)
  BY DEF Start, TypeInv, TypeOK, Active
<1>1. \A q \in Requests \ {r} : req'[q] = req[q]
  BY <1>t
<1>2. req'[r] = me
  BY <1>t
<1>3. Setting(r, l, o)' => \A q \in Requests : ~Setting(q, l, o)
  <2> SUFFICES ASSUME Setting(r, l, o)', NEW q \in Requests, Setting(q, l, o) PROVE FALSE
    OBVIOUS
  <2>1. /\ me.opp = o /\ Touches(me.op) = l
        /\ Active(q) /\ req[q].opp = o /\ Touches(req[q].op) = l
    BY <1>2, TouchesList DEF Setting
  <2>2. <<o, l>> \in contested'
    BY <2>1 DEF Start
  <2>3. QED
    BY <2>2
<1>4. Setting(r, l, o)' => me.pc # "InsertRows"
  BY <1>2 DEF Start
<1>5. QED
  BY <1>1, <1>2, <1>3, <1>4, <1>t DEF SetAlone, Setting, Active

LEMMA AdvanceSetAlone ==
  ASSUME TypeInv, NEW r \in Requests,
         \/ SaveRow(r) \/ SoftRemove(r) \/ DeleteRows(r) \/ InsertRows(r)
         \/ FindExisting(r) \/ SaveRegistration(r) \/ Fail(r),
         NEW l \in Lists, NEW o \in Opportunities, SetAlone(l, o)
  PROVE  SetAlone(l, o)'
<1>t. /\ req \in [Requests -> Request] /\ lists \in [Lists -> [Opportunities -> SUBSET Requests]]
      /\ Advance(r) /\ Active(r) /\ Working(req[r])
  BY AdvanceCases DEF TypeInv, TypeOK, Locals, Advance
<1>1. \A q \in Requests : /\ Setting(q, l, o)' => Setting(q, l, o)
                          /\ q # r => req'[q] = req[q]
  BY <1>t, AdvanceFrame DEF Setting
<1>2. CASE DeleteRows(r)
  <2>1. req[r].op \in Lists /\ req[r].opp \in Opportunities
    BY <1>2, <1>t DEF DeleteRows, Step, Working, Route
  <2>2. lists'[l][o] = IF Setting(r, l, o) THEN {} ELSE lists[l][o]
    BY <1>2, <1>t, <2>1 DEF DeleteRows, RowsLeft, Setting
  <2>3. CASE Setting(r, l, o)
    BY <1>1, <2>2, <2>3 DEF SetAlone
  <2>4. CASE ~Setting(r, l, o)
    BY <1>1, <2>2, <2>4 DEF SetAlone
  <2>5. QED
    BY <2>3, <2>4
<1>3. CASE InsertRows(r)
  <2>1. /\ req[r].op \in Lists /\ req[r].opp \in Opportunities /\ req[r].pc = "InsertRows"
        /\ req'[r].pc = "done"
    BY <1>3, <1>t DEF InsertRows, Step, Working, Route, Request
  <2>2. lists'[l][o] = IF Setting(r, l, o) THEN lists[l][o] \cup {r} ELSE lists[l][o]
    BY <1>3, <1>t, <2>1 DEF InsertRows, Setting
  <2>3. ~Setting(r, l, o)'
    BY <2>1 DEF Setting, Active
  <2>4. CASE Setting(r, l, o)
    <3>1. lists'[l][o] = {r}
      BY <2>1, <2>2, <2>4 DEF SetAlone
    <3>2. \A q \in Requests : ~Setting(q, l, o)'
      BY <1>1, <2>3, <2>4 DEF SetAlone
    <3>3. QED
      BY <3>1, <3>2 DEF SetAlone
  <2>5. CASE ~Setting(r, l, o)
    BY <1>1, <2>2, <2>3, <2>5 DEF SetAlone
  <2>6. QED
    BY <2>4, <2>5
<1>4. CASE ~DeleteRows(r) /\ ~InsertRows(r)
  <2>1. lists' = lists
    BY <1>4 DEF SaveRow, SoftRemove, FindExisting, SaveRegistration, Fail
  <2>2. Setting(r, l, o) => req'[r].pc # "InsertRows"
    <3>t. req[r] \in Request
      BY <1>t
    <3>1. CASE Fail(r)
      BY <3>1, <1>t, <3>t DEF Fail, Request
    <3>2. CASE ~Fail(r)
      BY <3>2, <1>4, <1>t, <3>t DEF Request, SaveRow, SoftRemove, FindExisting, SaveRegistration, Step
    <3>3. QED
      BY <3>1, <3>2
  <2>3. QED
    BY <1>1, <2>1, <2>2 DEF SetAlone
<1>5. QED
  BY <1>2, <1>3, <1>4

LEMMA ListsStep ==
  ASSUME TypeInv, ListsInv, [Next]_vars
  PROVE  ListsInv'
<1> SUFFICES ASSUME NEW l \in Lists, NEW o \in Opportunities, <<o, l>> \notin contested'
             PROVE  SetAlone(l, o)'
  BY DEF ListsInv
<1>1. CASE UNCHANGED vars
  BY <1>1 DEF vars, ListsInv, SetAlone, Setting, Active
<1>2. CASE Next
  <2>1. contested \subseteq contested'
    BY <1>2, StepCases, AdvanceCases DEF Create, Start, Advance
  <2>2. SetAlone(l, o)
    BY <2>1 DEF ListsInv
  <2>3. ASSUME NEW p \in Opportunities, Create(p) PROVE SetAlone(l, o)'
    BY <2>2, <2>3 DEF Create, SetAlone, Setting, Active
  <2>4. QED
    BY <1>2, <2>2, <2>3, StepCases, StartSetAlone, AdvanceSetAlone
<1>3. QED
  BY <1>1, <1>2

\* The one call that sets a list has deleted what was there before it inserts
\* (setTargets, setRounds).
THEOREM ListsInvariant == Spec => []ListsInv
<1>1. Init => ListsInv
  BY DEF Init, ListsInv, SetAlone, Setting, Active, Blank
<1>2. TypeInv /\ ListsInv /\ [Next]_vars => ListsInv'
  BY ListsStep
<1>3. QED
  BY <1>1, <1>2, TypeInvariant, PTL DEF Spec

\* The targets or the rounds of an opportunity are the rows of one call,
\* unless two calls set them at once, wherever calls are cut short.
THEOREM OneCallsRowsSafe == Spec => []OneCallsRows
<1>1. ListsInv => OneCallsRows
  <2> SUFFICES ASSUME ListsInv, NEW l \in Lists, NEW o \in Opportunities,
                      <<o, l>> \notin contested
               PROVE  Cardinality(lists[l][o]) <= 1
    BY DEF OneCallsRows
  <2>1. \A a, b \in lists[l][o] : a = b
    BY DEF ListsInv, SetAlone
  <2>2. CASE lists[l][o] = {}
    BY <2>2, FS_EmptySet
  <2>3. CASE lists[l][o] # {}
    <3>1. PICK r : lists[l][o] = {r}
      BY <2>1, <2>3
    <3>2. Cardinality({r}) = 1
      BY FS_Singleton, Zenon
    <3>3. Cardinality(lists[l][o]) = 1
      BY <3>1, <3>2
    <3>4. QED
      BY <3>3
  <2>4. QED
    BY <2>2, <2>3
<1>2. QED
  BY <1>1, ListsInvariant, PTL

=============================================================================
