---------------------------- MODULE RosterProofs ----------------------------
(***************************************************************************)
(* Theorems about Roster, for any organisation to begin with, any files    *)
(* and any number of requests, in any order and with any failure.          *)
(***************************************************************************)
EXTENDS Roster, SequenceTheorems, FiniteSetTheorems, TLAPS

-----------------------------------------------------------------------------
(* What the rows and the requests hold.  Units keep their kind, and none   *)
(* goes away: removing one only marks it.                                  *)

Placed(row) == row \in UnitRow /\ row.up \in Parents(row.kind)
EnrollmentPlaced(row) == /\ row \in EnrollmentRow /\ row.branch \in Parents("section")
                         /\ row.section \in Parents("group") /\ row.group \in {Null} \cup Groups
EffectRow == [ok : BOOLEAN, new : BOOLEAN, branch : Ids \cup {Null}, section : Ids \cup {Null}, group : Ids \cup {Null}]

EffectPlaced(op, e) ==
  e.ok => /\ op # "team_leaders" => e.section \in Parents("group")
          /\ op = "team_leaders" => e.section = Null /\ e.group \in Groups
          /\ op \in {"groups", "mentors"} => e.group = Null
          /\ op = "students" => e.branch \in Parents("section") /\ e.group \in {Null} \cup Groups

Points == {"idle", "done", "Save", "Count", "CountMore", "Delete", "Delete row", "Register",
           "Rows", "Commit", "Refuse"}
Operations == {"none", "create", "update", "remove", "enroll", "alter", "unenroll", "register"}
RequestRow == [pc : Points, op : Operations \cup Imports, id : Ids \cup {Null},
               mem : {Null} \cup UnitRow \cup EnrollmentRow, file : Seq(FileRow), eff : Seq(EffectRow)]

\* What a request knows at the point where it stands.
Knows(me) ==
  /\ me.pc \in {"Count", "CountMore", "Delete"} =>
       /\ me.op = "remove" /\ me.id \in Ids /\ Exists(me.id) /\ me.mem \in UnitRow
       /\ me.mem.kind = unit[me.id].kind
  /\ me.pc = "CountMore" => unit[me.id].kind = "section"
  /\ me.pc = "Save" => me.op \in {"update", "alter"} /\ me.id \in Ids
  /\ me.pc = "Save" /\ me.op = "update" =>
       Exists(me.id) /\ Placed(me.mem) /\ me.mem.kind = unit[me.id].kind /\ ~me.mem.dead
  /\ me.pc = "Save" /\ me.op = "alter" => EnrollmentPlaced(me.mem) /\ enr[me.id] # Null
  /\ me.pc = "Register" => me.id \in Ids /\ enr[me.id] # Null /\ me.mem \in EnrollmentRow
  /\ me.pc = "Delete row" => me.op = "unenroll" /\ me.id \in Ids /\ enr[me.id] # Null
  /\ me.pc \in {"Rows", "Commit", "Refuse"} => me.op \in Imports
  /\ me.pc \in {"Rows", "Commit"} =>
       /\ Len(me.eff) <= Len(me.file)
       /\ \A i \in DOMAIN me.eff : EffectPlaced(me.op, me.eff[i])
  /\ me.pc = "Rows" => Len(me.eff) < Len(me.file)

\* The rows that r inserts are not there before it is done.
Unused(r) == req[r].pc # "done" => \A i \in Ids : i[1] = r => unit[i] = Null /\ enr[i] = Null

TypeInv ==
  /\ unit \in [Ids -> {Null} \cup UnitRow] /\ enr \in [Ids -> {Null} \cup EnrollmentRow]
  /\ users \subseteq Emails
  /\ req \in [Requests -> RequestRow]
  /\ \A i \in Ids : /\ unit[i] # Null => Placed(unit[i])
                    /\ enr[i] # Null => EnrollmentPlaced(enr[i])
  /\ \A r \in Requests : Knows(req[r]) /\ Unused(r)

\* Units stay, and keep their kind.
Stay == \A i \in Ids : Exists(i) => Exists(i)' /\ unit'[i].kind = unit[i].kind

LEMMA NullApart == /\ Null \notin Ids /\ Null \notin UnitRow /\ Null \notin EnrollmentRow /\ Null \notin Emails
                   /\ Null \notin HistoryRow
                   /\ \A r \in Requests : r # 0 /\ <<r, 1>> \in Ids
BY NullAssumption, RequestsAssumption, MaxRowsAssumption DEF Ids

\* What is placed stays placed.
LEMMA StayPlaced ==
  ASSUME Stay
  PROVE  /\ \A kind \in Kinds : Parents(kind) \subseteq Parents(kind)'
         /\ Groups \subseteq Groups'
         /\ \A row : (Placed(row) => Placed(row)') /\ (EnrollmentPlaced(row) => EnrollmentPlaced(row)')
         /\ \A op, e : EffectPlaced(op, e) => EffectPlaced(op, e)'
<1>1. \A kind \in Kinds : Parents(kind) \subseteq Parents(kind)'
  BY DEF Stay, Parents, Exists
<1>2. Groups \subseteq Groups'
  BY DEF Stay, Groups, Exists
<1>3. "group" \in Kinds /\ "section" \in Kinds
  BY DEF Kinds
<1>4. \A row : Placed(row) => Placed(row)'
  BY <1>1 DEF Placed, UnitRow
<1>5. \A row : EnrollmentPlaced(row) => EnrollmentPlaced(row)'
  BY <1>1, <1>2, <1>3 DEF EnrollmentPlaced
<1>6. \A op, e : EffectPlaced(op, e) => EffectPlaced(op, e)'
  BY <1>1, <1>2, <1>3 DEF EffectPlaced
<1>7. QED
  BY <1>1, <1>2, <1>4, <1>5, <1>6

LEMMA KnowsStays ==
  ASSUME Stay, NEW me, Knows(me), \A i \in Ids : enr[i] # Null => enr'[i] # Null
  PROVE  Knows(me)'
<1>1. \A i \in Ids : Exists(i) => Exists(i)' /\ unit'[i].kind = unit[i].kind
  BY DEF Stay
<1>2. /\ (me.pc \in {"Rows", "Commit"} => \A i \in DOMAIN me.eff : EffectPlaced(me.op, me.eff[i])')
      /\ (me.pc = "Save" /\ me.op = "update" => Placed(me.mem)')
      /\ (me.pc = "Save" /\ me.op = "alter" => EnrollmentPlaced(me.mem)')
  BY StayPlaced DEF Knows
<1>3. QED
  BY <1>1, <1>2 DEF Knows

\* A step of r, as far as the types go.
LEMMA StepTypes ==
  ASSUME TypeInv, NEW r \in Requests, NEW me \in RequestRow, req' = [req EXCEPT ![r] = me],
         unit' \in [Ids -> {Null} \cup UnitRow], enr' \in [Ids -> {Null} \cup EnrollmentRow],
         users' \subseteq Emails, Stay, Knows(me)', req[r].pc # "done",
         \A i \in Ids : \/ unit'[i] = unit[i]
                        \/ unit'[i] # Null /\ Placed(unit[i])' /\ (unit[i] # Null \/ (i[1] = r /\ me.pc = "done")),
         \A i \in Ids : \/ enr'[i] = enr[i]
                        \/ /\ enr'[i] # Null /\ EnrollmentPlaced(enr[i])'
                           /\ enr[i] # Null \/ (i[1] = r /\ me.pc = "done")
  PROVE  TypeInv'
<1>1. req' \in [Requests -> RequestRow] /\ req'[r] = me /\ \A q \in Requests \ {r} : req'[q] = req[q]
  BY DEF TypeInv
<1>2. ASSUME NEW i \in Ids
      PROVE  (unit'[i] # Null => Placed(unit[i])') /\ (enr'[i] # Null => EnrollmentPlaced(enr[i])')
  BY StayPlaced DEF TypeInv
<1>3. ASSUME NEW q \in Requests PROVE Knows(req[q])'
  <2>1. CASE q = r
    BY <2>1, <1>1
  <2>2. CASE q # r
    BY <2>2, <1>1, KnowsStays DEF TypeInv
  <2>3. QED
    BY <2>1, <2>2
<1>4. ASSUME NEW q \in Requests PROVE Unused(q)'
  BY <1>1 DEF TypeInv, Unused
<1>5. QED
  BY <1>1, <1>2, <1>3, <1>4 DEF TypeInv

LEMMA OnlyRequest ==
  ASSUME TypeInv, NEW r \in Requests, NEW me \in RequestRow, req' = [req EXCEPT ![r] = me],
         Knows(me), req[r].pc # "done", UNCHANGED <<unit, enr, users>>
  PROVE  TypeInv'
<1>1. Stay
  BY DEF Stay, Exists
<1>2. Knows(me)'
  BY <1>1, KnowsStays
<1>3. QED
  BY <1>1, <1>2, StepTypes DEF TypeInv

LEMMA BeginTypes ==
  ASSUME TypeInv, NEW r \in Requests, NEW me \in RequestRow, Arrives(r), Knows(me),
         req' = [req EXCEPT ![r] = me], UNCHANGED <<unit, enr, users>>
  PROVE  TypeInv'
BY OnlyRequest DEF Arrives

LEMMA EndTypes ==
  ASSUME TypeInv, NEW r \in Requests, End(r)
  PROVE  \E me \in RequestRow : /\ req' = [req EXCEPT ![r] = me]
                                /\ me.pc = "done" /\ me.op = req[r].op /\ me.file = req[r].file
<1> DEFINE me == Request("done", req[r].op, Null, Null, req[r].file)
<1>1. req[r] \in RequestRow /\ <<>> \in Seq(EffectRow)
  BY DEF TypeInv
<1>2. me \in RequestRow
  BY <1>1 DEF RequestRow, Request, Points
<1>3. QED
  BY <1>2 DEF End, Request

LEMMA GotoTypes ==
  ASSUME TypeInv, NEW r \in Requests, NEW pc \in Points, Goto(r, pc)
  PROVE  \E me \in RequestRow :
           /\ req' = [req EXCEPT ![r] = me] /\ me.pc = pc /\ me.op = req[r].op
           /\ me.id = req[r].id /\ me.mem = req[r].mem
<1> DEFINE me == [req[r] EXCEPT !.pc = pc]
<1>1. req[r] \in RequestRow /\ req \in [Requests -> RequestRow]
  BY DEF TypeInv
<1>2. me \in RequestRow /\ me.pc = pc /\ me.op = req[r].op /\ me.id = req[r].id /\ me.mem = req[r].mem
  BY <1>1 DEF RequestRow
<1>3. req' = [req EXCEPT ![r] = me]
  BY DEF Goto
<1>4. QED
  BY <1>2, <1>3

\* The steps that read, and those that count.
LEMMA ReadTypes ==
  ASSUME TypeInv, NEW r \in Requests, NEW i \in Ids,
         BeginUpdate(r, i) \/ BeginRemove(r, i) \/ BeginAlter(r, i) \/ BeginUnenroll(r, i)
           \/ BeginRegister(r, i)
  PROVE  TypeInv'
<1> USE NullApart
<1>o. /\ {"update", "remove", "alter", "unenroll", "register"} \subseteq Operations
      /\ {"Save", "Count", "Delete row", "Register"} \subseteq Points
      /\ Null \in Ids \cup {Null} /\ i \in Ids \cup {Null}
      /\ Null \in {Null} \cup UnitRow \cup EnrollmentRow
      /\ <<>> \in Seq(FileRow) /\ <<>> \in Seq(EffectRow)
  BY DEF Points, Operations
<1>t. /\ unit[i] # Null => unit[i] \in UnitRow /\ Placed(unit[i])
      /\ enr[i] # Null => enr[i] \in EnrollmentRow /\ EnrollmentPlaced(enr[i])
  BY DEF TypeInv, Placed, EnrollmentPlaced
<1>u. UNCHANGED <<unit, enr, users>>
  BY DEF BeginUpdate, BeginRemove, BeginAlter, BeginUnenroll, BeginRegister, tables
<1>1. CASE BeginUpdate(r, i)
  <2>1. PICK up \in Parents(unit[i].kind), name \in Names[unit[i].kind],
             head \in {unit[i].head} \cup Heads(unit[i].kind) :
          Begin(r, "update", i, [unit[i] EXCEPT !.up = up, !.name = name, !.head = head], "Save")
    BY <1>1 DEF BeginUpdate
  <2> DEFINE row == [unit[i] EXCEPT !.up = up, !.name = name, !.head = head]
  <2>2. unit[i] \in UnitRow /\ ~unit[i].dead /\ Exists(i)
    BY <1>1, <1>t DEF BeginUpdate, Live, Exists
  <2>3. up \in Ids \cup {Null} /\ head \in Emails \cup {Null}
    BY <2>2 DEF Parents, Heads, UnitRow, Kinds, TypeInv
  <2>4. row \in UnitRow /\ row.kind = unit[i].kind /\ ~row.dead /\ row.up = up
    BY <2>2, <2>3 DEF UnitRow
  <2>5. Placed(row)
    BY <2>1, <2>4 DEF Placed
  <2> HIDE DEF row
  <2> DEFINE me == Request("Save", "update", i, row, <<>>)
  <2>6. me \in RequestRow
    BY <1>o, <2>4 DEF Request, RequestRow
  <2>7. Knows(me)
    BY <2>2, <2>4, <2>5 DEF Knows, Request
  <2>8. QED
    BY <1>u, <2>1, <2>6, <2>7, BeginTypes DEF Begin, row
<1>2. CASE BeginRemove(r, i)
  <2> DEFINE me == Request("Count", "remove", i, unit[i], <<>>)
  <2>1. me \in RequestRow
    BY <1>2, <1>o, <1>t DEF Request, RequestRow, BeginRemove, Live, Exists
  <2>2. Knows(me)
    BY <1>2, <1>t DEF Knows, Request, BeginRemove, Live, Exists
  <2>3. QED
    BY <1>2, <1>u, <2>1, <2>2, BeginTypes DEF BeginRemove, Begin
<1>3. CASE BeginAlter(r, i)
  <2>1. PICK b \in Related(enr[i].branch, Parents("section")), s \in Related(enr[i].section, Parents("group")),
             g \in Related(enr[i].group, Groups), a \in BOOLEAN :
          Begin(r, "alter", i, [enr[i] EXCEPT !.branch = b, !.section = s, !.group = g, !.active = a], "Save")
    BY <1>3 DEF BeginAlter
  <2> DEFINE row == [enr[i] EXCEPT !.branch = b, !.section = s, !.group = g, !.active = a]
  <2>2. enr[i] \in EnrollmentRow /\ EnrollmentPlaced(enr[i])
    BY <1>3, <1>t DEF BeginAlter, Enrolled
  <2>3. /\ b \in Parents("section") /\ s \in Parents("group") /\ g \in {Null} \cup Groups
        /\ b \in Ids /\ s \in Ids /\ Groups \subseteq Ids
    BY <2>2 DEF Related, Groups, Parents, EnrollmentPlaced
  <2>4. row \in EnrollmentRow /\ row.branch = b /\ row.section = s /\ row.group = g
    BY <2>2, <2>3 DEF EnrollmentRow
  <2>5. EnrollmentPlaced(row)
    BY <2>3, <2>4 DEF EnrollmentPlaced
  <2> HIDE DEF row
  <2> DEFINE me == Request("Save", "alter", i, row, <<>>)
  <2>6. me \in RequestRow
    BY <1>o, <2>4 DEF Request, RequestRow
  <2>7. Knows(me)
    BY <2>2, <2>5 DEF Knows, Request
  <2>8. QED
    BY <1>u, <2>1, <2>6, <2>7, BeginTypes DEF Begin, row
<1>4. CASE BeginUnenroll(r, i)
  <2> DEFINE me == Request("Delete row", "unenroll", i, Null, <<>>)
  <2>1. me \in RequestRow
    BY <1>o DEF Request, RequestRow
  <2>2. Knows(me)
    BY <1>4 DEF Knows, Request, BeginUnenroll, Enrolled
  <2>3. QED
    BY <1>4, <1>u, <2>1, <2>2, BeginTypes DEF BeginUnenroll, Begin
<1>5. CASE BeginRegister(r, i)
  <2> DEFINE me == Request("Register", "register", i, enr[i], <<>>)
  <2>1. me \in RequestRow
    BY <1>5, <1>o, <1>t DEF Request, RequestRow, BeginRegister, Enrolled
  <2>2. Knows(me)
    BY <1>5, <1>t DEF Knows, Request, BeginRegister, Enrolled
  <2>3. QED
    BY <1>5, <1>u, <2>1, <2>2, BeginTypes DEF BeginRegister, Begin
<1>6. QED
  BY <1>1, <1>2, <1>3, <1>4, <1>5

LEMMA CountTypes ==
  ASSUME TypeInv, NEW r \in Requests, Count(r) \/ CountMore(r)
  PROVE  TypeInv'
<1>1. /\ req[r].pc \in {"Count", "CountMore"} /\ UNCHANGED <<unit, enr, users>>
      /\ \E pc \in Points : /\ Goto(r, pc) /\ pc \in {"CountMore", "Delete"}
                            /\ pc = "CountMore" => req[r].mem.kind = "section"
  BY DEF Count, CountMore, tables, Points
<1>2. PICK me \in RequestRow :
        /\ req' = [req EXCEPT ![r] = me] /\ me.pc \in {"CountMore", "Delete"} /\ me.op = req[r].op
        /\ me.id = req[r].id /\ me.mem = req[r].mem
        /\ me.pc = "CountMore" => req[r].mem.kind = "section"
  BY <1>1, GotoTypes
<1>3. Knows(me)
  BY <1>1, <1>2 DEF Knows, TypeInv
<1>4. QED
  BY <1>1, <1>2, <1>3, OnlyRequest
-----------------------------------------------------------------------------
(* What a step does to the rows, besides their types: a unit stays where   *)
(* it is, is put somewhere, or is removed by a request that has counted;   *)
(* and who puts a row below a unit that is counted marks the row late.     *)

UnitChanged(r, i) ==
  \/ /\ Exists(i)' = Exists(i)
     /\ Exists(i) => unit'[i].up = unit[i].up /\ unit'[i].dead = unit[i].dead
  \/ /\ Exists(i)' /\ ~unit'[i].dead
     /\ unit'[i].up # Null => /\ unit'[i].up \in Ids /\ Exists(unit'[i].up)
                              /\ i \in late' \/ ~Counted(unit'[i].up)
  \/ Exists(i)' /\ unit'[i].dead /\ i = req[r].id /\ req[r].pc = "Delete"

EnrollmentChanged(i) ==
  \/ enr'[i] = enr[i]
  \/ ~Enrolled(i)'
  \/ /\ enr'[i].section \in Ids /\ Exists(enr'[i].section)
     /\ enr'[i].group # Null => enr'[i].group \in Ids /\ Exists(enr'[i].group)
     /\ \/ i \in late'
        \/ ~Counted(enr'[i].section) /\ (enr'[i].group # Null => ~Counted(enr'[i].group))

\* What a removal has found when it has counted.
NoUnits(id) == \A j \in Ids \ late : Live(j) => unit[j].up # id
NoEnrollments(id) == \A i \in Ids \ late : Enrolled(i) => id \notin {enr[i].section, enr[i].group}

Change(r) ==
  /\ \A q \in Requests \ {r} : req'[q] = req[q]
  /\ late \subseteq late'
  /\ \A i \in Ids : UnitChanged(r, i) /\ EnrollmentChanged(i)
  /\ req'[r].pc \in {"CountMore", "Delete"} =>
       /\ UNCHANGED <<unit, enr, late>> /\ req'[r].id = req[r].id
       /\ req[r].pc = "Count" => NoUnits(req[r].id) \/ unit[req[r].id].kind = "group"
       /\ req[r].pc = "Count" /\ req'[r].pc = "Delete" =>
            NoEnrollments(req[r].id) \/ unit[req[r].id].kind = "branch"
       /\ req[r].pc # "Count" => req[r].pc = "CountMore" /\ NoEnrollments(req[r].id)

LEMMA WroteLate ==
  ASSUME NEW r, NEW rows, NEW above, Wrote(r, rows, above)
  PROVE  /\ late \subseteq late'
         /\ rows \subseteq late' \/ \A p \in above : p # Null => ~Counted(p)
BY DEF Wrote

\* A request that is through.
LEMMA Ended ==
  ASSUME TypeInv, NEW r \in Requests, End(r)
  PROVE  \E me \in RequestRow : req' = [req EXCEPT ![r] = me] /\ me.pc = "done" /\ Knows(me)'
<1>1. PICK me \in RequestRow : req' = [req EXCEPT ![r] = me] /\ me.pc = "done"
  BY EndTypes
<1>2. Knows(me)'
  BY <1>1 DEF Knows
<1>3. QED
  BY <1>1, <1>2

\* A step of r that is no count.
LEMMA OtherChange ==
  ASSUME TypeInv, NEW r \in Requests, NEW me, req' = [req EXCEPT ![r] = me],
         me.pc \notin {"CountMore", "Delete"}, late \subseteq late',
         \A i \in Ids : UnitChanged(r, i) /\ EnrollmentChanged(i)
  PROVE  Change(r)
<1>1. req'[r] = me /\ \A q \in Requests \ {r} : req'[q] = req[q]
  BY DEF TypeInv
<1>2. QED
  BY <1>1 DEF Change

LEMMA NothingChanged ==
  ASSUME UNCHANGED <<unit, enr>>, NEW r
  PROVE  Stay /\ \A i \in Ids : UnitChanged(r, i) /\ EnrollmentChanged(i)
BY DEF Stay, UnitChanged, EnrollmentChanged, Exists

LEMMA CreateChange ==
  ASSUME TypeInv, NEW r \in Requests, NEW kind \in Kinds, CreateUnit(r, kind)
  PROVE  TypeInv' /\ Change(r)
<1> USE NullApart
<1> DEFINE id == <<r, 1>>
           me == Request("done", "create", Null, Null, <<>>)
<1>1. PICK up \in Parents(kind), name \in Names[kind], head \in {Null} \cup users \cup {Null} :
        /\ unit' = [unit EXCEPT ![id] = [kind |-> kind, up |-> up, name |-> name, head |-> head, dead |-> FALSE]]
        /\ Wrote(r, {id}, {up})
  BY DEF CreateUnit, Heads
<1> DEFINE row == [kind |-> kind, up |-> up, name |-> name, head |-> head, dead |-> FALSE]
<1>2. /\ req' = [req EXCEPT ![r] = me] /\ req[r].pc = "idle" /\ id \in Ids /\ id[1] = r
      /\ UNCHANGED <<enr, users>> /\ req \in [Requests -> RequestRow]
      /\ unit \in [Ids -> {Null} \cup UnitRow] /\ users \subseteq Emails
  BY DEF CreateUnit, Begin, Arrives, TypeInv
<1>3. me \in RequestRow /\ Knows(me)' /\ me.pc = "done"
  <2>1. <<>> \in Seq(FileRow) /\ <<>> \in Seq(EffectRow) /\ "create" \in Operations /\ "done" \in Points
    BY DEF Operations, Points
  <2>2. QED
    BY <2>1 DEF Request, RequestRow, Knows
<1>4. up \in Ids \cup {Null} /\ (up # Null => Exists(up))
  BY <1>1 DEF Parents
<1>5. row \in UnitRow /\ row.up = up /\ row.kind = kind /\ ~row.dead
  BY <1>1, <1>2, <1>4 DEF UnitRow
<1>6. unit[id] = Null
  BY <1>2 DEF TypeInv, Unused
<1> HIDE DEF row, me
<1>7. /\ unit' \in [Ids -> {Null} \cup UnitRow] /\ unit'[id] = row
      /\ \A i \in Ids \ {id} : unit'[i] = unit[i]
  BY <1>1, <1>2, <1>5 DEF row
<1>8. Stay
  BY <1>6, <1>7 DEF Stay, Exists
<1>9. Placed(unit[id])'
  <2>1. up \in Parents(kind)'
    BY <1>1, <1>8, StayPlaced
  <2>2. QED
    BY <2>1, <1>5, <1>7 DEF Placed
<1>10. TypeInv'
  BY <1>2, <1>3, <1>5, <1>7, <1>8, <1>9, StepTypes DEF TypeInv
<1>11. late \subseteq late' /\ (up # Null => id \in late' \/ ~Counted(up))
  BY <1>1, WroteLate
<1>12. \A i \in Ids : UnitChanged(r, i) /\ EnrollmentChanged(i)
  BY <1>2, <1>4, <1>5, <1>7, <1>11 DEF UnitChanged, EnrollmentChanged, Exists
<1>13. QED
  BY <1>2, <1>3, <1>10, <1>11, <1>12, OtherChange

\* One unit is written that is there.
LEMMA UnitWritten ==
  ASSUME TypeInv, NEW r \in Requests, End(r), req[r].pc # "done", NEW id \in Ids, Exists(id),
         NEW row \in UnitRow, Placed(row), row.kind = unit[id].kind,
         unit' = [unit EXCEPT ![id] = row], UNCHANGED <<enr, users>>,
         late \subseteq late', UnitChanged(r, id)
  PROVE  TypeInv' /\ Change(r)
<1> USE NullApart
<1>1. /\ unit' \in [Ids -> {Null} \cup UnitRow] /\ unit'[id] = row
      /\ \A i \in Ids \ {id} : unit'[i] = unit[i]
  BY DEF TypeInv
<1>2. Stay
  BY <1>1 DEF Stay, Exists
<1>3. Placed(row)' /\ Placed(unit[id])'
  <2>1. Placed(row)'
    BY <1>2, StayPlaced
  <2>2. QED
    BY <1>1, <2>1
<1>4. PICK me \in RequestRow : req' = [req EXCEPT ![r] = me] /\ me.pc = "done" /\ Knows(me)'
  BY Ended
<1>5. TypeInv'
  <2>1. \A i \in Ids : \/ unit'[i] = unit[i]
                       \/ unit'[i] # Null /\ Placed(unit[i])' /\ unit[i] # Null
    BY <1>1, <1>3 DEF Exists
  <2>2. users' \subseteq Emails /\ enr' = enr /\ enr \in [Ids -> {Null} \cup EnrollmentRow]
    BY DEF TypeInv
  <2>3. QED
    BY <1>1, <1>2, <1>4, <2>1, <2>2, StepTypes
<1>6. \A i \in Ids : UnitChanged(r, i) /\ EnrollmentChanged(i)
  BY <1>1 DEF UnitChanged, EnrollmentChanged, Exists
<1>7. QED
  BY <1>4, <1>5, <1>6, OtherChange

LEMMA SaveUnitChange ==
  ASSUME TypeInv, NEW r \in Requests, SaveUnit(r)
  PROVE  TypeInv' /\ Change(r)
<1> USE NullApart
<1>1. /\ req[r].pc = "Save" /\ req[r].op = "update" /\ UNCHANGED <<enr, users>> /\ End(r)
      /\ unit' = [unit EXCEPT ![req[r].id] = req[r].mem] /\ Wrote(r, {req[r].id}, {req[r].mem.up})
  BY DEF SaveUnit
<1>2. PICK id \in Ids, row \in UnitRow :
        /\ id = req[r].id /\ row = req[r].mem
        /\ Exists(id) /\ Placed(row) /\ row.kind = unit[id].kind /\ ~row.dead
  BY <1>1 DEF TypeInv, Knows, Placed
<1>3. row.up # Null => row.up \in Ids /\ Exists(row.up)
  BY <1>2 DEF Placed, Parents
<1>4. late \subseteq late' /\ (row.up # Null => id \in late' \/ ~Counted(row.up))
  BY <1>1, <1>2, WroteLate
<1>5. unit' = [unit EXCEPT ![id] = row] /\ unit'[id] = row
  BY <1>1, <1>2 DEF TypeInv
<1>6. Exists(row.up) => Exists(row.up)'
  BY <1>2, <1>3, <1>5 DEF Exists, TypeInv
<1>7. UnitChanged(r, id)
  BY <1>2, <1>3, <1>4, <1>5 DEF UnitChanged, Exists
<1>8. QED
  BY <1>1, <1>2, <1>4, <1>5, <1>7, UnitWritten

LEMMA SoftRemoveChange ==
  ASSUME TypeInv, NEW r \in Requests, SoftRemove(r)
  PROVE  TypeInv' /\ Change(r)
<1> USE NullApart
<1>1. /\ req[r].pc = "Delete" /\ UNCHANGED <<enr, users>> /\ End(r)
      /\ unit' = [unit EXCEPT ![req[r].id].dead = TRUE] /\ Wrote(r, {}, {})
  BY DEF SoftRemove
<1>2. PICK id \in Ids : id = req[r].id /\ Exists(id) /\ unit[id] \in UnitRow /\ Placed(unit[id])
  BY <1>1 DEF TypeInv, Knows, Exists, Placed
<1>3. PICK row \in UnitRow :
        row = [unit[id] EXCEPT !.dead = TRUE] /\ row.dead /\ row.kind = unit[id].kind /\ row.up = unit[id].up
  <2> DEFINE removed == [unit[id] EXCEPT !.dead = TRUE]
  <2>1. removed \in UnitRow /\ removed.dead /\ removed.kind = unit[id].kind /\ removed.up = unit[id].up
    BY <1>2 DEF UnitRow
  <2>2. QED
    BY <2>1
<1>4. Placed(row)
  BY <1>2, <1>3 DEF Placed
<1>5. unit' = [unit EXCEPT ![id] = row] /\ unit'[id] = row
  BY <1>1, <1>2, <1>3 DEF TypeInv
<1>6. late \subseteq late' /\ UnitChanged(r, id)
  BY <1>1, <1>2, <1>3, <1>5, WroteLate DEF UnitChanged, Exists
<1>7. QED
  BY <1>1, <1>2, <1>3, <1>4, <1>5, <1>6, UnitWritten

\* One enrollment is written, that is there or that r inserts.
LEMMA EnrollmentWritten ==
  ASSUME TypeInv, NEW r \in Requests, NEW me \in RequestRow, req' = [req EXCEPT ![r] = me],
         me.pc = "done", req[r].pc # "done", NEW id \in Ids, enr[id] # Null \/ id[1] = r,
         NEW row \in EnrollmentRow, EnrollmentPlaced(row), enr' = [enr EXCEPT ![id] = row],
         UNCHANGED <<unit, users>>, late \subseteq late',
         row.dead \/ id \in late' \/ (~Counted(row.section) /\ (row.group # Null => ~Counted(row.group)))
  PROVE  TypeInv' /\ Change(r)
<1> USE NullApart
<1>1. /\ enr' \in [Ids -> {Null} \cup EnrollmentRow] /\ enr'[id] = row
      /\ \A i \in Ids \ {id} : enr'[i] = enr[i]
  BY DEF TypeInv
<1>2. Stay /\ \A i \in Ids : UnitChanged(r, i)
  BY DEF Stay, UnitChanged, Exists
<1>3. EnrollmentPlaced(row)' /\ EnrollmentPlaced(enr[id])'
  <2>1. EnrollmentPlaced(row)'
    BY <1>2, StayPlaced
  <2>2. QED
    BY <1>1, <2>1
<1>4. Knows(me)'
  BY DEF Knows
<1>5. TypeInv'
  <2>1. \A i \in Ids : \/ enr'[i] = enr[i]
                       \/ /\ enr'[i] # Null /\ EnrollmentPlaced(enr[i])'
                          /\ enr[i] # Null \/ (i[1] = r /\ me.pc = "done")
    BY <1>1, <1>3
  <2>2. /\ users' \subseteq Emails /\ unit' \in [Ids -> {Null} \cup UnitRow]
        /\ \A i \in Ids : unit'[i] = unit[i]
    BY DEF TypeInv
  <2>3. QED
    BY <1>1, <1>2, <1>4, <2>1, <2>2, StepTypes
<1>6. /\ row.section \in Ids /\ Exists(row.section)
      /\ row.group # Null => row.group \in Ids /\ Exists(row.group)
  BY DEF EnrollmentPlaced, Parents, Groups
<1>7. EnrollmentChanged(id)
  BY <1>1, <1>6 DEF EnrollmentChanged, Enrolled
<1>8. \A i \in Ids : EnrollmentChanged(i)
  BY <1>1, <1>7 DEF EnrollmentChanged
<1>9. QED
  BY <1>2, <1>5, <1>8, OtherChange

LEMMA EnrollChange ==
  ASSUME TypeInv, NEW r \in Requests, Enroll(r)
  PROVE  TypeInv' /\ Change(r)
<1> USE NullApart
<1> DEFINE me == Request("done", "enroll", Null, Null, <<>>)
<1>1. PICK u \in users, b \in Parents("section"), s \in Parents("group"), g \in {Null} \cup Groups :
        /\ enr' = [enr EXCEPT ![<<r, 1>>] = [user |-> u, branch |-> b, section |-> s, group |-> g,
                                             active |-> TRUE, dead |-> FALSE]]
        /\ Wrote(r, {<<r, 1>>}, {s, g})
  BY DEF Enroll
<1> DEFINE row == [user |-> u, branch |-> b, section |-> s, group |-> g, active |-> TRUE, dead |-> FALSE]
<1>2. /\ req' = [req EXCEPT ![r] = me] /\ req[r].pc = "idle" /\ <<r, 1>> \in Ids /\ <<r, 1>>[1] = r
      /\ UNCHANGED <<unit, users>> /\ users \subseteq Emails
  BY DEF Enroll, Begin, Arrives, TypeInv
<1>3. me \in RequestRow /\ me.pc = "done"
  <2>1. <<>> \in Seq(FileRow) /\ <<>> \in Seq(EffectRow) /\ "enroll" \in Operations /\ "done" \in Points
    BY DEF Operations, Points
  <2>2. QED
    BY <2>1 DEF Request, RequestRow
<1>4. b \in Ids /\ s \in Ids /\ g \in Ids \cup {Null}
  BY DEF Parents, Groups
<1>5. row \in EnrollmentRow /\ row.branch = b /\ row.section = s /\ row.group = g
  BY <1>2, <1>4 DEF EnrollmentRow
<1>6. EnrollmentPlaced(row)
  BY <1>5 DEF EnrollmentPlaced
<1>7. /\ late \subseteq late'
      /\ <<r, 1>> \in late' \/ (~Counted(s) /\ (g # Null => ~Counted(g)))
  BY <1>1, <1>4, WroteLate
<1> HIDE DEF row, me
<1>8. enr' = [enr EXCEPT ![<<r, 1>>] = row]
  BY <1>1 DEF row
<1>9. QED
  BY <1>2, <1>3, <1>5, <1>6, <1>7, <1>8, EnrollmentWritten

LEMMA SaveEnrollmentChange ==
  ASSUME TypeInv, NEW r \in Requests, SaveEnrollment(r)
  PROVE  TypeInv' /\ Change(r)
<1> USE NullApart
<1>1. /\ req[r].pc = "Save" /\ req[r].op = "alter" /\ UNCHANGED <<unit, users>> /\ End(r)
      /\ enr' = [enr EXCEPT ![req[r].id] = req[r].mem]
      /\ Wrote(r, {req[r].id}, {req[r].mem.section, req[r].mem.group})
      /\ EnrollmentsOf(req[r].mem.user) \subseteq {req[r].id}
  BY DEF SaveEnrollment
<1>2. PICK id \in Ids, row \in EnrollmentRow :
        id = req[r].id /\ row = req[r].mem /\ EnrollmentPlaced(row)
  BY <1>1 DEF TypeInv, Knows, EnrollmentPlaced
<1>3. enr[id] # Null
  BY <1>1, <1>2 DEF TypeInv, Knows
<1>4. row.section # Null
  BY <1>2 DEF EnrollmentPlaced, Parents
<1>5. /\ late \subseteq late'
      /\ id \in late' \/ (~Counted(row.section) /\ (row.group # Null => ~Counted(row.group)))
  BY <1>1, <1>2, <1>4, WroteLate
<1>6. PICK me \in RequestRow : req' = [req EXCEPT ![r] = me] /\ me.pc = "done"
  BY <1>1, EndTypes
<1>7. QED
  BY <1>1, <1>2, <1>3, <1>5, <1>6, EnrollmentWritten

LEMMA UnenrollChange ==
  ASSUME TypeInv, NEW r \in Requests, Unenroll(r)
  PROVE  TypeInv' /\ Change(r)
<1> USE NullApart
<1>1. /\ req[r].pc = "Delete row" /\ UNCHANGED <<unit, users>> /\ End(r)
      /\ enr' = [enr EXCEPT ![req[r].id].dead = TRUE] /\ Wrote(r, {}, {})
  BY DEF Unenroll
<1>2. PICK id \in Ids : id = req[r].id /\ enr[id] \in EnrollmentRow /\ EnrollmentPlaced(enr[id])
  BY <1>1 DEF TypeInv, Knows, EnrollmentPlaced
<1>3. PICK row \in EnrollmentRow :
        /\ row = [enr[id] EXCEPT !.dead = TRUE]
        /\ row.dead /\ row.branch = enr[id].branch
        /\ row.section = enr[id].section /\ row.group = enr[id].group
  <2> DEFINE removed == [enr[id] EXCEPT !.dead = TRUE]
  <2>1. /\ removed \in EnrollmentRow /\ removed.dead
        /\ removed.branch = enr[id].branch /\ removed.section = enr[id].section /\ removed.group = enr[id].group
    BY <1>2 DEF EnrollmentRow
  <2>2. QED
    BY <2>1
<1>4. EnrollmentPlaced(row) /\ enr[id] # Null
  BY <1>2, <1>3 DEF EnrollmentPlaced
<1>5. enr' = [enr EXCEPT ![id] = row]
  BY <1>1, <1>2, <1>3 DEF TypeInv
<1>6. late \subseteq late'
  BY <1>1, WroteLate
<1>7. PICK me \in RequestRow : req' = [req EXCEPT ![r] = me] /\ me.pc = "done"
  BY <1>1, EndTypes
<1>8. QED
  BY <1>1, <1>3, <1>4, <1>5, <1>6, <1>7, EnrollmentWritten

-----------------------------------------------------------------------------
(* The steps that write neither units nor enrollments.                     *)

LEMMA RowsKept ==
  ASSUME TypeInv, NEW r \in Requests, NEW me \in RequestRow, req' = [req EXCEPT ![r] = me],
         Knows(me), req[r].pc # "done", me.pc \notin {"CountMore", "Delete"},
         UNCHANGED <<unit, enr, users>>, late \subseteq late'
  PROVE  TypeInv' /\ Change(r)
BY OnlyRequest, OtherChange, NothingChanged

LEMMA ReadChange ==
  ASSUME TypeInv, NEW r \in Requests, NEW i \in Ids,
         BeginUpdate(r, i) \/ BeginRemove(r, i) \/ BeginAlter(r, i) \/ BeginUnenroll(r, i)
           \/ BeginRegister(r, i)
  PROVE  TypeInv' /\ Change(r)
<1>1. /\ UNCHANGED <<unit, enr, late>>
      /\ \E op, mem : \E pc \in {"Save", "Count", "Delete row", "Register"} : Begin(r, op, i, mem, pc)
  BY DEF BeginUpdate, BeginRemove, BeginAlter, BeginUnenroll, BeginRegister, tables
<1>2. \E me : req' = [req EXCEPT ![r] = me] /\ me.pc \notin {"CountMore", "Delete"}
  <2>1. PICK op, mem, pc : Begin(r, op, i, mem, pc) /\ pc \in {"Save", "Count", "Delete row", "Register"}
    BY <1>1
  <2> DEFINE me == Request(pc, op, i, mem, <<>>)
  <2>2. req' = [req EXCEPT ![r] = me] /\ me.pc = pc
    BY <2>1 DEF Begin, Request
  <2>3. QED
    BY <2>1, <2>2
<1>3. QED
  BY <1>1, <1>2, ReadTypes, OtherChange, NothingChanged

LEMMA CountChange ==
  ASSUME TypeInv, NEW r \in Requests, Count(r) \/ CountMore(r)
  PROVE  TypeInv' /\ Change(r)
<1>1. UNCHANGED <<unit, enr, late>>
  BY DEF Count, CountMore, tables
<1>2. /\ req'[r].id = req[r].id
      /\ \A q \in Requests \ {r} : req'[q] = req[q]
      /\ Count(r) => req'[r].pc = IF req[r].mem.kind = "section" THEN "CountMore" ELSE "Delete"
      /\ CountMore(r) => req'[r].pc = "Delete"
  <2>1. req \in [Requests -> RequestRow] /\ req[r] \in RequestRow
    BY DEF TypeInv
  <2>2. PICK pc : Goto(r, pc) /\ (Count(r) => pc = IF req[r].mem.kind = "section" THEN "CountMore" ELSE "Delete")
                              /\ (CountMore(r) => pc = "Delete")
    BY DEF Count, CountMore
  <2>3. QED
    BY <2>1, <2>2 DEF Goto, RequestRow
<1>3. CASE Count(r)
  <2>1. req[r].pc = "Count" /\ req[r].mem.kind = unit[req[r].id].kind
    BY <1>3 DEF Count, TypeInv, Knows
  <2>2. NoUnits(req[r].id) \/ req[r].mem.kind = "group"
    BY <1>3 DEF Count, UnitsBelow, NoUnits
  <2>3. req[r].mem.kind = "group" => NoEnrollments(req[r].id)
    BY <1>3 DEF Count, EnrolledIn, NoEnrollments
  <2>4. req[r].mem.kind \in Kinds
    BY <2>1 DEF TypeInv, Knows, UnitRow
  <2>5. QED
    BY <1>1, <1>2, <1>3, <2>1, <2>2, <2>3, <2>4, CountTypes, NothingChanged DEF Change, Kinds
<1>4. CASE CountMore(r)
  <2>1. req[r].pc = "CountMore" /\ NoEnrollments(req[r].id)
    BY <1>4 DEF CountMore, EnrolledIn, NoEnrollments
  <2>2. QED
    BY <1>1, <1>2, <1>4, <2>1, CountTypes, NothingChanged DEF Change
<1>5. QED
  BY <1>3, <1>4

LEMMA EndChange ==
  ASSUME TypeInv, NEW r \in Requests, Register(r) \/ Refuse(r)
  PROVE  TypeInv' /\ Change(r)
<1>1. /\ End(r) /\ req[r].pc # "done" /\ UNCHANGED <<unit, enr, users, late>>
  BY DEF Register, Refuse
<1>2. PICK me \in RequestRow : req' = [req EXCEPT ![r] = me] /\ me.pc = "done" /\ Knows(me)
  <2>1. PICK me \in RequestRow : req' = [req EXCEPT ![r] = me] /\ me.pc = "done"
    BY <1>1, EndTypes
  <2>2. QED
    BY <2>1 DEF Knows
<1>3. QED
  BY <1>1, <1>2, RowsKept

LEMMA ValidateChange ==
  ASSUME TypeInv, NEW r \in Requests, NEW op \in Imports, Validate(r, op)
  PROVE  TypeInv' /\ Change(r)
<1>1. PICK f \in Files[op], pc \in {"Rows", "Refuse"} :
        /\ req' = [req EXCEPT ![r] = Request(pc, op, Null, Null, f)]
        /\ pc = "Rows" => f # <<>>
  BY DEF Validate
<1>2. f \in Seq(FileRow) /\ (f # <<>> => 0 < Len(f)) 
  BY FilesAssumption, EmptySeq
<1>e. <<>> \in Seq(EffectRow) /\ Len(<<>>) = 0 /\ DOMAIN <<>> = {}
  BY EmptySeq
<1> DEFINE me == Request(pc, op, Null, Null, f)
<1>3. me \in RequestRow
  BY <1>1, <1>2, <1>e DEF Request, RequestRow, Points
<1>4. Knows(me)
  <2>1. me.pc = pc /\ me.op = op /\ me.file = f /\ me.eff = <<>>
    BY DEF Request
  <2> HIDE DEF me
  <2>2. pc = "Rows" => Len(me.eff) < Len(me.file) /\ Len(me.eff) <= Len(me.file)
    BY <1>1, <1>2, <1>e, <2>1
  <2>3. QED
    BY <1>1, <1>e, <2>1, <2>2 DEF Knows
<1>5. UNCHANGED <<unit, enr, users, late>> /\ req[r].pc = "idle" /\ me.pc = pc
  BY DEF Validate, Arrives, tables, Request
<1>6. QED
  BY <1>1, <1>3, <1>4, <1>5, RowsKept DEF me

LEMMA EffectFields ==
  ASSUME NEW new \in BOOLEAN, NEW s, NEW g
  PROVE  /\ Effect(new, s, g).section = s /\ Effect(new, s, g).group = g
         /\ s # Null => Effect(new, s, g).branch = unit[s].up
         /\ s \in Ids \cup {Null} /\ g \in Ids \cup {Null} /\ (s # Null => unit[s].up \in Ids)
              => Effect(new, s, g) \in EffectRow
BY DEF Effect, EffectRow

\* A section that a file may mean is in a branch.
LEMMA NamedSections ==
  ASSUME TypeInv, NEW row, NEW s \in SectionsNamed(row)
  PROVE  /\ s \in Ids /\ s \in Parents("group")
         /\ unit[s].up \in Ids /\ unit[s].up \in Parents("section")
<1>1. s \in Ids /\ Exists(s) /\ unit[s].kind = "section"
  BY DEF SectionsNamed, Live
<1>2. unit[s].up \in Parents("section")
  BY <1>1 DEF TypeInv, Placed, Exists
<1>3. QED
  BY <1>1, <1>2 DEF Parents, Above

\* The rows of a file have effects that are placed.
LEMMA EffectsPlaced ==
  ASSUME TypeInv, NEW op \in Imports \ {"students"}, NEW row, NEW e \in EffectsOf(op, row)
  PROVE  e \in EffectRow /\ EffectPlaced(op, e)
<1>1. Skipped \in EffectRow /\ EffectPlaced(op, Skipped)
  BY DEF Skipped, EffectRow, EffectPlaced
<1>2. \A s \in SectionsNamed(row) : /\ s \in Parents("group") /\ s \in Ids /\ s # Null
                                     /\ unit[s].up \in Ids /\ unit[s].up \in Parents("section")
  BY NamedSections, NullApart
<1>3. \A s : GroupsNamed(s, row.group) \subseteq Groups /\ GroupsNamed(s, row.group) \subseteq Ids
  BY DEF GroupsNamed, Live, Groups
<1>4. CASE op = "groups"
  <2>1. e = Skipped \/ \E s \in SectionsNamed(row), new \in BOOLEAN : e = Effect(new, s, Null)
    BY <1>4 DEF EffectsOf, GroupEffects
  <2>2. QED
    BY <1>1, <1>2, <1>4, <2>1, EffectFields DEF EffectPlaced
<1>5. CASE op = "team_leaders"
  <2>1. e = Skipped \/ \E s \in SectionsNamed(row) :
                       \E g \in GroupsNamed(s, row.group), new \in BOOLEAN : e = Effect(new, Null, g)
    BY <1>5 DEF EffectsOf, LeaderEffects
  <2>2. QED
    BY <1>1, <1>3, <1>5, <2>1, EffectFields DEF EffectPlaced
<1>6. CASE op = "mentors"
  <2>1. e = Skipped \/ \E s \in SectionsNamed(row), new \in BOOLEAN : e = Effect(new, s, Null)
    BY <1>6 DEF EffectsOf, MentorEffects
  <2>2. QED
    BY <1>1, <1>2, <1>6, <2>1, EffectFields DEF EffectPlaced
<1>7. QED
  BY <1>4, <1>5, <1>6 DEF Imports

LEMMA StudentEffectsPlaced ==
  ASSUME TypeInv, NEW row, NEW earlier, NEW e \in StudentEffects(row, earlier)
  PROVE  e \in EffectRow /\ EffectPlaced("students", e)
<1>1. Skipped \in EffectRow /\ EffectPlaced("students", Skipped)
  BY DEF Skipped, EffectRow, EffectPlaced
<1>2. \A s \in SectionsNamed(row) : /\ s \in Parents("group") /\ s \in Ids /\ s # Null
                                     /\ unit[s].up \in Ids /\ unit[s].up \in Parents("section")
  BY NamedSections, NullApart
<1>3. \A s, name : GroupsNamed(s, name) \subseteq Groups
  BY DEF GroupsNamed, Live, Groups
<1>4. e = Skipped \/ \E s \in SectionsNamed(row), g \in Ids \cup {Null}, new \in BOOLEAN :
        /\ e = Effect(new, s, g)
        /\ g \in IF GroupsNamed(s, row.group) = {} THEN {Null} ELSE GroupsNamed(s, row.group)
  BY DEF StudentEffects
<1>5. QED
  BY <1>1, <1>2, <1>3, <1>4, EffectFields DEF EffectPlaced

LEMMA RowsChange ==
  ASSUME TypeInv, NEW r \in Requests, Rows(r)
  PROVE  TypeInv' /\ Change(r)
<1>1. /\ req[r].pc = "Rows" /\ req[r].op # "students" /\ UNCHANGED <<unit, enr, users, late>>
      /\ req[r] \in RequestRow /\ Knows(req[r])
  BY DEF Rows, tables, TypeInv
<1>2. PICK eff : /\ DOMAIN eff = DOMAIN req[r].file /\ eff = [i \in DOMAIN req[r].file |-> eff[i]]
                 /\ \A i \in DOMAIN req[r].file : eff[i] \in EffectsOf(req[r].op, req[r].file[i])
                 /\ req' = [req EXCEPT ![r].eff = eff, ![r].pc = "Commit"]
  BY DEF Rows
<1>3. req[r].op \in Imports \ {"students"} /\ req[r].file \in Seq(FileRow)
  BY <1>1 DEF Knows, RequestRow
<1>4. \A i \in DOMAIN eff : eff[i] \in EffectRow /\ EffectPlaced(req[r].op, eff[i])
  BY <1>2, <1>3, EffectsPlaced
<1>5. eff \in Seq(EffectRow) /\ Len(eff) = Len(req[r].file)
  <2>1. Len(req[r].file) \in Nat /\ DOMAIN req[r].file = 1 .. Len(req[r].file)
    BY <1>3, LenProperties
  <2>2. eff \in [1 .. Len(req[r].file) -> EffectRow]
    BY <1>2, <1>4, <2>1
  <2>3. QED
    BY <2>1, <2>2, SeqDef
<1> DEFINE me == [req[r] EXCEPT !.eff = eff, !.pc = "Commit"]
<1>6. /\ me \in RequestRow /\ me.pc = "Commit" /\ me.op = req[r].op /\ me.eff = eff
      /\ me.file = req[r].file
  BY <1>1, <1>5 DEF RequestRow, Points
<1>7. req' = [req EXCEPT ![r] = me]
  BY <1>2 DEF TypeInv
<1> HIDE DEF me
<1>8. Knows(me)
  <2>1. Len(me.eff) <= Len(me.file)
    BY <1>3, <1>5, <1>6, LenProperties
  <2>2. QED
    BY <1>3, <1>4, <1>6, <2>1 DEF Knows
<1>9. QED
  BY <1>1, <1>6, <1>7, <1>8, RowsKept

LEMMA StudentRowChange ==
  ASSUME TypeInv, NEW r \in Requests, StudentRow(r)
  PROVE  TypeInv' /\ Change(r)
<1> DEFINE i == Len(req[r].eff) + 1
<1>1. /\ req[r].pc = "Rows" /\ req[r].op = "students" /\ UNCHANGED <<unit, enr, users, late>>
      /\ req[r] \in RequestRow /\ Knows(req[r])
  BY DEF StudentRow, tables, TypeInv
<1>2. PICK eff \in StudentEffects(req[r].file[i], Earlier(r)) :
        req' = [req EXCEPT ![r].eff = Append(@, eff),
                           ![r].pc = IF i = Len(req[r].file) THEN "Commit" ELSE "Rows"]
  BY DEF StudentRow
<1>3. eff \in EffectRow /\ EffectPlaced("students", eff)
  BY <1>2, StudentEffectsPlaced
<1>4. /\ req[r].eff \in Seq(EffectRow) /\ req[r].file \in Seq(FileRow)
      /\ Len(req[r].eff) < Len(req[r].file)
      /\ \A j \in DOMAIN req[r].eff : EffectPlaced("students", req[r].eff[j])
  BY <1>1 DEF Knows, RequestRow
<1>5. /\ Append(req[r].eff, eff) \in Seq(EffectRow) /\ Len(Append(req[r].eff, eff)) = i
      /\ i \in Nat /\ Len(req[r].file) \in Nat /\ i <= Len(req[r].file)
      /\ \A j \in DOMAIN Append(req[r].eff, eff) : EffectPlaced("students", Append(req[r].eff, eff)[j])
  BY <1>3, <1>4, AppendProperties, LenProperties
<1> DEFINE me == [req[r] EXCEPT !.eff = Append(@, eff),
                                !.pc = IF i = Len(req[r].file) THEN "Commit" ELSE "Rows"]
<1>6. /\ me \in RequestRow /\ me.op = "students" /\ me.eff = Append(req[r].eff, eff) /\ me.file = req[r].file
      /\ me.pc = IF i = Len(req[r].file) THEN "Commit" ELSE "Rows"
  BY <1>1, <1>5 DEF RequestRow, Points
<1>7. req' = [req EXCEPT ![r] = me]
  BY <1>2 DEF TypeInv
<1> HIDE DEF me
<1>8. Knows(me)
  BY <1>5, <1>6 DEF Knows, Imports
<1>9. me.pc \notin {"CountMore", "Delete"}
  BY <1>6
<1>10. QED
  BY <1>1, <1>6, <1>7, <1>8, <1>9, RowsKept

-----------------------------------------------------------------------------
(* The commit of an import, and what is left of one that fails.            *)

LEMMA LastIn ==
  ASSUME NEW n \in Nat, NEW S \in SUBSET (1 .. n), S # {}
  PROVE  \E i \in S : \A j \in S : j <= i
<1> DEFINE T == {n - i : i \in S}
<1>1. T \subseteq Nat /\ T # {}
  <2>1. \A i \in S : n - i \in Nat
    OBVIOUS
  <2>2. PICK i \in S : TRUE
    OBVIOUS
  <2>3. n - i \in T
    BY <2>2
  <2>4. QED
    BY <2>1, <2>3
<1>2. PICK x \in T : \A y \in T : <<y, x>> \notin OpToRel(<, Nat)
  BY <1>1, NatLessThanWellFounded, WFMin
<1>3. \A y \in T : ~(y < x)
  BY <1>1, <1>2 DEF OpToRel
<1>4. PICK i \in S : x = n - i
  OBVIOUS
<1>5. \A j \in S : j <= i
  BY <1>3, <1>4
<1>6. QED
  BY <1>5

\* The rows of an import that have an effect.
LEMMA DoneRows ==
  ASSUME TypeInv, NEW r \in Requests, req[r].pc = "Commit"
  PROVE  /\ req[r].op \in Imports /\ Len(req[r].eff) \in Nat /\ Done(r) \subseteq 1 .. Len(req[r].eff)
         /\ \A i \in Done(r) : /\ req[r].eff[i] \in EffectRow /\ req[r].eff[i].ok
                               /\ EffectPlaced(req[r].op, req[r].eff[i])
                               /\ req[r].file[i] \in FileRow
<1>1. req[r] \in RequestRow /\ Knows(req[r])
  BY DEF TypeInv
<1>2. /\ req[r].eff \in Seq(EffectRow) /\ req[r].file \in Seq(FileRow)
      /\ req[r].op \in Imports /\ Len(req[r].eff) <= Len(req[r].file)
      /\ \A i \in DOMAIN req[r].eff : EffectPlaced(req[r].op, req[r].eff[i])
  BY <1>1 DEF Knows, RequestRow
<1>3. /\ Len(req[r].eff) \in Nat /\ DOMAIN req[r].eff = 1 .. Len(req[r].eff)
      /\ Len(req[r].file) \in Nat
      /\ \A i \in 1 .. Len(req[r].eff) : req[r].eff[i] \in EffectRow
      /\ \A i \in 1 .. Len(req[r].file) : req[r].file[i] \in FileRow
  BY <1>2, LenProperties, ElementOfSeq
<1>4. QED
  BY <1>2, <1>3 DEF Done

LEMMA HeadFromRow ==
  ASSUME TypeInv, NEW r \in Requests, req[r].pc = "Commit", NEW id \in Ids
  PROVE  \/ HeadOf(r, id, Done(r)) = unit[id].head
         \/ \E j \in Done(r) : /\ id \in {req[r].eff[j].section, req[r].eff[j].group}
                               /\ HeadOf(r, id, Done(r)) = req[r].file[j].email
<1> DEFINE its == {i \in Done(r) : id \in {req[r].eff[i].section, req[r].eff[i].group}}
           last == CHOOSE i \in its : \A j \in its : j <= i
<1>1. CASE its = {}
  BY <1>1 DEF HeadOf
<1>2. CASE its # {}
  <2>1. last \in its
    BY <1>2, DoneRows, LastIn
  <2>2. HeadOf(r, id, Done(r)) = req[r].file[last].email
    BY <1>2 DEF HeadOf
  <2>3. QED
    BY <2>1, <2>2
<1>3. QED
  BY <1>1, <1>2

\* What the commit does to one unit, and to one enrollment.
LEMMA CommitUnit ==
  ASSUME TypeInv, NEW r \in Requests, Commit(r), NEW id \in Ids
  PROVE  \/ unit'[id] = unit[id]
         \/ /\ unit[id] # Null /\ unit'[id] \in UnitRow
            /\ unit'[id].kind = unit[id].kind /\ unit'[id].up = unit[id].up
            /\ unit'[id].dead = unit[id].dead
            /\ unit'[id].head = HeadOf(r, id, Done(r)) /\ req[r].op \in {"team_leaders", "mentors"}
         \/ /\ unit[id] = Null /\ id[1] = r /\ id[2] \in Done(r) /\ unit'[id] \in UnitRow
            /\ unit'[id].kind = "group" /\ ~unit'[id].dead /\ unit'[id].head = Null
            /\ unit'[id].up \in Parents("group")
            /\ unit'[id].up # Null => id \in late' \/ ~Counted(unit'[id].up)
<1> USE NullApart
<1>1. /\ req[r].pc = "Commit" /\ unit' = UnitsOf(r, Done(r))
      /\ Wrote(r, {<<r, i>> : i \in Done(r)},
               {p.section : p \in {req[r].eff[i] : i \in Done(r)}}
                 \cup {p.group : p \in {req[r].eff[i] : i \in Done(r)}})
  BY DEF Commit
<1>2. CASE req[r].op = "groups" /\ id[1] = r /\ id[2] \in Done(r)
  <2>1. unit'[id] = [kind |-> "group", up |-> req[r].eff[id[2]].section, name |-> req[r].file[id[2]].group,
                     head |-> Null, dead |-> FALSE]
    BY <1>1, <1>2 DEF UnitsOf
  <2>2. unit[id] = Null
    BY <1>1, <1>2 DEF TypeInv, Unused
  <2>3. /\ req[r].eff[id[2]].section \in Parents("group") /\ req[r].file[id[2]] \in FileRow
        /\ Parents("group") \subseteq Ids
    BY <1>1, <1>2, DoneRows DEF EffectPlaced, Parents
  <2>4. id \in late' \/ ~Counted(req[r].eff[id[2]].section)
    <3>1. id = <<r, id[2]>>
      BY <1>2 DEF Ids
    <3>2. id \in {<<r, i>> : i \in Done(r)}
      BY <1>2, <3>1
    <3>3. QED
      BY <1>1, <1>2, <2>3, <3>2, WroteLate
  <2>5. unit'[id] \in UnitRow
    BY <2>1, <2>3 DEF UnitRow, FileRow, Kinds
  <2>6. QED
    BY <1>2, <2>1, <2>2, <2>3, <2>4, <2>5
<1>3. CASE req[r].op \in {"team_leaders", "mentors"} /\ Exists(id)
  <2>1. unit'[id] = [unit[id] EXCEPT !.head = HeadOf(r, id, Done(r))]
    BY <1>1, <1>3 DEF UnitsOf
  <2>2. unit[id] \in UnitRow /\ unit[id] # Null
    BY <1>3 DEF TypeInv, Exists
  <2>3. HeadOf(r, id, Done(r)) \in Emails \cup {Null}
    BY <1>1, <2>2, HeadFromRow, DoneRows DEF UnitRow, FileRow
  <2>4. QED
    BY <1>3, <2>1, <2>2, <2>3 DEF UnitRow
<1>4. QED
  BY <1>1, <1>2, <1>3 DEF UnitsOf

LEMMA CommitEnrollment ==
  ASSUME TypeInv, NEW r \in Requests, Commit(r), NEW id \in Ids
  PROVE  \/ enr'[id] = enr[id]
         \/ /\ enr[id] = Null /\ id[1] = r /\ id[2] \in Done(r) /\ EnrollmentPlaced(enr'[id])
            /\ \/ id \in late'
               \/ /\ ~Counted(enr'[id].section)
                  /\ enr'[id].group # Null => ~Counted(enr'[id].group)
<1> USE NullApart
<1>1. /\ req[r].pc = "Commit" /\ enr' = EnrollmentsBy(r, Done(r))
      /\ Wrote(r, {<<r, i>> : i \in Done(r)},
               {p.section : p \in {req[r].eff[i] : i \in Done(r)}}
                 \cup {p.group : p \in {req[r].eff[i] : i \in Done(r)}})
  BY DEF Commit
<1>2. CASE req[r].op = "students" /\ id[1] = r /\ id[2] \in Done(r) /\ req[r].eff[id[2]].new
  <2>1. enr'[id] = [user |-> req[r].file[id[2]].email, branch |-> req[r].eff[id[2]].branch,
                    section |-> req[r].eff[id[2]].section, group |-> req[r].eff[id[2]].group,
                    active |-> TRUE, dead |-> FALSE]
    BY <1>1, <1>2 DEF EnrollmentsBy
  <2>2. enr[id] = Null
    BY <1>1, <1>2 DEF TypeInv, Unused
  <2>3. /\ req[r].eff[id[2]].section \in Parents("group") /\ req[r].file[id[2]] \in FileRow
        /\ Parents("group") \subseteq Ids /\ req[r].eff[id[2]].group \in {Null} \cup Groups
        /\ req[r].eff[id[2]].branch \in Parents("section") /\ Parents("section") \subseteq Ids
        /\ Groups \subseteq Ids
    BY <1>1, <1>2, DoneRows DEF EffectPlaced, Parents, Groups
  <2>4. \/ id \in late'
        \/ /\ ~Counted(req[r].eff[id[2]].section)
           /\ req[r].eff[id[2]].group # Null => ~Counted(req[r].eff[id[2]].group)
    <3>1. id = <<r, id[2]>>
      BY <1>2 DEF Ids
    <3>2. id \in {<<r, i>> : i \in Done(r)}
      BY <1>2, <3>1
    <3>3. QED
      BY <1>1, <1>2, <2>3, <3>2, WroteLate
  <2>5. EnrollmentPlaced(enr'[id])
    BY <2>1, <2>3 DEF EnrollmentPlaced, EnrollmentRow, FileRow
  <2>6. QED
    BY <1>2, <2>1, <2>2, <2>4, <2>5
<1>3. QED
  BY <1>1, <1>2 DEF EnrollmentsBy

LEMMA CommitChange ==
  ASSUME TypeInv, NEW r \in Requests, Commit(r)
  PROVE  TypeInv' /\ Change(r)
<1> USE NullApart
<1>1. /\ req[r].pc = "Commit" /\ users' = users \cup NewUsers(r) /\ End(r) /\ late \subseteq late'
      /\ unit' = UnitsOf(r, Done(r)) /\ enr' = EnrollmentsBy(r, Done(r))
  BY WroteLate DEF Commit
<1>2. PICK me \in RequestRow : req' = [req EXCEPT ![r] = me] /\ me.pc = "done" /\ Knows(me)'
  BY <1>1, Ended
<1>3. Stay
  BY CommitUnit DEF Stay, Exists
<1>4. /\ unit' \in [Ids -> {Null} \cup UnitRow] /\ enr' \in [Ids -> {Null} \cup EnrollmentRow]
      /\ users' \subseteq Emails
  <2>1. \A i \in Ids : unit'[i] \in {Null} \cup UnitRow /\ enr'[i] \in {Null} \cup EnrollmentRow
    BY CommitUnit, CommitEnrollment DEF TypeInv, EnrollmentPlaced
  <2>2. unit' = [i \in Ids |-> unit'[i]] /\ enr' = [i \in Ids |-> enr'[i]]
    BY <1>1 DEF UnitsOf, EnrollmentsBy
  <2>3. NewUsers(r) \subseteq Emails
    <3>1. Len(req[r].eff) <= Len(req[r].file) /\ req[r].eff \in Seq(EffectRow) /\ req[r].file \in Seq(FileRow)
      BY <1>1 DEF TypeInv, Knows, RequestRow
    <3>2. \A i \in DOMAIN req[r].eff : req[r].file[i] \in FileRow
      BY <3>1, LenProperties, ElementOfSeq
    <3>3. QED
      BY <3>2 DEF NewUsers, FileRow
  <2>4. QED
    BY <1>1, <2>1, <2>2, <2>3 DEF TypeInv
<1>5. ASSUME NEW i \in Ids
      PROVE  \/ unit'[i] = unit[i]
             \/ unit'[i] # Null /\ Placed(unit[i])' /\ (unit[i] # Null \/ i[1] = r)
  <2>1. CASE unit'[i] = unit[i]
    BY <2>1
  <2>2. CASE unit'[i] # unit[i]
    <3>1. PICK row \in UnitRow :
            row = unit'[i] /\ (unit[i] # Null \/ i[1] = r) /\ row.up \in Parents(row.kind)
      BY <2>2, CommitUnit DEF TypeInv, Placed
    <3>2. Placed(row)'
      BY <1>3, <3>1, StayPlaced DEF Placed
    <3>3. QED
      BY <3>1, <3>2
  <2>3. QED
    BY <2>1, <2>2
<1>6. ASSUME NEW i \in Ids
      PROVE  \/ enr'[i] = enr[i]
             \/ enr'[i] # Null /\ EnrollmentPlaced(enr[i])' /\ i[1] = r
  <2>1. CASE enr'[i] = enr[i]
    BY <2>1
  <2>2. CASE enr'[i] # enr[i]
    <3>1. PICK row \in EnrollmentRow : row = enr'[i] /\ i[1] = r /\ EnrollmentPlaced(row)
      BY <2>2, CommitEnrollment DEF EnrollmentPlaced
    <3>2. EnrollmentPlaced(row)'
      BY <1>3, <3>1, StayPlaced
    <3>3. QED
      BY <3>1, <3>2
  <2>3. QED
    BY <2>1, <2>2
<1>7. TypeInv'
  BY <1>1, <1>2, <1>3, <1>4, <1>5, <1>6, StepTypes
<1>8. ASSUME NEW i \in Ids PROVE UnitChanged(r, i) /\ EnrollmentChanged(i)
  <2>1. \A p \in Parents("group") : p \in Ids /\ Exists(p) /\ Exists(p)'
    BY <1>3 DEF Parents, Stay
  <2>2. \A p \in Groups : p \in Ids /\ Exists(p) /\ Exists(p)'
    BY <1>3 DEF Groups, Stay
  <2>3. UnitChanged(r, i)
    BY <2>1, CommitUnit DEF UnitChanged, Exists
  <2>4. EnrollmentChanged(i)
    BY <2>1, <2>2, CommitEnrollment DEF EnrollmentChanged, EnrollmentPlaced
  <2>5. QED
    BY <2>3, <2>4
<1>9. QED
  BY <1>1, <1>2, <1>7, <1>8, OtherChange

\* An import that fails leaves the units and the enrollments as they are.
LEMMA FailKeeps ==
  ASSUME TypeInv, NEW r \in Requests, Fail(r)
  PROVE  UNCHANGED <<unit, enr, users, role, late, byHand>> /\ req[r].pc # "done" /\ End(r)
<1>1. UnitsOf(r, {}) = unit
  <2>1. ASSUME NEW id \in Ids PROVE UnitsOf(r, {})[id] = unit[id]
    <3>1. HeadOf(r, id, {}) = unit[id].head
      BY DEF HeadOf
    <3>2. Exists(id) => [unit[id] EXCEPT !.head = unit[id].head] = unit[id]
      BY DEF TypeInv, Exists, UnitRow
    <3>3. QED
      BY <3>1, <3>2 DEF UnitsOf
  <2>2. UnitsOf(r, {}) = [id \in Ids |-> UnitsOf(r, {})[id]]
    BY DEF UnitsOf
  <2>3. unit = [id \in Ids |-> unit[id]]
    BY DEF TypeInv
  <2>4. QED
    BY <2>1, <2>2, <2>3
<1>2. EnrollmentsBy(r, {}) = enr
  BY DEF EnrollmentsBy, TypeInv
<1>3. QED
  BY <1>1, <1>2 DEF Fail, Kept, Active

LEMMA FailChange ==
  ASSUME TypeInv, NEW r \in Requests, Fail(r)
  PROVE  TypeInv' /\ Change(r)
<1>1. PICK me \in RequestRow : req' = [req EXCEPT ![r] = me] /\ me.pc = "done" /\ Knows(me)
  <2>1. PICK me \in RequestRow : req' = [req EXCEPT ![r] = me] /\ me.pc = "done"
    BY FailKeeps, EndTypes
  <2>2. QED
    BY <2>1 DEF Knows
<1>2. QED
  BY <1>1, FailKeeps, RowsKept

LEMMA StepChange ==
  ASSUME TypeInv, NEW r \in Requests, Start(r) \/ Continue(r)
  PROVE  TypeInv' /\ Change(r)
<1>1. CASE Start(r)
  BY <1>1, CreateChange, ReadChange, EnrollChange, ValidateChange DEF Start
<1>2. CASE Continue(r)
  BY <1>2, SaveUnitChange, CountChange, SoftRemoveChange, SaveEnrollmentChange, UnenrollChange,
     EndChange, RowsChange, StudentRowChange, CommitChange, FailChange DEF Continue
<1>3. QED
  BY <1>1, <1>2

-----------------------------------------------------------------------------
(* NoOrphans.  A removal that has counted has found the unit empty, and    *)
(* until it is through what is put there is late.                          *)

Emptied ==
  \A q \in Requests :
    /\ req[q].pc \in {"CountMore", "Delete"} => NoUnits(req[q].id) \/ unit[req[q].id].kind = "group"
    /\ req[q].pc = "Delete" => NoEnrollments(req[q].id) \/ unit[req[q].id].kind = "branch"

\* What is below a unit, by the columns that a removal counts.
NoneBelow ==
  \A i \in Ids \ late :
    /\ Live(i) /\ unit[i].up # Null => Live(unit[i].up)
    /\ Enrolled(i) => Live(enr[i].section) /\ (enr[i].group # Null => Live(enr[i].group))

OrphansInv == TypeInv /\ Emptied /\ NoneBelow

LEMMA InitInv == Init => OrphansInv
<1> SUFFICES ASSUME Init PROVE OrphansInv
  OBVIOUS
<1> USE NullApart
<1>1. PICK o \in Organisations :
        /\ unit = [i \in Ids |-> IF i \in DOMAIN o.unit THEN o.unit[i] ELSE Null]
        /\ enr = [i \in Ids |-> IF i \in DOMAIN o.enr THEN o.enr[i] ELSE Null]
        /\ users = o.users
  BY DEF Init
<1>2. req = [r \in Requests |-> Blank]
  BY DEF Init
<1>3. DOMAIN o.unit \subseteq Ids /\ DOMAIN o.enr \subseteq Ids /\ users \subseteq Emails
  BY <1>1, OrganisationsAssumption DEF Ids
<1>p. ASSUME NEW p \in DOMAIN o.unit
      PROVE  p \in Ids /\ unit[p] = o.unit[p] /\ unit[p] \in UnitRow /\ ~unit[p].dead
  <2>1. p \in Ids /\ unit[p] = o.unit[p]
    BY <1>1, <1>3
  <2>2. o.unit[p] \in UnitRow /\ ~o.unit[p].dead
    BY OrganisationsAssumption
  <2>3. QED
    BY <2>1, <2>2
<1>4. ASSUME NEW i \in Ids, unit[i] # Null
      PROVE  /\ i \in DOMAIN o.unit /\ unit[i] \in UnitRow /\ ~unit[i].dead /\ Placed(unit[i])
             /\ unit[i].up # Null => Live(unit[i].up)
  <2>1. i \in DOMAIN o.unit /\ unit[i] = o.unit[i]
    BY <1>1, <1>4
  <2>2. /\ unit[i] \in UnitRow /\ ~unit[i].dead
        /\ IF unit[i].kind = "branch" THEN unit[i].up = Null
           ELSE unit[i].up \in DOMAIN o.unit /\ o.unit[unit[i].up].kind = Above(unit[i].kind)
    BY <2>1, OrganisationsAssumption
  <2>3. \A p \in DOMAIN o.unit : p \in Ids /\ unit[p] = o.unit[p] /\ Live(p)
    BY <1>p DEF Live, Exists
  <2>4. Placed(unit[i])
    BY <2>2, <2>3 DEF Placed, Parents, Live
  <2>5. QED
    BY <2>1, <2>2, <2>3, <2>4
<1>5. ASSUME NEW i \in Ids, enr[i] # Null
      PROVE  /\ i \in DOMAIN o.enr /\ EnrollmentPlaced(enr[i])
             /\ Live(enr[i].section) /\ (enr[i].group # Null => Live(enr[i].group))
  <2>1. i \in DOMAIN o.enr /\ enr[i] = o.enr[i]
    BY <1>1, <1>5
  <2>2. /\ enr[i] \in EnrollmentRow
        /\ enr[i].branch \in DOMAIN o.unit /\ o.unit[enr[i].branch].kind = "branch"
        /\ enr[i].section \in DOMAIN o.unit /\ o.unit[enr[i].section].kind = "section"
        /\ enr[i].group # Null => enr[i].group \in DOMAIN o.unit /\ o.unit[enr[i].group].kind = "group"
    BY <2>1, OrganisationsAssumption
  <2>3. \A p \in DOMAIN o.unit : p \in Ids /\ unit[p] = o.unit[p] /\ Live(p)
    BY <1>p DEF Live, Exists
  <2>4. EnrollmentPlaced(enr[i])
    BY <2>2, <2>3 DEF EnrollmentPlaced, Parents, Groups, Above, Live
  <2>5. QED
    BY <2>1, <2>2, <2>3, <2>4
<1>6. unit \in [Ids -> {Null} \cup UnitRow] /\ enr \in [Ids -> {Null} \cup EnrollmentRow]
  BY <1>1, <1>4, <1>5 DEF EnrollmentPlaced
<1>7. Blank \in RequestRow /\ Blank.pc = "idle"
  <2>1. <<>> \in Seq(FileRow) /\ <<>> \in Seq(EffectRow)
    BY EmptySeq
  <2>2. QED
    BY <2>1 DEF Blank, Request, RequestRow, Points, Operations
<1>8. ASSUME NEW r \in Requests PROVE Knows(req[r]) /\ Unused(r)
  <2>1. Knows(req[r])
    BY <1>2, <1>7 DEF Knows
  <2>2. \A i \in Ids : i[1] = r => i \notin DOMAIN o.unit /\ i \notin DOMAIN o.enr
    <3>1. r # 0 /\ \A i \in DOMAIN o.unit \cup DOMAIN o.enr : i[1] = 0
      BY OrganisationsAssumption
    <3>2. QED
      BY <3>1
  <2>3. QED
    BY <1>1, <2>1, <2>2 DEF Unused
<1>9. TypeInv
  BY <1>2, <1>3, <1>4, <1>5, <1>6, <1>7, <1>8 DEF TypeInv
<1>10. Emptied
  BY <1>2, <1>7 DEF Emptied
<1>11. NoneBelow
  BY <1>4, <1>5 DEF NoneBelow, Live, Exists, Enrolled
<1>12. QED
  BY <1>9, <1>10, <1>11 DEF OrphansInv

\* Who removes a unit has counted it.
LEMMA Removing ==
  ASSUME TypeInv, NEW q \in Requests, req[q].pc \in {"CountMore", "Delete"}
  PROVE  Counted(req[q].id) /\ req[q].id \in Ids /\ Exists(req[q].id)
BY DEF TypeInv, Knows, Counted

\* A unit that is live, and not emptied by the request, is live after its step.
LEMMA LiveStays ==
  ASSUME TypeInv, NEW r \in Requests, Change(r), NEW p \in Ids, Live(p),
         ~(p = req[r].id /\ req[r].pc = "Delete")
  PROVE  Live(p)'
BY DEF Change, UnitChanged, Live, Exists

LEMMA OrphansStep ==
  ASSUME OrphansInv, NEW r \in Requests, TypeInv', Change(r)
  PROVE  OrphansInv'
<1> USE NullApart
<1>0. TypeInv /\ Emptied /\ NoneBelow /\ late \subseteq late'
  BY DEF OrphansInv, Change
<1>1. \A p \in Ids : Exists(p) /\ ~Counted(p) => Live(p)'
  <2>1. \A p \in Ids : Exists(p) /\ ~Counted(p) => Live(p)
    BY DEF Counted, Live
  <2>2. QED
    BY <1>0, <2>1, LiveStays, Removing
<1>2. ASSUME NEW i \in Ids \ late', Live(i)', unit'[i].up # Null
      PROVE  Live(unit[i].up)'
  <2>1. CASE Live(i) /\ unit'[i].up = unit[i].up
    <3>1. PICK p \in Ids : p = unit[i].up /\ Live(p) /\ unit[p].kind # "group"
      <4>1. Live(unit[i].up)
        BY <1>0, <1>2, <2>1 DEF NoneBelow
      <4>2. unit[i].up \in Ids /\ unit[unit[i].up].kind # "group"
        BY <1>0, <1>2, <2>1 DEF TypeInv, Live, Exists, Placed, Parents, Above
      <4>3. QED
        BY <4>1, <4>2
    <3>2. ~(p = req[r].id /\ req[r].pc = "Delete")
      BY <1>0, <1>2, <2>1, <3>1 DEF Emptied, NoUnits
    <3>3. Live(p)'
      BY <1>0, <3>1, <3>2, LiveStays
    <3>4. QED
      BY <2>1, <3>1, <3>3 DEF Live, Exists
  <2>2. CASE ~(Live(i) /\ unit'[i].up = unit[i].up)
    <3>1. PICK p \in Ids : p = unit'[i].up /\ Exists(p) /\ ~Counted(p)
      <4>1. UnitChanged(r, i)
        BY DEF Change
      <4>2. unit'[i].up \in Ids /\ Exists(unit'[i].up) /\ ~Counted(unit'[i].up)
        BY <1>2, <2>2, <4>1 DEF UnitChanged, Live, Exists
      <4>3. QED
        BY <1>2, <4>2
    <3>2. QED
      BY <1>1, <3>1 DEF Live, Exists
  <2>3. QED
    BY <2>1, <2>2
<1>3. ASSUME NEW i \in Ids \ late', Enrolled(i)'
      PROVE  Live(enr[i].section)' /\ (enr'[i].group # Null => Live(enr[i].group)')
  <2>1. CASE enr'[i] = enr[i]
    <3>1. /\ Live(enr[i].section) /\ (enr[i].group # Null => Live(enr[i].group)) /\ Enrolled(i)
      BY <1>0, <1>3, <2>1 DEF NoneBelow, Enrolled
    <3>2. /\ enr[i].section \in Ids /\ unit[enr[i].section].kind = "section"
          /\ enr[i].group # Null => enr[i].group \in Ids /\ unit[enr[i].group].kind = "group"
      BY <1>0, <3>1 DEF TypeInv, Enrolled, EnrollmentPlaced, Parents, Groups, Above
    <3>3. ASSUME NEW p \in Ids, Live(p), p \in {enr[i].section, enr[i].group} PROVE Live(p)'
      <4>1. ~(p = req[r].id /\ req[r].pc = "Delete")
        BY <1>0, <1>3, <3>1, <3>2, <3>3 DEF Emptied, NoEnrollments
      <4>2. QED
        BY <1>0, <3>3, <4>1, LiveStays
    <3>4. PICK s \in Ids : s = enr[i].section /\ Live(s)'
      BY <3>1, <3>2, <3>3
    <3>5. enr[i].group # Null => \E g \in Ids : g = enr[i].group /\ Live(g)'
      BY <3>1, <3>2, <3>3
    <3>6. QED
      BY <2>1, <3>4, <3>5 DEF Live, Exists
  <2>2. CASE enr'[i] # enr[i]
    <3>1. /\ enr'[i].section \in Ids /\ Exists(enr'[i].section) /\ ~Counted(enr'[i].section)
          /\ enr'[i].group # Null => enr'[i].group \in Ids /\ Exists(enr'[i].group) /\ ~Counted(enr'[i].group)
      BY <1>3, <2>2 DEF Change, EnrollmentChanged
    <3>2. PICK s \in Ids : s = enr'[i].section /\ Live(s)'
      BY <1>1, <3>1
    <3>3. enr'[i].group # Null => \E g \in Ids : g = enr'[i].group /\ Live(g)'
      BY <1>1, <3>1
    <3>4. QED
      BY <3>2, <3>3 DEF Live, Exists
  <2>3. QED
    BY <2>1, <2>2
<1>4. NoneBelow'
  BY <1>2, <1>3 DEF NoneBelow
<1>5. ASSUME NEW q \in Requests \ {r}, req[q].pc \in {"CountMore", "Delete"}
      PROVE  /\ unit'[req[q].id].kind = unit[req[q].id].kind
             /\ NoUnits(req[q].id) => \A j \in Ids \ late' : Live(j)' => unit'[j].up # req[q].id
             /\ NoEnrollments(req[q].id) =>
                  \A i \in Ids \ late' : Enrolled(i)' => req[q].id \notin {enr'[i].section, enr'[i].group}
  <2>1. PICK id \in Ids : id = req[q].id /\ Counted(id) /\ Exists(id)
    BY <1>0, <1>5, Removing
  <2>2. req'[q] = req[q]
    BY DEF Change
  <2>3. unit'[id].kind = unit[id].kind
    BY <1>0, <1>5, <2>1, <2>2 DEF TypeInv, Knows
  <2>4. ASSUME NoUnits(id), NEW j \in Ids \ late', Live(j)' PROVE unit'[j].up # id
    BY <1>0, <2>1, <2>4 DEF Change, UnitChanged, NoUnits, Live, Exists
  <2>5. ASSUME NoEnrollments(id), NEW i \in Ids \ late', Enrolled(i)'
        PROVE  id \notin {enr'[i].section, enr'[i].group}
    BY <1>0, <2>1, <2>5 DEF Change, EnrollmentChanged, NoEnrollments, Enrolled
  <2>6. QED
    BY <2>1, <2>3, <2>4, <2>5
<1>6. Emptied'
  <2>1. ASSUME NEW q \in Requests \ {r}
        PROVE  /\ req'[q].pc \in {"CountMore", "Delete"} =>
                    NoUnits(req[q].id)' \/ unit'[req'[q].id].kind = "group"
               /\ req'[q].pc = "Delete" => NoEnrollments(req[q].id)' \/ unit'[req'[q].id].kind = "branch"
    <3>1. req'[q] = req[q]
      BY DEF Change
    <3>2. QED
      BY <1>0, <1>5, <3>1 DEF Emptied, NoUnits, NoEnrollments
  <2>2. /\ req'[r].pc \in {"CountMore", "Delete"} =>
             NoUnits(req[r].id)' \/ unit'[req'[r].id].kind = "group"
        /\ req'[r].pc = "Delete" => NoEnrollments(req[r].id)' \/ unit'[req'[r].id].kind = "branch"
    <3> SUFFICES ASSUME req'[r].pc \in {"CountMore", "Delete"}
                 PROVE  /\ NoUnits(req[r].id)' \/ unit'[req'[r].id].kind = "group"
                        /\ req'[r].pc = "Delete" =>
                             NoEnrollments(req[r].id)' \/ unit'[req'[r].id].kind = "branch"
      OBVIOUS
    <3>1. UNCHANGED <<unit, enr, late>> /\ req'[r].id = req[r].id
      BY DEF Change
    <3>2. /\ NoUnits(req[r].id) \/ unit[req[r].id].kind = "group"
          /\ req'[r].pc = "Delete" => NoEnrollments(req[r].id) \/ unit[req[r].id].kind = "branch"
      BY <1>0 DEF Change, Emptied
    <3>3. QED
      BY <3>1, <3>2 DEF NoUnits, NoEnrollments, Live, Exists, Enrolled
  <2>3. QED
    BY <2>1, <2>2 DEF Emptied
<1>7. QED
  BY <1>4, <1>6 DEF OrphansInv

LEMMA InvStep ==
  ASSUME OrphansInv, [Next]_vars
  PROVE  OrphansInv'
<1>1. ASSUME NEW r \in Requests, Start(r) \/ Continue(r) PROVE OrphansInv'
  BY <1>1, StepChange, OrphansStep DEF OrphansInv
<1>2. CASE UNCHANGED vars
  <2>1. UNCHANGED <<unit, enr, users, req, late>>
    BY <1>2 DEF vars, tables
  <2>2. TypeInv'
    <3>1. Stay
      BY <2>1 DEF Stay, Exists
    <3>2. \A r \in Requests : Knows(req[r])' /\ Unused(r)'
      <4>1. ASSUME NEW me, Knows(me) PROVE Knows(me)'
        BY <2>1, <3>1, <4>1, KnowsStays
      <4>2. ASSUME NEW r \in Requests PROVE Knows(req[r])'
        <5>1. PICK me : me = req[r] /\ Knows(me)
          BY DEF OrphansInv, TypeInv
        <5>2. QED
          BY <2>1, <4>1, <5>1
      <4>3. QED
        BY <2>1, <4>2 DEF OrphansInv, TypeInv, Unused
    <3>3. \A i \in Ids : /\ unit'[i] # Null => Placed(unit[i])'
                         /\ enr'[i] # Null => EnrollmentPlaced(enr[i])'
      BY <2>1, <3>1, StayPlaced DEF OrphansInv, TypeInv
    <3>4. QED
      BY <2>1, <3>2, <3>3 DEF OrphansInv, TypeInv
  <2>3. Emptied' /\ NoneBelow'
    BY <2>1 DEF OrphansInv, Emptied, NoUnits, NoEnrollments, NoneBelow, Live, Enrolled, Exists
  <2>4. QED
    BY <2>2, <2>3 DEF OrphansInv
<1>3. QED
  BY <1>1, <1>2 DEF Next

\* A branch, section or group is only removed when it is empty: nothing but
\* what was put into it after its removal had counted is ever below a removed
\* one, whatever else is renamed, moved, imported or enrolled meanwhile.
THEOREM NoOrphansSafe == Spec => []NoOrphans
<1>1. Init => OrphansInv
  BY InitInv
<1>2. OrphansInv /\ [Next]_vars => OrphansInv'
  BY InvStep
<1>3. ASSUME OrphansInv PROVE NoOrphans
  <2>1. TypeInv /\ NoneBelow
    BY <1>3 DEF OrphansInv
  <2>2. ASSUME NEW i \in Ids \ late, Enrolled(i), enr[i].section \notin late,
               unit[enr[i].section].up = enr[i].branch
        PROVE  Live(enr[i].branch)
    <3>1. /\ Live(enr[i].section) /\ enr[i].section \in Ids /\ enr[i].branch \in Ids
          /\ enr[i].branch \in Parents("section")
      BY <2>1, <2>2 DEF TypeInv, NoneBelow, Enrolled, EnrollmentPlaced, Parents
    <3>2. enr[i].branch # Null
      BY <3>1, NullApart
    <3>3. QED
      BY <2>1, <2>2, <3>1, <3>2 DEF NoneBelow
  <2>3. QED
    BY <2>1, <2>2 DEF NoOrphans, NoneBelow
<1>4. QED
  BY <1>1, <1>2, <1>3, PTL DEF Spec

-----------------------------------------------------------------------------
(* LeaderHoldsRole.                                                        *)

\* Whom a unit names has been named before, or was given the role by this
\* step, or the unit is one that was changed by hand.
HeadKept(i) ==
  Exists(i)' /\ unit'[i].head # Null =>
    \/ i \in byHand'
    \/ Exists(i) /\ unit'[i].head = unit[i].head
    \/ <<unit'[i].head, i>> \in role'

HeadsKept(r) == role \subseteq role' /\ byHand \subseteq byHand' /\ \A i \in Ids : HeadKept(i)

LEMMA CommitHeads ==
  ASSUME TypeInv, NEW r \in Requests, Commit(r)
  PROVE  HeadsKept(r)
<1> USE NullApart
<1>1. /\ req[r].pc = "Commit" /\ role' = role \cup RolesOf(r) /\ byHand' = byHand
  BY DEF Commit
<1>2. ASSUME NEW i \in Ids PROVE HeadKept(i)
  <2>1. CASE /\ unit[i] # Null /\ req[r].op \in {"team_leaders", "mentors"}
             /\ unit'[i].head = HeadOf(r, i, Done(r)) /\ unit'[i].head # unit[i].head
    <3>1. PICK j \in Done(r) : /\ i \in {req[r].eff[j].section, req[r].eff[j].group}
                               /\ unit'[i].head = req[r].file[j].email
      BY <1>1, <2>1, HeadFromRow
    <3>2. i = IF req[r].op = "mentors" THEN req[r].eff[j].section ELSE req[r].eff[j].group
      BY <1>1, <2>1, <3>1, DoneRows DEF EffectPlaced
    <3>3. <<unit'[i].head, i>> \in RolesOf(r)
      BY <2>1, <3>1, <3>2 DEF RolesOf
    <3>4. QED
      BY <1>1, <3>3 DEF HeadKept
  <2>2. QED
    BY <2>1, CommitUnit DEF HeadKept, Exists
<1>3. QED
  BY <1>1, <1>2 DEF HeadsKept

LEMMA StepHeads ==
  ASSUME TypeInv, NEW r \in Requests, Start(r) \/ Continue(r)
  PROVE  HeadsKept(r)
<1> USE NullApart
<1>1. CASE UNCHANGED <<unit, role>> /\ byHand \subseteq byHand'
  BY <1>1 DEF HeadsKept, HeadKept, Exists
<1>2. ASSUME NEW kind \in Kinds, CreateUnit(r, kind) PROVE HeadsKept(r)
  <2>1. PICK up \in Parents(kind), name \in Names[kind],
             head \in {Null} \cup IF kind = "section" THEN Heads(kind) ELSE {} :
          /\ unit' = [unit EXCEPT ![<<r, 1>>] =
                        [kind |-> kind, up |-> up, name |-> name, head |-> head, dead |-> FALSE]]
          /\ byHand' = IF head = Null THEN byHand ELSE byHand \cup {<<r, 1>>}
    BY <1>2, ZenonT(30) DEF CreateUnit
  <2>2. /\ \A i \in Ids \ {<<r, 1>>} : unit'[i] = unit[i]
        /\ unit'[<<r, 1>>].head = head
    BY <2>1 DEF TypeInv
  <2>3. role' = role
    BY <1>2 DEF CreateUnit
  <2>4. QED
    BY <2>1, <2>2, <2>3 DEF HeadsKept, HeadKept, Exists
<1>3. CASE SaveUnit(r)
  <2>1. /\ unit' = [unit EXCEPT ![req[r].id] = req[r].mem] /\ byHand' = byHand \cup {req[r].id}
        /\ role' = role
    BY <1>3 DEF SaveUnit
  <2>2. \A i \in Ids : i = req[r].id \/ unit'[i] = unit[i]
    BY <2>1 DEF TypeInv
  <2>3. QED
    BY <2>1, <2>2 DEF HeadsKept, HeadKept, Exists
<1>4. CASE SoftRemove(r)
  <2>1. /\ unit' = [unit EXCEPT ![req[r].id].dead = TRUE] /\ UNCHANGED <<role, byHand>>
        /\ req[r].id \in Ids /\ Exists(req[r].id) /\ req[r].pc = "Delete"
    BY <1>4 DEF SoftRemove, TypeInv, Knows
  <2>2. /\ \A i \in Ids \ {req[r].id} : unit'[i] = unit[i]
        /\ unit'[req[r].id] = [unit[req[r].id] EXCEPT !.dead = TRUE]
        /\ unit[req[r].id] \in UnitRow
    BY <2>1 DEF TypeInv, Exists
  <2>3. unit'[req[r].id].head = unit[req[r].id].head
    BY <2>2 DEF UnitRow
  <2>4. QED
    BY <2>1, <2>2, <2>3 DEF HeadsKept, HeadKept, Exists
<1>5. CASE Commit(r)
  BY <1>5, CommitHeads
<1>6. CASE Fail(r)
  BY <1>1, <1>6, FailKeeps
<1>7. CASE Start(r)
  BY <1>1, <1>2, <1>7 DEF Start, BeginUpdate, BeginRemove, BeginAlter, BeginUnenroll, BeginRegister,
                          Enroll, Validate, tables
<1>8. CASE Continue(r)
  BY <1>1, <1>3, <1>4, <1>5, <1>6, <1>8
     DEF Continue, Count, CountMore, SaveEnrollment, Unenroll, Register, Refuse, Rows, StudentRow, tables
<1>9. QED
  BY <1>7, <1>8

\* Who a group or a section says leads or mentors it holds the role for it, as
\* long as nobody has set the column alone: an import of team leaders or of
\* mentors, with any rows for one group in any order, gives both.
THEOREM LeaderHoldsRoleSafe == Spec => []LeaderHoldsRole
<1>1. Init => LeaderHoldsRole
  BY NullApart, OrganisationsAssumption DEF Init, LeaderHoldsRole, Exists
<1>2. OrphansInv /\ LeaderHoldsRole /\ [Next]_vars => LeaderHoldsRole'
  <2> SUFFICES ASSUME OrphansInv, LeaderHoldsRole, [Next]_vars PROVE LeaderHoldsRole'
    OBVIOUS
  <2>1. ASSUME NEW r \in Requests, Start(r) \/ Continue(r) PROVE LeaderHoldsRole'
    <3>1. HeadsKept(r)
      BY <2>1, StepHeads DEF OrphansInv
    <3>2. QED
      BY <3>1 DEF HeadsKept, HeadKept, LeaderHoldsRole, Exists
  <2>2. CASE UNCHANGED vars
    BY <2>2 DEF vars, tables, LeaderHoldsRole, Exists
  <2>3. QED
    BY <2>1, <2>2 DEF Next
<1>3. QED
  BY <1>1, <1>2, InitInv, InvStep, PTL DEF Spec

-----------------------------------------------------------------------------
(* NothingUnreported.  The rows of an import are those that its history    *)
(* has counted.                                                            *)

There(i) == Exists(i) \/ enr[i] # Null
Mine(r) == {i \in Ids : i[1] = r /\ There(i)}

Reported(q) ==
  req[q].op \in Imports =>
    /\ history[q] = Null => Mine(q) = {}
    /\ history[q] # Null => \E S \in SUBSET (1 .. MaxRows) : /\ Cardinality(S) <= history[q].ok
                                                       /\ \A i \in Mine(q) : i[2] \in S

ReportInv == OrphansInv /\ history \in [Requests -> {Null} \cup HistoryRow]
             /\ \A q \in Requests : Reported(q)

LEMMA PlacesFinite == IsFiniteSet(1 .. MaxRows)
BY MaxRowsAssumption, FS_Interval

LEMMA FewInPlaces ==
  ASSUME NEW S \in SUBSET (1 .. MaxRows), NEW r, NEW T \in SUBSET Ids,
         \A i \in T : i[1] = r /\ i[2] \in S
  PROVE  IsFiniteSet(T) /\ Cardinality(T) <= Cardinality(S)
<1> DEFINE f == [i \in T |-> i[2]]
<1>1. IsFiniteSet(S)
  BY PlacesFinite, FS_Subset
<1>2. f \in Injection(T, S)
  <2>1. \A i, j \in T : i[2] = j[2] => i = j
    BY DEF Ids
  <2>2. QED
    BY <2>1 DEF Injection, IsInjective
<1>3. QED
  BY <1>1, <1>2, FS_Injection

\* What a step inserts, and what it reports.
LEMMA StepReports ==
  ASSUME TypeInv, NEW r \in Requests, Start(r) \/ Continue(r),
         history \in [Requests -> {Null} \cup HistoryRow]
  PROVE  /\ history' \in [Requests -> {Null} \cup HistoryRow]
         /\ \A q \in Requests \ {r} : history'[q] = history[q]
         /\ \A i \in Ids : i[1] # r => There(i)' = There(i)
         /\ \/ req'[r].op \notin Imports
            \/ Mine(r)' = {}
            \/ Commit(r) /\ history'[r] # Null /\ history'[r].ok = Cardinality(Done(r))
                 /\ \A i \in Mine(r)' : i[2] \in Done(r)
<1> USE NullApart
<1>a. \A op \in Operations : op \notin Imports
  BY DEF Operations, Imports
<1>b. req \in [Requests -> RequestRow] /\ req[r] \in RequestRow /\ Knows(req[r])
  BY DEF TypeInv
<1>c. req[r].pc # "done" => Mine(r) = {}
  BY DEF TypeInv, Unused, Mine, There, Exists
<1>1. CASE UNCHANGED <<unit, enr, history>> /\ req[r].pc # "done"
  BY <1>1, <1>c DEF Mine, There, Exists
<1>2. ASSUME NEW kind \in Kinds, CreateUnit(r, kind) PROVE req'[r].op = "create" /\ UNCHANGED <<enr, history>>
                                                           /\ \A i \in Ids : i[1] # r => unit'[i] = unit[i]
  <2>1. PICK row : unit' = [unit EXCEPT ![<<r, 1>>] = row]
    BY <1>2 DEF CreateUnit
  <2>2. QED
    BY <1>2, <1>b, <2>1 DEF CreateUnit, Begin, Request, TypeInv
<1>3. CASE Enroll(r)
  <2>1. PICK row : enr' = [enr EXCEPT ![<<r, 1>>] = row]
    BY <1>3 DEF Enroll
  <2>2. req'[r].op = "enroll" /\ UNCHANGED <<unit, history>> /\ \A i \in Ids : i[1] # r => enr'[i] = enr[i]
    BY <1>3, <1>b, <2>1 DEF Enroll, Begin, Request, TypeInv
  <2>3. QED
    BY <1>a, <2>2 DEF There, Exists, Operations
<1>4. CASE SaveUnit(r) \/ SoftRemove(r) \/ SaveEnrollment(r) \/ Unenroll(r)
  <2>1. UNCHANGED history /\ req[r].op \in Operations /\ End(r)
    BY <1>4, <1>b DEF SaveUnit, SoftRemove, SaveEnrollment, Unenroll, Operations, Knows, RequestRow
  <2>2. req'[r].op = req[r].op
    BY <1>b, <2>1 DEF End, Request
  <2>3. \A i \in Ids : There(i)' = There(i)
    <3>1. CASE SaveUnit(r) \/ SoftRemove(r)
      <4>1. PICK id \in Ids, row \in UnitRow : unit' = [unit EXCEPT ![id] = row] /\ unit[id] # Null
        <5>1. /\ SaveUnit(r) => unit' = [unit EXCEPT ![req[r].id] = req[r].mem] /\ req[r].mem \in UnitRow
              /\ req[r].id \in Ids /\ unit[req[r].id] # Null
              /\ SoftRemove(r) => unit' = [unit EXCEPT ![req[r].id] = [unit[req[r].id] EXCEPT !.dead = TRUE]]
          BY <3>1, <1>b DEF SaveUnit, SoftRemove, Knows, Exists, Placed
        <5>2. [unit[req[r].id] EXCEPT !.dead = TRUE] \in UnitRow
          <6>1. unit[req[r].id] \in UnitRow
            BY <5>1 DEF TypeInv
          <6>2. QED
            BY <6>1 DEF UnitRow
        <5>3. QED
          BY <3>1, <5>1, <5>2
      <4>2. enr' = enr
        BY <3>1 DEF SaveUnit, SoftRemove
      <4>3. QED
        BY <4>1, <4>2 DEF There, Exists, TypeInv
    <3>2. CASE SaveEnrollment(r) \/ Unenroll(r)
      <4>1. PICK id \in Ids, row \in EnrollmentRow : enr' = [enr EXCEPT ![id] = row] /\ enr[id] # Null
        <5>1. /\ SaveEnrollment(r) => /\ enr' = [enr EXCEPT ![req[r].id] = req[r].mem]
                                      /\ req[r].mem \in EnrollmentRow
              /\ req[r].id \in Ids /\ enr[req[r].id] # Null
              /\ Unenroll(r) => enr' = [enr EXCEPT ![req[r].id] = [enr[req[r].id] EXCEPT !.dead = TRUE]]
          BY <3>2, <1>b DEF SaveEnrollment, Unenroll, Knows, EnrollmentPlaced
        <5>2. [enr[req[r].id] EXCEPT !.dead = TRUE] \in EnrollmentRow
          <6>1. enr[req[r].id] \in EnrollmentRow
            BY <5>1 DEF TypeInv
          <6>2. QED
            BY <6>1 DEF EnrollmentRow
        <5>3. QED
          BY <3>2, <5>1, <5>2
      <4>2. unit' = unit
        BY <3>2 DEF SaveEnrollment, Unenroll
      <4>3. QED
        BY <4>1, <4>2 DEF There, Exists, TypeInv
    <3>3. QED
      BY <1>4, <3>1, <3>2
  <2>4. QED
    BY <1>a, <2>1, <2>2, <2>3
<1>5. CASE Refuse(r)
  <2>1. UNCHANGED <<unit, enr>> /\ req[r].pc = "Refuse"
        /\ history' = [history EXCEPT ![r] = [status |-> "FAILED", ok |-> 0]]
    BY <1>5 DEF Refuse
  <2>2. [status |-> "FAILED", ok |-> 0] \in HistoryRow
    BY DEF HistoryRow
  <2>3. QED
    BY <1>c, <2>1, <2>2 DEF Mine, There, Exists
<1>6. CASE Commit(r)
  <2>1. /\ req[r].pc = "Commit"
        /\ history' = [history EXCEPT ![r] = [status |-> Status(req[r].op, Len(req[r].file), Cardinality(Done(r))),
                                              ok |-> Cardinality(Done(r))]]
    BY <1>6 DEF Commit
  <2>2. Cardinality(Done(r)) \in Nat
    <3>1. Len(req[r].eff) \in Nat /\ Done(r) \in SUBSET (1 .. Len(req[r].eff))
      BY <2>1, DoneRows
    <3>2. IsFiniteSet(1 .. Len(req[r].eff))
      BY <3>1, FS_Interval
    <3>3. QED
      BY <3>1, <3>2, FS_Subset, FS_CardinalityType
  <2>3. [status |-> Status(req[r].op, Len(req[r].file), Cardinality(Done(r))),
         ok |-> Cardinality(Done(r))] \in HistoryRow
    BY <2>2 DEF HistoryRow, Status
  <2>4. /\ history' \in [Requests -> {Null} \cup HistoryRow]
        /\ \A q \in Requests \ {r} : history'[q] = history[q]
        /\ history'[r] # Null /\ history'[r].ok = Cardinality(Done(r))
    BY <2>1, <2>3
  <2>5. \A i \in Ids : (i[1] = r /\ i[2] \in Done(r)) \/ There(i)' = There(i)
    BY <1>6, CommitUnit, CommitEnrollment DEF There, Exists, EnrollmentPlaced
  <2>6. QED
    BY <1>6, <1>c, <2>1, <2>4, <2>5 DEF Mine
<1>7. CASE Fail(r)
  BY <1>1, <1>7, FailKeeps DEF Fail
<1>8. CASE Start(r)
  <2>1. CASE \E kind \in Kinds : CreateUnit(r, kind)
    BY <1>2, <1>a, <2>1 DEF There, Exists, Operations
  <2>2. QED
    BY <1>1, <1>3, <1>8, <2>1 DEF Start, BeginUpdate, BeginRemove, BeginAlter, BeginUnenroll, BeginRegister,
                                  Validate, tables, Begin, Arrives
<1>9. CASE Continue(r)
  BY <1>1, <1>4, <1>5, <1>6, <1>7, <1>9 DEF Continue, Count, CountMore, Register, Rows, StudentRow, tables
<1>10. QED
  BY <1>8, <1>9

LEMMA ReportStep ==
  ASSUME ReportInv, [Next]_vars
  PROVE  ReportInv'
<1> USE NullApart
<1>0. OrphansInv'
  BY InvStep DEF ReportInv
<1>1. ASSUME NEW r \in Requests, Start(r) \/ Continue(r) PROVE ReportInv'
  <2>0. TypeInv /\ history \in [Requests -> {Null} \cup HistoryRow]
    BY DEF ReportInv, OrphansInv
  <2>1. ASSUME NEW q \in Requests \ {r} PROVE Reported(q)'
    <3>1. Mine(q)' = Mine(q) /\ history'[q] = history[q]
      BY <1>1, <2>0, StepReports DEF Mine
    <3>2. req'[q] = req[q]
      BY <1>1, <2>0, StepChange DEF Change
    <3>3. QED
      BY <3>1, <3>2 DEF ReportInv, Reported
  <2>2. Reported(r)'
    <3>1. CASE req'[r].op \notin Imports
      BY <3>1 DEF Reported
    <3>2. CASE Mine(r)' = {}
      <4>1. history'[r] # Null => 0 <= history'[r].ok
        BY <1>1, <2>0, StepReports DEF HistoryRow
      <4>2. {} \in SUBSET (1 .. MaxRows) /\ Cardinality({}) = 0
        BY FS_EmptySet
      <4>3. QED
        BY <3>2, <4>1, <4>2 DEF Reported
    <3>3. CASE Commit(r) /\ history'[r] # Null /\ history'[r].ok = Cardinality(Done(r))
                 /\ \A i \in Mine(r)' : i[2] \in Done(r)
      <4>1. PICK S \in SUBSET (1 .. MaxRows) : S = Done(r) \cap (1 .. MaxRows)
        OBVIOUS
      <4>2. \A i \in Mine(r)' : i[2] \in S
        BY <3>3, <4>1 DEF Mine, Ids
      <4>3. Cardinality(S) <= Cardinality(Done(r))
        <5>1. req[r].pc = "Commit"
          BY <3>3 DEF Commit
        <5>2. Len(req[r].eff) \in Nat /\ Done(r) \in SUBSET (1 .. Len(req[r].eff))
          BY <2>0, <5>1, DoneRows
        <5>3. IsFiniteSet(Done(r))
          <6>1. IsFiniteSet(1 .. Len(req[r].eff))
            BY <5>2, FS_Interval
          <6>2. QED
            BY <5>2, <6>1, FS_Subset
        <5>4. QED
          BY <4>1, <5>3, FS_Subset
      <4>4. QED
        BY <3>3, <4>2, <4>3 DEF Reported
    <3>4. QED
      BY <1>1, <2>0, <3>1, <3>2, <3>3, StepReports
  <2>3. QED
    BY <1>0, <1>1, <2>0, <2>1, <2>2, StepReports DEF ReportInv
<1>2. CASE UNCHANGED vars
  BY <1>0, <1>2 DEF vars, tables, ReportInv, Reported, Mine, There, Exists
<1>3. QED
  BY <1>1, <1>2 DEF Next

\* What an import has inserted is in its history: one that fails, that is
\* refused or whose server dies leaves nothing, however many rows it had done.
THEOREM NothingUnreportedSafe == Spec => []NothingUnreported
<1>1. Init => ReportInv
  BY InitInv DEF Init, ReportInv, Reported, Blank, Request, Imports
<1>2. ReportInv => NothingUnreported
  <2> SUFFICES ASSUME ReportInv, NEW r \in Requests, req[r].op \in Imports
               PROVE  Cardinality(Mine(r)) <= IF history[r] = Null THEN 0 ELSE history[r].ok
    BY DEF NothingUnreported, Mine, There
  <2>1. CASE history[r] = Null
    <3>1. Mine(r) = {}
      BY <2>1 DEF ReportInv, Reported
    <3>2. QED
      BY <2>1, <3>1, FS_EmptySet
  <2>2. CASE history[r] # Null
    <3>1. PICK S \in SUBSET (1 .. MaxRows) : Cardinality(S) <= history[r].ok /\ \A i \in Mine(r) : i[2] \in S
      BY <2>2 DEF ReportInv, Reported
    <3>2. Cardinality(Mine(r)) <= Cardinality(S)
      BY <3>1, FewInPlaces DEF Mine
    <3>3. Cardinality(Mine(r)) \in Nat /\ Cardinality(S) \in Nat /\ history[r].ok \in Nat
      <4>2. IsFiniteSet(S)
        BY PlacesFinite, FS_Subset
      <4>3. history[r].ok \in Nat
        BY <2>2 DEF ReportInv, HistoryRow
      <4>4. IsFiniteSet(Mine(r))
        BY <4>2, <3>1, FewInPlaces DEF Mine
      <4>5. QED
        BY <4>2, <4>3, <4>4, FS_CardinalityType
    <3>4. QED
      BY <2>2, <3>1, <3>2, <3>3
  <2>3. QED
    BY <2>1, <2>2
<1>3. QED
  BY <1>1, <1>2, ReportStep, PTL DEF Spec

-----------------------------------------------------------------------------
(* DeciderSees.  A student changes groups while he has one only when two   *)
(* requests change his enrollment at once, or when his group was removed   *)
(* while he was put into it: the team leader that a participation was      *)
(* given is the one of the group that the student is still in.             *)

Calm == Ids \ (raced \cup late)
Altering(q, i) == req[q].op = "alter" /\ req[q].id = i

DecidedInv ==
  /\ OrphansInv /\ LeaderHoldsRole
  /\ \A i \in Ids : part[i] # Null => enr[i] # Null
  /\ \A i \in Ids : \A p, q \in Requests : Altering(p, i) /\ Altering(q, i) /\ p # q => i \in raced
  /\ \A q \in Requests : \A i \in Calm :
       Altering(q, i) /\ req[q].pc = "Save" /\ enr[i].group # Null => req[q].mem.group = enr[i].group
  /\ \A q \in Requests : \A i \in Calm :
       req[q].pc = "Register" /\ req[q].id = i /\ req[q].mem.group # Null =>
         req[q].mem.group = enr[i].group
  /\ \A i \in Calm : part[i] # Null /\ part[i].leader # Null =>
       enr[i].group # Null /\ (enr[i].group \in byHand \/ <<part[i].leader, enr[i].group>> \in role)

\* What a step does to the groups of the students, and who begins to change them.
GroupKept(r, i) ==
  enr[i] # Null =>
    /\ enr'[i] # Null
    /\ \/ enr'[i].group = enr[i].group
       \/ Altering(r, i) /\ req[r].pc = "Save" /\ enr'[i].group = req[r].mem.group

LEMMA StepGroups ==
  ASSUME TypeInv, NEW r \in Requests, Start(r) \/ Continue(r)
  PROVE  /\ raced \subseteq raced' /\ \A i \in Ids : GroupKept(r, i)
         /\ part' = part \/ Register(r)
<1> USE NullApart
<1>1. CASE UNCHANGED <<enr, part>> /\ raced \subseteq raced'
  BY <1>1 DEF GroupKept
<1>2. CASE Enroll(r)
  <2>1. PICK row : enr' = [enr EXCEPT ![<<r, 1>>] = row]
    BY <1>2 DEF Enroll
  <2>2. enr[<<r, 1>>] = Null
    BY <1>2 DEF Enroll, Begin, Arrives, TypeInv, Unused
  <2>3. UNCHANGED <<part, raced>>
    BY <1>2 DEF Enroll
  <2>4. QED
    BY <2>1, <2>2, <2>3 DEF GroupKept, TypeInv
<1>3. CASE SaveEnrollment(r)
  <2>1. /\ enr' = [enr EXCEPT ![req[r].id] = req[r].mem] /\ UNCHANGED <<part, raced>>
        /\ req[r].op = "alter" /\ req[r].pc = "Save"
    BY <1>3 DEF SaveEnrollment
  <2>2. req[r].mem \in EnrollmentRow
    BY <2>1 DEF TypeInv, Knows, EnrollmentPlaced
  <2>3. QED
    BY <2>1, <2>2 DEF GroupKept, Altering, TypeInv
<1>4. CASE Unenroll(r)
  <2>1. /\ enr' = [enr EXCEPT ![req[r].id] = [enr[req[r].id] EXCEPT !.dead = TRUE]] /\ UNCHANGED <<part, raced>>
        /\ req[r].id \in Ids /\ enr[req[r].id] # Null
    BY <1>4 DEF Unenroll, TypeInv, Knows
  <2>2. enr[req[r].id] \in EnrollmentRow
    BY <2>1 DEF TypeInv
  <2>3. PICK row \in EnrollmentRow : /\ row = [enr[req[r].id] EXCEPT !.dead = TRUE]
                                     /\ row.group = enr[req[r].id].group
    <3> DEFINE removed == [enr[req[r].id] EXCEPT !.dead = TRUE]
    <3>1. removed \in EnrollmentRow /\ removed.group = enr[req[r].id].group
      BY <2>2 DEF EnrollmentRow
    <3>2. QED
      BY <3>1
  <2>4. QED
    BY <2>1, <2>3 DEF GroupKept, TypeInv
<1>5. CASE Commit(r)
  <2>1. UNCHANGED <<part, raced>>
    BY <1>5 DEF Commit
  <2>2. QED
    BY <1>5, <2>1, CommitEnrollment DEF GroupKept
<1>6. CASE Fail(r)
  BY <1>1, <1>6, FailKeeps DEF Fail
<1>7. CASE Register(r)
  BY <1>7 DEF Register, GroupKept
<1>8. CASE Start(r)
  <2>1. CASE \E i \in Ids : BeginAlter(r, i)
    BY <1>1, <2>1 DEF BeginAlter, tables
  <2>2. QED
    BY <1>1, <1>2, <1>8, <2>1
       DEF Start, CreateUnit, BeginUpdate, BeginRemove, BeginUnenroll, BeginRegister, Validate, tables
<1>9. CASE Continue(r)
  BY <1>1, <1>3, <1>4, <1>5, <1>6, <1>7, <1>9
     DEF Continue, SaveUnit, SoftRemove, Count, CountMore, Refuse, Rows, StudentRow, tables
<1>10. QED
  BY <1>8, <1>9

\* What r stands at after a step of its own.
LEMMA StepRequest ==
  ASSUME TypeInv, NEW r \in Requests, Start(r) \/ Continue(r)
  PROVE  \/ \E i \in Ids : BeginAlter(r, i)
         \/ \E i \in Ids : BeginRegister(r, i)
         \/ req'[r].pc # "Register" /\ \A i \in Ids : ~Altering(r, i)'
<1> USE NullApart
<1>b. req \in [Requests -> RequestRow] /\ req[r] \in RequestRow /\ Knows(req[r])
  BY DEF TypeInv
<1>1. ASSUME NEW op, NEW mem, NEW id, NEW pc, Begin(r, op, id, mem, pc), op # "alter", pc # "Register"
      PROVE  req'[r].pc # "Register" /\ req'[r].op # "alter"
  BY <1>1, <1>b DEF Begin, Request
<1>2. CASE End(r)
  BY <1>2, <1>b DEF End, Request, Altering
<1>3. ASSUME NEW kind \in Kinds, CreateUnit(r, kind) PROVE req'[r].pc # "Register" /\ req'[r].op # "alter"
  BY <1>1, <1>3 DEF CreateUnit
<1>4. ASSUME NEW i \in Ids, BeginUpdate(r, i) \/ BeginRemove(r, i) \/ BeginUnenroll(r, i)
      PROVE  req'[r].pc # "Register" /\ req'[r].op # "alter"
  <2>1. \E mem : \E op \in {"update", "remove", "unenroll"}, pc \in {"Save", "Count", "Delete row"} :
          Begin(r, op, i, mem, pc)
    BY <1>4 DEF BeginUpdate, BeginRemove, BeginUnenroll
  <2>2. QED
    BY <1>1, <2>1
<1>5. CASE Enroll(r)
  BY <1>1, <1>5 DEF Enroll, Altering
<1>6. ASSUME NEW op \in Imports, Validate(r, op) PROVE req'[r].pc # "Register" /\ req'[r].op # "alter"
  BY <1>6, <1>b DEF Validate, Request, Imports
<1>7. CASE Start(r)
  BY <1>3, <1>4, <1>5, <1>6, <1>7 DEF Start, Altering
<1>8. CASE Count(r) \/ CountMore(r)
  BY <1>8, <1>b DEF Count, CountMore, Goto, Knows, RequestRow, Altering
<1>9. CASE Rows(r) \/ StudentRow(r)
  <2>1. req[r].op \in Imports /\ req[r].pc = "Rows"
    BY <1>9, <1>b DEF Rows, StudentRow, Knows
  <2>2. PICK eff : \/ req' = [req EXCEPT ![r].eff = eff, ![r].pc = "Commit"]
                   \/ req' = [req EXCEPT ![r].eff = eff, ![r].pc = "Rows"]
    <3>1. CASE Rows(r)
      BY <3>1 DEF Rows
    <3>2. CASE StudentRow(r)
      <4>1. PICK e : req' = [req EXCEPT ![r].eff = Append(@, e),
                               ![r].pc = IF Len(req[r].eff) + 1 = Len(req[r].file) THEN "Commit" ELSE "Rows"]
        BY <3>2 DEF StudentRow
      <4>2. QED
        BY <4>1, <1>b
    <3>3. QED
      BY <1>9, <3>1, <3>2
  <2>3. req'[r].op = req[r].op /\ req'[r].pc # "Register"
    BY <1>b, <2>2 DEF RequestRow
  <2>4. QED
    BY <2>1, <2>3 DEF Altering, Imports
<1>10. CASE Fail(r)
  BY <1>2, <1>10 DEF Fail
<1>11. CASE Continue(r)
  BY <1>2, <1>8, <1>9, <1>10, <1>11
     DEF Continue, SaveUnit, SoftRemove, SaveEnrollment, Unenroll, Register, Refuse, Commit
<1>12. QED
  BY <1>7, <1>11

LEMMA DecidedStep ==
  ASSUME DecidedInv, [Next]_vars
  PROVE  DecidedInv'
<1> USE NullApart
<1>0. OrphansInv' /\ OrphansInv /\ LeaderHoldsRole /\ TypeInv /\ NoneBelow
  BY InvStep DEF DecidedInv, OrphansInv
<1>1. ASSUME NEW r \in Requests, Start(r) \/ Continue(r) PROVE DecidedInv'
  <2>1. /\ HeadsKept(r) /\ Change(r) /\ raced \subseteq raced' /\ late \subseteq late'
        /\ \A i \in Ids : GroupKept(r, i)
        /\ part' = part \/ Register(r)
        /\ \A q \in Requests \ {r} : req'[q] = req[q]
        /\ role \subseteq role' /\ byHand \subseteq byHand'
    BY <1>0, <1>1, StepHeads, StepChange, StepGroups DEF Change, HeadsKept
  <2>2. Calm' \subseteq Calm /\ Calm \subseteq Ids
    BY <2>1 DEF Calm
  <2>3. LeaderHoldsRole'
    BY <1>0, <2>1 DEF HeadsKept, HeadKept, LeaderHoldsRole, Exists
  <2>4. ASSUME NEW i \in Ids, part'[i] # Null PROVE enr'[i] # Null
    <3>1. CASE part' = part
      BY <2>1, <2>4, <3>1 DEF DecidedInv, GroupKept
    <3>2. CASE Register(r)
      <4>1. /\ part' = [part EXCEPT ![req[r].id] = [leader |-> LeaderOf(req[r].mem.group)]] /\ enr' = enr
            /\ enr[req[r].id] # Null
        BY <1>0, <3>2 DEF Register, TypeInv, Knows
      <4>2. i = req[r].id \/ part[i] # Null
        BY <2>4, <4>1
      <4>3. QED
        BY <4>1, <4>2 DEF DecidedInv
    <3>3. QED
      BY <2>1, <3>1, <3>2
  \* Two requests that change one enrollment.
  <2>5. ASSUME NEW i \in Ids, NEW q \in Requests \ {r}, Altering(q, i), Altering(r, i)' PROVE i \in raced'
    <3>1. PICK j \in Ids : BeginAlter(r, j) \/ BeginRegister(r, j)
      BY <1>0, <1>1, <2>5, StepRequest
    <3>2. BeginAlter(r, j) => i = j
      <4>1. BeginAlter(r, j) => \E mem : Begin(r, "alter", j, mem, "Save")
        BY DEF BeginAlter
      <4>2. QED
        BY <1>0, <2>5, <4>1 DEF Altering, Begin, Request, TypeInv
    <3>3. ~BeginRegister(r, j)
      BY <1>0, <2>5 DEF BeginRegister, Begin, Request, Altering, TypeInv
    <3>4. QED
      BY <2>5, <3>1, <3>2, <3>3 DEF BeginAlter, Altering
  <2>6. ASSUME NEW i \in Ids, NEW p \in Requests, NEW q \in Requests,
               Altering(p, i)', Altering(q, i)', p # q
        PROVE  i \in raced'
    <3>1. \A o \in Requests \ {r} : Altering(o, i)' <=> Altering(o, i)
      BY <2>1 DEF Altering
    <3>2. QED
      BY <2>1, <2>5, <2>6, <3>1 DEF DecidedInv
  \* The groups of those that are calm.
  <2>7. ASSUME NEW i \in Calm', enr[i] # Null, enr[i].group # Null PROVE enr'[i].group = enr[i].group
    BY <2>1, <2>2, <2>7 DEF GroupKept, DecidedInv
  <2>8. ASSUME NEW i \in Calm', NEW q \in Requests \ {r}, Altering(q, i), req[q].pc = "Save", enr'[i].group # Null
        PROVE  req[q].mem.group = enr'[i].group
    <3>1. enr[i] # Null /\ i \in Ids
      BY <1>0, <2>2, <2>8 DEF TypeInv, Knows, Altering
    <3>2. ~Altering(r, i)
      BY <2>1, <2>2, <2>8 DEF DecidedInv, Calm
    <3>3. enr'[i].group = enr[i].group
      BY <2>1, <3>1, <3>2 DEF GroupKept
    <3>4. QED
      BY <2>2, <2>8, <3>3 DEF DecidedInv
  <2>9. ASSUME NEW i \in Calm', Altering(r, i)', req'[r].pc = "Save", enr'[i].group # Null
        PROVE  req'[r].mem.group = enr'[i].group
    <3>1. PICK j \in Ids : BeginAlter(r, j) \/ BeginRegister(r, j)
      BY <1>0, <1>1, <2>2, <2>9, StepRequest
    <3>2. ~BeginRegister(r, j)
      BY <1>0, <2>9 DEF BeginRegister, Begin, Request, Altering, TypeInv
    <3>3. PICK b \in Related(enr[j].branch, Parents("section")),
                s \in Related(enr[j].section, Parents("group")),
                g \in Related(enr[j].group, Groups), a \in BOOLEAN :
            Begin(r, "alter", j, [enr[j] EXCEPT !.branch = b, !.section = s, !.group = g, !.active = a], "Save")
      BY <3>1, <3>2 DEF BeginAlter
    <3>4. /\ Enrolled(j) /\ enr' = enr
      BY <3>1, <3>2 DEF BeginAlter, tables
    <3>5. j = i /\ req'[r].mem = [enr[i] EXCEPT !.branch = b, !.section = s, !.group = g, !.active = a]
      BY <1>0, <2>9, <3>3 DEF Begin, Request, Altering, TypeInv
    <3>6. enr[i] \in EnrollmentRow /\ Live(enr[i].group)
      BY <1>0, <2>2, <2>9, <3>4, <3>5 DEF NoneBelow, Calm, Enrolled, TypeInv
    <3>7. g = enr[i].group
      BY <2>9, <3>3, <3>4, <3>5, <3>6 DEF Related
    <3>8. QED
      BY <3>4, <3>5, <3>6, <3>7 DEF EnrollmentRow
  <2>10. ASSUME NEW i \in Calm', NEW q \in Requests, req'[q].pc = "Register", req'[q].id = i, req'[q].mem.group # Null
         PROVE  req'[q].mem.group = enr'[i].group
    <3>1. CASE q # r
      <4>1. req[q].pc = "Register" /\ req[q].id = i /\ req[q].mem.group # Null /\ req'[q].mem = req[q].mem
        BY <2>1, <2>10, <3>1
      <4>2. enr[i] # Null /\ req[q].mem.group = enr[i].group
        BY <1>0, <2>2, <4>1 DEF DecidedInv, TypeInv, Knows
      <4>3. QED
        BY <2>7, <4>1, <4>2
    <3>2. CASE q = r
      <4>1. PICK j \in Ids : BeginAlter(r, j) \/ BeginRegister(r, j)
        BY <1>0, <1>1, <2>10, <3>2, StepRequest
      <4>2. ~BeginAlter(r, j)
        <5>1. BeginAlter(r, j) => \E mem : Begin(r, "alter", j, mem, "Save")
          BY DEF BeginAlter
        <5>2. QED
          BY <1>0, <2>10, <3>2, <5>1 DEF Begin, Request, TypeInv
      <4>3. Begin(r, "register", j, enr[j], "Register") /\ enr' = enr
        BY <4>1, <4>2 DEF BeginRegister, tables
      <4>4. QED
        BY <1>0, <2>10, <3>2, <4>3 DEF Begin, Request, TypeInv
    <3>3. QED
      BY <3>1, <3>2
  <2>11. ASSUME NEW i \in Calm', part'[i] # Null, part'[i].leader # Null
         PROVE  /\ enr'[i].group # Null
                /\ enr'[i].group \in byHand' \/ <<part'[i].leader, enr'[i].group>> \in role'
    <3>1. CASE part'[i] = part[i]
      <4>1. /\ enr[i] # Null /\ enr[i].group # Null
            /\ enr[i].group \in byHand \/ <<part[i].leader, enr[i].group>> \in role
        BY <2>2, <2>11, <3>1 DEF DecidedInv
      <4>2. enr'[i].group = enr[i].group
        BY <2>7, <4>1
      <4>3. QED
        BY <2>1, <3>1, <4>1, <4>2
    <3>2. CASE part'[i] # part[i]
      <4>1. Register(r)
        BY <2>1, <3>2
      <4>2. /\ part' = [part EXCEPT ![req[r].id] = [leader |-> LeaderOf(req[r].mem.group)]]
            /\ enr' = enr /\ req[r].pc = "Register" /\ UNCHANGED <<role, byHand>>
        BY <4>1 DEF Register
      <4>3. req[r].id = i /\ part'[i].leader = LeaderOf(req[r].mem.group)
        BY <2>2, <2>11, <3>2, <4>2
      <4>4. /\ req[r].mem.group # Null /\ Live(req[r].mem.group)
            /\ part'[i].leader = unit[req[r].mem.group].head
        BY <2>11, <4>3 DEF LeaderOf
      <4>5. req[r].mem.group = enr[i].group
        BY <2>2, <4>2, <4>3, <4>4 DEF DecidedInv
      <4>6. enr[i].group \in Ids
        BY <1>0, <2>2, <4>2, <4>3, <4>4, <4>5 DEF TypeInv, Knows, EnrollmentRow
      <4>7. enr[i].group \in byHand \/ <<unit[enr[i].group].head, enr[i].group>> \in role
        BY <1>0, <2>11, <4>4, <4>5, <4>6 DEF LeaderHoldsRole, Live
      <4>8. QED
        BY <4>2, <4>4, <4>5, <4>7
    <3>3. QED
      BY <3>1, <3>2
  <2>12. QED
    BY <1>0, <2>1, <2>2, <2>3, <2>4, <2>6, <2>8, <2>9, <2>10, <2>11 DEF DecidedInv, Altering
<1>2. CASE UNCHANGED vars
  BY <1>0, <1>2 DEF vars, tables, DecidedInv, LeaderHoldsRole, Exists, Altering, Calm
<1>3. QED
  BY <1>1, <1>2 DEF Next

\* The team leader who may decide on a participation has it in his queue,
\* whatever is imported, moved, removed or enrolled meanwhile, unless the
\* enrollment was changed by two requests at once, put into a group while that
\* was removed, or is in a group whose leader an update has set.
THEOREM DeciderSeesSafe == Spec => []DeciderSees
<1>1. Init => DecidedInv
  <2> SUFFICES ASSUME Init PROVE DecidedInv
    OBVIOUS
  <2>1. OrphansInv /\ part = [i \in Ids |-> Null] /\ \A q \in Requests : req[q].op = "none" /\ req[q].pc = "idle"
    BY InitInv DEF Init, Blank, Request
  <2>2. LeaderHoldsRole
    BY NullApart, OrganisationsAssumption DEF Init, LeaderHoldsRole, Exists
  <2>3. QED
    BY <2>1, <2>2 DEF DecidedInv, Altering, Calm
<1>2. DecidedInv => DeciderSees
  BY DEF DecidedInv, DeciderSees, Queue, Calm
<1>3. QED
  BY <1>1, <1>2, DecidedStep, PTL DEF Spec

-----------------------------------------------------------------------------
(* SuccessIsComplete.  What the validation has found stays there as long   *)
(* as nobody else writes, so every row of the file gets the effect that it *)
(* asks for, and the commit puts them all into the tables.                 *)

\* The groups that a row of a file may mean.
Wanted(row) == UNION {GroupsNamed(s, row.group) : s \in SectionsNamed(row)}

\* What a row asks for is there, or can be put there.
Found(op, row) ==
  /\ op = "groups" => \E s \in SectionsNamed(row) : GroupsNamed(s, row.group) = {}
  /\ op = "mentors" => SectionsNamed(row) # {}
  /\ op = "team_leaders" => row.email \in users /\ Wanted(row) # {}
  /\ op = "students" => Wanted(row) # {} /\ \A x \in EnrollmentsOf(row.email) : ~enr[x].active

\* The effect of row i is the one that it asks for.
Right(me, i) ==
  LET e == me.eff[i]  row == me.file[i] IN
  /\ e.ok
  /\ me.op # "team_leaders" => e.section \in SectionsNamed(row)
  /\ me.op = "team_leaders" => e.group \in Wanted(row)
  /\ me.op = "students" => e.group \in GroupsNamed(e.section, row.group) /\ e.branch = unit[e.section].up
  /\ me.op = "students" =>
       \/ e.new
       \/ EnrollmentsOf(row.email) # {}
       \/ \E j \in DOMAIN me.eff : j < i /\ me.eff[j].new /\ me.file[j].email = row.email

Ready(me) ==
  me.pc \in {"Rows", "Commit"} =>
    /\ Len(me.file) <= MaxRows
    /\ me.op = "mentors" => \A i, j \in DOMAIN me.file :
         me.file[i].branch = me.file[j].branch /\ me.file[i].section = me.file[j].section => i = j
    /\ \A i \in DOMAIN me.file : Found(me.op, me.file[i])
    /\ \A i \in DOMAIN me.eff : Right(me, i)
    /\ me.pc = "Commit" => Len(me.eff) = Len(me.file)

\* The indexes do their work.
NamesUnique == \A i, j \in Ids : Exists(i) /\ Exists(j) /\ Alike(unit[i], unit[j]) => i = j

AllReady == \A r \in Requests \ shifted : Ready(req[r])
SameName(i) == /\ unit'[i].kind = unit[i].kind /\ unit'[i].up = unit[i].up
               /\ unit'[i].name = unit[i].name /\ unit'[i].dead = unit[i].dead

\* A commit adds groups, and renames and removes nothing.
LEMMA CommitNames ==
  ASSUME TypeInv, NEW r \in Requests, Commit(r), NEW i \in Ids
  PROVE  /\ Exists(i) => Exists(i)' /\ SameName(i)
         /\ ~Exists(i) /\ Exists(i)' => unit'[i].kind = "group"
<1>1. req[r].pc = "Commit" /\ unit' = UnitsOf(r, Done(r))
  BY DEF Commit
<1>2. CASE req[r].op = "groups" /\ i[1] = r /\ i[2] \in Done(r)
  <2>1. ~Exists(i)
    BY <1>1, <1>2 DEF TypeInv, Unused, Exists
  <2>2. unit'[i] = [kind |-> "group", up |-> req[r].eff[i[2]].section, name |-> req[r].file[i[2]].group,
                    head |-> Null, dead |-> FALSE]
    BY <1>1, <1>2 DEF UnitsOf
  <2>3. QED
    BY <2>1, <2>2
<1>3. CASE req[r].op \in {"team_leaders", "mentors"} /\ Exists(i)
  <2>1. unit'[i] = [unit[i] EXCEPT !.head = HeadOf(r, i, Done(r))]
    BY <1>1, <1>3 DEF UnitsOf
  <2>2. unit[i] \in UnitRow
    BY <1>3 DEF TypeInv, Exists
  <2>3. unit'[i] # Null
    BY <1>3, CommitUnit, NullApart DEF Exists
  <2>4. QED
    BY <1>3, <2>1, <2>2, <2>3 DEF Exists, SameName, UnitRow
<1>4. CASE /\ ~(req[r].op = "groups" /\ i[1] = r /\ i[2] \in Done(r))
           /\ ~(req[r].op \in {"team_leaders", "mentors"} /\ Exists(i))
  <2>1. unit'[i] = unit[i]
    BY <1>1, <1>4 DEF UnitsOf
  <2>2. QED
    BY <2>1 DEF Exists, SameName
<1>5. QED
  BY <1>2, <1>3, <1>4

\* Only a row that is written needs the index.
LEMMA NamesStay ==
  ASSUME NamesUnique,
         \A i \in Ids : Exists(i)' => \/ unit'[i].dead \/ unit'[i].kind = "group"
                                      \/ Exists(i) /\ SameName(i)
  PROVE  NamesUnique'
BY DEF NamesUnique, SameName, Alike

LEMMA WrittenUnique ==
  ASSUME TypeInv, NamesUnique, NEW id \in Ids, NEW row, Unique(id, row),
         unit' = [unit EXCEPT ![id] = row]
  PROVE  NamesUnique'
<1>1. unit'[id] = row /\ \A i \in Ids \ {id} : unit'[i] = unit[i]
  BY DEF TypeInv
<1>2. ASSUME NEW i \in Ids, NEW j \in Ids, Exists(i)', Exists(j)', Alike(unit'[i], unit'[j])
      PROVE  i = j
  <2>1. Alike(unit'[j], unit'[i])
    BY <1>2 DEF Alike
  <2>2. CASE i # id /\ j # id
    BY <1>1, <1>2, <2>2 DEF NamesUnique, Exists
  <2>3. CASE i = id /\ j # id
    BY <1>1, <1>2, <2>3 DEF Unique, Exists
  <2>4. CASE i # id /\ j = id
    BY <1>1, <1>2, <2>1, <2>4 DEF Unique, Exists
  <2>5. QED
    BY <2>2, <2>3, <2>4
<1>3. QED
  BY <1>2 DEF NamesUnique

LEMMA UniqueStep ==
  ASSUME TypeInv, NamesUnique, NEW r \in Requests, Start(r) \/ Continue(r)
  PROVE  NamesUnique'
<1>1. CASE UNCHANGED unit
  BY <1>1 DEF NamesUnique, Exists
<1>2. ASSUME NEW kind \in Kinds, CreateUnit(r, kind) PROVE NamesUnique'
  <2>1. <<r, 1>> \in Ids
    BY MaxRowsAssumption DEF Ids
  <2>2. \E row : Unique(<<r, 1>>, row) /\ unit' = [unit EXCEPT ![<<r, 1>>] = row]
    BY <1>2 DEF CreateUnit
  <2>3. QED
    BY <2>1, <2>2, WrittenUnique
<1>3. CASE SaveUnit(r)
  <2>1. req[r].id \in Ids
    BY <1>3 DEF SaveUnit, TypeInv, Knows
  <2>2. QED
    BY <1>3, <2>1, WrittenUnique DEF SaveUnit
<1>4. CASE SoftRemove(r)
  <2>1. req[r].id \in Ids /\ Exists(req[r].id)
    BY <1>4 DEF SoftRemove, TypeInv, Knows
  <2>2. unit[req[r].id] \in UnitRow
    BY <2>1 DEF TypeInv, Exists
  <2>3. unit'[req[r].id].dead /\ \A i \in Ids \ {req[r].id} : unit'[i] = unit[i]
    BY <1>4, <2>1, <2>2 DEF SoftRemove, TypeInv, UnitRow
  <2>4. QED
    BY <2>3, NamesStay DEF Exists, SameName
<1>5. CASE Commit(r)
  BY <1>5, CommitNames, NamesStay
<1>6. CASE Fail(r)
  BY <1>1, <1>6, FailKeeps
<1>7. QED
  BY <1>1, <1>2, <1>3, <1>4, <1>5, <1>6
     DEF Start, Continue, BeginUpdate, BeginRemove, BeginAlter, BeginUnenroll, BeginRegister, Enroll,
         Validate, Count, CountMore, SaveEnrollment, Unenroll, Register, Refuse, Rows, StudentRow, tables

\* As long as nobody else writes.
LEMMA Undisturbed ==
  ASSUME TypeInv, NEW q \in Requests, Start(q) \/ Continue(q), NEW r \in Requests \ {q},
         req[r].pc \in {"Rows", "Commit"}, r \notin shifted'
  PROVE  UNCHANGED <<unit, enr, users, role>> /\ req'[r] = req[r] /\ r \notin shifted
<1>1. Active(r) /\ req[r].op \in Imports
  BY DEF TypeInv, Knows, Active
<1>2. ASSUME NEW rows, NEW above, Wrote(q, rows, above) PROVE FALSE
  BY <1>1, <1>2 DEF Wrote
<1>3. UNCHANGED <<unit, enr, users, role, shifted>>
  <2>1. CASE Fail(q)
    BY <2>1, FailKeeps DEF Fail
  <2>2. CASE Continue(q) /\ ~Fail(q)
    BY <1>2, <2>2 DEF Continue, SaveUnit, Count, CountMore, SoftRemove, SaveEnrollment, Unenroll,
                      Register, Refuse, Rows, StudentRow, Commit, tables
  <2>3. CASE Start(q)
    BY <1>2, <2>3 DEF Start, CreateUnit, BeginUpdate, BeginRemove, BeginAlter, BeginUnenroll,
                      BeginRegister, Enroll, Validate, tables
  <2>4. QED
    BY <2>1, <2>2, <2>3
<1>4. QED
  BY <1>3, StepChange DEF Change

LEMMA ReadyStays ==
  ASSUME UNCHANGED <<unit, enr, users>>, NEW me, Ready(me)
  PROVE  Ready(me)'
<1>1. \A i : Exists(i)' = Exists(i) /\ Live(i)' = Live(i) /\ Enrolled(i)' = Enrolled(i)
  BY DEF Exists, Live, Enrolled
<1>2. \A row : SectionsNamed(row)' = SectionsNamed(row)
  BY <1>1 DEF SectionsNamed
<1>3. \A s, name : GroupsNamed(s, name)' = GroupsNamed(s, name)
  BY <1>1 DEF GroupsNamed
<1>4. \A row : Wanted(row)' = Wanted(row)
  BY <1>2, <1>3 DEF Wanted
<1>5. \A u : EnrollmentsOf(u)' = EnrollmentsOf(u)
  BY <1>1 DEF EnrollmentsOf
<1>6. \A op, row : Found(op, row)' = Found(op, row)
  BY <1>2, <1>3, <1>4, <1>5 DEF Found
<1>7. \A i : Right(me, i)' = Right(me, i)
  BY <1>2, <1>3, <1>4, <1>5 DEF Right
<1>8. QED
  BY <1>6, <1>7 DEF Ready

\* The first steps of an import.
LEMMA ValidateReady ==
  ASSUME TypeInv, NEW r \in Requests, NEW op \in Imports, Validate(r, op)
  PROVE  Ready(req[r])'
<1>1. PICK f \in Files[op], pc \in {"Rows", "Refuse"} :
        /\ req' = [req EXCEPT ![r] = Request(pc, op, Null, Null, f)]
        /\ pc = "Rows" => Valid(op, f)
  BY DEF Validate
<1>2. f \in Seq(FileRow) /\ Len(f) <= MaxRows
  BY FilesAssumption
<1> DEFINE me == Request(pc, op, Null, Null, f)
<1>3. me.pc = pc /\ me.op = op /\ me.file = f /\ me.eff = <<>>
  BY DEF Request
<1>4. req'[r] = me
  BY <1>1 DEF TypeInv
<1> HIDE DEF me
<1>5. CASE pc = "Rows"
  <2>1. \A i \in DOMAIN f : Found(op, f[i])
    <3> SUFFICES ASSUME NEW i \in DOMAIN f PROVE Found(op, f[i])
      OBVIOUS
    <3>1. CASE op = "groups"
      BY <1>1, <1>5, <3>1 DEF Valid, GroupsFile, Found
    <3>2. CASE op = "team_leaders"
      BY <1>1, <1>5, <3>2 DEF Valid, LeadersFile, Found, Wanted
    <3>3. CASE op = "mentors"
      BY <1>1, <1>5, <3>3 DEF Valid, MentorsFile, Found
    <3>4. CASE op = "students"
      BY <1>1, <1>5, <3>4 DEF Valid, StudentsFile, Found, Wanted, EnrolledUsers, EnrollmentsOf
    <3>5. QED
      BY <3>1, <3>2, <3>3, <3>4 DEF Imports
  <2>2. op = "mentors" => \A i, j \in DOMAIN f :
          f[i].branch = f[j].branch /\ f[i].section = f[j].section => i = j
    BY <1>1, <1>5 DEF Valid, MentorsFile, Distinct
  <2>3. Ready(me)
    BY <1>2, <1>3, <1>5, <2>1, <2>2 DEF Ready
  <2>4. UNCHANGED <<unit, enr, users>>
    BY DEF Validate, tables
  <2>5. QED
    BY <1>4, <2>3, <2>4, ReadyStays
<1>6. CASE pc = "Refuse"
  BY <1>3, <1>4, <1>6 DEF Ready
<1>7. QED
  BY <1>5, <1>6

LEMMA RowsReady ==
  ASSUME TypeInv, NEW r \in Requests, Rows(r), Ready(req[r])
  PROVE  Ready(req[r])'
<1>1. /\ req[r].pc = "Rows" /\ req[r].op # "students" /\ UNCHANGED <<unit, enr, users>>
      /\ req[r] \in RequestRow /\ req[r].op \in Imports
  BY DEF Rows, tables, TypeInv, Knows
<1>2. PICK eff : /\ DOMAIN eff = DOMAIN req[r].file
                 /\ \A i \in DOMAIN req[r].file : eff[i] \in EffectsOf(req[r].op, req[r].file[i])
                 /\ eff = [i \in DOMAIN req[r].file |-> eff[i]]
                 /\ req' = [req EXCEPT ![r].eff = eff, ![r].pc = "Commit"]
  BY DEF Rows
<1>3. PICK me : /\ me = req'[r] /\ me.pc = "Commit" /\ me.op = req[r].op /\ me.file = req[r].file
                /\ me.eff = eff
  <2>1. req'[r] = [req[r] EXCEPT !.eff = eff, !.pc = "Commit"]
    BY <1>2 DEF TypeInv
  <2>2. QED
    BY <1>1, <2>1 DEF RequestRow
<1>4. ASSUME NEW i \in DOMAIN eff PROVE Right(me, i)
  <2> DEFINE row == req[r].file[i]
             e == eff[i]
  <2>1. Found(req[r].op, row) /\ e \in EffectsOf(req[r].op, row)
    BY <1>1, <1>2 DEF Ready
  <2>2. e.ok /\ (req[r].op # "team_leaders" => e.section \in SectionsNamed(row))
             /\ (req[r].op = "team_leaders" => e.group \in Wanted(row))
    <3>1. CASE req[r].op = "groups"
      BY <2>1, <3>1 DEF Found, EffectsOf, GroupEffects, Effect
    <3>2. CASE req[r].op = "team_leaders"
      BY <2>1, <3>2 DEF Found, EffectsOf, LeaderEffects, Effect, Wanted
    <3>3. CASE req[r].op = "mentors"
      BY <2>1, <3>3 DEF Found, EffectsOf, MentorEffects, Effect
    <3>4. QED
      BY <1>1, <3>1, <3>2, <3>3 DEF Imports
  <2>3. QED
    BY <1>1, <1>3, <2>2 DEF Right
<1>5. Len(me.eff) = Len(me.file)
  <2>1. Len(req[r].file) \in Nat /\ DOMAIN req[r].file = 1 .. Len(req[r].file)
    BY <1>1, LenProperties DEF RequestRow
  <2>2. TypeInv' 
    BY RowsChange
  <2>3. eff \in Seq(EffectRow)
    BY <1>3, <2>2 DEF TypeInv, RequestRow
  <2>4. Len(eff) \in Nat /\ DOMAIN eff = 1 .. Len(eff)
    BY <2>3, LenProperties
  <2>5. QED
    BY <1>2, <1>3, <2>1, <2>4
<1>6. Ready(me)
  BY <1>1, <1>3, <1>4, <1>5 DEF Ready
<1>7. QED
  BY <1>1, <1>3, <1>6, ReadyStays

\* There is one section of these codes.
LEMMA OneSection ==
  ASSUME TypeInv, NamesUnique, NEW row, NEW s \in SectionsNamed(row), NEW t \in SectionsNamed(row)
  PROVE  s = t
<1>1. /\ s \in Ids /\ Exists(s) /\ ~unit[s].dead /\ unit[s].kind = "section" /\ unit[s].name = row.section
      /\ t \in Ids /\ Exists(t) /\ ~unit[t].dead /\ unit[t].kind = "section" /\ unit[t].name = row.section
      /\ Live(unit[s].up) /\ unit[unit[s].up].name = row.branch
      /\ Live(unit[t].up) /\ unit[unit[t].up].name = row.branch
  BY DEF SectionsNamed, Live
<1>2. ASSUME NEW i \in {s, t}
      PROVE  unit[i].up \in Ids /\ unit[unit[i].up].kind = "branch" /\ unit[unit[i].up].up = Null
  <2>1. unit[i].up \in Parents("section")
    BY <1>1 DEF TypeInv, Placed, Exists
  <2>2. unit[i].up \in Ids /\ Exists(unit[i].up) /\ unit[unit[i].up].kind = "branch"
    BY <2>1 DEF Parents, Above
  <2>3. unit[unit[i].up].up \in Parents("branch")
    BY <2>2 DEF TypeInv, Placed, Exists
  <2>4. QED
    BY <2>2, <2>3 DEF Parents
<1>3. Alike(unit[unit[s].up], unit[unit[t].up])
  BY <1>1, <1>2 DEF Alike, Live
<1>4. unit[s].up = unit[t].up
  BY <1>1, <1>2, <1>3 DEF NamesUnique, Live
<1>5. Alike(unit[s], unit[t])
  BY <1>1, <1>4 DEF Alike
<1>6. QED
  BY <1>1, <1>5 DEF NamesUnique

LEMMA StudentRowReady ==
  ASSUME TypeInv, NamesUnique, NEW r \in Requests, StudentRow(r), Ready(req[r])
  PROVE  Ready(req[r])'
<1> DEFINE n == Len(req[r].eff)
           i == n + 1
           row == req[r].file[i]
<1>1. /\ req[r].pc = "Rows" /\ req[r].op = "students" /\ UNCHANGED <<unit, enr, users>>
      /\ req[r] \in RequestRow /\ Knows(req[r])
  BY DEF StudentRow, tables, TypeInv
<1>2. PICK e \in StudentEffects(row, Earlier(r)) :
        req' = [req EXCEPT ![r].eff = Append(@, e),
                           ![r].pc = IF i = Len(req[r].file) THEN "Commit" ELSE "Rows"]
  BY DEF StudentRow
<1>3. /\ req[r].eff \in Seq(EffectRow) /\ req[r].file \in Seq(FileRow) /\ n < Len(req[r].file)
      /\ n \in Nat /\ DOMAIN req[r].eff = 1 .. n
      /\ Len(req[r].file) \in Nat /\ DOMAIN req[r].file = 1 .. Len(req[r].file)
      /\ i \in DOMAIN req[r].file
  BY <1>1, LenProperties DEF Knows, RequestRow
<1>4. e \in EffectRow
  BY <1>2, StudentEffectsPlaced
<1>5. PICK me : /\ me = req'[r] /\ me.op = "students" /\ me.file = req[r].file
                /\ me.eff = Append(req[r].eff, e)
                /\ me.pc = IF i = Len(req[r].file) THEN "Commit" ELSE "Rows"
  <2>1. req'[r] = [req[r] EXCEPT !.eff = Append(@, e),
                                 !.pc = IF i = Len(req[r].file) THEN "Commit" ELSE "Rows"]
    BY <1>2 DEF TypeInv
  <2>2. QED
    BY <1>1, <2>1 DEF RequestRow
<1>6. /\ DOMAIN me.eff = 1 .. i /\ Len(me.eff) = i /\ me.eff[i] = e
      /\ \A j \in 1 .. n : me.eff[j] = req[r].eff[j]
  BY <1>3, <1>4, <1>5, AppendProperties
<1>7. /\ e.ok /\ e.section \in SectionsNamed(row) /\ e.group \in GroupsNamed(e.section, row.group)
      /\ e.branch = unit[e.section].up
      /\ e.new \/ EnrollmentsOf(row.email) # {} \/ row.email \in Earlier(r)
  <2>1. Wanted(row) # {}
    BY <1>1, <1>3 DEF Ready, Found
  <2>2. PICK s \in SectionsNamed(row) : GroupsNamed(s, row.group) # {}
    BY <2>1 DEF Wanted
  <2>3. GroupsNamed(s, row.group) \subseteq Ids
    BY DEF GroupsNamed
  <2>4. PICK t \in SectionsNamed(row), g \in Ids \cup {Null} :
          /\ g \in IF GroupsNamed(t, row.group) = {} THEN {Null} ELSE GroupsNamed(t, row.group)
          /\ e = Effect(EnrollmentsOf(row.email) = {} /\ row.email \notin Earlier(r), t, g)
    <3> DEFINE groups(u) == IF GroupsNamed(u, row.group) = {} THEN {Null} ELSE GroupsNamed(u, row.group)
               found == {sg \in SectionsNamed(row) \X (Ids \cup {Null}) : sg[2] \in groups(sg[1])}
    <3>1. PICK g \in GroupsNamed(s, row.group) : TRUE
      BY <2>2
    <3>2. <<s, g>> \in found
      BY <2>2, <2>3, <3>1
    <3>3. found # {}
      BY <3>2
    <3>4. \E sg \in found : e = Effect(EnrollmentsOf(row.email) = {} /\ row.email \notin Earlier(r), sg[1], sg[2])
      BY <1>2, <3>3 DEF StudentEffects
    <3>5. QED
      BY <3>4
  <2>5. t = s
    BY OneSection
  <2>6. g \in GroupsNamed(t, row.group) /\ t # Null
    BY <2>2, <2>4, <2>5, NamedSections, NullApart
  <2>7. QED
    BY <2>4, <2>6 DEF Effect
<1>8. ASSUME NEW j \in DOMAIN me.eff PROVE Right(me, j)
  <2>1. CASE j = i
    <3>1. row.email \in Earlier(r) =>
            \E k \in 1 .. n : req[r].eff[k].new /\ req[r].file[k].email = row.email
      BY <1>3 DEF Earlier
    <3>2. row.email \in Earlier(r) =>
            \E k \in DOMAIN me.eff : k < i /\ me.eff[k].new /\ me.file[k].email = row.email
      BY <1>3, <1>5, <1>6, <3>1
    <3>3. QED
      BY <1>5, <1>6, <1>7, <2>1, <3>2 DEF Right
  <2>2. CASE j # i
    <3>1. j \in 1 .. n /\ Right(req[r], j)
      BY <1>1, <1>3, <1>6, <2>2 DEF Ready
    <3>2. \A k \in DOMAIN req[r].eff : k \in DOMAIN me.eff /\ me.eff[k] = req[r].eff[k]
      BY <1>3, <1>6
    <3>3. QED
      BY <1>1, <1>3, <1>5, <1>6, <3>1, <3>2 DEF Right
  <2>3. QED
    BY <2>1, <2>2
<1>9. Ready(me)
  BY <1>1, <1>5, <1>6, <1>8 DEF Ready
<1>10. QED
  BY <1>1, <1>5, <1>9, ReadyStays

\* The steps that bring an import to its rows.
LEMMA OwnSteps ==
  ASSUME TypeInv, NEW r \in Requests, Start(r) \/ Continue(r), req'[r].pc \in {"Rows", "Commit"}
  PROVE  \/ \E op \in Imports : Validate(r, op)
         \/ Rows(r) /\ shifted' = shifted
         \/ StudentRow(r) /\ shifted' = shifted
<1>1. ~\E op, id, mem : \E pc \in Points \ {"Rows", "Commit"} : Begin(r, op, id, mem, pc)
  <2> SUFFICES ASSUME NEW op, NEW id, NEW mem, NEW pc \in Points \ {"Rows", "Commit"}, Begin(r, op, id, mem, pc)
               PROVE  FALSE
    OBVIOUS
  <2>1. req'[r] = Request(pc, op, id, mem, <<>>)
    BY DEF Begin, TypeInv
  <2>2. QED
    BY <2>1 DEF Request
<1>2. ~End(r)
  <2> SUFFICES ASSUME End(r) PROVE FALSE
    OBVIOUS
  <2>1. PICK me \in RequestRow : req' = [req EXCEPT ![r] = me] /\ me.pc = "done"
    BY EndTypes
  <2>2. QED
    BY <2>1 DEF TypeInv
<1>3. ~Count(r) /\ ~CountMore(r)
  BY DEF Count, CountMore, Goto, TypeInv, RequestRow
<1>4. CASE Start(r)
  BY <1>1, <1>4 DEF Start, CreateUnit, BeginUpdate, BeginRemove, BeginAlter, BeginUnenroll,
                    BeginRegister, Enroll, Points
<1>5. CASE Continue(r)
  BY <1>2, <1>3, <1>5 DEF Continue, SaveUnit, SoftRemove, SaveEnrollment, Unenroll, Register, Refuse,
                          Rows, StudentRow, Commit, Fail
<1>6. QED
  BY <1>4, <1>5

LEMMA HistoryWritten ==
  ASSUME TypeInv, history \in [Requests -> {Null} \cup HistoryRow], [Next]_vars,
         NEW r \in Requests, history[r] = Null, history'[r] # Null, history'[r].status = "SUCCESS"
  PROVE  Commit(r)
<1>1. PICK q \in Requests : Start(q) \/ Continue(q)
  BY DEF Next, vars, tables
<1>2. Refuse(q) \/ Commit(q)
  BY <1>1 DEF Start, Continue, CreateUnit, BeginUpdate, BeginRemove, BeginAlter, BeginUnenroll,
     BeginRegister, Enroll, Validate, SaveUnit, Count, CountMore, SoftRemove, SaveEnrollment, Unenroll,
     Register, Rows, StudentRow, Fail, tables
<1>3. q = r
  BY <1>2 DEF Refuse, Commit
<1>4. ~Refuse(r)
  BY DEF Refuse
<1>5. QED
  BY <1>2, <1>3, <1>4

\* The last row of a unit says who leads or mentors it.
LEMMA HeadGiven ==
  ASSUME TypeInv, NEW r \in Requests, req[r].pc = "Commit", NEW i \in Done(r),
         NEW id \in {req[r].eff[i].section, req[r].eff[i].group}
  PROVE  \E j \in Done(r) : /\ id \in {req[r].eff[j].section, req[r].eff[j].group}
                            /\ HeadOf(r, id, Done(r)) = req[r].file[j].email
<1> DEFINE its == {j \in Done(r) : id \in {req[r].eff[j].section, req[r].eff[j].group}}
           last == CHOOSE j \in its : \A k \in its : k <= j
<1>1. its # {} /\ its \subseteq 1 .. Len(req[r].eff) /\ Len(req[r].eff) \in Nat
  BY DoneRows
<1>2. last \in its
  BY <1>1, LastIn
<1>3. HeadOf(r, id, Done(r)) = req[r].file[last].email
  BY <1>1 DEF HeadOf
<1>4. QED
  BY <1>2, <1>3

\* What a row may mean before the commit it means after it, too.
LEMMA CommitWanted ==
  ASSUME TypeInv, NEW r \in Requests, Commit(r), NEW row
  PROVE  /\ SectionsNamed(row) \subseteq SectionsNamed(row)'
         /\ \A s, name : GroupsNamed(s, name) \subseteq GroupsNamed(s, name)'
         /\ Wanted(row) \subseteq Wanted(row)'
<1>1. ASSUME NEW s \in SectionsNamed(row) PROVE s \in SectionsNamed(row)'
  <2>1. s \in Ids /\ Live(s) /\ Live(unit[s].up)
    BY DEF SectionsNamed
  <2>2. PICK p \in Ids : p = unit[s].up
    <3>1. Null \notin Parents(unit[s].kind) /\ Parents(unit[s].kind) \subseteq Ids
      BY <1>1, NullApart DEF SectionsNamed, Parents
    <3>2. QED
      BY <2>1, <3>1 DEF TypeInv, Placed, Live, Exists
  <2>3. Exists(s)' /\ SameName(s) /\ Exists(p)' /\ SameName(p)
    BY <2>1, <2>2, CommitNames DEF Live
  <2>4. QED
    BY <1>1, <2>1, <2>2, <2>3 DEF SectionsNamed, Live, SameName, Exists
<1>2. ASSUME NEW s, NEW name, NEW g \in GroupsNamed(s, name) PROVE g \in GroupsNamed(s, name)'
  <2>1. g \in Ids /\ Live(g)
    BY DEF GroupsNamed
  <2>2. Exists(g)' /\ SameName(g)
    BY <2>1, CommitNames DEF Live
  <2>3. QED
    BY <2>1, <2>2 DEF GroupsNamed, Live, SameName, Exists
<1>3. \A s, name : GroupsNamed(s, name) \subseteq GroupsNamed(s, name)'
  BY <1>2
<1>4. Wanted(row) \subseteq Wanted(row)'
  BY <1>1, <1>3 DEF Wanted
<1>5. QED
  BY <1>1, <1>3, <1>4

\* A commit that was ready puts every row into effect.
LEMMA CommitComplete ==
  ASSUME TypeInv, NEW r \in Requests, Commit(r), Ready(req[r]), NEW i \in DOMAIN req[r].file
  PROVE  InEffect(r, i)'
<1> USE NullApart
<1>0. PICK me, row, e : me = req[r] /\ row = me.file[i] /\ e = me.eff[i]
  OBVIOUS
<1> USE <1>0
<1>1. /\ me.pc = "Commit" /\ me \in RequestRow /\ me.op \in Imports /\ End(r)
      /\ unit' = UnitsOf(r, Done(r)) /\ enr' = EnrollmentsBy(r, Done(r)) /\ role' = role \cup RolesOf(r)
  BY DEF Commit, TypeInv, Knows
<1>2. /\ DOMAIN me.eff = DOMAIN me.file /\ i \in DOMAIN me.eff
      /\ i \in 1 .. MaxRows /\ row \in FileRow
  <2>1. /\ Len(me.file) \in Nat /\ DOMAIN me.file = 1 .. Len(me.file) /\ DOMAIN me.eff = 1 .. Len(me.eff)
        /\ \A k \in 1 .. Len(me.file) : me.file[k] \in FileRow
    BY <1>1, LenProperties, ElementOfSeq DEF RequestRow
  <2>2. Len(me.eff) = Len(me.file) /\ Len(me.file) <= MaxRows
    BY <1>1 DEF Ready
  <2>3. QED
    BY <2>1, <2>2, MaxRowsAssumption
<1>3. Right(me, i) /\ e.ok /\ i \in Done(r)
  BY <1>1, <1>2 DEF Ready, Right, Done
<1>4. req'[r].op = me.op /\ req'[r].file = me.file
  <2>1. PICK you \in RequestRow : req' = [req EXCEPT ![r] = you] /\ you.op = me.op /\ you.file = me.file
    BY <1>1, EndTypes
  <2>2. QED
    BY <2>1 DEF TypeInv
<1>5. <<r, i>> \in Ids /\ enr[<<r, i>>] = Null
  <2>1. <<r, i>> \in Ids
    BY <1>2 DEF Ids
  <2>2. QED
    BY <1>1, <2>1 DEF TypeInv, Unused
<1>6. CASE me.op = "groups"
  <2>1. e.section \in SectionsNamed(row)'
    BY <1>3, <1>6, CommitWanted DEF Right
  <2>2. unit'[<<r, i>>] = [kind |-> "group", up |-> e.section, name |-> row.group,
                           head |-> Null, dead |-> FALSE]
    BY <1>1, <1>3, <1>5, <1>6 DEF UnitsOf
  <2>3. unit'[<<r, i>>] # Null
    <3>1. e.section \in Ids
      BY <1>3, <1>6 DEF Right, SectionsNamed
    <3>2. unit'[<<r, i>>] \in UnitRow
      BY <1>2, <2>2, <3>1 DEF UnitRow, FileRow, Kinds
    <3>3. QED
      BY <3>2
  <2>4. <<r, i>> \in GroupsNamed(e.section, row.group)'
    BY <1>5, <2>2, <2>3 DEF GroupsNamed, Live, Exists
  <2>5. Wanted(row)' # {}
    BY <2>1, <2>4 DEF Wanted
  <2>6. QED
    BY <1>4, <1>6, <2>5 DEF InEffect, Wanted
<1>7. CASE me.op = "team_leaders"
  <2>1. e.group \in Wanted(row) /\ e.group \in Wanted(row)' /\ e.group \in Ids /\ Exists(e.group)
    <3>1. e.group \in Wanted(row)
      BY <1>3, <1>7 DEF Right
    <3>2. QED
      BY <3>1, CommitWanted DEF Wanted, GroupsNamed, Live
  <2>2. <<row.email, e.group>> \in role'
    BY <1>1, <1>3, <1>7 DEF RolesOf
  <2>3. PICK j \in Done(r) : HeadOf(r, e.group, Done(r)) = me.file[j].email
    BY <1>1, <1>3, HeadGiven
  <2>4. unit'[e.group].head = me.file[j].email
    <3>1. unit[e.group] \in UnitRow
      BY <2>1 DEF TypeInv, Exists
    <3>2. unit'[e.group] = [unit[e.group] EXCEPT !.head = HeadOf(r, e.group, Done(r))]
      BY <1>1, <1>7, <2>1 DEF UnitsOf
    <3>3. QED
      BY <2>3, <3>1, <3>2 DEF UnitRow
  <2>5. j \in DOMAIN me.file
    BY <1>2 DEF Done
  <2>6. QED
    BY <1>4, <1>7, <2>1, <2>2, <2>4, <2>5 DEF InEffect, Wanted
<1>8. CASE me.op = "mentors"
  <2>1. e.section \in SectionsNamed(row) /\ e.section \in SectionsNamed(row)' /\ e.section \in Ids
        /\ Exists(e.section)
    <3>1. e.section \in SectionsNamed(row)
      BY <1>3, <1>8 DEF Right
    <3>2. QED
      BY <3>1, CommitWanted DEF SectionsNamed, Live
  <2>2. <<row.email, e.section>> \in role'
    BY <1>1, <1>3, <1>8 DEF RolesOf
  <2>3. PICK j \in Done(r) : /\ e.section \in {me.eff[j].section, me.eff[j].group}
                             /\ HeadOf(r, e.section, Done(r)) = me.file[j].email
    BY <1>1, <1>3, HeadGiven
  <2>4. j = i
    <3>1. j \in DOMAIN me.eff /\ j \in DOMAIN me.file
      BY <1>2 DEF Done
    <3>2. me.eff[j].group = Null /\ me.eff[j].section \in SectionsNamed(me.file[j])
      BY <1>1, <1>8, <3>1, DoneRows DEF EffectPlaced, Ready, Right
    <3>3. e.section \in SectionsNamed(me.file[j])
      BY <2>1, <2>3, <3>2
    <3>4. me.file[j].branch = row.branch /\ me.file[j].section = row.section
      BY <2>1, <3>3 DEF SectionsNamed
    <3>5. QED
      BY <1>1, <1>8, <3>1, <3>4 DEF Ready
  <2>5. unit'[e.section].head = row.email
    <3>1. unit[e.section] \in UnitRow
      BY <2>1 DEF TypeInv, Exists
    <3>2. unit'[e.section] = [unit[e.section] EXCEPT !.head = HeadOf(r, e.section, Done(r))]
      BY <1>1, <1>8, <2>1 DEF UnitsOf
    <3>3. QED
      BY <2>3, <2>4, <3>1, <3>2 DEF UnitRow
  <2>6. QED
    BY <1>4, <1>8, <2>1, <2>2, <2>5 DEF InEffect
<1>9. CASE me.op = "students"
  <2>1. CASE e.new
    <3>1. /\ e.section \in SectionsNamed(row)' /\ e.group \in GroupsNamed(e.section, row.group)'
          /\ e.branch = unit'[e.section].up
      <4>1. /\ e.section \in SectionsNamed(row) /\ e.group \in GroupsNamed(e.section, row.group)
            /\ e.branch = unit[e.section].up
        BY <1>3, <1>9 DEF Right
      <4>2. unit'[e.section].up = unit[e.section].up
        BY <4>1, CommitNames DEF SectionsNamed, Live, SameName
      <4>3. QED
        BY <4>1, <4>2, CommitWanted
    <3>2. enr'[<<r, i>>] = [user |-> row.email, branch |-> e.branch, section |-> e.section,
                            group |-> e.group, active |-> TRUE, dead |-> FALSE]
      BY <1>1, <1>3, <1>5, <1>9, <2>1 DEF EnrollmentsBy
    <3>3. QED
      BY <1>4, <1>9, <3>1, <3>2 DEF InEffect
  <2>2. CASE EnrollmentsOf(row.email) # {}
    <3>1. PICK x \in EnrollmentsOf(row.email) : TRUE
      BY <2>2
    <3>2. x \in Ids /\ enr[x] # Null /\ ~enr[x].active /\ x[1] # r
      <4>1. Found("students", row)
        BY <1>1, <1>9 DEF Ready
      <4>2. x \in Ids /\ enr[x] # Null /\ ~enr[x].active
        BY <3>1, <4>1 DEF Found, EnrollmentsOf, Enrolled
      <4>3. QED
        BY <1>1, <4>2 DEF TypeInv, Unused
    <3>3. enr'[x] = enr[x]
      BY <3>2, CommitEnrollment
    <3>4. x \in EnrollmentsOf(row.email)' /\ ~enr'[x].active
      BY <3>1, <3>2, <3>3 DEF EnrollmentsOf, Enrolled
    <3>5. LeftAlone(r, i)'
      BY <1>4, <3>2, <3>4 DEF LeftAlone
    <3>6. QED
      BY <1>4, <1>9, <3>5 DEF InEffect
  <2>3. CASE ~e.new /\ EnrollmentsOf(row.email) = {}
    <3>1. PICK j \in DOMAIN me.eff : j < i /\ me.file[j].email = row.email
      BY <1>3, <1>9, <2>3 DEF Right
    <3>2. LeftAlone(r, i)'
      BY <1>2, <1>4, <3>1 DEF LeftAlone
    <3>3. QED
      BY <1>4, <1>9, <3>2 DEF InEffect
  <2>4. QED
    BY <2>1, <2>2, <2>3
<1>10. QED
  BY <1>1, <1>6, <1>7, <1>8, <1>9 DEF Imports

ImportInv == ReportInv /\ NamesUnique /\ AllReady

LEMMA ImportStep ==
  ASSUME ImportInv, [Next]_vars
  PROVE  ImportInv'
<1>0. ReportInv' /\ TypeInv
  BY ReportStep DEF ImportInv, ReportInv, OrphansInv
<1>1. ASSUME NEW q \in Requests, Start(q) \/ Continue(q) PROVE NamesUnique' /\ AllReady'
  <2>1. NamesUnique'
    BY <1>0, <1>1, UniqueStep DEF ImportInv
  <2>2. ASSUME NEW r \in Requests, r \notin shifted' PROVE Ready(req[r])'
    <3>1. CASE r # q /\ req'[r].pc \in {"Rows", "Commit"}
      <4>1. req'[r] = req[r]
        BY <1>0, <1>1, <3>1, StepChange DEF Change
      <4>2. /\ UNCHANGED <<unit, enr, users>> /\ r \notin shifted
        BY <1>0, <1>1, <2>2, <3>1, <4>1, Undisturbed
      <4>3. PICK me : me = req[r] /\ Ready(me)
        BY <4>2 DEF ImportInv, AllReady
      <4>4. Ready(me)'
        BY <4>2, <4>3, ReadyStays
      <4>5. QED
        BY <4>1, <4>3, <4>4
    <3>2. CASE r = q /\ req'[r].pc \in {"Rows", "Commit"}
      <4>1. r \notin shifted => Ready(req[r])
        BY DEF ImportInv, AllReady
      <4>2. \/ \E op \in Imports : Validate(r, op)
            \/ Rows(r) /\ shifted' = shifted
            \/ StudentRow(r) /\ shifted' = shifted
        BY <1>0, <1>1, <3>2, OwnSteps
      <4>3. QED
        BY <1>0, <2>2, <4>1, <4>2, ValidateReady, RowsReady, StudentRowReady DEF ImportInv
    <3>3. CASE req'[r].pc \notin {"Rows", "Commit"}
      BY <3>3 DEF Ready
    <3>4. QED
      BY <3>1, <3>2, <3>3
  <2>3. QED
    BY <2>1, <2>2 DEF AllReady
<1>2. CASE UNCHANGED vars
  <2>1. UNCHANGED <<unit, enr, users, req, shifted>>
    BY <1>2 DEF vars, tables
  <2>2. NamesUnique'
    BY <2>1 DEF ImportInv, NamesUnique, Exists
  <2>3. ASSUME NEW r \in Requests \ shifted PROVE Ready(req[r])'
    <3>1. PICK me : me = req[r] /\ Ready(me)
      BY DEF ImportInv, AllReady
    <3>2. QED
      BY <2>1, <3>1, ReadyStays
  <2>4. QED
    BY <1>0, <2>1, <2>2, <2>3 DEF ImportInv, AllReady
<1>3. QED
  BY <1>0, <1>1, <1>2 DEF Next, ImportInv

\* An import that reports success has done all its file asks for, however many
\* rows it has and whatever the other imports do, unless somebody else wrote
\* after the file had been validated.
THEOREM SuccessIsCompleteSafe == Spec => SuccessIsComplete
<1>1. Init => ImportInv
  <2> SUFFICES ASSUME Init PROVE ImportInv
    OBVIOUS
  <2>1. ReportInv
    BY InitInv DEF Init, ReportInv, Reported, Blank, Request, Imports
  <2>2. AllReady
    BY DEF Init, AllReady, Ready, Blank, Request
  <2>3. NamesUnique
    <3>1. PICK o \in Organisations :
            unit = [i \in Ids |-> IF i \in DOMAIN o.unit THEN o.unit[i] ELSE Null]
      BY DEF Init
    <3>2. \A i, j \in DOMAIN o.unit : Alike(o.unit[i], o.unit[j]) => i = j
      BY OrganisationsAssumption
    <3>3. QED
      BY <3>1, <3>2 DEF NamesUnique, Exists
  <2>4. QED
    BY <2>1, <2>2, <2>3 DEF ImportInv
<1>2. ASSUME ImportInv, [Next]_vars
      PROVE  \A r \in Requests \ shifted :
               history[r] = Null /\ history'[r] # Null /\ history'[r].status = "SUCCESS"
                 => \A i \in DOMAIN req[r].file : InEffect(r, i)'
  <2> SUFFICES ASSUME NEW r \in Requests \ shifted, history[r] = Null, history'[r] # Null,
                      history'[r].status = "SUCCESS", NEW i \in DOMAIN req[r].file
               PROVE  InEffect(r, i)'
    OBVIOUS
  <2>1. TypeInv /\ Ready(req[r]) /\ history \in [Requests -> {Null} \cup HistoryRow]
    BY <1>2 DEF ImportInv, ReportInv, OrphansInv, AllReady
  <2>2. Commit(r)
    BY <1>2, <2>1, HistoryWritten
  <2>3. QED
    BY <2>1, <2>2, CommitComplete
<1>3. QED
  <2>1. ImportInv /\ [Next]_vars => [\A r \in Requests \ shifted :
               history[r] = Null /\ history'[r] # Null /\ history'[r].status = "SUCCESS"
                 => \A i \in DOMAIN req[r].file : InEffect(r, i)']_vars
    BY <1>2
  <2>2. ImportInv /\ [Next]_vars => ImportInv'
    BY ImportStep
  <2>3. QED
    BY <1>1, <2>1, <2>2, PTL DEF Spec, SuccessIsComplete
=============================================================================
