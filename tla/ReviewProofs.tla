---------------------------- MODULE ReviewProofs ----------------------------
(***************************************************************************)
(* Theorems about Review, for any number of requests, participations,      *)
(* files and users, any interleaving and any fault.                        *)
(***************************************************************************)
EXTENDS Review, TLAPS

-----------------------------------------------------------------------------
(* Type correctness.  TypeOK alone is not inductive: a step that writes a  *)
(* row needs the locals it writes from to be there.  Locals is the set of  *)
(* the requests that have read what their control point needs.             *)

Busy(me) == me.pc \notin {"idle", "done", "failed"}

Locals ==
  {me \in Request :
    /\ Busy(me) => me.part \in Participations
    /\ (Busy(me) /\ me.op \notin {"create", "transition"})
         \/ me.pc \in {"DeletePriorLinks", "SaveSubmission", "SaveLinks", "SaveReason"}
       => me.sub \in Requests /\ me.smem \in SubmissionRow
    /\ Busy(me) /\ me.op = "transition" => me.pc = "SaveStatus"
    /\ (Busy(me) /\ me.op = "create") \/ me.pc \in {"CheckLog", "SaveLog", "SaveStatus"}
       => me.mem \in ParticipationRow /\ me.to \in Statuses
    /\ me.pc \in {"ReadParticipation", "CheckLog", "SaveLog"}
       => me.to \in {"verified", "rejected"} /\ me.op \in {"approve", "reject"}}

TypeInv == TypeOK /\ req \in [Requests -> Locals]

LEMMA BlankTypes ==
  /\ Blank \in Locals
  /\ \A p \in Participations \cup {Null}, old \in SUBSET Keys, pc \in {"done", "failed"} :
       [Blank EXCEPT !.pc = pc, !.part = p, !.old = old] \in Locals
<1>1. Blank \in Request
  BY DEF Blank, Request, Points, Handlers
<1>2. ASSUME NEW p \in Participations \cup {Null}, NEW old \in SUBSET Keys,
             NEW pc \in {"done", "failed"}
      PROVE  [Blank EXCEPT !.pc = pc, !.part = p, !.old = old] \in Request
  BY <1>1 DEF Request, Points
<1>3. QED
  BY <1>1, <1>2 DEF Locals, Busy, Blank

\* A request that ends keeps no locals a step could write from.
LEMMA EndedTypes ==
  ASSUME TypeInv, NEW r \in Requests
  PROVE  Ended(r, "done") \in Locals /\ Ended(r, "failed") \in Locals
<1>1. req[r] \in Request
  BY DEF TypeInv, Locals
<1>2. req[r].part \in Participations \cup {Null} /\ req[r].old \in SUBSET Keys
  BY <1>1 DEF Request
<1>3. QED
  BY <1>2, BlankTypes DEF Ended

\* The types of the request r, in the form the step lemmas use.
LEMMA LocalTypes ==
  ASSUME TypeInv, NEW r \in Requests
  PROVE  req[r] \in Request /\ req[r] \in Locals
BY DEF TypeInv, Locals

LEMMA StepTypes ==
  ASSUME TypeInv, NEW r \in Requests, NEW pc, NEW next \in Locals, Step(r, pc, next)
  PROVE  /\ req' \in [Requests -> Request] /\ req' \in [Requests -> Locals]
         /\ contended' \subseteq Participations
BY DEF TypeInv, TypeOK, Step, Locals

LEMMA BeginTypes ==
  ASSUME TypeInv, NEW r \in Requests, NEW call \in Locals,
         call.part \in Participations, Begin(r, call)
  PROVE  /\ req' \in [Requests -> Request] /\ req' \in [Requests -> Locals]
         /\ contended' \subseteq Participations
BY DEF TypeInv, TypeOK, Begin, Locals

LEMMA CallTypes ==
  ASSUME TypeInv, NEW r \in Requests, Call(r)
  PROVE  TypeInv'
<1> USE OwnersAssumption, LeadersAssumption, BoundsAssumption, NullAssumption
<1>0. Blank \in Request
  BY BlankTypes DEF Locals
<1>a. \A n \in 0 .. MaxFiles : Upload(r, n) \subseteq Keys
  BY DEF Upload, Keys
<1>1. ASSUME NEW p \in Participations, NEW n \in 1 .. MaxFiles, BeginCreate(r, p, n)
      PROVE  TypeInv'
  <2> DEFINE call == [Blank EXCEPT !.pc = "CheckOpportunity", !.op = "create",
                            !.by = Owner[p], !.part = p, !.mem = part[p],
                            !.to = "submitted", !.want = Upload(r, n),
                            !.todo = Upload(r, n)]
  <2>1. Upload(r, n) \subseteq Keys
    BY <1>a
  <2>2. part[p] \in ParticipationRow
    BY DEF TypeInv, TypeOK
  <2>3. call \in Request
    BY <2>1, <2>2, <1>0 DEF Blank, Request, Points, Handlers, Statuses
  <2>4. call \in Locals /\ call.part \in Participations
    BY <2>2, <2>3 DEF Locals, Busy, Blank, Statuses
  <2>5. Begin(r, call)
    BY <1>1 DEF BeginCreate
  <2>6. /\ req' \in [Requests -> Request] /\ req' \in [Requests -> Locals]
        /\ contended' \subseteq Participations
    <3> HIDE DEF call
    <3> QED BY <2>4, <2>5, BeginTypes
  <2>7. QED
    BY <1>1, <2>6 DEF BeginCreate, TypeInv, TypeOK, tables
<1>2. ASSUME NEW s \in Requests, NEW n \in 0 .. MaxFiles, NEW op \in {"update", "remove"},
             BeginEdit(r, s, op, n)
      PROVE  TypeInv'
  <2> DEFINE call == [Blank EXCEPT !.pc = "CheckLocked", !.op = op,
                            !.by = Owner[sub[s].part], !.part = sub[s].part,
                            !.sub = s, !.smem = sub[s], !.want = Upload(r, n)]
  <2>1. Upload(r, n) \subseteq Keys
    BY <1>a
  <2>2. sub[s] \in SubmissionRow
    BY <1>2 DEF BeginEdit, TypeInv, TypeOK
  <2>3. call \in Request
    BY <2>1, <2>2, <1>0 DEF SubmissionRow, Blank, Request, Points, Handlers
  <2>4. call \in Locals /\ call.part \in Participations
    BY <2>2, <2>3 DEF SubmissionRow, Locals, Busy, Blank
  <2>5. Begin(r, call)
    BY <1>2 DEF BeginEdit
  <2>6. /\ req' \in [Requests -> Request] /\ req' \in [Requests -> Locals]
        /\ contended' \subseteq Participations
    <3> HIDE DEF call
    <3> QED BY <2>4, <2>5, BeginTypes
  <2>7. QED
    BY <1>2, <2>6 DEF BeginEdit, TypeInv, TypeOK, tables
<1>3. ASSUME NEW s \in Requests, NEW u \in Users, NEW op \in {"approve", "reject"},
             BeginReview(r, s, u, op)
      PROVE  TypeInv'
  <2> DEFINE call == [Blank EXCEPT !.pc = "ReadParticipation", !.op = op, !.by = u,
                            !.part = sub[s].part, !.sub = s, !.smem = sub[s],
                            !.to = IF op = "approve" THEN "verified" ELSE "rejected"]
  <2>1. sub[s] \in SubmissionRow
    BY <1>3 DEF BeginReview, TypeInv, TypeOK
  <2>2. call \in Request
    BY <2>1, <1>0 DEF SubmissionRow, Blank, Request, Points, Handlers, Statuses
  <2>3. call \in Locals /\ call.part \in Participations
    BY <2>1, <2>2 DEF SubmissionRow, Locals, Busy, Blank
  <2>4. Begin(r, call)
    BY <1>3 DEF BeginReview
  <2>5. /\ req' \in [Requests -> Request] /\ req' \in [Requests -> Locals]
        /\ contended' \subseteq Participations
    <3> HIDE DEF call
    <3> QED BY <2>3, <2>4, BeginTypes
  <2>6. QED
    BY <1>3, <2>5 DEF BeginReview, TypeInv, TypeOK, tables
<1>4. ASSUME NEW p \in Participations, NEW u \in Users, NEW to \in Statuses,
             BeginTransition(r, p, u, to)
      PROVE  TypeInv'
  <2> DEFINE call == [Blank EXCEPT !.pc = "SaveStatus", !.op = "transition", !.by = u,
                            !.part = p, !.mem = part[p], !.to = to]
  <2>1. part[p] \in ParticipationRow
    BY DEF TypeInv, TypeOK
  <2>2. call \in Request
    BY <2>1, <1>0 DEF Blank, Request, Points, Handlers
  <2>3. call \in Locals /\ call.part \in Participations
    BY <2>1, <2>2 DEF Locals, Busy, Blank
  <2>4. Begin(r, call)
    BY <1>4 DEF BeginTransition
  <2>5. /\ req' \in [Requests -> Request] /\ req' \in [Requests -> Locals]
        /\ contended' \subseteq Participations
    <3> HIDE DEF call
    <3> QED BY <2>3, <2>4, BeginTypes
  <2>6. QED
    BY <1>4, <2>5 DEF BeginTransition, TypeInv, TypeOK, tables
<1>5. 0 \in 0 .. MaxFiles
  OBVIOUS
<1>6. QED
  BY <1>1, <1>2, <1>3, <1>4, <1>5
  DEF Call, BeginUpdate, BeginRemove, BeginApprove, BeginReject
LEMMA ProceedTypes ==
  ASSUME TypeInv, NEW r \in Requests, Proceed(r)
  PROVE  TypeInv'
<1> USE NullAssumption
<1>t. req[r] \in Request /\ req[r] \in Locals
  BY LocalTypes
<1>1. ASSUME CheckOpportunity(r) PROVE TypeInv'
  <2> DEFINE next == At(r, "Upload")
  <2>1. next \in Request
    BY <1>t DEF At, Request, Points
  <2>2. next \in Locals
    BY <2>1, <1>1, <1>t DEF At, Request, Locals, Busy, CheckOpportunity, Step
  <2>3. Step(r, "CheckOpportunity", next)
    BY <1>1 DEF CheckOpportunity
  <2>4. /\ req' \in [Requests -> Request] /\ req' \in [Requests -> Locals]
        /\ contended' \subseteq Participations
    <3> HIDE DEF next
    <3> QED BY <2>2, <2>3, StepTypes
  <2>5. QED
    BY <1>1, <2>4, <1>t
    DEF Request, Locals, Busy, TypeInv, TypeOK, tables, CheckOpportunity, Step
<1>2. ASSUME SaveRefs(r) PROVE TypeInv'
  <2> DEFINE next == At(r, IF req[r].op = "create" THEN "FindExisting" ELSE "SaveLinks")
  <2>1. next \in Request
    BY <1>t DEF At, Request, Points
  <2>2. next \in Locals
    BY <2>1, <1>2, <1>t DEF At, Request, Locals, Busy, SaveRefs, Step
  <2>3. Step(r, "SaveRefs", next)
    BY <1>2 DEF SaveRefs
  <2>4. /\ req' \in [Requests -> Request] /\ req' \in [Requests -> Locals]
        /\ contended' \subseteq Participations
    <3> HIDE DEF next
    <3> QED BY <2>2, <2>3, StepTypes
  <2>5. QED
    BY <1>2, <2>4, <1>t
    DEF Request, Locals, Busy, TypeInv, TypeOK, tables, SaveRefs, Step
<1>3. ASSUME DeletePriorLinks(r) PROVE TypeInv'
  <2> DEFINE next == At(r, "SaveSubmission")
  <2>1. next \in Request
    BY <1>t DEF At, Request, Points
  <2>2. next \in Locals
    BY <2>1, <1>3, <1>t DEF At, Request, Locals, Busy, DeletePriorLinks, Step
  <2>3. Step(r, "DeletePriorLinks", next)
    BY <1>3 DEF DeletePriorLinks
  <2>4. /\ req' \in [Requests -> Request] /\ req' \in [Requests -> Locals]
        /\ contended' \subseteq Participations
    <3> HIDE DEF next
    <3> QED BY <2>2, <2>3, StepTypes
  <2>5. QED
    BY <1>3, <2>4, <1>t
    DEF Request, Locals, Busy, TypeInv, TypeOK, tables, DeletePriorLinks, Step, LinksWithout
<1>4. ASSUME SaveSubmission(r) PROVE TypeInv'
  <2> DEFINE next == At(r, "SaveLinks")
  <2>1. next \in Request
    BY <1>t DEF At, Request, Points
  <2>2. next \in Locals
    BY <2>1, <1>4, <1>t DEF At, Request, Locals, Busy, SaveSubmission, Step
  <2>3. Step(r, "SaveSubmission", next)
    BY <1>4 DEF SaveSubmission
  <2>4. /\ req' \in [Requests -> Request] /\ req' \in [Requests -> Locals]
        /\ contended' \subseteq Participations
    <3> HIDE DEF next
    <3> QED BY <2>2, <2>3, StepTypes
  <2>5. QED
    BY <1>4, <2>4, <1>t
    DEF Request, Locals, Busy, TypeInv, TypeOK, tables, SaveSubmission, Step
<1>5. ASSUME SaveLinks(r) PROVE TypeInv'
  <2> DEFINE next == At(r, IF req[r].op = "create" THEN "SaveStatus" ELSE "TouchSubmission")
  <2>1. next \in Request
    BY <1>t DEF At, Request, Points
  <2>2. next \in Locals
    BY <2>1, <1>5, <1>t DEF At, Request, Locals, Busy, SaveLinks, Step
  <2>3. Step(r, "SaveLinks", next)
    BY <1>5 DEF SaveLinks
  <2>4. /\ req' \in [Requests -> Request] /\ req' \in [Requests -> Locals]
        /\ contended' \subseteq Participations
    <3> HIDE DEF next
    <3> QED BY <2>2, <2>3, StepTypes
  <2>5. QED
    BY <1>5, <2>4, <1>t
    DEF Request, Locals, Busy, TypeInv, TypeOK, tables, SaveLinks, Step, NewLinks
<1>6. ASSUME DeleteLinks(r) PROVE TypeInv'
  <2> DEFINE next == At(r, "DeleteRefs")
  <2>1. next \in Request
    BY <1>t DEF At, Request, Points
  <2>2. next \in Locals
    BY <2>1, <1>6, <1>t DEF At, Request, Locals, Busy, DeleteLinks, Step
  <2>3. Step(r, "DeleteLinks", next)
    BY <1>6 DEF DeleteLinks
  <2>4. /\ req' \in [Requests -> Request] /\ req' \in [Requests -> Locals]
        /\ contended' \subseteq Participations
    <3> HIDE DEF next
    <3> QED BY <2>2, <2>3, StepTypes
  <2>5. QED
    BY <1>6, <2>4, <1>t
    DEF Request, Locals, Busy, TypeInv, TypeOK, tables, DeleteLinks, Step, LinksWithout
<1>7. ASSUME CheckLog(r) PROVE TypeInv'
  <2> DEFINE next == At(r, "SaveLog")
  <2>1. next \in Request
    BY <1>t DEF At, Request, Points
  <2>2. next \in Locals
    BY <2>1, <1>7, <1>t DEF At, Request, Locals, Busy, CheckLog, Step
  <2>3. Step(r, "CheckLog", next)
    BY <1>7 DEF CheckLog
  <2>4. /\ req' \in [Requests -> Request] /\ req' \in [Requests -> Locals]
        /\ contended' \subseteq Participations
    <3> HIDE DEF next
    <3> QED BY <2>2, <2>3, StepTypes
  <2>5. QED
    BY <1>7, <2>4, <1>t
    DEF Request, Locals, Busy, TypeInv, TypeOK, tables, CheckLog, Step
<1>8. ASSUME SaveLog(r) PROVE TypeInv'
  <2> DEFINE next == At(r, "SaveStatus")
  <2>1. next \in Request
    BY <1>t DEF At, Request, Points
  <2>2. next \in Locals
    BY <2>1, <1>8, <1>t DEF At, Request, Locals, Busy, SaveLog, Step
  <2>3. Step(r, "SaveLog", next)
    BY <1>8 DEF SaveLog
  <2>4. /\ req' \in [Requests -> Request] /\ req' \in [Requests -> Locals]
        /\ contended' \subseteq Participations
    <3> HIDE DEF next
    <3> QED BY <2>2, <2>3, StepTypes
  <2>5. QED
    BY <1>8, <2>4, <1>t
    DEF Request, Locals, Busy, TypeInv, TypeOK, tables, SaveLog, Step, LogRow
<1>9. ASSUME SaveReason(r) PROVE TypeInv'
  <2> DEFINE next == Ended(r, "done")
  <2>1. next \in Locals
    BY EndedTypes
  <2>2. Step(r, "SaveReason", next)
    BY <1>9 DEF SaveReason
  <2>3. /\ req' \in [Requests -> Request] /\ req' \in [Requests -> Locals]
        /\ contended' \subseteq Participations
    <3> HIDE DEF next
    <3> QED BY <2>1, <2>2, StepTypes
  <2>4. QED
    BY <1>9, <2>3, <1>t
    DEF Request, Locals, Busy, TypeInv, TypeOK, tables, SaveReason, Step, SubmissionRow
<1>10. ASSUME TouchSubmission(r) PROVE TypeInv'
  <2> DEFINE next == Ended(r, "done")
  <2>1. next \in Locals
    BY EndedTypes
  <2>2. Step(r, "TouchSubmission", next)
    BY <1>10 DEF TouchSubmission
  <2>3. /\ req' \in [Requests -> Request] /\ req' \in [Requests -> Locals]
        /\ contended' \subseteq Participations
    <3> HIDE DEF next
    <3> QED BY <2>1, <2>2, StepTypes
  <2>4. QED
    BY <1>10, <2>3, <1>t
    DEF Request, Locals, Busy, TypeInv, TypeOK, tables, TouchSubmission, Step
<1>11. ASSUME RemoveRow(r) PROVE TypeInv'
  <2> DEFINE next == Ended(r, "done")
  <2>1. next \in Locals
    BY EndedTypes
  <2>2. Step(r, "RemoveRow", next)
    BY <1>11 DEF RemoveRow
  <2>3. /\ req' \in [Requests -> Request] /\ req' \in [Requests -> Locals]
        /\ contended' \subseteq Participations
    <3> HIDE DEF next
    <3> QED BY <2>1, <2>2, StepTypes
  <2>4. QED
    <3>1. sub' \in [Requests -> SubmissionRow \cup {Null}]
      BY <1>11 DEF RemoveRow, TypeInv, TypeOK
    <3>2. logs' \in [Requests -> LogRow \cup {Null}]
      BY <1>11 DEF RemoveRow, TypeInv, TypeOK
    <3>3. links' \subseteq Requests \X Keys
      BY <1>11 DEF RemoveRow, LinksWithout, TypeInv, TypeOK
    <3>4. UNCHANGED <<part, refs, objects, accepting, raced>>
      BY <1>11 DEF RemoveRow
    <3>5. QED
      BY <2>3, <3>1, <3>2, <3>3, <3>4 DEF TypeInv, TypeOK
<1>12. ASSUME DeleteRefs(r) PROVE TypeInv'
  <2> DEFINE next == [req[r] EXCEPT !.todo = req[r].want,
                         !.pc = IF req[r].op = "update" THEN "Upload" ELSE "RemoveRow"]
  <2>1. next \in Request
    <3>1. req[r].want \in SUBSET Keys
      BY <1>t DEF Request
    <3>2. (IF req[r].op = "update" THEN "Upload" ELSE "RemoveRow") \in Points
      BY DEF Points
    <3>3. QED
      BY <1>t, <3>1, <3>2 DEF Request
  <2>2. next \in Locals
    BY <2>1, <1>12, <1>t DEF Request, Locals, Busy, DeleteRefs, Step
  <2>3. Step(r, "DeleteRefs", next)
    BY <1>12 DEF DeleteRefs
  <2>4. /\ req' \in [Requests -> Request] /\ req' \in [Requests -> Locals]
        /\ contended' \subseteq Participations
    <3> HIDE DEF next
    <3> QED BY <2>2, <2>3, StepTypes
  <2>5. QED
    BY <1>12, <2>4, <1>t
    DEF Request, Locals, Busy, TypeInv, TypeOK, tables, DeleteRefs, Step, RefsWithout
<1>13. ASSUME ListFiles(r) PROVE TypeInv'
  <2> DEFINE next == [req[r] EXCEPT !.old = FilesOf(req[r].sub), !.todo = FilesOf(req[r].sub),
                         !.pc = IF FilesOf(req[r].sub) = {} THEN "DeleteLinks" ELSE "DeleteObject"]
  <2>1. next \in Request
    <3>1. FilesOf(req[r].sub) \in SUBSET Keys
      BY DEF FilesOf
    <3>2. (IF FilesOf(req[r].sub) = {} THEN "DeleteLinks" ELSE "DeleteObject") \in Points
      BY DEF Points
    <3>3. QED
      BY <1>t, <3>1, <3>2 DEF Request
  <2>2. next \in Locals
    BY <2>1, <1>13, <1>t DEF Request, Locals, Busy, ListFiles, Step
  <2>3. Step(r, "ListFiles", next)
    BY <1>13 DEF ListFiles
  <2>4. /\ req' \in [Requests -> Request] /\ req' \in [Requests -> Locals]
        /\ contended' \subseteq Participations
    <3> HIDE DEF next
    <3> QED BY <2>2, <2>3, StepTypes
  <2>5. QED
    BY <1>13, <2>4, <1>t
    DEF Request, Locals, Busy, TypeInv, TypeOK, tables, ListFiles, Step
<1>14. ASSUME NEW k \in Keys, UploadObject(r, k) PROVE TypeInv'
  <2> DEFINE next == [req[r] EXCEPT !.todo = @ \ {k},
                         !.pc = IF req[r].todo = {k} THEN "SaveRefs" ELSE "Upload"]
  <2>1. next \in Request
    <3>1. req[r].todo \ {k} \in SUBSET Keys
      BY <1>t DEF Request
    <3>2. (IF req[r].todo = {k} THEN "SaveRefs" ELSE "Upload") \in Points
      BY DEF Points
    <3>3. QED
      BY <1>t, <3>1, <3>2 DEF Request
  <2>2. next \in Locals
    BY <2>1, <1>14, <1>t DEF Request, Locals, Busy, UploadObject, Step
  <2>3. Step(r, "Upload", next)
    BY <1>14 DEF UploadObject
  <2>4. /\ req' \in [Requests -> Request] /\ req' \in [Requests -> Locals]
        /\ contended' \subseteq Participations
    <3> HIDE DEF next
    <3> QED BY <2>2, <2>3, StepTypes
  <2>5. QED
    <3>1. objects' \subseteq Keys
      BY <1>14 DEF UploadObject, TypeInv, TypeOK
    <3>2. QED
      BY <1>14, <2>4, <3>1 DEF TypeInv, TypeOK, tables, UploadObject
<1>15. ASSUME NEW k \in Keys, DeleteObject(r, k) PROVE TypeInv'
  <2> DEFINE next == [req[r] EXCEPT !.todo = @ \ {k},
                         !.pc = IF req[r].todo = {k} THEN "DeleteLinks" ELSE "DeleteObject"]
  <2>1. next \in Request
    <3>1. req[r].todo \ {k} \in SUBSET Keys
      BY <1>t DEF Request
    <3>2. QED
      BY <1>t, <3>1 DEF Request, Points
  <2>2. next \in Locals
    BY <2>1, <1>15, <1>t DEF Request, Locals, Busy, DeleteObject, Step
  <2>3. Step(r, "DeleteObject", next)
    BY <1>15 DEF DeleteObject
  <2>4. /\ req' \in [Requests -> Request] /\ req' \in [Requests -> Locals]
        /\ contended' \subseteq Participations
    <3> HIDE DEF next
    <3> QED BY <2>2, <2>3, StepTypes
  <2>5. QED
    <3>1. objects' \subseteq Keys
      BY <1>15 DEF DeleteObject, TypeInv, TypeOK
    <3>2. QED
      BY <1>15, <2>4, <3>1 DEF TypeInv, TypeOK, tables, DeleteObject
<1>16. ASSUME CheckLocked(r) PROVE TypeInv'
  <2> DEFINE next == [req[r] EXCEPT !.mem = part[req[r].part],
                         !.pc = IF req[r].op = "update" /\ req[r].want = {}
                                  THEN "TouchSubmission" ELSE "ListFiles"]
  <2>0. req[r].pc = "CheckLocked" /\ part[req[r].part] \in ParticipationRow
    BY <1>16, <1>t DEF CheckLocked, Step, Locals, Busy, TypeInv, TypeOK
  <2>1. next \in Request
    BY <1>t, <2>0 DEF Request, Points
  <2>2. next \in Locals
    BY <2>1, <2>0, <1>t DEF Request, Locals, Busy
  <2>3. Step(r, "CheckLocked", next)
    BY <1>16 DEF CheckLocked
  <2>4. /\ req' \in [Requests -> Request] /\ req' \in [Requests -> Locals]
        /\ contended' \subseteq Participations
    <3> HIDE DEF next
    <3> QED BY <2>2, <2>3, StepTypes
  <2>5. QED
    BY <1>16, <2>4 DEF TypeInv, TypeOK, tables, CheckLocked
<1>17. ASSUME ReadParticipation(r) PROVE TypeInv'
  <2> DEFINE next == [req[r] EXCEPT !.pc = "CheckLog", !.mem = part[req[r].part]]
  <2>0. req[r].pc = "ReadParticipation" /\ part[req[r].part] \in ParticipationRow
    BY <1>17, <1>t DEF ReadParticipation, Step, Locals, Busy, TypeInv, TypeOK
  <2>1. next \in Request
    BY <1>t, <2>0 DEF Request, Points
  <2>2. next \in Locals
    BY <2>1, <2>0, <1>t DEF Request, Locals, Busy, Statuses
  <2>3. Step(r, "ReadParticipation", next)
    BY <1>17 DEF ReadParticipation
  <2>4. /\ req' \in [Requests -> Request] /\ req' \in [Requests -> Locals]
        /\ contended' \subseteq Participations
    <3> HIDE DEF next
    <3> QED BY <2>2, <2>3, StepTypes
  <2>5. QED
    BY <1>17, <2>4 DEF TypeInv, TypeOK, tables, ReadParticipation
<1>18. ASSUME SaveStatus(r) PROVE TypeInv'
  <2> DEFINE next == IF req[r].op = "reject" THEN At(r, "SaveReason")
                                             ELSE Ended(r, "done")
  <2>1. At(r, "SaveReason") \in Request
    BY <1>t DEF At, Request, Points
  <2>2. req[r].op = "reject" => At(r, "SaveReason") \in Locals
    BY <2>1, <1>18, <1>t DEF At, Request, Locals, Busy, SaveStatus, Step
  <2>3. next \in Locals
    BY <2>2, EndedTypes
  <2>4. Step(r, "SaveStatus", next)
    BY <1>18 DEF SaveStatus
  <2>5. /\ req' \in [Requests -> Request] /\ req' \in [Requests -> Locals]
        /\ contended' \subseteq Participations
    <3> HIDE DEF next
    <3> QED BY <2>3, <2>4, StepTypes
  <2>6. Written(req[r]) \in ParticipationRow
    BY <1>18, <1>t DEF SaveStatus, Step, Request, Locals, ParticipationRow, Written
  <2>7. QED
    BY <1>18, <2>5, <2>6 DEF TypeInv, TypeOK, SaveStatus
<1>19. ASSUME FindExisting(r) PROVE TypeInv'
  <2> DEFINE reuse(s) == [req[r] EXCEPT !.pc = "DeletePriorLinks", !.sub = s, !.smem = sub[s]]
  <2> DEFINE fresh == [req[r] EXCEPT !.pc = "SaveSubmission", !.sub = r,
                               !.smem = [part |-> req[r].part, reason |-> FALSE]]
  <2>0. req[r].pc = "FindExisting" /\ req[r].part \in Participations
    BY <1>19, <1>t DEF FindExisting, Step, Locals, Busy
  <2>1. ASSUME NEW s \in SubmissionsOf(req[r].part) PROVE reuse(s) \in Locals /\ s \in Requests
    <3>1. s \in Requests /\ sub[s] \in SubmissionRow
      BY DEF SubmissionsOf, TypeInv, TypeOK
    <3>2. reuse(s) \in Request
      BY <1>t, <3>1 DEF Request, Points
    <3>3. QED
      BY <3>1, <3>2, <2>0, <1>t DEF Request, Locals, Busy
  <2>2. fresh \in Locals
    <3>1. [part |-> req[r].part, reason |-> FALSE] \in SubmissionRow
      BY <2>0 DEF SubmissionRow
    <3>2. fresh \in Request
      BY <1>t, <3>1 DEF Request, Points
    <3>3. QED
      BY <3>1, <3>2, <2>0, <1>t DEF Request, Locals, Busy
  <2>3. \/ \E s \in SubmissionsOf(req[r].part) : Step(r, "FindExisting", reuse(s))
        \/ Step(r, "FindExisting", fresh)
    BY <1>19 DEF FindExisting, Existing
  <2>4. /\ req' \in [Requests -> Request] /\ req' \in [Requests -> Locals]
        /\ contended' \subseteq Participations
    <3> HIDE DEF reuse, fresh
    <3> QED BY <2>1, <2>2, <2>3, StepTypes
  <2>5. QED
    BY <1>19, <2>4 DEF TypeInv, TypeOK, tables, FindExisting
<1>20. ASSUME Fail(r) PROVE TypeInv'
  BY <1>20, EndedTypes DEF Fail, TypeInv, TypeOK, tables, Locals
<1>21. QED
  BY <1>1, <1>2, <1>3, <1>4, <1>5, <1>6, <1>7, <1>8, <1>9, <1>10, <1>11, <1>12,
     <1>13, <1>14, <1>15, <1>16, <1>17, <1>18, <1>19, <1>20 DEF Proceed

LEMMA TypeInvariant == Spec => []TypeInv
<1>1. Init => TypeInv
  <2> SUFFICES ASSUME Init PROVE TypeInv
    OBVIOUS
  <2>1. Blank \in Request /\ Blank \in Locals
    BY BlankTypes DEF Locals
  <2>2. QED
    BY <2>1 DEF Init, TypeInv, TypeOK, ParticipationRow, Statuses
<1>2. TypeInv /\ [Next]_vars => TypeInv'
  <2> SUFFICES ASSUME TypeInv, [Next]_vars PROVE TypeInv'
    OBVIOUS
  <2>1. ASSUME NEW p \in Participations, ToggleOpportunity(p) PROVE TypeInv'
    BY <2>1 DEF ToggleOpportunity, TypeInv, TypeOK, tables
  <2>2. CASE UNCHANGED vars
    BY <2>2 DEF vars, TypeInv, TypeOK
  <2>3. QED
    BY <2>1, <2>2, CallTypes, ProceedTypes DEF Next
<1>3. QED
  BY <1>1, <1>2, PTL DEF Spec

\* Type correctness: every variable keeps its type, and a request at work has
\* read what it is about to write.
THEOREM TypeCorrect == Spec => []TypeOK
<1>1. TypeInv => TypeOK
  BY DEF TypeInv
<1>2. QED
  BY <1>1, TypeInvariant, PTL

-----------------------------------------------------------------------------
(* What a call and a step change, for the invariants about decisions and   *)
(* statuses.                                                               *)

\* The control points that ended a request.
Over(me) == me.pc \in {"done", "failed"}

\* A call starts one request and writes nothing.
LEMMA CallFrame ==
  ASSUME TypeInv, NEW r \in Requests, Call(r)
  PROVE  \E call :
           /\ Begin(r, call) /\ req'[r] = call
           /\ \A q \in Requests \ {r} : req'[q] = req[q]
           /\ UNCHANGED <<tables, objects, accepting, raced>>
           /\ \/ /\ call.pc = "CheckOpportunity" /\ call.op = "create"
                 /\ call.to = "submitted" /\ call.mem = part[call.part]
              \/ /\ call.pc = "CheckLocked" /\ call.op \in {"update", "remove"}
                 /\ call.mem = Null
              \/ /\ call.pc = "ReadParticipation" /\ call.op \in {"approve", "reject"}
                 /\ call.mem = Null
              \/ /\ call.pc = "SaveStatus" /\ call.op = "transition"
                 /\ call.mem = part[call.part]
                 /\ call.to \in Transitions[call.mem.status]
<1> DEFINE Start(call) ==
      \/ /\ call.pc = "CheckOpportunity" /\ call.op = "create"
         /\ call.to = "submitted" /\ call.mem = part[call.part]
      \/ /\ call.pc = "CheckLocked" /\ call.op \in {"update", "remove"}
         /\ call.mem = Null
      \/ /\ call.pc = "ReadParticipation" /\ call.op \in {"approve", "reject"}
         /\ call.mem = Null
      \/ /\ call.pc = "SaveStatus" /\ call.op = "transition"
         /\ call.mem = part[call.part]
         /\ call.to \in Transitions[call.mem.status]
<1> DEFINE Frame(call) ==
      /\ Begin(r, call) /\ UNCHANGED <<tables, objects, accepting, raced>>
      /\ Start(call)
<1>1. ASSUME NEW p \in Participations, NEW n, BeginCreate(r, p, n)
      PROVE  \E call : Frame(call)
  <2> DEFINE call == [Blank EXCEPT !.pc = "CheckOpportunity", !.op = "create",
                            !.by = Owner[p], !.part = p, !.mem = part[p],
                            !.to = "submitted", !.want = Upload(r, n),
                            !.todo = Upload(r, n)]
  <2>1. Start(call)
    BY DEF Blank
  <2>2. Frame(call)
    BY <2>1, <1>1 DEF BeginCreate
  <2>3. QED
    BY <2>2
<1>2. ASSUME NEW s \in Requests, NEW n, NEW op \in {"update", "remove"}, BeginEdit(r, s, op, n)
      PROVE  \E call : Frame(call)
  <2> DEFINE call == [Blank EXCEPT !.pc = "CheckLocked", !.op = op,
                            !.by = Owner[sub[s].part], !.part = sub[s].part,
                            !.sub = s, !.smem = sub[s], !.want = Upload(r, n)]
  <2>1. Start(call)
    BY DEF Blank
  <2>2. Frame(call)
    BY <2>1, <1>2 DEF BeginEdit
  <2>3. QED
    BY <2>2
<1>3. ASSUME NEW s \in Requests, NEW u, NEW op \in {"approve", "reject"}, BeginReview(r, s, u, op)
      PROVE  \E call : Frame(call)
  <2> DEFINE call == [Blank EXCEPT !.pc = "ReadParticipation", !.op = op, !.by = u,
                            !.part = sub[s].part, !.sub = s, !.smem = sub[s],
                            !.to = IF op = "approve" THEN "verified" ELSE "rejected"]
  <2>1. Start(call)
    BY DEF Blank
  <2>2. Frame(call)
    BY <2>1, <1>3 DEF BeginReview
  <2>3. QED
    BY <2>2
<1>4. ASSUME NEW p \in Participations, NEW u, NEW to, BeginTransition(r, p, u, to)
      PROVE  \E call : Frame(call)
  <2> DEFINE call == [Blank EXCEPT !.pc = "SaveStatus", !.op = "transition", !.by = u,
                            !.part = p, !.mem = part[p], !.to = to]
  <2>1. Start(call)
    BY <1>4 DEF Blank, BeginTransition
  <2>2. Frame(call)
    BY <2>1, <1>4 DEF BeginTransition
  <2>3. QED
    BY <2>2
<1>5. \E call : Frame(call)
  BY <1>1, <1>2, <1>3, <1>4
  DEF Call, BeginUpdate, BeginRemove, BeginApprove, BeginReject
<1>6. PICK call : Frame(call)
  BY <1>5
<1>7. req'[r] = call /\ \A q \in Requests \ {r} : req'[q] = req[q]
  BY <1>6 DEF Begin, TypeInv, TypeOK
<1>8. QED
  BY <1>6, <1>7

\* A step moves one request at work, and keeps what the request was called
\* with.  Only SaveStatus writes participations, only SaveLog adds a log row.
LEMMA ProceedFrame ==
  ASSUME TypeInv, NEW r \in Requests, Proceed(r)
  PROVE  /\ Active(r) /\ contended' = contended
         /\ \A q \in Requests \ {r} : req'[q] = req[q]
         /\ \/ Over(req'[r])
            \/ /\ req'[r].op = req[r].op /\ req'[r].part = req[r].part
               /\ req'[r].to = req[r].to /\ req'[r].pc # "idle"
         /\ \/ Over(req'[r]) \/ req'[r].mem = req[r].mem
            \/ CheckLocked(r) \/ ReadParticipation(r)
         /\ SaveStatus(r) \/ part' = part
         /\ \/ SaveLog(r)
            \/ raced' = raced /\ \A l \in Requests : logs'[l] \in {logs[l], Null}
         /\ req'[r].pc = "SaveLog" => CheckLog(r)
         /\ req'[r].pc = "CheckLog" => ReadParticipation(r)
         /\ req'[r].pc = "SaveReason" => SaveStatus(r)
         /\ req'[r].pc = "SaveStatus" => SaveLinks(r) \/ SaveLog(r)
         /\ req[r].pc = "CheckOpportunity" => Over(req'[r]) \/ CheckOpportunity(r)
         /\ req[r].pc = "CheckLocked" => Over(req'[r]) \/ CheckLocked(r)
         /\ req[r].pc = "ReadParticipation" => Over(req'[r]) \/ ReadParticipation(r)
         /\ req[r].pc = "SaveReason" => Over(req'[r])
         /\ req'[r].pc \notin {"CheckOpportunity", "CheckLocked", "ReadParticipation"}
<1>t. req[r] \in Request /\ req \in [Requests -> Request]
  BY LocalTypes DEF TypeInv, TypeOK
<1>e. /\ Ended(r, "done").pc = "done" /\ Ended(r, "failed").pc = "failed"
  BY DEF Ended, Blank
<1> USE <1>t, <1>e DEF Request, Step, At, Active, Over, tables
<1>1. CASE CheckOpportunity(r)
  BY <1>1 DEF CheckOpportunity
<1>2. CASE SaveRefs(r)
  BY <1>2 DEF SaveRefs
<1>3. CASE FindExisting(r)
  <2> DEFINE moved(pc, s, row) == [req[r] EXCEPT !.pc = pc, !.sub = s, !.smem = row]
  <2>1. \/ \E s \in Existing(req[r].part) :
             Step(r, "FindExisting", moved("DeletePriorLinks", s, sub[s]))
        \/ Step(r, "FindExisting",
                moved("SaveSubmission", r, [part |-> req[r].part, reason |-> FALSE]))
    BY <1>3 DEF FindExisting
  <2>2. ASSUME NEW pc \in {"DeletePriorLinks", "SaveSubmission"}, NEW s, NEW row,
               Step(r, "FindExisting", moved(pc, s, row))
        PROVE  /\ req[r].pc = "FindExisting" /\ req'[r] = moved(pc, s, row)
               /\ contended' = contended /\ \A q \in Requests \ {r} : req'[q] = req[q]
    BY <2>2
  <2>3. /\ req[r].pc = "FindExisting" /\ contended' = contended
        /\ \A q \in Requests \ {r} : req'[q] = req[q]
        /\ \E pc \in {"DeletePriorLinks", "SaveSubmission"} : \E s, row :
             req'[r] = moved(pc, s, row)
    <3> HIDE DEF moved
    <3> QED BY <2>1, <2>2
  <2>4. /\ req'[r].op = req[r].op /\ req'[r].part = req[r].part
        /\ req'[r].to = req[r].to /\ req'[r].mem = req[r].mem
        /\ req'[r].pc \in {"DeletePriorLinks", "SaveSubmission"}
    BY <2>3
  <2>5. UNCHANGED <<part, logs, raced>>
    BY <1>3 DEF FindExisting
  <2>6. QED
    BY <2>3, <2>4, <2>5
<1>4. CASE DeletePriorLinks(r)
  BY <1>4 DEF DeletePriorLinks
<1>5. CASE SaveSubmission(r)
  BY <1>5 DEF SaveSubmission
<1>6. CASE SaveLinks(r)
  BY <1>6 DEF SaveLinks
<1>7. CASE SaveStatus(r)
  BY <1>7 DEF SaveStatus
<1>8. CASE CheckLocked(r)
  BY <1>8 DEF CheckLocked
<1>9. CASE ListFiles(r)
  BY <1>9 DEF ListFiles
<1>10. CASE DeleteLinks(r)
  BY <1>10 DEF DeleteLinks
<1>11. CASE DeleteRefs(r)
  BY <1>11 DEF DeleteRefs
<1>12. CASE RemoveRow(r)
  BY <1>12 DEF RemoveRow
<1>13. CASE TouchSubmission(r)
  BY <1>13 DEF TouchSubmission
<1>14. CASE ReadParticipation(r)
  BY <1>14 DEF ReadParticipation
<1>15. CASE CheckLog(r)
  BY <1>15 DEF CheckLog
<1>16. CASE SaveLog(r)
  <2>1. /\ req[r].pc = "SaveLog" /\ req'[r] = At(r, "SaveStatus")
        /\ \A q \in Requests \ {r} : req'[q] = req[q]
        /\ UNCHANGED <<part, contended>>
    BY <1>16 DEF SaveLog
  <2>2. QED
    BY <1>16, <2>1
<1>17. CASE SaveReason(r)
  BY <1>17 DEF SaveReason
<1>18. CASE Fail(r)
  BY <1>18 DEF Fail
<1>19. ASSUME NEW k \in Keys, UploadObject(r, k) \/ DeleteObject(r, k)
       PROVE  /\ req[r].pc \in {"Upload", "DeleteObject"}
              /\ req'[r].pc \in {"Upload", "DeleteObject", "SaveRefs", "DeleteLinks"}
              /\ req'[r].op = req[r].op /\ req'[r].part = req[r].part
              /\ req'[r].to = req[r].to /\ req'[r].mem = req[r].mem
              /\ \A q \in Requests \ {r} : req'[q] = req[q]
              /\ UNCHANGED <<part, logs, raced, contended>>
  <2>1. CASE UploadObject(r, k)
    BY <2>1 DEF UploadObject
  <2>2. CASE DeleteObject(r, k)
    BY <2>2 DEF DeleteObject
  <2>3. QED
    BY <1>19, <2>1, <2>2
<1>20. QED
  BY <1>1, <1>2, <1>3, <1>4, <1>5, <1>6, <1>7, <1>8, <1>9, <1>10, <1>11, <1>12, <1>13, <1>14, <1>15, <1>16, <1>17, <1>18, <1>19 DEF Proceed

-----------------------------------------------------------------------------
(***************************************************************************)
(* What a participation keeps: what no request on another participation    *)
(* can touch, what no request can touch once the status is settled, and    *)
(* the files no request loses for another one.                             *)
(***************************************************************************)

(* What one step writes, table by table, and which locals it changes.      *)

\* Every write of a submission row goes through the row the request holds.
SubWritten(r) ==
  \/ sub' = sub
  \/ /\ SaveSubmission(r) \/ TouchSubmission(r)
     /\ sub' = [sub EXCEPT ![req[r].sub] = req[r].smem]
  \/ /\ SaveReason(r)
     /\ sub' = [sub EXCEPT ![req[r].sub] = [req[r].smem EXCEPT !.reason = TRUE]]
  \/ RemoveRow(r) /\ sub' = [sub EXCEPT ![req[r].sub] = Null]

LinksWritten(r) ==
  \/ links' = links
  \/ SaveLinks(r) /\ links' = links \cup ({req[r].sub} \X req[r].want)
  \/ /\ DeletePriorLinks(r) \/ DeleteLinks(r) \/ RemoveRow(r)
     /\ links' = {l \in links : l[1] # req[r].sub}
  \/ DeleteRefs(r) /\ links' = {l \in links : l[2] \notin req[r].old}

LogsWritten(r) ==
  \/ logs' = logs
  \/ SaveLog(r) /\ logs' = [logs EXCEPT ![r] = [sub |-> req[r].sub, action |-> req[r].to]]
  \/ /\ RemoveRow(r)
     /\ logs' = [l \in Requests |-> IF logs[l] # Null /\ logs[l].sub = req[r].sub
                                      THEN Null ELSE logs[l]]

FilesWritten(r) ==
  /\ \/ refs' = refs
     \/ SaveRefs(r) /\ refs' = refs \cup req[r].want
     \/ DeleteRefs(r) /\ refs' = refs \ req[r].old
  /\ \/ objects' = objects
     \/ \E k \in req[r].todo : objects' \in {objects \cup {k}, objects \ {k}}

LEMMA ProceedWrites ==
  ASSUME TypeInv, NEW r \in Requests, Proceed(r)
  PROVE  SubWritten(r) /\ LinksWritten(r) /\ LogsWritten(r) /\ FilesWritten(r)
<1> USE DEF SubWritten, LinksWritten, LogsWritten, FilesWritten, tables
<1>1. CASE SaveRefs(r)
  BY <1>1 DEF SaveRefs
<1>2. CASE DeletePriorLinks(r)
  BY <1>2 DEF DeletePriorLinks, LinksWithout
<1>3. CASE SaveSubmission(r)
  BY <1>3 DEF SaveSubmission
<1>4. CASE SaveLinks(r)
  BY <1>4 DEF SaveLinks, NewLinks
<1>5. CASE DeleteLinks(r)
  BY <1>5 DEF DeleteLinks, LinksWithout
<1>6. CASE DeleteRefs(r)
  BY <1>6 DEF DeleteRefs, RefsWithout
<1>7. CASE RemoveRow(r)
  BY <1>7 DEF RemoveRow, LinksWithout
<1>8. CASE TouchSubmission(r)
  BY <1>8 DEF TouchSubmission
<1>9. CASE SaveLog(r)
  BY <1>9 DEF SaveLog
<1>10. CASE SaveReason(r)
  BY <1>10 DEF SaveReason
<1>11. CASE SaveStatus(r)
  BY <1>11 DEF SaveStatus
<1>12. CASE CheckOpportunity(r) \/ FindExisting(r) \/ CheckLocked(r) \/ ListFiles(r)
            \/ ReadParticipation(r) \/ CheckLog(r) \/ Fail(r)
  BY <1>12 DEF CheckOpportunity, FindExisting, CheckLocked, ListFiles,
               ReadParticipation, CheckLog, Fail
<1>13. ASSUME NEW k \in Keys, UploadObject(r, k) \/ DeleteObject(r, k)
       PROVE  k \in req[r].todo /\ objects' \in {objects, objects \cup {k}, objects \ {k}}
              /\ UNCHANGED tables
  BY <1>13 DEF UploadObject, DeleteObject
<1>14. QED
  BY <1>1, <1>2, <1>3, <1>4, <1>5, <1>6, <1>7, <1>8, <1>9, <1>10, <1>11, <1>12, <1>13
  DEF Proceed

\* Each step leaves the control point it is named after.
LEMMA StepPoints ==
  ASSUME NEW r \in Requests
  PROVE  /\ CheckOpportunity(r) => req[r].pc = "CheckOpportunity"
         /\ SaveRefs(r) => req[r].pc = "SaveRefs"
         /\ FindExisting(r) => req[r].pc = "FindExisting"
         /\ DeletePriorLinks(r) => req[r].pc = "DeletePriorLinks"
         /\ SaveSubmission(r) => req[r].pc = "SaveSubmission"
         /\ SaveLinks(r) => req[r].pc = "SaveLinks"
         /\ SaveStatus(r) => req[r].pc = "SaveStatus"
         /\ CheckLocked(r) => req[r].pc = "CheckLocked"
         /\ ListFiles(r) => req[r].pc = "ListFiles"
         /\ DeleteLinks(r) => req[r].pc = "DeleteLinks"
         /\ DeleteRefs(r) => req[r].pc = "DeleteRefs"
         /\ RemoveRow(r) => req[r].pc = "RemoveRow"
         /\ TouchSubmission(r) => req[r].pc = "TouchSubmission"
         /\ ReadParticipation(r) => req[r].pc = "ReadParticipation"
         /\ CheckLog(r) => req[r].pc = "CheckLog"
         /\ SaveLog(r) => req[r].pc = "SaveLog"
         /\ SaveReason(r) => req[r].pc = "SaveReason"
BY DEF Step, CheckOpportunity, SaveRefs, FindExisting, DeletePriorLinks, SaveSubmission, SaveLinks, SaveStatus, CheckLocked,
       ListFiles, DeleteLinks, DeleteRefs, RemoveRow, TouchSubmission, ReadParticipation, CheckLog, SaveLog, SaveReason

\* FindExisting holds the submission it found, or a fresh row.
LEMMA FoundExisting ==
  ASSUME TypeInv, NEW r \in Requests, FindExisting(r)
  PROVE  /\ UNCHANGED <<tables, objects>>
         /\ req'[r].want = req[r].want /\ req'[r].todo = req[r].todo
         /\ req'[r].old = req[r].old
         /\ \/ /\ req'[r].pc = "DeletePriorLinks"
               /\ req'[r].sub \in SubmissionsOf(req[r].part)
               /\ req'[r].smem = sub[req'[r].sub]
            \/ /\ req'[r].pc = "SaveSubmission" /\ SubmissionsOf(req[r].part) = {}
               /\ req'[r].sub = r
               /\ req'[r].smem = [part |-> req[r].part, reason |-> FALSE]
<1>t. req[r] \in Request /\ req \in [Requests -> Request]
  BY LocalTypes DEF TypeInv, TypeOK
<1>0. UNCHANGED <<tables, objects>>
  BY DEF FindExisting
<1>1. ASSUME NEW pc, NEW s, NEW row,
             Step(r, "FindExisting", [req[r] EXCEPT !.pc = pc, !.sub = s, !.smem = row])
      PROVE  /\ req'[r].pc = pc /\ req'[r].sub = s /\ req'[r].smem = row
             /\ req'[r].want = req[r].want /\ req'[r].todo = req[r].todo
             /\ req'[r].old = req[r].old
  BY <1>1, <1>t DEF Step, Request
<1>2. CASE \E s \in Existing(req[r].part) :
             Step(r, "FindExisting", [req[r] EXCEPT !.pc = "DeletePriorLinks",
                                                    !.sub = s, !.smem = sub[s]])
  <2>1. PICK s \in Existing(req[r].part) :
             Step(r, "FindExisting", [req[r] EXCEPT !.pc = "DeletePriorLinks",
                                                    !.sub = s, !.smem = sub[s]])
    BY <1>2
  <2>2. /\ req'[r].pc = "DeletePriorLinks" /\ req'[r].sub = s /\ req'[r].smem = sub[s]
        /\ req'[r].want = req[r].want /\ req'[r].todo = req[r].todo
        /\ req'[r].old = req[r].old
    BY <2>1, <1>1
  <2>3. QED
    BY <2>2, <1>0 DEF Existing
<1>3. CASE /\ Existing(req[r].part) = {}
           /\ Step(r, "FindExisting",
                   [req[r] EXCEPT !.pc = "SaveSubmission", !.sub = r,
                                  !.smem = [part |-> req[r].part, reason |-> FALSE]])
  BY <1>0, <1>1, <1>3 DEF Existing
<1>4. QED
  BY <1>2, <1>3 DEF FindExisting

\* A request that ends forgets what it held; one that goes on keeps its files
\* and the submission it found.
LEMMA ProceedLocals ==
  ASSUME TypeInv, NEW r \in Requests, Proceed(r)
  PROVE  /\ Over(req'[r]) =>
              /\ req'[r].part = req[r].part /\ req'[r].sub = Null
              /\ req'[r].want = {} /\ req'[r].todo = {}
              /\ req'[r].old \subseteq req[r].old
              /\ req'[r].op = "none"
         /\ ~Over(req'[r]) =>
              /\ req'[r].want = req[r].want
              /\ \/ req'[r].sub = req[r].sub /\ req'[r].smem = req[r].smem
                 \/ FindExisting(r)
              /\ \/ req'[r].old = req[r].old
                 \/ ListFiles(r) /\ req'[r].old = FilesOf(req[r].sub)
              /\ req'[r].todo \subseteq req[r].todo \cup req[r].want \cup req'[r].old
<1>t. req[r] \in Request /\ req \in [Requests -> Request]
  BY LocalTypes DEF TypeInv, TypeOK
<1>e. /\ Ended(r, "done").pc = "done" /\ Ended(r, "failed").pc = "failed"
      /\ \A o \in {"done", "failed"} :
           /\ Ended(r, o).part = req[r].part /\ Ended(r, o).sub = Null
           /\ Ended(r, o).want = {} /\ Ended(r, o).todo = {}
           /\ Ended(r, o).old \subseteq req[r].old /\ Ended(r, o).op = "none"
  BY DEF Ended, Blank
<1> USE <1>t, <1>e DEF Request, Step, At, Over
<1>1. CASE CheckOpportunity(r)
  BY <1>1 DEF CheckOpportunity
<1>2. CASE SaveRefs(r)
  BY <1>2 DEF SaveRefs
<1>3. CASE FindExisting(r)
  BY <1>3, FoundExisting
<1>4. CASE DeletePriorLinks(r)
  BY <1>4 DEF DeletePriorLinks
<1>5. CASE SaveSubmission(r)
  BY <1>5 DEF SaveSubmission
<1>6. CASE SaveLinks(r)
  BY <1>6 DEF SaveLinks
<1>7. CASE SaveStatus(r)
  BY <1>7 DEF SaveStatus
<1>8. CASE CheckLocked(r)
  BY <1>8 DEF CheckLocked
<1>9. CASE ListFiles(r)
  BY <1>9 DEF ListFiles
<1>10. CASE DeleteLinks(r)
  BY <1>10 DEF DeleteLinks
<1>11. CASE DeleteRefs(r)
  BY <1>11 DEF DeleteRefs
<1>12. CASE RemoveRow(r)
  BY <1>12 DEF RemoveRow
<1>13. CASE TouchSubmission(r)
  BY <1>13 DEF TouchSubmission
<1>14. CASE ReadParticipation(r)
  BY <1>14 DEF ReadParticipation
<1>15. CASE CheckLog(r)
  BY <1>15 DEF CheckLog
<1>16. CASE SaveLog(r)
  BY <1>16 DEF SaveLog
<1>17. CASE SaveReason(r)
  BY <1>17 DEF SaveReason
<1>18. CASE Fail(r)
  BY <1>18 DEF Fail
<1>19. ASSUME NEW k \in Keys, UploadObject(r, k) \/ DeleteObject(r, k)
       PROVE  /\ req'[r].pc \in {"Upload", "DeleteObject", "SaveRefs", "DeleteLinks"}
              /\ req'[r].want = req[r].want /\ req'[r].old = req[r].old
              /\ req'[r].sub = req[r].sub /\ req'[r].smem = req[r].smem
              /\ req'[r].todo \subseteq req[r].todo
  <2>1. CASE UploadObject(r, k)
    BY <2>1 DEF UploadObject
  <2>2. CASE DeleteObject(r, k)
    BY <2>2 DEF DeleteObject
  <2>3. QED
    BY <1>19, <2>1, <2>2
<1>20. QED
  BY <1>1, <1>2, <1>3, <1>4, <1>5, <1>6, <1>7, <1>8, <1>9, <1>10, <1>11, <1>12, <1>13,
     <1>14, <1>15, <1>16, <1>17, <1>18, <1>19 DEF Proceed

\* What a call holds when it starts: files of its own, and the submission it
\* names as it stands.
LEMMA CallLocals ==
  ASSUME TypeInv, NEW r \in Requests, Call(r)
  PROVE  /\ req[r].pc = "idle" /\ ~Over(req'[r]) /\ req'[r].part \in Participations
         /\ \A k \in req'[r].want \cup req'[r].todo : k[1] = r
         /\ req'[r].old = {}
         /\ \/ req'[r].sub = Null
            \/ /\ req'[r].sub \in Requests /\ req'[r].smem = sub[req'[r].sub]
               /\ sub[req'[r].sub] # Null /\ req'[r].part = sub[req'[r].sub].part
         /\ req'[r].op = "create" => req'[r].want # {}
         /\ req'[r].op = "approve" => req'[r].to = "verified"
         /\ req'[r].op = "reject" => req'[r].to = "rejected"
         /\ req'[r].op = "transition" => req'[r].by \in Users
<1> DEFINE Good(call) ==
      /\ call.part \in Participations
      /\ \A k \in call.want \cup call.todo : k[1] = r
      /\ call.old = {}
      /\ \/ call.sub = Null
         \/ /\ call.sub \in Requests /\ call.smem = sub[call.sub]
            /\ sub[call.sub] # Null /\ call.part = sub[call.sub].part
      /\ call.op = "create" => call.want # {}
      /\ call.op = "approve" => call.to = "verified"
      /\ call.op = "reject" => call.to = "rejected"
      /\ call.op = "transition" => call.by \in Users
      /\ call.pc \notin {"done", "failed"}
<1>1. \A n \in 0 .. MaxFiles : \A k \in Upload(r, n) : k[1] = r
  BY DEF Upload
<1>2. \A s \in Requests : sub[s] # Null => sub[s].part \in Participations
  BY DEF TypeInv, TypeOK, SubmissionRow
<1>3. ASSUME NEW call, Good(call), Begin(r, call) PROVE Good(req'[r])
  <2>1. req'[r] = call
    BY <1>3 DEF Begin, TypeInv, TypeOK
  <2> HIDE DEF Good
  <2> QED BY <2>1, <1>3
<1>4. ASSUME NEW p \in Participations, NEW n \in 1 .. MaxFiles, BeginCreate(r, p, n)
      PROVE  Good(req'[r])
  <2> DEFINE call == [Blank EXCEPT !.pc = "CheckOpportunity", !.op = "create",
                            !.by = Owner[p], !.part = p, !.mem = part[p],
                            !.to = "submitted", !.want = Upload(r, n),
                            !.todo = Upload(r, n)]
  <2>1. /\ call.want = Upload(r, n) /\ call.todo = Upload(r, n) /\ call.old = {}
        /\ call.part = p /\ call.sub = Null /\ call.op = "create"
        /\ call.pc = "CheckOpportunity"
    BY DEF Blank
  <2>2. n \in 0 .. MaxFiles /\ <<r, 1>> \in Upload(r, n)
    BY BoundsAssumption DEF Upload
  <2>3. Good(call)
    BY <2>1, <2>2, <1>1
  <2>4. Begin(r, call)
    BY <1>4 DEF BeginCreate
  <2>5. QED
    <3> HIDE DEF Good, call
    <3> QED BY <2>3, <2>4, <1>3
<1>5. ASSUME NEW s \in Requests, NEW n \in 0 .. MaxFiles, NEW op \in {"update", "remove"},
             BeginEdit(r, s, op, n)
      PROVE  Good(req'[r])
  <2> DEFINE call == [Blank EXCEPT !.pc = "CheckLocked", !.op = op,
                            !.by = Owner[sub[s].part], !.part = sub[s].part,
                            !.sub = s, !.smem = sub[s], !.want = Upload(r, n)]
  <2>1. /\ call.want = Upload(r, n) /\ call.todo = {} /\ call.old = {}
        /\ call.part = sub[s].part /\ call.sub = s /\ call.smem = sub[s] /\ call.op = op
        /\ call.pc = "CheckLocked"
    BY DEF Blank
  <2>2. sub[s] # Null /\ Begin(r, call)
    BY <1>5 DEF BeginEdit
  <2>3. Good(call)
    BY <2>1, <2>2, <1>1, <1>2
  <2>4. QED
    <3> HIDE DEF Good, call
    <3> QED BY <2>2, <2>3, <1>3
<1>6. ASSUME NEW s \in Requests, NEW u \in Users, NEW op \in {"approve", "reject"},
             BeginReview(r, s, u, op)
      PROVE  Good(req'[r])
  <2> DEFINE call == [Blank EXCEPT !.pc = "ReadParticipation", !.op = op, !.by = u,
                            !.part = sub[s].part, !.sub = s, !.smem = sub[s],
                            !.to = IF op = "approve" THEN "verified" ELSE "rejected"]
  <2>1. /\ call.want = {} /\ call.todo = {} /\ call.old = {}
        /\ call.part = sub[s].part /\ call.sub = s /\ call.smem = sub[s] /\ call.op = op
        /\ call.to = (IF op = "approve" THEN "verified" ELSE "rejected")
        /\ call.pc = "ReadParticipation"
    BY DEF Blank
  <2>2. sub[s] # Null /\ Begin(r, call)
    BY <1>6 DEF BeginReview
  <2>3. Good(call)
    BY <2>1, <2>2, <1>2
  <2>4. QED
    <3> HIDE DEF Good, call
    <3> QED BY <2>2, <2>3, <1>3
<1>7. ASSUME NEW p \in Participations, NEW u \in Users, NEW to \in Statuses,
             BeginTransition(r, p, u, to)
      PROVE  Good(req'[r])
  <2> DEFINE call == [Blank EXCEPT !.pc = "SaveStatus", !.op = "transition", !.by = u,
                            !.part = p, !.mem = part[p], !.to = to]
  <2>1. Good(call)
    BY DEF Blank
  <2>2. Begin(r, call)
    BY <1>7 DEF BeginTransition
  <2>3. QED
    <3> HIDE DEF Good, call
    <3> QED BY <2>1, <2>2, <1>3
<1>8. 0 \in 0 .. MaxFiles
  BY BoundsAssumption
<1>9. Good(req'[r])
  BY <1>4, <1>5, <1>6, <1>7, <1>8
  DEF Call, BeginUpdate, BeginRemove, BeginApprove, BeginReject
<1>10. req[r].pc = "idle"
  BY CallFrame DEF Begin
<1>11. QED
  BY <1>9, <1>10 DEF Over

-----------------------------------------------------------------------------
(* Home: every row, file and log row stays with the participation of the   *)
(* request that made it, and a request holds nothing of another one.       *)

\* The requests a and b work on the same participation.
Kin(a, b) == req[a].part # Null /\ req[b].part = req[a].part

RowsAtHome == \A s \in Requests : sub[s] # Null => req[s].part = sub[s].part

HeldAtHome(r) ==
  /\ req[r].pc = "idle" => req[r].part = Null
  /\ req[r].sub # Null =>
       Kin(r, req[r].sub) /\ req[r].smem # Null /\ req[r].smem.part = req[r].part
  /\ \A k \in req[r].want \cup req[r].todo \cup req[r].old : Kin(r, k[1])

RequestsAtHome == \A r \in Requests : HeldAtHome(r)

LinksAtHome == \A l \in links : Kin(l[1], l[2][1])

LogsAtHome == \A l \in Requests : logs[l] # Null => Kin(l, logs[l].sub)

HomeInv == RowsAtHome /\ RequestsAtHome /\ LinksAtHome /\ LogsAtHome

\* Once a request has a participation it keeps it.
LEMMA KinKept ==
  ASSUME TypeInv, HomeInv, NEW r \in Requests, Call(r) \/ Proceed(r)
  PROVE  /\ \A a \in Requests : req[a].part # Null => req'[a].part = req[a].part
         /\ \A a, b \in Requests : Kin(a, b) => Kin(a, b)'
<1>1. \A a \in Requests : req[a].part # Null => req'[a].part = req[a].part
  <2>1. CASE Call(r)
    BY <2>1, CallFrame, CallLocals DEF HomeInv, RequestsAtHome, HeldAtHome
  <2>2. CASE Proceed(r)
    BY <2>2, ProceedFrame, ProceedLocals
  <2>3. QED
    BY <2>1, <2>2
<1>2. QED
  BY <1>1 DEF Kin

LEMMA CallHome ==
  ASSUME TypeInv, HomeInv, NEW r \in Requests, Call(r)
  PROVE  HomeInv'
<1>1. /\ \A q \in Requests \ {r} : req'[q] = req[q]
      /\ UNCHANGED tables
  BY CallFrame
<1>t. /\ links \subseteq Requests \X Keys /\ req \in [Requests -> Request]
      /\ logs \in [Requests -> LogRow \cup {Null}]
  BY DEF TypeInv, TypeOK
<1>2. RowsAtHome'
  <2>1. \A s \in Requests : sub[s] # Null => req[s].part # Null
    BY NullAssumption DEF HomeInv, RowsAtHome, TypeInv, TypeOK, SubmissionRow
  <2>2. QED
    BY <1>1, <2>1, KinKept DEF HomeInv, RowsAtHome, tables
<1>3. RequestsAtHome'
  <2>1. ASSUME NEW q \in Requests \ {r} PROVE HeldAtHome(q)'
    <3>1. req'[q] = req[q] /\ req[q] \in Request
      BY <1>1, <1>t
    <3>2. req[q].sub # Null => req[q].sub \in Requests
      BY <3>1 DEF Request
    <3>3. \A k \in req[q].want \cup req[q].todo \cup req[q].old : k[1] \in Requests
      BY <3>1 DEF Request, Keys
    <3>4. HeldAtHome(q)
      BY DEF HomeInv, RequestsAtHome
    <3>5. QED
      BY <3>1, <3>2, <3>3, <3>4, KinKept DEF HeldAtHome
  <2>2. HeldAtHome(r)'
    <3>1. req'[r].pc # "idle"
      BY CallFrame
    <3>2. req'[r].sub # Null =>
            req'[req'[r].sub].part = req'[r].part /\ req'[r].smem # Null
            /\ req'[r].smem.part = req'[r].part
      <4> SUFFICES ASSUME req'[r].sub # Null
                   PROVE  req'[req'[r].sub].part = req'[r].part /\ req'[r].smem # Null
                          /\ req'[r].smem.part = req'[r].part
        OBVIOUS
      <4>1. PICK s \in Requests : /\ s = req'[r].sub /\ sub[s] # Null
                                  /\ req'[r].part = sub[s].part /\ req'[r].smem = sub[s]
        BY CallLocals
      <4>2. req[s].part = sub[s].part /\ req[s].part # Null
        BY <4>1, NullAssumption DEF HomeInv, RowsAtHome, TypeInv, TypeOK, SubmissionRow
      <4>3. req'[s].part = req[s].part
        BY <4>1, <4>2, KinKept
      <4>4. QED
        BY <4>1, <4>2, <4>3
    <3>3. req'[r].part # Null
      BY CallLocals, NullAssumption
    <3>4. \A k \in req'[r].want \cup req'[r].todo \cup req'[r].old : k[1] = r
      BY CallLocals
    <3>5. QED
      BY <3>1, <3>2, <3>3, <3>4 DEF Kin, HeldAtHome
  <2>3. QED
    BY <2>1, <2>2 DEF RequestsAtHome
<1>4. LinksAtHome'
  BY <1>1, <1>t, KinKept DEF HomeInv, LinksAtHome, tables, Keys
<1>5. LogsAtHome'
  BY <1>1, <1>t, KinKept DEF HomeInv, LogsAtHome, tables, LogRow
<1>6. QED
  BY <1>2, <1>3, <1>4, <1>5 DEF HomeInv

\* A step writes no submission row but the one its request holds, and writes
\* what it holds there.
LEMMA RowWritten ==
  ASSUME TypeInv, HomeInv, NEW r \in Requests, Proceed(r), NEW s \in Requests
  PROVE  \/ sub'[s] = sub[s]
         \/ /\ s = req[r].sub /\ req[r].smem \in SubmissionRow
            /\ \/ SaveSubmission(r) \/ TouchSubmission(r)
               \/ SaveReason(r) \/ RemoveRow(r)
            /\ RemoveRow(r) <=> sub'[s] = Null
            /\ SaveSubmission(r) \/ TouchSubmission(r) => sub'[s] = req[r].smem
            /\ SaveReason(r) => sub'[s] = [req[r].smem EXCEPT !.reason = TRUE]
<1>1. CASE s # req[r].sub
  BY <1>1, ProceedWrites DEF SubWritten, TypeInv, TypeOK
<1>2. CASE s = req[r].sub
  <2>1. req[r].smem \in SubmissionRow
    <3>1. req[r] \in Request /\ req[r].sub # Null
      BY <1>2, LocalTypes, NullAssumption
    <3>2. QED
      BY <3>1 DEF HomeInv, RequestsAtHome, HeldAtHome, Request
  <2>2. /\ [req[r].smem EXCEPT !.reason = TRUE] \in SubmissionRow
        /\ req[r].smem # Null /\ [req[r].smem EXCEPT !.reason = TRUE] # Null
    BY <2>1, RowsAssumption DEF SubmissionRow
  <2>3. QED
    BY <1>2, <2>1, <2>2, ProceedWrites, StepPoints DEF SubWritten, TypeInv, TypeOK
<1>3. QED
  BY <1>1, <1>2

LEMMA ProceedHome ==
  ASSUME TypeInv, HomeInv, NEW r \in Requests, Proceed(r)
  PROVE  HomeInv'
<1>t. /\ links \subseteq Requests \X Keys /\ links' \subseteq Requests \X Keys
      /\ req \in [Requests -> Request] /\ req[r] \in Request /\ req'[r] \in Request
      /\ logs \in [Requests -> LogRow \cup {Null}]
      /\ sub \in [Requests -> SubmissionRow \cup {Null}]
  BY ProceedTypes DEF TypeInv, TypeOK
<1>1. \A q \in Requests \ {r} : req'[q] = req[q]
  BY ProceedFrame
<1>k. /\ \A a \in Requests : req[a].part # Null => req'[a].part = req[a].part
      /\ \A a, b \in Requests : Kin(a, b) => Kin(a, b)'
  BY KinKept
<1>h. HeldAtHome(r)
  BY DEF HomeInv, RequestsAtHome
<1>2. RowsAtHome'
  <2> SUFFICES ASSUME NEW s \in Requests, sub'[s] # Null
               PROVE  req'[s].part = sub'[s].part
    BY DEF RowsAtHome
  <2>1. CASE sub'[s] = sub[s]
    <3>1. req[s].part = sub[s].part /\ sub[s].part \in Participations
      BY <2>1, <1>t DEF HomeInv, RowsAtHome, SubmissionRow
    <3>2. QED
      BY <3>1, <2>1, <1>k, NullAssumption
  <2>2. CASE sub'[s] # sub[s]
    <3>1. /\ s = req[r].sub /\ req[r].smem \in SubmissionRow
          /\ sub'[s] = req[r].smem \/ sub'[s] = [req[r].smem EXCEPT !.reason = TRUE]
      BY <2>2, RowWritten
    <3>2. sub'[s].part = req[r].smem.part
      BY <3>1 DEF SubmissionRow
    <3>3. req[r].part = req[r].smem.part /\ Kin(r, s)
      BY <3>1, <1>h, NullAssumption DEF HeldAtHome
    <3>4. QED
      BY <3>2, <3>3, <1>k DEF Kin
  <2>3. QED
    BY <2>1, <2>2
<1>3. RequestsAtHome'
  <2>1. ASSUME NEW q \in Requests \ {r} PROVE HeldAtHome(q)'
    <3>1. req'[q] = req[q] /\ req[q] \in Request
      BY <1>1, <1>t
    <3>2. req[q].sub # Null => req[q].sub \in Requests
      BY <3>1 DEF Request
    <3>3. \A k \in req[q].want \cup req[q].todo \cup req[q].old : k[1] \in Requests
      BY <3>1 DEF Request, Keys
    <3>4. HeldAtHome(q)
      BY DEF HomeInv, RequestsAtHome
    <3>5. QED
      BY <3>1, <3>2, <3>3, <3>4, <1>k DEF HeldAtHome
  <2>2. HeldAtHome(r)'
    <3>1. req'[r].pc # "idle"
      BY ProceedFrame DEF Over
    <3>2. req'[r].sub # Null =>
            Kin(r, req[r].sub)' /\ req'[r].smem # Null /\ req'[r].smem.part = req'[r].part
      <4> SUFFICES ASSUME req'[r].sub # Null
                   PROVE  /\ Kin(r, req[r].sub)' /\ req'[r].smem # Null
                          /\ req'[r].smem.part = req'[r].part
        OBVIOUS
      <4>0. ~Over(req'[r]) /\ req'[r].part = req[r].part
        BY ProceedLocals, ProceedFrame
      <4>1. CASE req'[r].sub = req[r].sub /\ req'[r].smem = req[r].smem
        <5>1. PICK s \in Requests : s = req[r].sub
          BY <4>1, <1>t DEF Request
        <5>2. Kin(r, s)'
          BY <5>1, <4>1, <1>h, <1>k DEF HeldAtHome
        <5>3. QED
          BY <5>1, <5>2, <4>0, <4>1, <1>h DEF HeldAtHome, Kin
      <4>2. CASE FindExisting(r)
        <5>1. PICK s \in Requests :
                /\ req'[r].sub = s /\ req'[r].smem # Null
                /\ req'[r].smem.part = req[r].part
                /\ s = r \/ s \in SubmissionsOf(req[r].part)
          <6>1. CASE req'[r].sub \in SubmissionsOf(req[r].part)
                     /\ req'[r].smem = sub[req'[r].sub]
            BY <6>1 DEF SubmissionsOf
          <6>2. CASE /\ req'[r].sub = r
                     /\ req'[r].smem = [part |-> req[r].part, reason |-> FALSE]
            <7>1. req[r].part \in Participations
              BY <4>2, LocalTypes, StepPoints DEF Locals, Busy
            <7>2. req'[r].smem \in SubmissionRow
              BY <7>1, <6>2 DEF SubmissionRow
            <7>3. req'[r].smem # Null
              BY <7>2, RowsAssumption
            <7>4. QED
              BY <6>2, <7>3
          <6>3. QED
            BY <4>2, <6>1, <6>2, FoundExisting
        <5>2. req[r].part # Null
          BY <4>2, LocalTypes, StepPoints, NullAssumption DEF Locals, Busy
        <5>3. Kin(r, s)
          BY <5>1, <5>2 DEF Kin, HomeInv, RowsAtHome, SubmissionsOf
        <5>4. Kin(r, s)'
          BY <5>1, <5>3, <1>k
        <5>5. QED
          BY <5>1, <5>4, <4>0 DEF Kin
      <4>3. QED
        BY <4>0, <4>1, <4>2, ProceedLocals
    <3>3. \A k \in req'[r].old : k \in Keys /\ Kin(r, k[1])
      <4>1. CASE ListFiles(r) /\ req'[r].old = FilesOf(req[r].sub)
        <5> SUFFICES ASSUME NEW k \in FilesOf(req[r].sub)
                     PROVE  k \in Keys /\ Kin(r, k[1])
          BY <4>1
        <5>1. PICK s \in Requests : s = req[r].sub /\ <<s, k>> \in links /\ k \in Keys
          BY <1>t DEF FilesOf
        <5>2. Kin(s, k[1])
          BY <5>1 DEF HomeInv, LinksAtHome
        <5>3. Kin(r, s)
          BY <5>1, <1>h, NullAssumption DEF HeldAtHome
        <5>4. QED
          BY <5>1, <5>2, <5>3 DEF Kin
      <4>2. CASE req'[r].old \subseteq req[r].old
        BY <4>2, <1>h, <1>t DEF HeldAtHome, Request
      <4>3. QED
        BY <4>1, <4>2, ProceedLocals
    <3>4. \A k \in req'[r].want \cup req'[r].todo \cup req'[r].old :
            k[1] \in Requests /\ Kin(r, k[1])
      BY <3>3, <1>h, <1>t, ProceedLocals DEF HeldAtHome, Request, Keys
    <3>5. QED
      BY <3>1, <3>2, <3>4, <1>k DEF HeldAtHome
  <2>3. QED
    BY <2>1, <2>2 DEF RequestsAtHome
<1>4. LinksAtHome'
  <2> SUFFICES ASSUME NEW l \in links' PROVE Kin(l[1], l[2][1])'
    BY DEF LinksAtHome
  <2>1. l[1] \in Requests /\ l[2][1] \in Requests
    BY <1>t DEF Keys
  <2>2. CASE l \in links
    BY <2>1, <2>2, <1>k DEF HomeInv, LinksAtHome
  <2>3. CASE l \notin links
    <3>1. SaveLinks(r) /\ l[1] = req[r].sub /\ l[2] \in req[r].want
      BY <2>3, ProceedWrites DEF LinksWritten
    <3>2. Kin(l[1], l[2][1])
      BY <3>1, <2>1, <1>h, NullAssumption DEF HeldAtHome, Kin
    <3>3. QED
      BY <3>2, <2>1, <1>k
  <2>4. QED
    BY <2>2, <2>3
<1>5. LogsAtHome'
  <2> SUFFICES ASSUME NEW l \in Requests, logs'[l] # Null PROVE Kin(l, logs[l].sub)'
    BY DEF LogsAtHome
  <2>1. CASE logs'[l] = logs[l]
    BY <2>1, <1>k, <1>t DEF HomeInv, LogsAtHome, LogRow
  <2>2. CASE logs'[l] # logs[l]
    <3>1. SaveLog(r) /\ l = r /\ logs'[l] = [sub |-> req[r].sub, action |-> req[r].to]
      BY <2>2, <1>t, ProceedWrites DEF LogsWritten
    <3>2. req[r].sub \in Requests
      BY <3>1, LocalTypes, StepPoints DEF Locals, Busy
    <3>3. Kin(l, req[r].sub)
      BY <3>1, <3>2, <1>h, NullAssumption DEF HeldAtHome
    <3>4. QED
      BY <3>1, <3>2, <3>3, <1>k DEF Kin
  <2>3. QED
    BY <2>1, <2>2
<1>6. QED
  BY <1>2, <1>3, <1>4, <1>5 DEF HomeInv

LEMMA HomeInvariant == Spec => []HomeInv
<1>1. Init => HomeInv
  BY DEF Init, Blank, HomeInv, RowsAtHome, RequestsAtHome, HeldAtHome, LinksAtHome,
         LogsAtHome
<1>2. TypeInv /\ HomeInv /\ [Next]_vars => HomeInv'
  <2> SUFFICES ASSUME TypeInv, HomeInv, [Next]_vars PROVE HomeInv'
    OBVIOUS
  <2>1. ASSUME UNCHANGED <<sub, links, logs, req>> PROVE HomeInv'
    BY <2>1 DEF HomeInv, RowsAtHome, RequestsAtHome, HeldAtHome, LinksAtHome,
                LogsAtHome, Kin
  <2>2. QED
    BY <2>1, CallHome, ProceedHome DEF Next, ToggleOpportunity, tables, vars
<1>3. QED
  BY <1>1, <1>2, TypeInvariant, PTL DEF Spec

-----------------------------------------------------------------------------
(* Quiet participations.                                                   *)

\* Nothing that was handed in or decided for p changes.
Kept(p) ==
  /\ \A s \in Requests : req[s].part = p =>
       /\ sub'[s] = sub[s] /\ logs'[s] = logs[s]
       /\ \A k \in Keys : <<s, k>> \in links' <=> <<s, k>> \in links
  /\ \A k \in Keys : req[k[1]].part = p =>
       (k \in refs' <=> k \in refs) /\ (k \in objects' <=> k \in objects)

\* A step of a request on another participation leaves p alone.
LEMMA ElsewhereKept ==
  ASSUME TypeInv, HomeInv, NEW r \in Requests, Proceed(r),
         NEW p \in Participations, req[r].part # p
  PROVE  part'[p] = part[p] /\ Kept(p)
<1>t. /\ req[r] \in Request /\ part \in [Participations -> ParticipationRow]
      /\ logs \in [Requests -> LogRow \cup {Null}]
  BY LocalTypes DEF TypeInv, TypeOK
<1>h. HeldAtHome(r)
  BY DEF HomeInv, RequestsAtHome
<1>1. part'[p] = part[p]
  BY ProceedFrame, <1>t DEF SaveStatus
<1>2. ASSUME NEW s \in Requests, req[s].part = p
      PROVE  /\ sub'[s] = sub[s] /\ logs'[s] = logs[s]
             /\ \A k \in Keys : <<s, k>> \in links' <=> <<s, k>> \in links
  <2>1. s # r /\ s # req[r].sub
    BY <1>2, <1>h, NullAssumption DEF HeldAtHome, Kin
  <2>2. sub'[s] = sub[s]
    BY <2>1, RowWritten
  <2>3. logs'[s] = logs[s]
    <3>1. logs[s] # Null => req[logs[s].sub].part = p
      BY <1>2 DEF HomeInv, LogsAtHome, Kin
    <3>2. req[r].sub \in Requests => req[req[r].sub].part # p
      BY <1>h, NullAssumption DEF HeldAtHome, Kin
    <3>3. logs[s] # Null => logs[s].sub # req[r].sub
      BY <3>1, <3>2, <1>t DEF LogRow
    <3>4. QED
      BY <2>1, <3>3, <1>t, ProceedWrites DEF LogsWritten
  <2>4. ASSUME NEW k \in Keys PROVE <<s, k>> \in links' <=> <<s, k>> \in links
    <3>1. <<s, k>> \in links => req[k[1]].part = p
      BY <1>2 DEF HomeInv, LinksAtHome, Kin
    <3>2. k \in req[r].old => req[k[1]].part # p
      BY <1>h DEF HeldAtHome, Kin
    <3>3. QED
      BY <2>1, <3>1, <3>2, ProceedWrites DEF LinksWritten
  <2>5. QED
    BY <2>2, <2>3, <2>4
<1>3. ASSUME NEW k \in Keys, req[k[1]].part = p
      PROVE  (k \in refs' <=> k \in refs) /\ (k \in objects' <=> k \in objects)
  <2>1. k \notin req[r].want \cup req[r].todo \cup req[r].old
    BY <1>3, <1>h DEF HeldAtHome, Kin
  <2>2. QED
    BY <2>1, ProceedWrites DEF FilesWritten
<1>4. QED
  BY <1>1, <1>2, <1>3 DEF Kept

\* What belongs to p is all its evidence is made of.
LEMMA EvidenceKept ==
  ASSUME TypeInv, HomeInv, HomeInv', NEW p \in Participations, Kept(p),
         \A a \in Requests : req'[a].part = p <=> req[a].part = p, TypeInv'
  PROVE  Evidence(p)' = Evidence(p)
<1>1. SubmissionsOf(p)' = SubmissionsOf(p)
  BY DEF SubmissionsOf, HomeInv, RowsAtHome, Kept
<1>2. \A s \in SubmissionsOf(p) : req[s].part = p
  BY DEF SubmissionsOf, HomeInv, RowsAtHome
<1>3. {<<s, sub[s]>> : s \in SubmissionsOf(p)}' = {<<s, sub[s]>> : s \in SubmissionsOf(p)}
  BY <1>1, <1>2 DEF Kept, SubmissionsOf
<1>4. \A s \in SubmissionsOf(p) : FilesOf(s)' = FilesOf(s)
  BY <1>2 DEF Kept, SubmissionsOf, FilesOf
<1>5. ASSUME NEW f, f = UNION {FilesOf(s) : s \in SubmissionsOf(p)}
      PROVE  /\ f = (UNION {FilesOf(s) : s \in SubmissionsOf(p)})'
             /\ f \cap refs' = f \cap refs /\ f \cap objects' = f \cap objects
  <2>1. {FilesOf(s) : s \in SubmissionsOf(p)}' = {FilesOf(s) : s \in SubmissionsOf(p)}
    BY <1>1, <1>4
  <2>2. \A k \in f : k \in Keys /\ req[k[1]].part = p
    <3> SUFFICES ASSUME NEW k \in f PROVE k \in Keys /\ req[k[1]].part = p
      OBVIOUS
    <3>1. PICK s \in SubmissionsOf(p) : k \in Keys /\ <<s, k>> \in links
      BY <1>5 DEF FilesOf
    <3>2. Kin(s, k[1])
      BY <3>1 DEF HomeInv, LinksAtHome
    <3>3. QED
      BY <3>1, <3>2, <1>2 DEF Kin
  <2>3. QED
    BY <2>1, <2>2, <1>5 DEF Kept
<1>6. {l \in Requests : logs[l] # Null /\ logs[l].sub \in SubmissionsOf(p)}'
        = {l \in Requests : logs[l] # Null /\ logs[l].sub \in SubmissionsOf(p)}
  <2>1. \A l \in Requests : logs[l] # Null /\ logs[l].sub \in SubmissionsOf(p)
                           => req[l].part = p
    BY <1>2 DEF HomeInv, LogsAtHome, Kin
  <2>2. \A l \in Requests : logs'[l] # Null /\ logs'[l].sub \in SubmissionsOf(p)
                           => req[l].part = p
    BY <1>1, <1>2 DEF HomeInv, LogsAtHome, RowsAtHome, Kin, SubmissionsOf
  <2>3. QED
    BY <1>1, <2>1, <2>2 DEF Kept
<1>7. QED
  BY <1>3, <1>5, <1>6 DEF Evidence

\* A call writes nothing; nor does a switch of the opportunity.
LEMMA EvidenceFrame ==
  ASSUME UNCHANGED <<tables, objects>>
  PROVE  part' = part /\ \A p \in Participations : Evidence(p)' = Evidence(p)
BY DEF tables, Evidence, SubmissionsOf, FilesOf

\* One step on another participation, for the action properties.
LEMMA ElsewhereEvidence ==
  ASSUME TypeInv, HomeInv, NEW r \in Requests, Proceed(r),
         NEW p \in Participations, req[r].part # p
  PROVE  part'[p] = part[p] /\ Evidence(p)' = Evidence(p)
<1>1. part'[p] = part[p] /\ Kept(p)
  BY ElsewhereKept
<1>2. \A a \in Requests : req'[a].part = req[a].part
  BY ProceedFrame, ProceedLocals
<1>3. QED
  BY <1>1, <1>2, EvidenceKept, ProceedHome, ProceedTypes DEF Kept

\* A participation nobody works on keeps its status, its submission, the files
\* of it and the decisions on it: a delete of the files or rows of one
\* submission, and a write of a whole row, never reach another participation.
THEOREM QuietUntouchedSafe == Spec => QuietUntouched
<1>1. TypeInv /\ HomeInv /\ [Next]_vars =>
        \A p \in Participations :
          (\A r \in Requests : ~(Active(r) /\ req[r].part = p))
            => part'[p] = part[p] /\ Evidence(p)' = Evidence(p)
  <2> SUFFICES ASSUME TypeInv, HomeInv, [Next]_vars, NEW p \in Participations,
                      \A r \in Requests : ~(Active(r) /\ req[r].part = p)
               PROVE  part'[p] = part[p] /\ Evidence(p)' = Evidence(p)
    OBVIOUS
  <2>1. ASSUME NEW r \in Requests, Call(r) PROVE UNCHANGED <<tables, objects>>
    BY <2>1, CallFrame
  <2>2. ASSUME NEW r \in Requests, Proceed(r)
        PROVE  part'[p] = part[p] /\ Evidence(p)' = Evidence(p)
    BY <2>2, ElsewhereEvidence, ProceedFrame
  <2>3. QED
    BY <2>1, <2>2, EvidenceFrame DEF Next, ToggleOpportunity, vars, tables
<1>2. TypeInv /\ HomeInv /\ [Next]_vars =>
        [\A p \in Participations :
          (\A r \in Requests : ~(Active(r) /\ req[r].part = p))
            => part'[p] = part[p] /\ Evidence(p)' = Evidence(p)]_vars
  BY <1>1
<1>3. QED
  BY <1>2, TypeInvariant, HomeInvariant, PTL DEF Spec, QuietUntouched

-----------------------------------------------------------------------------
(* Settled participations.                                                 *)

\* The points at which a request has not yet looked at the lock.
BeforeLock == {"CheckOpportunity", "CheckLocked", "ReadParticipation"}

\* A request past the lock check read a participation that was open; a
\* transition has looked its target up in the table.
LockPassed(me) ==
  /\ me.pc = "CheckOpportunity" => me.op = "create"
  /\ me.pc \in {"CheckLocked", "ReadParticipation"} => me.mem = Null
  /\ Busy(me) /\ me.op = "transition" => me.to \in Transitions[me.mem.status]
  /\ Busy(me) /\ me.op # "transition" /\ me.pc \notin BeforeLock
       => me.mem # Null /\ ~Locked(me.mem.status)

LockInv == \A r \in Requests : LockPassed(req[r])

LEMMA CallLock ==
  ASSUME TypeInv, LockInv, NEW r \in Requests, Call(r)
  PROVE  LockInv'
BY CallFrame DEF LockInv, LockPassed, BeforeLock, Busy

LEMMA ProceedLock ==
  ASSUME TypeInv, LockInv, NEW r \in Requests, Proceed(r)
  PROVE  LockInv'
<1>t. /\ req[r] \in Request /\ req[r] \in Locals /\ req \in [Requests -> Request]
      /\ part \in [Participations -> ParticipationRow]
  BY LocalTypes DEF TypeInv, TypeOK
<1>p. req[r].part \in Participations /\ part[req[r].part] \in ParticipationRow
  BY <1>t, ProceedFrame DEF Locals, Busy, Active
<1>1. LockPassed(req'[r])
  <2>1. CASE Over(req'[r])
    BY <2>1 DEF LockPassed, Over, Busy
  <2>2. CASE CheckLocked(r) \/ ReadParticipation(r)
    <3>1. /\ req'[r].mem = part[req[r].part] /\ req'[r].op = req[r].op
          /\ req[r].pc \in {"CheckLocked", "ReadParticipation"}
          /\ req'[r].pc \notin BeforeLock
      <4>1. CASE CheckLocked(r)
        <5>1. /\ req[r].pc = "CheckLocked" /\ req'[r].mem = part[req[r].part]
              /\ req'[r].op = req[r].op /\ req'[r].pc \in {"TouchSubmission", "ListFiles"}
          BY <4>1, <1>t DEF CheckLocked, Step, Request
        <5>2. QED
          BY <5>1 DEF BeforeLock
      <4>2. CASE ReadParticipation(r)
        <5>1. /\ req[r].pc = "ReadParticipation" /\ req'[r].mem = part[req[r].part]
              /\ req'[r].op = req[r].op /\ req'[r].pc = "CheckLog"
          BY <4>2, <1>t DEF ReadParticipation, Step, Request
        <5>2. QED
          BY <5>1 DEF BeforeLock
      <4>3. QED
        BY <2>2, <4>1, <4>2
    <3>2. ~Locked(part[req[r].part].status)
      BY <2>2 DEF CheckLocked, ReadParticipation, Step, Throws, LockError, ReviewError,
                  Locked
    <3>3. req[r].op # "transition"
      BY <3>1, <1>t DEF Locals, Busy
    <3>4. req'[r].mem # Null
      BY <3>1, <1>p, RowsAssumption
    <3>5. QED
      BY <3>1, <3>2, <3>3, <3>4 DEF LockPassed, BeforeLock
  <2>3. CASE CheckOpportunity(r)
    <3>1. /\ req'[r].mem = req[r].mem /\ req'[r].op = req[r].op
          /\ req[r].pc = "CheckOpportunity" /\ req'[r].pc = "Upload"
          /\ ~Locked(req[r].mem.status)
      BY <2>3, <1>t DEF CheckOpportunity, Step, At, Request, Throws, LockError
    <3>2. req[r].op = "create"
      BY <3>1 DEF LockInv, LockPassed
    <3>3. req[r].mem \in ParticipationRow
      BY <3>1, <3>2, <1>t DEF Locals, Busy
    <3>4. QED
      BY <3>1, <3>2, <3>3, RowsAssumption DEF LockPassed, BeforeLock
  <2>4. CASE ~Over(req'[r]) /\ ~CheckLocked(r) /\ ~ReadParticipation(r)
             /\ ~CheckOpportunity(r)
    <3>1. /\ req'[r].mem = req[r].mem /\ req'[r].op = req[r].op /\ req'[r].to = req[r].to
          /\ Busy(req[r]) /\ req[r].pc \notin BeforeLock
          /\ req'[r].pc \notin BeforeLock
      BY <2>4, ProceedFrame DEF BeforeLock, Active, Busy
    <3>2. LockPassed(req[r])
      BY DEF LockInv
    <3>3. QED
      BY <3>1, <3>2 DEF LockPassed, BeforeLock
  <2>5. QED
    BY <2>1, <2>2, <2>3, <2>4
<1>2. QED
  BY <1>1, ProceedFrame DEF LockInv

LEMMA LockInvariant == Spec => []LockInv
<1>1. Init => LockInv
  BY DEF Init, Blank, LockInv, LockPassed, Busy
<1>2. TypeInv /\ LockInv /\ [Next]_vars => LockInv'
  <2> SUFFICES ASSUME TypeInv, LockInv, [Next]_vars PROVE LockInv'
    OBVIOUS
  <2>1. ASSUME UNCHANGED req PROVE LockInv'
    BY <2>1 DEF LockInv
  <2>2. QED
    BY <2>1, CallLock, ProceedLock DEF Next, ToggleOpportunity, vars
<1>3. QED
  BY <1>1, <1>2, TypeInvariant, PTL DEF Spec

\* On a settled participation that nobody read before it was settled, a step
\* fails or completes it.
LEMMA SettledStep ==
  ASSUME TypeInv, LockInv, NEW r \in Requests, Proceed(r),
         NEW p \in Participations, req[r].part = p,
         Locked(part[p].status), ~Stale(p)
  PROVE  \/ Fail(r)
         \/ /\ SaveStatus(r) /\ req'[r].pc = "done" /\ Locked(part'[p].status)
            /\ UNCHANGED <<sub, refs, links, logs, objects>>
<1>t. /\ req[r] \in Request /\ req[r] \in Locals
      /\ part \in [Participations -> ParticipationRow]
  BY LocalTypes DEF TypeInv, TypeOK
<1>a. Active(r) /\ Busy(req[r]) /\ LockPassed(req[r])
  BY ProceedFrame DEF Active, Busy, LockInv
<1>1. CASE req[r].op = "transition"
  <2>1. /\ req[r].pc = "SaveStatus" /\ req[r].mem \in ParticipationRow
        /\ req[r].to \in Transitions[req[r].mem.status]
    BY <1>1, <1>a, <1>t DEF Locals, LockPassed
  <2>2. Locked(req[r].mem.status)
    BY <2>1, <1>a, RowsAssumption DEF Stale
  <2>3. req[r].to = "completed"
    BY <2>1, <2>2 DEF Locked, Transitions
  <2>4. SaveStatus(r) \/ Fail(r)
    <3>1. \A k \in Keys : ~UploadObject(r, k) /\ ~DeleteObject(r, k)
      BY <2>1 DEF UploadObject, DeleteObject, Step
    <3>2. QED
      BY <2>1, <3>1, StepPoints DEF Proceed
  <2>5. SaveStatus(r) => /\ part'[p].status = "completed" /\ req'[r].pc = "done"
                         /\ UNCHANGED <<sub, refs, links, logs, objects>>
    <3> SUFFICES ASSUME SaveStatus(r)
                 PROVE  /\ part'[p].status = "completed" /\ req'[r].pc = "done"
                        /\ UNCHANGED <<sub, refs, links, logs, objects>>
      OBVIOUS
    <3>1. /\ part' = [part EXCEPT ![p] = Written(req[r])]
          /\ UNCHANGED <<sub, refs, links, logs, objects>>
          /\ req' = [req EXCEPT ![r] = Ended(r, "done")]
      BY <1>1 DEF SaveStatus, Step
    <3>2. Written(req[r]).status = "completed"
      BY <2>1, <2>3 DEF Written, ParticipationRow
    <3>3. Ended(r, "done").pc = "done"
      BY DEF Ended, Blank
    <3>4. QED
      BY <3>1, <3>2, <3>3, <1>t DEF TypeInv, TypeOK
  <2>6. QED
    BY <2>4, <2>5 DEF Locked
<1>2. CASE req[r].op # "transition" /\ req[r].pc \in BeforeLock
  <2>1. Throws(r)
    <3>1. CASE req[r].pc = "CheckLocked"
      BY <3>1 DEF Throws, LockError
    <3>2. CASE req[r].pc = "ReadParticipation"
      BY <3>2 DEF Throws, ReviewError, Locked
    <3>3. CASE req[r].pc = "CheckOpportunity"
      <4>1. req[r].mem \in ParticipationRow
        BY <3>3, <1>a, <1>t DEF Locals, LockPassed
      <4>2. Locked(req[r].mem.status)
        BY <4>1, <1>a, RowsAssumption DEF Stale
      <4>3. QED
        BY <3>3, <4>2 DEF Throws, LockError
    <3>4. QED
      BY <1>2, <3>1, <3>2, <3>3 DEF BeforeLock
  <2>2. \A k \in Keys : ~UploadObject(r, k) /\ ~DeleteObject(r, k)
    BY <1>2 DEF UploadObject, DeleteObject, Step, BeforeLock
  <2>3. QED
    BY <2>1, <2>2, <1>2, StepPoints
    DEF Proceed, BeforeLock, CheckLocked, ReadParticipation, CheckOpportunity, Step
<1>3. CASE req[r].op # "transition" /\ req[r].pc \notin BeforeLock
  BY <1>3, <1>a DEF LockPassed, Stale
<1>4. QED
  BY <1>1, <1>2, <1>3

\* Any step on a settled participation that nobody read before.
LEMMA SettledKept ==
  ASSUME TypeInv, HomeInv, LockInv, NEW r \in Requests, Proceed(r),
         NEW p \in Participations, Locked(part[p].status), ~Stale(p)
  PROVE  Locked(part'[p].status) /\ Kept(p)
<1>1. CASE req[r].part # p
  BY <1>1, ElsewhereKept
<1>2. CASE req[r].part = p
  BY <1>2, SettledStep DEF Fail, tables, Kept
<1>3. QED
  BY <1>1, <1>2

\* A verified or completed participation stays so, with the submission, the
\* files and the decisions it was settled on, once every request that had read
\* it open is gone: there is no path around the lock checks.
THEOREM SettledIsFinalSafe == Spec => SettledIsFinal
<1>1. TypeInv /\ HomeInv /\ LockInv /\ [Next]_vars =>
        \A p \in Participations :
          Locked(part[p].status) /\ ~Stale(p)
            => Locked(part'[p].status) /\ Evidence(p)' = Evidence(p)
  <2> SUFFICES ASSUME TypeInv, HomeInv, LockInv, [Next]_vars, NEW p \in Participations,
                      Locked(part[p].status), ~Stale(p)
               PROVE  Locked(part'[p].status) /\ Evidence(p)' = Evidence(p)
    OBVIOUS
  <2>1. ASSUME NEW r \in Requests, Call(r) PROVE UNCHANGED <<tables, objects>>
    BY <2>1, CallFrame
  <2>2. ASSUME NEW r \in Requests, Proceed(r)
        PROVE  Locked(part'[p].status) /\ Evidence(p)' = Evidence(p)
    <3>1. Locked(part'[p].status) /\ Kept(p)
      BY <2>2, SettledKept
    <3>2. \A a \in Requests : req'[a].part = req[a].part
      BY <2>2, ProceedFrame, ProceedLocals
    <3>3. QED
      BY <2>2, <3>1, <3>2, EvidenceKept, ProceedHome, ProceedTypes
  <2>3. QED
    BY <2>1, <2>2, EvidenceFrame DEF Next, ToggleOpportunity, vars, tables
<1>2. TypeInv /\ HomeInv /\ LockInv /\ [Next]_vars =>
        [\A p \in Participations :
          Locked(part[p].status) /\ ~Stale(p)
            => Locked(part'[p].status) /\ Evidence(p)' = Evidence(p)]_vars
  BY <1>1
<1>3. QED
  BY <1>2, TypeInvariant, HomeInvariant, LockInvariant, PTL DEF Spec, SettledIsFinal

-----------------------------------------------------------------------------
(* Stored files.  The inductive invariant follows a key from the upload to *)
(* the deletion: until its request has linked it no other request can list *)
(* it, so nobody deletes its object before its reference is saved; and a   *)
(* request that is past its deletions has no reference left among the      *)
(* files it listed.                                                        *)

\* The points a request passes before it links its own files.
BeforeLinks ==
  {"idle", "CheckOpportunity", "Upload", "SaveRefs", "FindExisting",
   "DeletePriorLinks", "SaveSubmission", "SaveLinks", "CheckLocked",
   "ListFiles", "DeleteObject", "DeleteLinks", "DeleteRefs"}

Deleting == {"DeleteObject", "DeleteLinks", "DeleteRefs"}

UploadsStored ==
  \A r \in Requests :
    /\ \A k \in req[r].want : k[1] = r
    /\ req[r].pc = "CheckOpportunity" => req[r].todo = req[r].want
    /\ req[r].pc = "Upload" => req[r].want \ req[r].todo \subseteq objects
    /\ req[r].pc = "SaveRefs" => req[r].want \subseteq objects

UnlinkedUnlisted ==
  \A k \in Keys : req[k[1]].pc \in BeforeLinks =>
    \A s \in Requests : <<s, k>> \notin links /\ k \notin req[s].old

ListedDeleted ==
  \A r \in Requests :
    /\ req[r].pc \notin Deleting \cup {"failed"} => req[r].old \cap refs = {}
    /\ req[r].pc = "DeleteObject" => req[r].todo \subseteq req[r].old

MissingListed ==
  \A k \in refs \ objects : \E r \in Requests : k \in req[r].old

FilesInv == UploadsStored /\ UnlinkedUnlisted /\ ListedDeleted /\ MissingListed

USE DEF Keys

LEMMA FilesInvImplies == FilesInv => StoredFiles
BY DEF FilesInv, ListedDeleted, MissingListed, StoredFiles, Deleting

\* A step that adds no object, reference or link, and leaves the files its
\* request has listed or forgets them when none has a reference any more.
LEMMA QuietStep ==
  ASSUME TypeInv, FilesInv, NEW r \in Requests,
         refs' = refs, objects' = objects, links' \subseteq links,
         \A q \in Requests \ {r} : req'[q] = req[q],
         \/ req'[r].old = req[r].old
         \/ req'[r].old = {} /\ req[r].pc \notin Deleting \cup {"failed"},
         \A k \in req'[r].want : k[1] = r,
         req'[r].pc \in BeforeLinks => req[r].pc \in BeforeLinks,
         req'[r].pc = "CheckOpportunity" => req'[r].todo = req'[r].want,
         req'[r].pc = "Upload" => req'[r].todo = req'[r].want,
         req'[r].pc # "SaveRefs",
         req'[r].pc # "DeleteObject",
         req[r].pc \in Deleting => req'[r].pc \in Deleting \cup {"failed"},
         req[r].pc # "failed"
  PROVE  FilesInv'
<1>1. UploadsStored'
  BY DEF FilesInv, UploadsStored
<1>2. UnlinkedUnlisted'
  BY DEF FilesInv, UnlinkedUnlisted
<1>3. ListedDeleted'
  BY DEF FilesInv, ListedDeleted
<1>4. MissingListed'
  BY DEF FilesInv, MissingListed, ListedDeleted
<1>5. QED
  BY <1>1, <1>2, <1>3, <1>4 DEF FilesInv

\* A request that ends forgets its files; one that dies keeps what it listed.
LEMMA EndedFiles ==
  ASSUME NEW r \in Requests
  PROVE  /\ Ended(r, "done").old = {} /\ Ended(r, "done").want = {}
         /\ Ended(r, "done").pc = "done"
         /\ Ended(r, "failed").old = req[r].old /\ Ended(r, "failed").want = {}
         /\ Ended(r, "failed").pc = "failed"
BY DEF Ended, Blank

LEMMA CallFiles ==
  ASSUME TypeInv, FilesInv, NEW r \in Requests, Call(r)
  PROVE  FilesInv'
<1>1. ASSUME NEW call, Begin(r, call), UNCHANGED <<refs, links, objects>>,
             call.old = {}, \A k \in call.want : k[1] = r,
             call.pc \in {"CheckOpportunity", "CheckLocked", "ReadParticipation",
                          "SaveStatus"},
             call.pc = "CheckOpportunity" => call.todo = call.want
      PROVE  FilesInv'
  <2>1. /\ req[r].pc = "idle" /\ req'[r] = call
        /\ \A q \in Requests \ {r} : req'[q] = req[q]
    BY <1>1 DEF Begin, TypeInv, TypeOK
  <2>2. QED
    BY <1>1, <2>1, QuietStep DEF BeforeLinks, Deleting
<1>2. \A n \in 0 .. MaxFiles : \A k \in Upload(r, n) : k[1] = r
  BY DEF Upload
<1>3. ASSUME NEW p \in Participations, NEW n \in 1 .. MaxFiles, BeginCreate(r, p, n)
      PROVE  FilesInv'
  <2> DEFINE call == [Blank EXCEPT !.pc = "CheckOpportunity", !.op = "create",
                            !.by = Owner[p], !.part = p, !.mem = part[p],
                            !.to = "submitted", !.want = Upload(r, n),
                            !.todo = Upload(r, n)]
  <2>1. Begin(r, call) /\ UNCHANGED <<refs, links, objects>>
    BY <1>3 DEF BeginCreate, tables
  <2>2. /\ call.old = {} /\ call.want = Upload(r, n) /\ call.todo = call.want
        /\ call.pc = "CheckOpportunity"
    BY DEF Blank
  <2>3. \A k \in Upload(r, n) : k[1] = r
    BY <1>2, BoundsAssumption
  <2>4. QED
    <3> HIDE DEF call
    <3> QED BY <1>1, <2>1, <2>2, <2>3
<1>4. ASSUME NEW s \in Requests, NEW n \in 0 .. MaxFiles, NEW op, BeginEdit(r, s, op, n)
      PROVE  FilesInv'
  BY <1>1, <1>2, <1>4 DEF BeginEdit, Blank, tables
<1>5. ASSUME NEW s \in Requests, NEW u \in Users, NEW op, BeginReview(r, s, u, op)
      PROVE  FilesInv'
  BY <1>1, <1>5 DEF BeginReview, Blank, tables
<1>6. ASSUME NEW p \in Participations, NEW u \in Users, NEW to \in Statuses,
             BeginTransition(r, p, u, to)
      PROVE  FilesInv'
  BY <1>1, <1>6 DEF BeginTransition, Blank, tables
<1>7. 0 \in 0 .. MaxFiles
  BY BoundsAssumption
<1>8. QED
  BY <1>3, <1>4, <1>5, <1>6, <1>7
  DEF Call, BeginUpdate, BeginRemove, BeginApprove, BeginReject

\* The steps that leave the object store and the references alone.
LEMMA QuietFiles ==
  ASSUME TypeInv, FilesInv, NEW r \in Requests,
         \/ CheckOpportunity(r) \/ FindExisting(r) \/ DeletePriorLinks(r)
         \/ SaveSubmission(r) \/ SaveStatus(r) \/ CheckLocked(r) \/ DeleteLinks(r)
         \/ RemoveRow(r) \/ TouchSubmission(r) \/ ReadParticipation(r)
         \/ CheckLog(r) \/ SaveLog(r) \/ SaveReason(r) \/ Fail(r)
  PROVE  FilesInv'
<1>t. req[r] \in Request /\ req \in [Requests -> Request]
  BY LocalTypes DEF TypeInv, TypeOK
<1>w. \A k \in req[r].want : k[1] = r
  BY DEF FilesInv, UploadsStored
<1> USE <1>t, <1>w, EndedFiles DEF Request, Step, At, BeforeLinks, Deleting, tables
<1>1. CASE CheckOpportunity(r)
  BY <1>1, QuietStep DEF CheckOpportunity, FilesInv, UploadsStored
<1>2. CASE FindExisting(r)
  <2> DEFINE moved(pc, s, row) == [req[r] EXCEPT !.pc = pc, !.sub = s, !.smem = row]
  <2>1. ASSUME NEW pc \in {"DeletePriorLinks", "SaveSubmission"}, NEW s, NEW row,
               Step(r, "FindExisting", moved(pc, s, row))
        PROVE  FilesInv'
    BY <1>2, <2>1, QuietStep DEF FindExisting
  <2>2. \/ \E s \in Existing(req[r].part) :
             Step(r, "FindExisting", moved("DeletePriorLinks", s, sub[s]))
        \/ Step(r, "FindExisting",
                moved("SaveSubmission", r, [part |-> req[r].part, reason |-> FALSE]))
    BY <1>2 DEF FindExisting
  <2>3. QED
    <3> HIDE DEF moved
    <3> QED BY <2>1, <2>2
<1>3. CASE DeletePriorLinks(r)
  BY <1>3, QuietStep DEF DeletePriorLinks, LinksWithout
<1>4. CASE SaveSubmission(r)
  BY <1>4, QuietStep DEF SaveSubmission
<1>5. CASE SaveStatus(r)
  BY <1>5, QuietStep DEF SaveStatus
<1>6. CASE CheckLocked(r)
  BY <1>6, QuietStep DEF CheckLocked
<1>7. CASE DeleteLinks(r)
  BY <1>7, QuietStep DEF DeleteLinks, LinksWithout
<1>8. CASE RemoveRow(r)
  BY <1>8, QuietStep DEF RemoveRow, LinksWithout
<1>9. CASE TouchSubmission(r)
  BY <1>9, QuietStep DEF TouchSubmission
<1>10. CASE ReadParticipation(r)
  BY <1>10, QuietStep DEF ReadParticipation
<1>11. CASE CheckLog(r)
  BY <1>11, QuietStep DEF CheckLog
<1>12. CASE SaveLog(r)
  BY <1>12, QuietStep DEF SaveLog
<1>13. CASE SaveReason(r)
  BY <1>13, QuietStep DEF SaveReason
<1>14. CASE Fail(r)
  BY <1>14, QuietStep DEF Fail, Active
<1>15. QED
  BY <1>1, <1>2, <1>3, <1>4, <1>5, <1>6, <1>7, <1>8, <1>9, <1>10, <1>11, <1>12, <1>13, <1>14

\* The six steps that store, reference, link, list or delete files.
LEMMA StoringFiles ==
  ASSUME TypeInv, FilesInv, NEW r \in Requests,
         \/ SaveRefs(r) \/ SaveLinks(r) \/ ListFiles(r) \/ DeleteRefs(r)
         \/ \E k \in Keys : UploadObject(r, k) \/ DeleteObject(r, k)
  PROVE  FilesInv'
<1>t. /\ req[r] \in Request /\ req[r].want \subseteq Keys /\ req[r].old \subseteq Keys
      /\ req \in [Requests -> Request] /\ refs \subseteq Keys
      /\ links \subseteq Requests \X Keys
  BY LocalTypes DEF TypeInv, TypeOK, Request
<1> USE <1>t DEF Step, At, BeforeLinks, Deleting, tables
<1>1. CASE SaveRefs(r)
  <2>1. /\ req[r].pc = "SaveRefs" /\ req'[r].pc \in {"FindExisting", "SaveLinks"}
        /\ req'[r].want = req[r].want /\ req'[r].old = req[r].old
        /\ \A q \in Requests \ {r} : req'[q] = req[q]
        /\ refs' = refs \cup req[r].want /\ UNCHANGED <<links, objects>>
    BY <1>1 DEF SaveRefs, Request
  <2>2. UploadsStored'
    BY <2>1 DEF FilesInv, UploadsStored
  <2>3. UnlinkedUnlisted'
    BY <2>1 DEF FilesInv, UnlinkedUnlisted
  <2>4. \A k \in req[r].want : \A q \in Requests : k \notin req[q].old
    BY <2>1 DEF FilesInv, UploadsStored, UnlinkedUnlisted
  <2>5. ListedDeleted'
    BY <2>1, <2>4 DEF FilesInv, ListedDeleted
  <2>6. MissingListed'
    BY <2>1 DEF FilesInv, MissingListed, UploadsStored
  <2>7. QED
    BY <2>2, <2>3, <2>5, <2>6 DEF FilesInv
<1>2. CASE SaveLinks(r)
  <2>1. /\ req[r].pc = "SaveLinks" /\ req'[r].pc \in {"SaveStatus", "TouchSubmission"}
        /\ req'[r].want = req[r].want /\ req'[r].old = req[r].old
        /\ \A q \in Requests \ {r} : req'[q] = req[q]
        /\ links' = links \cup ({req[r].sub} \X req[r].want)
        /\ UNCHANGED <<refs, objects>>
    BY <1>2 DEF SaveLinks, NewLinks, Request
  <2>2. UploadsStored'
    BY <2>1 DEF FilesInv, UploadsStored
  <2>3. UnlinkedUnlisted'
    BY <2>1 DEF FilesInv, UnlinkedUnlisted, UploadsStored
  <2>4. ListedDeleted'
    BY <2>1 DEF FilesInv, ListedDeleted
  <2>5. MissingListed'
    BY <2>1 DEF FilesInv, MissingListed
  <2>6. QED
    BY <2>2, <2>3, <2>4, <2>5 DEF FilesInv
<1>3. CASE ListFiles(r)
  <2>1. /\ req[r].pc = "ListFiles" /\ req'[r].pc \in {"DeleteObject", "DeleteLinks"}
        /\ req'[r].want = req[r].want
        /\ req'[r].old = FilesOf(req[r].sub) /\ req'[r].todo = FilesOf(req[r].sub)
        /\ \A q \in Requests \ {r} : req'[q] = req[q]
        /\ UNCHANGED <<refs, links, objects>>
    BY <1>3 DEF ListFiles, Request
  <2>2. UploadsStored'
    BY <2>1 DEF FilesInv, UploadsStored
  <2>3. \A k \in FilesOf(req[r].sub) : k \in Keys /\ req[k[1]].pc \notin BeforeLinks
    BY DEF FilesInv, UnlinkedUnlisted, FilesOf
  <2>4. UnlinkedUnlisted'
    BY <2>1, <2>3 DEF FilesInv, UnlinkedUnlisted
  <2>5. ListedDeleted'
    BY <2>1 DEF FilesInv, ListedDeleted
  <2>6. MissingListed'
    BY <2>1 DEF FilesInv, MissingListed, ListedDeleted
  <2>7. QED
    BY <2>2, <2>4, <2>5, <2>6 DEF FilesInv
<1>4. CASE DeleteRefs(r)
  <2>1. /\ req[r].pc = "DeleteRefs" /\ req'[r].pc \in {"Upload", "RemoveRow"}
        /\ req'[r].want = req[r].want /\ req'[r].old = req[r].old
        /\ req'[r].todo = req[r].want
        /\ \A q \in Requests \ {r} : req'[q] = req[q]
        /\ refs' = refs \ req[r].old /\ links' \subseteq links /\ UNCHANGED objects
    BY <1>4 DEF DeleteRefs, RefsWithout, Request
  <2>2. UploadsStored'
    BY <2>1 DEF FilesInv, UploadsStored
  <2>3. UnlinkedUnlisted'
    BY <2>1 DEF FilesInv, UnlinkedUnlisted
  <2>4. ListedDeleted'
    BY <2>1 DEF FilesInv, ListedDeleted
  <2>5. MissingListed'
    BY <2>1 DEF FilesInv, MissingListed
  <2>6. QED
    BY <2>2, <2>3, <2>4, <2>5 DEF FilesInv
<1>5. ASSUME NEW k \in Keys, UploadObject(r, k) PROVE FilesInv'
  <2>1. /\ req[r].pc = "Upload" /\ req'[r].want = req[r].want
        /\ req'[r].old = req[r].old /\ req'[r].todo = req[r].todo \ {k}
        /\ \/ req'[r].pc = "Upload"
           \/ req'[r].pc = "SaveRefs" /\ req[r].todo = {k}
        /\ \A q \in Requests \ {r} : req'[q] = req[q]
        /\ objects' = objects \cup {k} /\ UNCHANGED <<refs, links>>
    BY <1>5 DEF UploadObject, Request
  <2>2. UploadsStored'
    BY <2>1 DEF FilesInv, UploadsStored
  <2>3. UnlinkedUnlisted'
    BY <2>1 DEF FilesInv, UnlinkedUnlisted
  <2>4. ListedDeleted'
    BY <2>1 DEF FilesInv, ListedDeleted
  <2>5. MissingListed'
    BY <2>1 DEF FilesInv, MissingListed
  <2>6. QED
    BY <2>2, <2>3, <2>4, <2>5 DEF FilesInv
<1>6. ASSUME NEW k \in Keys, DeleteObject(r, k) PROVE FilesInv'
  <2>1. /\ req[r].pc = "DeleteObject" /\ req'[r].want = req[r].want /\ k \in req[r].todo
        /\ req'[r].old = req[r].old /\ req'[r].todo = req[r].todo \ {k}
        /\ req'[r].pc \in {"DeleteObject", "DeleteLinks"}
        /\ \A q \in Requests \ {r} : req'[q] = req[q]
        /\ objects \ {k} \subseteq objects' /\ UNCHANGED <<refs, links>>
    BY <1>6 DEF DeleteObject, Request
  <2>2. k \in req[r].old /\ req[k[1]].pc \notin BeforeLinks
    BY <2>1 DEF FilesInv, ListedDeleted, UnlinkedUnlisted
  <2>3. UploadsStored'
    BY <2>1, <2>2 DEF FilesInv, UploadsStored
  <2>4. UnlinkedUnlisted'
    BY <2>1 DEF FilesInv, UnlinkedUnlisted
  <2>5. ListedDeleted'
    BY <2>1 DEF FilesInv, ListedDeleted
  <2>6. MissingListed'
    BY <2>1, <2>2 DEF FilesInv, MissingListed
  <2>7. QED
    BY <2>3, <2>4, <2>5, <2>6 DEF FilesInv
<1>7. QED
  BY <1>1, <1>2, <1>3, <1>4, <1>5, <1>6

\* No update, removal or resubmission, overlapped or cut short anywhere, loses
\* a stored file that a file reference still names, except the files it had
\* itself listed for deletion and not yet finished deleting.
THEOREM StoredFilesSafe == Spec => []StoredFiles
<1>1. Init => FilesInv
  BY DEF Init, Blank, FilesInv, UploadsStored, UnlinkedUnlisted, ListedDeleted,
         MissingListed, Deleting, BeforeLinks
<1>2. TypeInv /\ FilesInv /\ [Next]_vars => FilesInv'
  <2> SUFFICES ASSUME TypeInv, FilesInv, [Next]_vars PROVE FilesInv'
    OBVIOUS
  <2>1. ASSUME NEW r \in Requests, Proceed(r) PROVE FilesInv'
    BY <2>1, QuietFiles, StoringFiles DEF Proceed
  <2>2. ASSUME NEW p \in Participations, ToggleOpportunity(p) PROVE FilesInv'
    BY <2>2 DEF ToggleOpportunity, tables, FilesInv, UploadsStored, UnlinkedUnlisted,
                ListedDeleted, MissingListed
  <2>3. CASE UNCHANGED vars
    BY <2>3 DEF vars, FilesInv, UploadsStored, UnlinkedUnlisted, ListedDeleted,
                MissingListed
  <2>4. QED
    BY <2>1, <2>2, <2>3, CallFiles DEF Next
<1>3. QED
  BY <1>1, <1>2, TypeInvariant, FilesInvImplies, PTL DEF Spec
=============================================================================
