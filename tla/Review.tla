------------------------------- MODULE Review -------------------------------
(***************************************************************************)
(* Handing in and reviewing proof of a placement.  A participation is a    *)
(* student's registration for one opportunity; its owner uploads files as  *)
(* a submission, and its team leader approves or rejects it.               *)
(*                                                                         *)
(* The handlers run no database transaction, so every awaited call of the  *)
(* database or of the object store is a step of its own, and the steps of  *)
(* the requests in flight interleave.  A TypeORM save(entity) writes the   *)
(* whole row as the request read it, and inserts the row again when it is  *)
(* gone.  A request is one call of one handler; it may die at any await.   *)
(*                                                                         *)
(* A definition commented as a mutant is the wrong form of the one after   *)
(* it: no action uses it, and a property has to tell the two apart.        *)
(***************************************************************************)
EXTENDS Naturals, FiniteSets

CONSTANTS
  Requests,        \* the calls of a behaviour; each one is made once
  Participations,
  Users,
  Owner,           \* Owner[p]: the student enrolled (enrollment.userId)
  Leader,          \* Leader[p]: participation.teamLeaderUserId, or Null
  MaxFiles,        \* bound: files of one upload
  Concurrency,     \* bound: requests in flight at once
  StatusColumn,    \* the statuses participations.status can store
  Faults,          \* may storage and database calls fail, or the server die?
  Null

Statuses == {"not_started", "in_progress", "submitted", "verified",
             "rejected", "incomplete", "completed"}

ASSUME OwnersAssumption == Owner \in [Participations -> Users]
ASSUME LeadersAssumption == Leader \in [Participations -> Users \cup {Null}]
ASSUME BoundsAssumption == MaxFiles \in Nat \ {0} /\ Concurrency \in Nat \ {0}
ASSUME ColumnAssumption ==
  {"not_started", "submitted"} \subseteq StatusColumn /\ StatusColumn \subseteq Statuses
ASSUME FaultsAssumption == Faults \in BOOLEAN
ASSUME NullAssumption == Null \notin Users \cup Participations \cup Requests

\* Every id is a fresh uuid: a submission and a log row are named by the
\* request that inserted them, a stored file by the request and its place.
Keys == Requests \X (1 .. MaxFiles)
\* Mutant: one file too many.
UploadFromZero(r, n) == {r} \X (0 .. n)
Upload(r, n) == {r} \X (1 .. n)

VARIABLES
  part,       \* participations: status and verified_by
  sub,        \* submissions: participation, and is a rejection reason set?
  refs,       \* file_references
  links,      \* submission_files: (submission, file reference)
  logs,       \* verification_logs: submission and action
  objects,    \* keys the object store holds
  accepting,  \* is the opportunity of p published or open?
  req,        \* the requests: control point and local variables
  contended,  \* history: participations two requests have worked on at once
  raced       \* history: submissions two reviews logged a decision on at once

tables == <<part, sub, refs, links, logs>>
vars == <<part, sub, refs, links, logs, objects, accepting, req, contended, raced>>

Locked(status) == status \in {"verified", "completed"}

\* STATUS_TRANSITIONS of updateStatus.
Transitions ==
  [not_started |-> {"in_progress"},
   in_progress |-> {"submitted", "completed"},
   submitted   |-> {"verified", "rejected", "incomplete"},
   rejected    |-> {"in_progress"},
   incomplete  |-> {"in_progress"},
   verified    |-> {"completed"},
   completed   |-> {}]

SubmissionsOf(p) == {s \in Requests : sub[s] # Null /\ sub[s].part = p}
FilesOf(s) == {k \in Keys : <<s, k>> \in links}
Decided(s) == \E l \in Requests : logs[l] # Null /\ logs[l].sub = s

-----------------------------------------------------------------------------
(* Requests.                                                               *)

Blank == [pc |-> "idle", op |-> "none", by |-> Null, part |-> Null,
          sub |-> Null, mem |-> Null, smem |-> Null, to |-> Null,
          want |-> {}, todo |-> {}, old |-> {}]

Active(r) == req[r].pc \notin {"idle", "done", "failed"}

\* The handler's arguments and what its first query returned.
Begin(r, call) ==
  /\ req[r].pc = "idle"
  /\ Cardinality({q \in Requests : Active(q)}) < Concurrency
  /\ req' = [req EXCEPT ![r] = call]
  /\ contended' = IF \E q \in Requests : Active(q) /\ req[q].part = call.part
                    THEN contended \cup {call.part} ELSE contended

\* A request that has answered keeps nothing but its participation and, when
\* it died, the files it had set out to delete.
Ended(r, outcome) ==
  [Blank EXCEPT !.pc = outcome, !.part = req[r].part,
                !.old = IF outcome = "failed" THEN req[r].old ELSE {}]

At(r, pc) == [req[r] EXCEPT !.pc = pc]

\* Mutant: a completed participation is open again.
LockErrorUntilVerified(r) ==
  \/ req[r].pc = "CheckOpportunity" /\ req[r].mem.status = "verified"
  \/ req[r].pc = "CheckLocked" /\ part[req[r].part].status = "verified"
\* Mutant: create forgets the lock.
LockErrorOfEdits(r) == req[r].pc = "CheckLocked" /\ Locked(part[req[r].part].status)

\* The exceptions of the handlers.  A settled participation takes no more
\* uploads: create looks at the status it read before the opportunity, update
\* and remove at the one they read after the submission.
LockError(r) ==
  \/ req[r].pc = "CheckOpportunity" /\ Locked(req[r].mem.status)
  \/ req[r].pc = "CheckLocked" /\ Locked(part[req[r].part].status)

ClosedError(r) == req[r].pc = "CheckOpportunity" /\ ~accepting[req[r].part]

\* A review needs a submitted participation and its team leader.
ReviewError(r) ==
  /\ req[r].pc = "ReadParticipation"
  /\ \/ part[req[r].part].status # "submitted"
     \/ Leader[req[r].part] # req[r].by

\* Mutant: only approvals count as decisions.
DuplicateErrorOfApprovals(r) ==
  /\ req[r].pc = "CheckLog"
  /\ \E l \in Requests : logs[l] = [sub |-> req[r].sub, action |-> "verified"]

\* A submission with a decision in its log is not decided again.
DuplicateError(r) == req[r].pc = "CheckLog" /\ Decided(req[r].sub)

\* The foreign keys of submission_files and verification_logs, and the type
\* of participations.status.
ConstraintError(r) ==
  \/ req[r].pc \in {"SaveLinks", "SaveLog"} /\ sub[req[r].sub] = Null
  \/ req[r].pc = "SaveLinks" /\ ~(req[r].want \subseteq refs)
  \/ req[r].pc = "SaveStatus" /\ req[r].to \notin StatusColumn

Throws(r) == \/ LockError(r) \/ ClosedError(r) \/ ReviewError(r)
             \/ DuplicateError(r) \/ ConstraintError(r)

\* The request r moves on from one awaited call.
Step(r, pc, next) ==
  /\ req[r].pc = pc
  /\ ~Throws(r)
  /\ req' = [req EXCEPT ![r] = next]
  /\ UNCHANGED contended

Fail(r) ==
  /\ Active(r)
  /\ Faults \/ Throws(r)
  /\ req' = [req EXCEPT ![r] = Ended(r, "failed")]
  /\ UNCHANGED <<tables, objects, accepting, contended, raced>>

-----------------------------------------------------------------------------
(* SubmissionsService.create                                               *)

\* The participation is read; anyone but its owner is refused.
BeginCreate(r, p, n) ==
  /\ Begin(r, [Blank EXCEPT !.pc = "CheckOpportunity", !.op = "create",
                            !.by = Owner[p], !.part = p, !.mem = part[p],
                            !.to = "submitted", !.want = Upload(r, n),
                            !.todo = Upload(r, n)])
  /\ UNCHANGED <<tables, objects, accepting, raced>>

\* The opportunity is read, and the status that was read before is checked.
CheckOpportunity(r) ==
  /\ Step(r, "CheckOpportunity", At(r, "Upload"))
  /\ UNCHANGED <<tables, objects, accepting, raced>>

\* One await for each file; shared with update.
UploadObject(r, k) ==
  /\ k \in req[r].todo
  /\ Step(r, "Upload",
          [req[r] EXCEPT !.todo = @ \ {k},
                         !.pc = IF req[r].todo = {k} THEN "SaveRefs" ELSE "Upload"])
  /\ objects' = objects \cup {k}
  /\ UNCHANGED <<tables, accepting, raced>>

SaveRefs(r) ==
  /\ Step(r, "SaveRefs", At(r, IF req[r].op = "create" THEN "FindExisting"
                                                      ELSE "SaveLinks"))
  /\ refs' = refs \cup req[r].want
  /\ UNCHANGED <<part, sub, links, logs, objects, accepting, raced>>

\* Mutant: a submission that lost its files is overlooked.
ExistingWithFiles(p) == {s \in SubmissionsOf(p) : FilesOf(s) # {}}
Existing(p) == SubmissionsOf(p)

\* A participation that has a submission keeps it; findOne has no order.
FindExisting(r) ==
  LET p == req[r].part IN
  /\ \/ \E s \in Existing(p) :
          Step(r, "FindExisting", [req[r] EXCEPT !.pc = "DeletePriorLinks",
                                                 !.sub = s, !.smem = sub[s]])
     \/ /\ Existing(p) = {}
        /\ Step(r, "FindExisting",
                [req[r] EXCEPT !.pc = "SaveSubmission", !.sub = r,
                               !.smem = [part |-> p, reason |-> FALSE]])
  /\ UNCHANGED <<tables, objects, accepting, raced>>

\* Mutant: the delete has no condition.
LinksDeletedEverywhere(s) == {}
LinksWithout(s) == {l \in links : l[1] # s}

\* The links go; the references and objects they named stay.
DeletePriorLinks(r) ==
  /\ Step(r, "DeletePriorLinks", At(r, "SaveSubmission"))
  /\ links' = LinksWithout(req[r].sub)
  /\ UNCHANGED <<part, sub, refs, logs, objects, accepting, raced>>

SaveSubmission(r) ==
  /\ Step(r, "SaveSubmission", At(r, "SaveLinks"))
  /\ sub' = [sub EXCEPT ![req[r].sub] = req[r].smem]
  /\ UNCHANGED <<part, refs, links, logs, objects, accepting, raced>>

\* Mutant: the files listed for deletion are linked again.
NewLinksToOld(me) == {me.sub} \X me.old
NewLinks(me) == {me.sub} \X me.want

SaveLinks(r) ==
  /\ Step(r, "SaveLinks", At(r, IF req[r].op = "create" THEN "SaveStatus"
                                                       ELSE "TouchSubmission"))
  /\ links' = links \cup NewLinks(req[r])
  /\ UNCHANGED <<part, sub, refs, logs, objects, accepting, raced>>

\* Mutant: updateStatus does not record the verifier.
WrittenByNobody(me) == [me.mem EXCEPT !.status = me.to]

\* What a handler writes back to the participation it read: the status it set
\* and, in updateStatus only, who verified it.
Written(me) ==
  [me.mem EXCEPT !.status = me.to,
                 !.verifiedBy = IF me.op = "transition" /\ me.to = "verified"
                                  THEN me.by ELSE @]

\* participationRepository.save: the last write of create, approve and
\* updateStatus, the one before the last of reject.
SaveStatus(r) ==
  /\ Step(r, "SaveStatus", IF req[r].op = "reject" THEN At(r, "SaveReason")
                                                   ELSE Ended(r, "done"))
  /\ part' = [part EXCEPT ![req[r].part] = Written(req[r])]
  /\ UNCHANGED <<sub, refs, links, logs, objects, accepting, raced>>

-----------------------------------------------------------------------------
(* SubmissionsService.update and remove                                    *)

\* The submission is read; anyone but its submitter is refused.
BeginEdit(r, s, op, n) ==
  /\ sub[s] # Null
  /\ Begin(r, [Blank EXCEPT !.pc = "CheckLocked", !.op = op,
                            !.by = Owner[sub[s].part], !.part = sub[s].part,
                            !.sub = s, !.smem = sub[s], !.want = Upload(r, n)])
  /\ UNCHANGED <<tables, objects, accepting, raced>>

BeginUpdate(r, s, n) == BeginEdit(r, s, "update", n)
BeginRemove(r, s) == BeginEdit(r, s, "remove", 0)

\* An update without files goes straight to its save.
CheckLocked(r) ==
  /\ Step(r, "CheckLocked",
          [req[r] EXCEPT !.mem = part[req[r].part],
                         !.pc = IF req[r].op = "update" /\ req[r].want = {}
                                  THEN "TouchSubmission" ELSE "ListFiles"])
  /\ UNCHANGED <<tables, objects, accepting, raced>>

ListFiles(r) ==
  LET files == FilesOf(req[r].sub) IN
  /\ Step(r, "ListFiles",
          [req[r] EXCEPT !.old = files, !.todo = files,
                         !.pc = IF files = {} THEN "DeleteLinks" ELSE "DeleteObject"])
  /\ UNCHANGED <<tables, objects, accepting, raced>>

\* StorageService.delete ignores the errors of the store.
DeleteObject(r, k) ==
  /\ k \in req[r].todo
  /\ Step(r, "DeleteObject",
          [req[r] EXCEPT !.todo = @ \ {k},
                         !.pc = IF req[r].todo = {k} THEN "DeleteLinks"
                                                     ELSE "DeleteObject"])
  /\ \/ objects' = objects \ {k}
     \/ Faults /\ objects' = objects
  /\ UNCHANGED <<tables, accepting, raced>>

DeleteLinks(r) ==
  /\ Step(r, "DeleteLinks", At(r, "DeleteRefs"))
  /\ links' = LinksWithout(req[r].sub)
  /\ UNCHANGED <<part, sub, refs, logs, objects, accepting, raced>>

\* Mutant: an update keeps the references it unlinked.
RefsKeptByUpdate(me) == IF me.op = "update" THEN refs ELSE refs \ me.old
RefsWithout(me) == refs \ me.old

\* The references listed before the deletions; links to them cascade.
DeleteRefs(r) ==
  /\ Step(r, "DeleteRefs",
          [req[r] EXCEPT !.todo = req[r].want,
                         !.pc = IF req[r].op = "update" THEN "Upload" ELSE "RemoveRow"])
  /\ refs' = RefsWithout(req[r])
  /\ links' = {l \in links : l[2] \notin req[r].old}
  /\ UNCHANGED <<part, sub, logs, objects, accepting, raced>>

\* The foreign keys of submission_files and verification_logs cascade.
RemoveRow(r) ==
  LET s == req[r].sub IN
  /\ Step(r, "RemoveRow", Ended(r, "done"))
  /\ sub' = [sub EXCEPT ![s] = Null]
  /\ links' = LinksWithout(s)
  /\ logs' = [l \in Requests |-> IF logs[l] # Null /\ logs[l].sub = s
                                   THEN Null ELSE logs[l]]
  /\ UNCHANGED <<part, refs, objects, accepting, raced>>

\* update ends by saving the submission it read first.
TouchSubmission(r) ==
  /\ Step(r, "TouchSubmission", Ended(r, "done"))
  /\ sub' = [sub EXCEPT ![req[r].sub] = req[r].smem]
  /\ UNCHANGED <<part, refs, links, logs, objects, accepting, raced>>

-----------------------------------------------------------------------------
(* VerificationService.approve and reject                                  *)

BeginReview(r, s, u, op) ==
  /\ sub[s] # Null
  /\ Begin(r, [Blank EXCEPT !.pc = "ReadParticipation", !.op = op, !.by = u,
                            !.part = sub[s].part, !.sub = s, !.smem = sub[s],
                            !.to = IF op = "approve" THEN "verified" ELSE "rejected"])
  /\ UNCHANGED <<tables, objects, accepting, raced>>

BeginApprove(r, s, u) == BeginReview(r, s, u, "approve")
BeginReject(r, s, u) == BeginReview(r, s, u, "reject")

\* The participation must be submitted and the caller its team leader.
ReadParticipation(r) ==
  /\ Step(r, "ReadParticipation", [req[r] EXCEPT !.pc = "CheckLog",
                                                 !.mem = part[req[r].part]])
  /\ UNCHANGED <<tables, objects, accepting, raced>>

CheckLog(r) ==
  /\ Step(r, "CheckLog", At(r, "SaveLog"))
  /\ UNCHANGED <<tables, objects, accepting, raced>>

SaveLog(r) ==
  LET s == req[r].sub IN
  /\ Step(r, "SaveLog", At(r, "SaveStatus"))
  /\ logs' = [logs EXCEPT ![r] = [sub |-> s, action |-> req[r].to]]
  /\ raced' = IF \E q \in Requests \ {r} : req[q].pc = "SaveLog" /\ req[q].sub = s
                THEN raced \cup {s} ELSE raced
  /\ UNCHANGED <<part, sub, refs, links, objects, accepting>>

SaveReason(r) ==
  /\ Step(r, "SaveReason", Ended(r, "done"))
  /\ sub' = [sub EXCEPT ![req[r].sub] = [req[r].smem EXCEPT !.reason = TRUE]]
  /\ UNCHANGED <<part, refs, links, logs, objects, accepting, raced>>

-----------------------------------------------------------------------------
(* ParticipationsService.updateStatus                                      *)

\* The participation is read; the caller is its owner or its team leader.
BeginTransition(r, p, u, to) ==
  /\ u \in {Owner[p], Leader[p]}
  /\ to \in Transitions[part[p].status]
  /\ Begin(r, [Blank EXCEPT !.pc = "SaveStatus", !.op = "transition", !.by = u,
                            !.part = p, !.mem = part[p], !.to = to])
  /\ UNCHANGED <<tables, objects, accepting, raced>>

\* An administrator publishes, archives or edits the opportunity of p.
ToggleOpportunity(p) ==
  /\ accepting' = [accepting EXCEPT ![p] = ~@]
  /\ UNCHANGED <<tables, objects, req, contended, raced>>

-----------------------------------------------------------------------------
Init ==
  /\ part = [p \in Participations |-> [status |-> "not_started", verifiedBy |-> Null]]
  /\ sub = [s \in Requests |-> Null]
  /\ logs = [l \in Requests |-> Null]
  /\ refs = {} /\ links = {} /\ objects = {}
  /\ accepting = [p \in Participations |-> TRUE]
  /\ req = [r \in Requests |-> Blank]
  /\ contended = {} /\ raced = {}

Call(r) ==
  \/ \E p \in Participations, n \in 1 .. MaxFiles : BeginCreate(r, p, n)
  \/ \E s \in Requests, n \in 0 .. MaxFiles : BeginUpdate(r, s, n)
  \/ \E s \in Requests : BeginRemove(r, s)
  \/ \E s \in Requests, u \in Users : BeginApprove(r, s, u) \/ BeginReject(r, s, u)
  \/ \E p \in Participations, u \in Users, to \in Statuses : BeginTransition(r, p, u, to)

Proceed(r) ==
  \/ CheckOpportunity(r) \/ SaveRefs(r) \/ FindExisting(r) \/ DeletePriorLinks(r)
  \/ SaveSubmission(r) \/ SaveLinks(r) \/ SaveStatus(r)
  \/ CheckLocked(r) \/ ListFiles(r) \/ DeleteLinks(r) \/ DeleteRefs(r)
  \/ RemoveRow(r) \/ TouchSubmission(r)
  \/ ReadParticipation(r) \/ CheckLog(r) \/ SaveLog(r) \/ SaveReason(r)
  \/ \E k \in Keys : UploadObject(r, k) \/ DeleteObject(r, k)
  \/ Fail(r)

Next ==
  \/ \E r \in Requests : Call(r) \/ Proceed(r)
  \/ \E p \in Participations : ToggleOpportunity(p)

Spec == Init /\ [][Next]_vars

-----------------------------------------------------------------------------
(* Properties.                                                             *)

Points == {"idle", "done", "failed", "CheckOpportunity", "Upload", "SaveRefs",
           "FindExisting", "DeletePriorLinks", "SaveSubmission", "SaveLinks",
           "SaveStatus", "CheckLocked", "ListFiles", "DeleteObject",
           "DeleteLinks", "DeleteRefs", "RemoveRow", "TouchSubmission",
           "ReadParticipation", "CheckLog", "SaveLog", "SaveReason"}
Handlers == {"none", "create", "update", "remove", "approve", "reject", "transition"}

ParticipationRow == [status : Statuses, verifiedBy : Users \cup {Null}]
SubmissionRow == [part : Participations, reason : BOOLEAN]
LogRow == [sub : Requests, action : {"verified", "rejected"}]

\* A row is not the absence of one.
ASSUME RowsAssumption == Null \notin ParticipationRow \cup SubmissionRow \cup LogRow

Request ==
  [pc : Points, op : Handlers, by : Users \cup {Null},
   part : Participations \cup {Null}, sub : Requests \cup {Null},
   mem : ParticipationRow \cup {Null}, smem : SubmissionRow \cup {Null},
   to : Statuses \cup {Null},
   want : SUBSET Keys, todo : SUBSET Keys, old : SUBSET Keys]

\* Every variable keeps its type (the columns of the entities, the locals of
\* the handlers).
TypeOK ==
  /\ part \in [Participations -> ParticipationRow]
  /\ sub \in [Requests -> SubmissionRow \cup {Null}]
  /\ logs \in [Requests -> LogRow \cup {Null}]
  /\ refs \subseteq Keys
  /\ links \subseteq Requests \X Keys
  /\ objects \subseteq Keys
  /\ accepting \in [Participations -> BOOLEAN]
  /\ req \in [Requests -> Request]
  /\ contended \subseteq Participations
  /\ raced \subseteq Requests

\* A file reference whose object is gone is one that some update or remove
\* listed for deletion and has not deleted: it is still at work, or it died
\* between deleting the object and deleting the reference.  Overlapping edits,
\* resubmissions and faults never lose the file of anybody else.
StoredFiles ==
  \A k \in refs \ objects :
    \E r \in Requests : k \in req[r].old /\ req[r].pc # "done"

\* A submission carries two decisions only when two reviews of it were both
\* between their look into the log and their insert: whatever else overlaps
\* with a review, the look is enough.
DecisionOnce ==
  \A a, b \in Requests :
    a # b /\ logs[a] # Null /\ logs[b] # Null /\ logs[a].sub = logs[b].sub
      => logs[a].sub \in raced

\* A request that read p before it was locked.
Stale(p) ==
  \E r \in Requests : /\ Active(r) /\ req[r].part = p
                       /\ req[r].mem # Null /\ ~Locked(req[r].mem.status)

Evidence(p) ==
  LET files == UNION {FilesOf(s) : s \in SubmissionsOf(p)} IN
  [rows    |-> {<<s, sub[s]>> : s \in SubmissionsOf(p)},
   files   |-> files,
   refs    |-> files \cap refs,
   objects |-> files \cap objects,
   logs    |-> {l \in Requests : logs[l] # Null /\ logs[l].sub \in SubmissionsOf(p)}]

\* Once a participation is verified or completed and no request that read it
\* before that is left, it stays so, and its submission, files and log are
\* never touched again, whatever is called: the lock checks are in every path.
SettledIsFinal ==
  [][\A p \in Participations :
       Locked(part[p].status) /\ ~Stale(p)
         => Locked(part'[p].status) /\ Evidence(p)' = Evidence(p)]_vars

\* A participation on which no request is at work keeps its row, its
\* submission, its files and its log, whatever the requests on others delete.
QuietUntouched ==
  [][\A p \in Participations :
       (\A r \in Requests : ~(Active(r) /\ req[r].part = p))
         => part'[p] = part[p] /\ Evidence(p)' = Evidence(p)]_vars

\* Calls that do not overlap leave one submission for a participation, even
\* when some of them die half way: create reuses the row it finds.
OneSubmission ==
  \A p \in Participations \ contended : Cardinality(SubmissionsOf(p)) <= 1

\* A verified participation on which no two requests overlapped says who
\* verified it: updateStatus wrote it, or the log of its submission has it.
VerifiedHasEvidence ==
  \A p \in Participations \ contended :
    part[p].status = "verified" =>
      \/ part[p].verifiedBy # Null
      \/ \E l \in Requests : /\ logs[l] # Null /\ logs[l].action = "verified"
                             /\ logs[l].sub \in SubmissionsOf(p)

\* A decision that was answered stands for as long as its log row does: an
\* approved participation stays verified or goes on to completed, a rejected
\* submission shows its reason, through every later call.
DecisionsLand ==
  \A r \in Requests :
    req[r].pc = "done" /\ logs[r] # Null /\ req[r].part \notin contended =>
      IF logs[r].action = "verified" THEN Locked(part[req[r].part].status)
                                     ELSE sub[logs[r].sub].reason

\* Between calls, and when none of them overlapped or died, a submission has
\* at least one file, and each of its files has its reference and its object.
IntactSubmission ==
  \A s \in Requests :
    /\ sub[s] # Null /\ sub[s].part \notin contended
    /\ \A r \in Requests : req[r].part = sub[s].part => req[r].pc = "done"
    => FilesOf(s) # {} /\ FilesOf(s) \subseteq refs \cap objects

\* The statuses of the participations follow the lifecycle; lost updates need
\* an overlap of two requests on the same participation.
StatusOf == [p \in Participations |-> part[p].status]
L == INSTANCE Lifecycle WITH status <- StatusOf
FollowsLifecycle == L!Spec

-----------------------------------------------------------------------------
(* What the documents, comments and messages say, and the code does not.   *)

\* A participation in the verification queue can be reviewed: its submission
\* carries no decision yet.
Reviewable ==
  \A p \in Participations \ contended :
    /\ part[p].status = "submitted"
    /\ \A r \in Requests : ~(Active(r) /\ req[r].part = p)
    => \A s \in SubmissionsOf(p) : ~Decided(s)

\* A submission is locked after verification: once a review has approved the
\* submission of a verified participation, no upload takes it back.
StaysLocked ==
  [][\A r \in Requests :
       LET p == req[r].part IN
       /\ req[r].op = "create" /\ Locked(part[p].status)
       /\ \E l \in Requests : /\ logs[l] # Null /\ logs[l].action = "verified"
                              /\ logs[l].sub \in SubmissionsOf(p)
       => Locked(part'[p].status)]_vars

=============================================================================
