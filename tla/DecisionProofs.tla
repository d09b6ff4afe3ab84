--------------------------- MODULE DecisionProofs ---------------------------
(***************************************************************************)
(* What a review decides, what the status of a participation does, and     *)
(* what requests that take turns leave of it: one decision for a           *)
(* submission unless two reviews raced to the log; the status graph, one   *)
(* submission and its evidence unless two requests overlapped.             *)
(***************************************************************************)
EXTENDS ReviewProofs, FiniteSetTheorems

-----------------------------------------------------------------------------
(* One decision.                                                           *)

\* While a submission that nobody raced for has a decision, no review of it
\* stands between its look into the log and its insert.
DecidedClosed ==
  \A s \in Requests \ raced :
    Decided(s) => \A q \in Requests : ~(req[q].pc = "SaveLog" /\ req[q].sub = s)

DecisionInv == DecisionOnce /\ DecidedClosed

LEMMA CallDecision ==
  ASSUME TypeInv, DecisionInv, NEW r \in Requests, Call(r)
  PROVE  DecisionInv'
<1>1. /\ req'[r].pc # "SaveLog" /\ \A q \in Requests \ {r} : req'[q] = req[q]
      /\ UNCHANGED <<logs, raced>>
  BY CallFrame DEF tables
<1>2. QED
  BY <1>1 DEF DecisionInv, DecisionOnce, DecidedClosed, Decided

LEMMA ProceedDecision ==
  ASSUME TypeInv, DecisionInv, NEW r \in Requests, Proceed(r)
  PROVE  DecisionInv'
<1>t. /\ req[r] \in Request /\ req \in [Requests -> Request]
      /\ logs \in [Requests -> LogRow \cup {Null}]
  BY LocalTypes DEF TypeInv, TypeOK
<1>1. CASE SaveLog(r)
  <2>1. /\ req[r].pc = "SaveLog" /\ req'[r].pc = "SaveStatus"
        /\ \A q \in Requests \ {r} : req'[q] = req[q]
        /\ logs' = [logs EXCEPT ![r] = [sub |-> req[r].sub, action |-> req[r].to]]
        /\ raced \subseteq raced'
        /\ \A q \in Requests \ {r} : req[q].pc = "SaveLog" /\ req[q].sub = req[r].sub
                                     => req[r].sub \in raced'
    BY <1>1, <1>t DEF SaveLog, Step, At, Request
  <2>2. req[r].sub \in Requests
    BY <2>1, LocalTypes DEF Locals, Busy
  <2>3. DecisionOnce'
    BY <2>1, <2>2, <1>t DEF DecisionInv, DecisionOnce, DecidedClosed, Decided
  <2>4. DecidedClosed'
    BY <2>1, <2>2, <1>t DEF DecisionInv, DecidedClosed, Decided
  <2>5. QED
    BY <2>3, <2>4 DEF DecisionInv
<1>2. CASE CheckLog(r)
  <2>1. /\ ~Decided(req[r].sub) /\ req'[r].sub = req[r].sub
        /\ \A q \in Requests \ {r} : req'[q] = req[q]
        /\ UNCHANGED <<logs, raced>>
    BY <1>2, <1>t DEF CheckLog, Step, At, Throws, DuplicateError, tables, Request
  <2>2. QED
    BY <2>1 DEF DecisionInv, DecisionOnce, DecidedClosed, Decided
<1>3. CASE ~SaveLog(r) /\ ~CheckLog(r)
  <2>1. /\ req'[r].pc # "SaveLog" /\ \A q \in Requests \ {r} : req'[q] = req[q]
        /\ raced' = raced /\ \A l \in Requests : logs'[l] \in {logs[l], Null}
    BY <1>3, ProceedFrame
  <2>2. QED
    BY <2>1 DEF DecisionInv, DecisionOnce, DecidedClosed, Decided
<1>4. QED
  BY <1>1, <1>2, <1>3

\* A submission is decided twice only when two reviews of it were both between
\* their look into the log and their insert: nothing else the handlers do, and
\* no fault, defeats the look that approve and reject take.
THEOREM DecisionOnceSafe == Spec => []DecisionOnce
<1>1. Init => DecisionInv
  BY DEF Init, DecisionInv, DecisionOnce, DecidedClosed, Decided
<1>2. TypeInv /\ DecisionInv /\ [Next]_vars => DecisionInv'
  <2> SUFFICES ASSUME TypeInv, DecisionInv, [Next]_vars PROVE DecisionInv'
    OBVIOUS
  <2>1. ASSUME NEW p \in Participations, ToggleOpportunity(p) PROVE DecisionInv'
    BY <2>1 DEF ToggleOpportunity, tables, DecisionInv, DecisionOnce, DecidedClosed,
                Decided
  <2>2. CASE UNCHANGED vars
    BY <2>2 DEF vars, DecisionInv, DecisionOnce, DecidedClosed, Decided
  <2>3. QED
    BY <2>1, <2>2, CallDecision, ProceedDecision DEF Next
<1>3. DecisionInv => DecisionOnce
  BY DEF DecisionInv
<1>4. QED
  BY <1>1, <1>2, <1>3, TypeInvariant, PTL DEF Spec

-----------------------------------------------------------------------------
(* The lifecycle.                                                          *)

\* On a participation where nothing overlapped there is one request at work,
\* and the row it read is the row as it stands, until it has written it.
Alone ==
  \A r, q \in Requests :
    Active(r) /\ Active(q) /\ req[r].part = req[q].part /\ req[r].part \notin contended
      => r = q

SnapshotCurrent ==
  \A r \in Requests :
    /\ Active(r) /\ req[r].part \notin contended
    /\ req[r].pc \notin {"CheckLocked", "ReadParticipation", "SaveReason"}
    => req[r].mem = part[req[r].part]

\* The status a request is about to write follows from the one it read.
FollowsEdge(me) ==
  /\ Busy(me) /\ me.op = "create" =>
       /\ me.to = "submitted"
       /\ me.pc # "CheckOpportunity" => ~Locked(me.mem.status)
  /\ me.op # "create" /\ me.pc \in {"CheckLog", "SaveLog"} =>
       me.mem.status = "submitted"
  /\ me.op # "create" /\ me.pc = "SaveStatus" => <<me.mem.status, me.to>> \in L!Edges

EdgeChosen == \A r \in Requests : FollowsEdge(req[r])

LifecycleInv == Alone /\ SnapshotCurrent /\ EdgeChosen

\* The edges the three writers of a status take are edges of the graph.
LEMMA WrittenEdges ==
  /\ \A from \in Statuses : ~Locked(from) => <<from, "submitted">> \in L!Edges
  /\ \A to \in {"verified", "rejected"} : <<"submitted", to>> \in L!Edges
  /\ \A from \in Statuses : \A to \in Transitions[from] : <<from, to>> \in L!Edges
<1>1. \A from \in Statuses : ~Locked(from) => <<from, "submitted">> \in L!Edges
  BY DEF L!Edges, Locked, Statuses
<1>2. \A to \in {"verified", "rejected"} : <<"submitted", to>> \in L!Edges
  BY DEF L!Edges
<1>3. \A from \in Statuses : \A to \in Transitions[from] : <<from, to>> \in L!Edges
  BY DEF L!Edges, Transitions, Statuses
<1>4. QED
  BY <1>1, <1>2, <1>3

LEMMA CallLifecycle ==
  ASSUME TypeInv, LifecycleInv, NEW r \in Requests, Call(r)
  PROVE  LifecycleInv' /\ [L!Next]_<<StatusOf, contended>>
<1>1. PICK call :
           /\ Begin(r, call) /\ req'[r] = call
           /\ \A q \in Requests \ {r} : req'[q] = req[q]
           /\ UNCHANGED <<tables, objects, accepting, raced>>
           /\ \/ /\ call.pc = "CheckOpportunity" /\ call.op = "create"
                 /\ call.to = "submitted" /\ call.mem = part[call.part]
              \/ /\ call.pc = "CheckLocked" /\ call.op \in {"update", "remove"}
                 /\ call.mem = Null
              \/ /\ call.pc = "ReadParticipation" /\ call.op \in {"approve", "reject"}
                 /\ call.mem = Null
              \/ /\ call.pc = "SaveStatus" /\ call.op = "transition"
                 /\ call.mem = part[call.part]
                 /\ call.to \in Transitions[call.mem.status]
  BY CallFrame
<1>2. /\ part' = part /\ contended \subseteq contended'
      /\ call.part \in Participations
      /\ contended' \in {contended, contended \cup {call.part}}
      /\ call.part \notin contended' =>
           \A q \in Requests : ~(Active(q) /\ req[q].part = call.part)
  <2>1. TypeInv'
    BY CallTypes
  <2>2. call.part \in Participations
    BY <1>1, <2>1 DEF TypeInv, Locals, Busy
  <2>3. QED
    BY <1>1, <2>2 DEF Begin, tables
<1>3. Alone'
  BY <1>1, <1>2 DEF LifecycleInv, Alone, Active
<1>4. SnapshotCurrent'
  BY <1>1, <1>2 DEF LifecycleInv, SnapshotCurrent, Active
<1>5. EdgeChosen'
  <2>1. call.op = "transition" => call.mem.status \in Statuses
    BY <1>1, <1>2 DEF TypeInv, TypeOK, ParticipationRow
  <2>2. call.op = "transition" => <<call.mem.status, call.to>> \in L!Edges
    BY <1>1, <2>1, WrittenEdges
  <2>3. QED
    BY <1>1, <2>2 DEF LifecycleInv, EdgeChosen, FollowsEdge, Busy
<1>6. StatusOf' = StatusOf
  BY <1>2 DEF StatusOf
<1>7. [L!Next]_<<StatusOf, contended>>
  BY <1>2, <1>6 DEF L!Next, L!Overlap
<1>8. QED
  BY <1>3, <1>4, <1>5, <1>7 DEF LifecycleInv

LEMMA ProceedLifecycle ==
  ASSUME TypeInv, LifecycleInv, NEW r \in Requests, Proceed(r)
  PROVE  LifecycleInv' /\ [L!Next]_<<StatusOf, contended>>
<1>t. /\ req[r] \in Request /\ req[r] \in Locals /\ req \in [Requests -> Request]
      /\ part \in [Participations -> ParticipationRow]
  BY LocalTypes DEF TypeInv, TypeOK
<1>p. req[r].part \in Participations
  BY <1>t, ProceedFrame DEF Locals, Busy, Active
<1>1. Alone'
  BY ProceedFrame DEF LifecycleInv, Alone, Active, Over
<1>2. SaveStatus(r) => /\ req[r].pc = "SaveStatus"
                       /\ part' = [part EXCEPT ![req[r].part] = Written(req[r])]
                       /\ Over(req'[r]) \/ req'[r].pc = "SaveReason"
                       /\ req[r].mem \in ParticipationRow /\ req[r].to \in Statuses
  BY <1>t DEF SaveStatus, Step, At, Ended, Blank, Over, Locals, Request
<1>3. SnapshotCurrent'
  <2>1. CASE SaveStatus(r)
    <3>1. ASSUME NEW q \in Requests \ {r}, Active(q), req[q].part \notin contended
          PROVE  req[q].part # req[r].part
      BY <3>1, ProceedFrame DEF LifecycleInv, Alone
    <3>2. ASSUME NEW q \in Requests, Active(q)', req'[q].part \notin contended',
                 req'[q].pc \notin {"CheckLocked", "ReadParticipation", "SaveReason"}
          PROVE  req'[q].mem = part'[req'[q].part]
      <4>1. q # r
        BY <2>1, <1>2, <3>2 DEF Active, Over
      <4>2. req'[q] = req[q] /\ contended' = contended
        BY <4>1, ProceedFrame
      <4>3. Active(q) /\ req[q].part # req[r].part /\ req[q].mem = part[req[q].part]
        BY <4>1, <4>2, <3>1, <3>2 DEF LifecycleInv, SnapshotCurrent, Active
      <4>4. req[q].part \in Participations
        BY <4>3, LocalTypes DEF Locals, Busy, Active
      <4>5. QED
        BY <2>1, <1>2, <1>t, <4>2, <4>3, <4>4
    <3>3. QED
      BY <3>2 DEF SnapshotCurrent
  <2>2. CASE CheckLocked(r) \/ ReadParticipation(r)
    <3>1. req'[r].mem = part[req[r].part] /\ part' = part
      BY <2>2, <1>t DEF CheckLocked, ReadParticipation, Step, Request, tables
    <3>2. QED
      BY <3>1, <2>2, ProceedFrame DEF LifecycleInv, SnapshotCurrent, Active, Over
  <2>3. CASE ~SaveStatus(r) /\ ~CheckLocked(r) /\ ~ReadParticipation(r)
    <3>1. /\ part' = part
          /\ Over(req'[r]) \/ req'[r].mem = req[r].mem
      BY <2>3, ProceedFrame
    <3>2. QED
      BY <3>1, <2>3, ProceedFrame DEF LifecycleInv, SnapshotCurrent, Active, Over
  <2>4. QED
    BY <2>1, <2>2, <2>3
<1>4. EdgeChosen'
  <2>e. FollowsEdge(req[r])
    BY DEF LifecycleInv, EdgeChosen
  <2>f. /\ Busy(req[r]) /\ \A q \in Requests \ {r} : req'[q] = req[q]
        /\ Over(req'[r]) \/ (req'[r].op = req[r].op /\ req'[r].to = req[r].to)
    BY ProceedFrame DEF Active, Busy
  <2>1. Over(req'[r]) => FollowsEdge(req'[r])
    BY DEF FollowsEdge, Over, Busy
  <2>2. ASSUME ReadParticipation(r) PROVE FollowsEdge(req'[r])
    <3>1. /\ req'[r].pc = "CheckLog" /\ req'[r].mem = part[req[r].part]
          /\ part[req[r].part].status = "submitted"
          /\ req'[r].op = req[r].op /\ req[r].op \in {"approve", "reject"}
      BY <2>2, <1>t
      DEF ReadParticipation, Step, Throws, ReviewError, Request, Locals
    <3>2. QED
      BY <3>1, <2>e, <2>f DEF FollowsEdge, Busy, Over
  <2>3. ASSUME CheckLocked(r) PROVE FollowsEdge(req'[r])
    <3>1. /\ req'[r].mem = part[req[r].part] /\ ~Locked(part[req[r].part].status)
          /\ req'[r].pc \in {"TouchSubmission", "ListFiles"}
      BY <2>3, <1>t DEF CheckLocked, Step, Throws, LockError, Request
    <3>2. QED
      BY <3>1, <2>e, <2>f DEF FollowsEdge, Busy, Over
  <2>4. ASSUME CheckOpportunity(r) PROVE FollowsEdge(req'[r])
    <3>1. /\ req'[r].mem = req[r].mem /\ ~Locked(req[r].mem.status)
          /\ req'[r].pc = "Upload"
      BY <2>4, <1>t DEF CheckOpportunity, Step, At, Throws, LockError, Request
    <3>2. QED
      BY <3>1, <2>e, <2>f DEF FollowsEdge, Busy, Over
  <2>5. ASSUME SaveLog(r) PROVE FollowsEdge(req'[r])
    <3>1. /\ req[r].pc = "SaveLog" /\ req'[r] = [req[r] EXCEPT !.pc = "SaveStatus"]
          /\ req[r].to \in {"verified", "rejected"} /\ req[r].op \in {"approve", "reject"}
      BY <2>5, <1>t DEF SaveLog, Step, At, Locals
    <3>2. <<req[r].mem.status, req[r].to>> \in L!Edges
      BY <3>1, <2>e, WrittenEdges DEF FollowsEdge
    <3>3. req'[r].mem = req[r].mem /\ req'[r].to = req[r].to /\ req'[r].op = req[r].op
          /\ req'[r].pc = "SaveStatus"
      BY <3>1, <1>t DEF Request
    <3>4. QED
      BY <3>1, <3>2, <3>3, <2>e, <2>f DEF FollowsEdge, Busy, Over
  <2>6. ASSUME SaveLinks(r) PROVE FollowsEdge(req'[r])
    <3>1. /\ req'[r].mem = req[r].mem /\ req[r].pc = "SaveLinks"
          /\ req'[r].op = req[r].op /\ req'[r].to = req[r].to
          /\ \/ req'[r].pc = "SaveStatus" /\ req[r].op = "create"
             \/ req'[r].pc = "TouchSubmission" /\ req[r].op # "create"
      BY <2>6, <1>t DEF SaveLinks, Step, At, Request
    <3>2. QED
      BY <3>1, <2>e, <2>f DEF FollowsEdge, Busy, Over
  <2>7. ASSUME CheckLog(r) PROVE FollowsEdge(req'[r])
    <3>1. /\ req[r].pc = "CheckLog" /\ req'[r].pc = "SaveLog"
          /\ req'[r].mem = req[r].mem /\ req'[r].op = req[r].op
          /\ req[r].op # "create"
      BY <2>7, <1>t DEF CheckLog, Step, At, Request, Locals
    <3>2. QED
      BY <3>1, <2>e, <2>f DEF FollowsEdge, Busy, Over
  <2>8. ASSUME /\ ~ReadParticipation(r) /\ ~CheckLocked(r) /\ ~CheckOpportunity(r)
               /\ ~SaveLog(r) /\ ~SaveLinks(r) /\ ~CheckLog(r) /\ ~Over(req'[r])
        PROVE  FollowsEdge(req'[r])
    <3>1. /\ req'[r].op = req[r].op /\ req'[r].to = req[r].to
          /\ req'[r].mem = req[r].mem /\ Active(r)
          /\ req[r].pc # "CheckOpportunity"
          /\ req'[r].pc \notin {"CheckLog", "SaveLog", "SaveStatus"}
          /\ \A q \in Requests \ {r} : req'[q] = req[q]
      BY <2>8, ProceedFrame
    <3>2. QED
      BY <3>1, <2>e, <2>f DEF FollowsEdge, Busy, Over
  <2>9. FollowsEdge(req'[r])
    BY <2>1, <2>2, <2>3, <2>4, <2>5, <2>6, <2>7, <2>8
  <2>10. QED
    BY <2>9, <2>f DEF LifecycleInv, EdgeChosen
<1>5. [L!Next]_<<StatusOf, contended>>
  <2>1. CASE SaveStatus(r)
    <3>1. Written(req[r]).status = req[r].to
      BY <2>1, <1>2 DEF Written, ParticipationRow
    <3>2. StatusOf' = [StatusOf EXCEPT ![req[r].part] = req[r].to]
      BY <2>1, <1>2, <1>p, <1>t, <3>1 DEF StatusOf
    <3>3. CASE req[r].part \in contended
      BY <3>2, <3>3, <2>1, <1>2, <1>p, ProceedFrame
      DEF L!Next, L!Overwrite, Statuses, L!Statuses
    <3>4. CASE req[r].part \notin contended
      <4>1. req[r].mem = part[req[r].part] /\ Active(r)
        BY <3>4, <2>1, <1>2, ProceedFrame DEF LifecycleInv, SnapshotCurrent
      <4>2. <<req[r].mem.status, req[r].to>> \in L!Edges
        BY <4>1, <2>1, <1>2, WrittenEdges
        DEF LifecycleInv, EdgeChosen, FollowsEdge, Busy, ParticipationRow
      <4>3. StatusOf[req[r].part] = req[r].mem.status
        BY <4>1, <1>p DEF StatusOf
      <4>4. L!Move(req[r].part, req[r].to)
        BY <3>2, <4>2, <4>3, ProceedFrame DEF L!Move
      <4>5. QED
        BY <4>4, <2>1, <1>2, <1>p DEF L!Next, Statuses, L!Statuses
    <3>5. QED
      BY <3>3, <3>4
  <2>2. CASE ~SaveStatus(r)
    BY <2>2, ProceedFrame DEF StatusOf
  <2>3. QED
    BY <2>1, <2>2
<1>6. QED
  BY <1>1, <1>3, <1>4, <1>5 DEF LifecycleInv

LEMMA LifecycleInvariant == Spec => []LifecycleInv
<1>1. Init => LifecycleInv
  BY DEF Init, Blank, Active, LifecycleInv, Alone, SnapshotCurrent, EdgeChosen,
         FollowsEdge, Busy
<1>2. TypeInv /\ LifecycleInv /\ [Next]_vars => LifecycleInv'
  <2> SUFFICES ASSUME TypeInv, LifecycleInv, [Next]_vars PROVE LifecycleInv'
    OBVIOUS
  <2>1. ASSUME UNCHANGED <<part, contended, req>> PROVE LifecycleInv'
    BY <2>1 DEF LifecycleInv, Alone, SnapshotCurrent, EdgeChosen, Active
  <2>2. QED
    BY <2>1, CallLifecycle, ProceedLifecycle DEF Next, ToggleOpportunity, tables, vars
<1>3. QED
  BY <1>1, <1>2, TypeInvariant, PTL DEF Spec

\* Review implements Lifecycle: the status of a participation moves along the
\* graph, through any interleaving, failure and death of its requests, until
\* two of them are at work on it at once.
THEOREM LifecycleImplemented == Spec => FollowsLifecycle
<1>1. Init => L!Init
  BY DEF Init, StatusOf, L!Init
<1>2. TypeInv /\ LifecycleInv /\ [Next]_vars => [L!Next]_<<StatusOf, contended>>
  <2> SUFFICES ASSUME TypeInv, LifecycleInv, [Next]_vars
               PROVE  [L!Next]_<<StatusOf, contended>>
    OBVIOUS
  <2>1. ASSUME UNCHANGED <<part, contended>> PROVE UNCHANGED <<StatusOf, contended>>
    BY <2>1 DEF StatusOf
  <2>2. QED
    BY <2>1, CallLifecycle, ProceedLifecycle DEF Next, ToggleOpportunity, tables, vars
<1>3. QED
  BY <1>1, <1>2, TypeInvariant, LifecycleInvariant, PTL DEF Spec, FollowsLifecycle, L!Spec

-----------------------------------------------------------------------------
(* The order of a handler's calls.                                         *)

\* Where a step leads when it does not end the request.
Flow(me, next) ==
  /\ me.pc = "CheckOpportunity" => next = "Upload"
  /\ me.pc = "Upload" => next \in {"Upload", "SaveRefs"}
  /\ me.pc = "SaveRefs" => next = (IF me.op = "create" THEN "FindExisting" ELSE "SaveLinks")
  /\ me.pc = "FindExisting" => next \in {"DeletePriorLinks", "SaveSubmission"}
  /\ me.pc = "DeletePriorLinks" => next = "SaveSubmission"
  /\ me.pc = "SaveSubmission" => next = "SaveLinks"
  /\ me.pc = "SaveLinks" =>
       next = (IF me.op = "create" THEN "SaveStatus" ELSE "TouchSubmission")
  /\ me.pc = "SaveStatus" => me.op = "reject" /\ next = "SaveReason"
  /\ me.pc = "CheckLocked" =>
       next = (IF me.op = "update" /\ me.want = {} THEN "TouchSubmission" ELSE "ListFiles")
  /\ me.pc = "ListFiles" => next \in {"DeleteObject", "DeleteLinks"}
  /\ me.pc = "DeleteObject" => next \in {"DeleteObject", "DeleteLinks"}
  /\ me.pc = "DeleteLinks" => next = "DeleteRefs"
  /\ me.pc = "DeleteRefs" => next = (IF me.op = "update" THEN "Upload" ELSE "RemoveRow")
  /\ me.pc = "ReadParticipation" => next = "CheckLog"
  /\ me.pc = "CheckLog" => next = "SaveLog"
  /\ me.pc = "SaveLog" => next = "SaveStatus"
  /\ me.pc \notin {"RemoveRow", "TouchSubmission", "SaveReason"}

LEMMA ProceedFlow ==
  ASSUME TypeInv, NEW r \in Requests, Proceed(r), ~Over(req'[r])
  PROVE  Flow(req[r], req'[r].pc)
<1>t. req[r] \in Request /\ req \in [Requests -> Request]
  BY LocalTypes DEF TypeInv, TypeOK
<1>e. Ended(r, "done").pc = "done" /\ Ended(r, "failed").pc = "failed"
  BY DEF Ended, Blank
<1> USE <1>t, <1>e DEF Request, Step, At, Over, Flow
<1>1. CASE CheckOpportunity(r)
  BY <1>1 DEF CheckOpportunity
<1>2. CASE SaveRefs(r)
  BY <1>2 DEF SaveRefs
<1>3. CASE FindExisting(r)
  <2>1. req[r].pc = "FindExisting" /\ req'[r].pc \in {"DeletePriorLinks", "SaveSubmission"}
    BY <1>3, FoundExisting, StepPoints
  <2>2. QED
    BY <2>1
<1>4. CASE DeletePriorLinks(r)
  BY <1>4 DEF DeletePriorLinks
<1>5. CASE SaveSubmission(r)
  BY <1>5 DEF SaveSubmission
<1>6. CASE SaveLinks(r)
  BY <1>6 DEF SaveLinks
<1>7. CASE SaveStatus(r)
  BY <1>7 DEF SaveStatus
<1>8. CASE CheckLocked(r)
  BY <1>8 DEF CheckLocked
<1>9. CASE ListFiles(r)
  BY <1>9 DEF ListFiles
<1>10. CASE DeleteLinks(r)
  BY <1>10 DEF DeleteLinks
<1>11. CASE DeleteRefs(r)
  BY <1>11 DEF DeleteRefs
<1>12. CASE RemoveRow(r)
  BY <1>12 DEF RemoveRow
<1>13. CASE TouchSubmission(r)
  BY <1>13 DEF TouchSubmission
<1>14. CASE ReadParticipation(r)
  BY <1>14 DEF ReadParticipation
<1>15. CASE CheckLog(r)
  BY <1>15 DEF CheckLog
<1>16. CASE SaveLog(r)
  BY <1>16 DEF SaveLog
<1>17. CASE SaveReason(r)
  BY <1>17 DEF SaveReason
<1>18. CASE Fail(r)
  BY <1>18 DEF Fail
<1>19. ASSUME NEW k \in Keys, UploadObject(r, k) PROVE Flow(req[r], req'[r].pc)
  BY <1>19 DEF UploadObject
<1>20. ASSUME NEW k \in Keys, DeleteObject(r, k) PROVE Flow(req[r], req'[r].pc)
  BY <1>20 DEF DeleteObject
<1>21. QED
  BY <1>1, <1>2, <1>3, <1>4, <1>5, <1>6, <1>7, <1>8, <1>9, <1>10, <1>11, <1>12, <1>13,
     <1>14, <1>15, <1>16, <1>17, <1>18, <1>19, <1>20 DEF Proceed

\* The control points of each handler.
HandlerPoints ==
  [none       |-> {"idle", "done", "failed"},
   create     |-> {"CheckOpportunity", "Upload", "SaveRefs", "FindExisting",
                   "DeletePriorLinks", "SaveSubmission", "SaveLinks", "SaveStatus"},
   update     |-> {"CheckLocked", "ListFiles", "DeleteObject", "DeleteLinks", "DeleteRefs",
                   "Upload", "SaveRefs", "SaveLinks", "TouchSubmission"},
   remove     |-> {"CheckLocked", "ListFiles", "DeleteObject", "DeleteLinks", "DeleteRefs",
                   "RemoveRow"},
   approve    |-> {"ReadParticipation", "CheckLog", "SaveLog", "SaveStatus"},
   reject     |-> {"ReadParticipation", "CheckLog", "SaveLog", "SaveStatus", "SaveReason"},
   transition |-> {"SaveStatus"}]

\* What a handler knows by its name, and the files an upload brings.
Shaped(me) ==
  /\ me.op \in Handlers /\ me.pc \in HandlerPoints[me.op]
  /\ me.op = "approve" => me.to = "verified"
  /\ me.op = "reject" => me.to = "rejected"
  /\ me.op = "transition" => me.by \in Users
  /\ me.op = "create" => me.want # {}
  /\ me.op = "update" /\ me.pc \notin {"CheckLocked", "TouchSubmission"} => me.want # {}

ShapeInv == \A r \in Requests : Shaped(req[r])

LEMMA CallShape ==
  ASSUME TypeInv, ShapeInv, NEW r \in Requests, Call(r)
  PROVE  ShapeInv'
<1>1. Shaped(req'[r])
  BY CallFrame, CallLocals DEF Shaped, HandlerPoints, Handlers
<1>2. QED
  BY <1>1, CallFrame DEF ShapeInv

LEMMA ProceedShape ==
  ASSUME TypeInv, ShapeInv, NEW r \in Requests, Proceed(r)
  PROVE  ShapeInv'
<1>s. Shaped(req[r])
  BY DEF ShapeInv
<1>1. CASE Over(req'[r])
  <2>1. Shaped(req'[r])
    BY <1>1, ProceedLocals DEF Shaped, HandlerPoints, Over, Handlers
  <2>2. QED
    BY <2>1, ProceedFrame DEF ShapeInv
<1>2. CASE ~Over(req'[r])
  <2>1. /\ req'[r].op = req[r].op /\ req'[r].to = req[r].to /\ req'[r].want = req[r].want
        /\ Flow(req[r], req'[r].pc) /\ Busy(req[r])
    BY <1>2, ProceedFrame, ProceedLocals, ProceedFlow DEF Active, Busy
  <2>2. req[r].op # "transition"
    BY <2>1, <1>s DEF Flow, Shaped, HandlerPoints
  <2>3. req'[r].pc \in HandlerPoints[req[r].op]
    BY <2>1, <2>2, <1>s DEF Flow, Shaped, HandlerPoints, Handlers, Busy
  <2>4. req[r].op = "update" /\ req'[r].pc \notin {"CheckLocked", "TouchSubmission"}
          => req[r].want # {}
    BY <2>1, <1>s DEF Flow, Shaped, HandlerPoints, Handlers, Busy
  <2>5. Shaped(req'[r])
    BY <2>1, <2>2, <2>3, <2>4, <1>s DEF Shaped
  <2>6. QED
    BY <2>5, ProceedFrame DEF ShapeInv
<1>3. QED
  BY <1>1, <1>2

\* A link has its submission and its file reference, a log row its submission:
\* the foreign keys.  A log row is its request's decision.
LinksNamed == \A l \in links : sub[l[1]] # Null /\ l[2] \in refs

LogsNamed ==
  \A l \in Requests : logs[l] # Null =>
    /\ sub[logs[l].sub] # Null
    /\ \/ Over(req[l])
       \/ /\ req[l].op \in {"approve", "reject"}
          /\ req[l].pc \in {"SaveStatus", "SaveReason"}
          /\ logs[l] = [sub |-> req[l].sub, action |-> req[l].to]

NamedInv == LinksNamed /\ LogsNamed

LEMMA ProceedNamed ==
  ASSUME TypeInv, HomeInv, ShapeInv, NamedInv, NEW r \in Requests, Proceed(r)
  PROVE  NamedInv'
<1>t. /\ links \subseteq Requests \X Keys /\ links' \subseteq Requests \X Keys
      /\ req \in [Requests -> Request] /\ req[r] \in Request
      /\ logs \in [Requests -> LogRow \cup {Null}]
      /\ logs' \in [Requests -> LogRow \cup {Null}]
  BY ProceedTypes DEF TypeInv, TypeOK
<1>r. \A s \in Requests :
        sub'[s] = Null => sub[s] = Null \/ (RemoveRow(r) /\ s = req[r].sub)
  BY RowWritten
<1>1. LinksNamed'
  <2> SUFFICES ASSUME NEW l \in links' PROVE sub'[l[1]] # Null /\ l[2] \in refs'
    BY DEF LinksNamed
  <2>1. l[1] \in Requests
    BY <1>t
  <2>2. CASE SaveLinks(r) /\ l \notin links
    <3>1. l[1] = req[r].sub /\ l[2] \in req[r].want
      BY <2>2, ProceedWrites DEF LinksWritten
    <3>2. sub[req[r].sub] # Null /\ req[r].want \subseteq refs
      BY <2>2 DEF SaveLinks, Step, Throws, ConstraintError
    <3>3. ~RemoveRow(r) /\ refs' = refs
      BY <2>2, StepPoints DEF SaveLinks
    <3>4. QED
      BY <3>1, <3>2, <3>3, <2>1, <1>r
  <2>3. CASE l \in links
    <3>1. sub[l[1]] # Null /\ l[2] \in refs
      BY <2>3 DEF NamedInv, LinksNamed
    <3>2. RemoveRow(r) => l[1] # req[r].sub
      BY DEF RemoveRow, LinksWithout
    <3>3. DeleteRefs(r) => l[2] \notin req[r].old /\ refs' = refs \ req[r].old
      BY DEF DeleteRefs, RefsWithout
    <3>4. QED
      BY <3>1, <3>2, <3>3, <2>1, <1>r, ProceedWrites DEF FilesWritten
  <2>4. QED
    BY <2>2, <2>3, ProceedWrites DEF LinksWritten
<1>2. LogsNamed'
  <2> SUFFICES ASSUME NEW l \in Requests, logs'[l] # Null
               PROVE  /\ sub'[logs'[l].sub] # Null
                      /\ \/ Over(req'[l])
                         \/ /\ req'[l].op \in {"approve", "reject"}
                            /\ req'[l].pc \in {"SaveStatus", "SaveReason"}
                            /\ logs'[l] = [sub |-> req'[l].sub, action |-> req'[l].to]
    BY DEF LogsNamed
  <2>1. logs'[l].sub \in Requests
    BY <1>t DEF LogRow
  <2>2. CASE SaveLog(r) /\ l = r
    <3>1. /\ req[r].pc = "SaveLog" /\ req'[r] = [req[r] EXCEPT !.pc = "SaveStatus"]
          /\ logs'[r] = [sub |-> req[r].sub, action |-> req[r].to]
          /\ sub' = sub /\ sub[req[r].sub] # Null
      BY <2>2, <1>t DEF SaveLog, Step, At, Throws, ConstraintError
    <3>2. /\ req'[r].pc = "SaveStatus" /\ req'[r].op = req[r].op
          /\ req'[r].sub = req[r].sub /\ req'[r].to = req[r].to
      BY <3>1, <1>t DEF Request
    <3>3. req[r].op \in {"approve", "reject"}
      BY <3>1, LocalTypes DEF Locals
    <3>4. QED
      BY <2>2, <3>1, <3>2, <3>3
  <2>3. CASE ~(SaveLog(r) /\ l = r)
    <3>1. logs'[l] = logs[l] /\ (RemoveRow(r) => logs[l].sub # req[r].sub)
      <4>1. CASE RemoveRow(r)
        BY <4>1 DEF RemoveRow
      <4>2. CASE ~RemoveRow(r)
        BY <4>2, <2>3, <1>t, ProceedWrites DEF LogsWritten
      <4>3. QED
        BY <4>1, <4>2
    <3>2. sub'[logs'[l].sub] # Null
      BY <3>1, <2>1, <1>r DEF NamedInv, LogsNamed
    <3>3. CASE l # r
      BY <3>1, <3>2, <3>3, ProceedFrame DEF NamedInv, LogsNamed
    <3>4. CASE l = r /\ ~Over(req'[r])
      <4>1. ~Over(req[r]) /\ Flow(req[r], req'[r].pc)
        BY <3>4, ProceedFrame, ProceedFlow DEF Active, Over
      <4>2. /\ req[r].op \in {"approve", "reject"}
            /\ req[r].pc \in {"SaveStatus", "SaveReason"}
            /\ logs[r] = [sub |-> req[r].sub, action |-> req[r].to]
        BY <3>1, <3>4, <4>1 DEF NamedInv, LogsNamed
      <4>3. ~FindExisting(r)
        BY <4>2, StepPoints
      <4>4. req'[r].pc = "SaveReason"
        BY <4>1, <4>2 DEF Flow
      <4>5. /\ req'[r].op = req[r].op /\ req'[r].sub = req[r].sub
            /\ req'[r].to = req[r].to
        BY <3>4, <4>3, ProceedFrame, ProceedLocals
      <4>6. QED
        BY <3>1, <3>2, <3>4, <4>2, <4>4, <4>5
    <3>5. QED
      BY <3>2, <3>3, <3>4
  <2>4. QED
    BY <2>2, <2>3
<1>3. QED
  BY <1>1, <1>2 DEF NamedInv

LEMMA FlowInvariant == Spec => [](ShapeInv /\ NamedInv)
<1>1. Init => ShapeInv /\ NamedInv
  BY DEF Init, Blank, ShapeInv, Shaped, HandlerPoints, Handlers, NamedInv, LinksNamed,
         LogsNamed
<1>2. TypeInv /\ HomeInv /\ ShapeInv /\ NamedInv /\ [Next]_vars => ShapeInv' /\ NamedInv'
  <2> SUFFICES ASSUME TypeInv, HomeInv, ShapeInv, NamedInv, [Next]_vars
               PROVE  ShapeInv' /\ NamedInv'
    OBVIOUS
  <2>1. ASSUME UNCHANGED <<sub, refs, links, logs, req>> PROVE ShapeInv' /\ NamedInv'
    BY <2>1 DEF ShapeInv, NamedInv, LinksNamed, LogsNamed
  <2>2. ASSUME NEW r \in Requests, Call(r) PROVE NamedInv'
    <3>1. /\ UNCHANGED tables /\ req[r].pc = "idle"
          /\ \A q \in Requests \ {r} : req'[q] = req[q]
      BY <2>2, CallFrame, CallLocals
    <3>2. logs[r] = Null
      BY <3>1 DEF NamedInv, LogsNamed, Over
    <3>3. QED
      BY <3>1, <3>2 DEF NamedInv, LinksNamed, LogsNamed, tables
  <2>3. QED
    BY <2>1, <2>2, CallShape, ProceedShape, ProceedNamed
    DEF Next, ToggleOpportunity, tables, vars
<1>3. QED
  BY <1>1, <1>2, TypeInvariant, HomeInvariant, PTL DEF Spec

-----------------------------------------------------------------------------
(* One request after the other.  What holds of a participation p for as    *)
(* long as no two requests have been at work on it at once, through every  *)
(* failure and death of the one that is.                                   *)

\* There is one submission, and the request at work on it has it as it stands
\* or is about to insert it.
OneRow(p) == \A a, b \in SubmissionsOf(p) : a = b

RowHeld(p) ==
  \A r \in Requests : Active(r) /\ req[r].part = p /\ req[r].sub # Null =>
    /\ SubmissionsOf(p) \subseteq {req[r].sub}
    /\ \/ sub[req[r].sub] = req[r].smem
       \/ req[r].pc = "SaveSubmission" /\ sub[req[r].sub] = Null

\* A review that writes the status has its decision in the log.
LogHeld(p) ==
  \A r \in Requests :
    /\ req[r].part = p /\ req[r].op \in {"approve", "reject"}
    /\ req[r].pc \in {"SaveStatus", "SaveReason"}
    => /\ logs[r] = [sub |-> req[r].sub, action |-> req[r].to]
       /\ req[r].pc = "SaveReason" => part[p].status = "rejected"

\* VerifiedHasEvidence and DecisionsLand, of p.
Evidenced(p) ==
  part[p].status = "verified" =>
    \/ part[p].verifiedBy # Null
    \/ \E l \in Requests : /\ logs[l] # Null /\ logs[l].action = "verified"
                           /\ logs[l].sub \in SubmissionsOf(p)

Landed(p) ==
  \A r \in Requests :
    req[r].pc = "done" /\ logs[r] # Null /\ req[r].part = p =>
      IF logs[r].action = "verified" THEN Locked(part[p].status)
                                     ELSE sub[logs[r].sub].reason

\* While no request died, a submission without files is being refilled or
\* removed.
Refilling(me) ==
  \/ me.op = "create" /\ me.pc \in {"SaveSubmission", "SaveLinks"}
  \/ me.op = "update" /\ me.pc \in {"DeleteRefs", "Upload", "SaveRefs", "SaveLinks"}
  \/ me.op = "remove" /\ me.pc \in {"DeleteRefs", "RemoveRow"}

Filled(p) ==
  (\A r \in Requests : req[r].part = p => req[r].pc # "failed") =>
    \A s \in SubmissionsOf(p) :
      FilesOf(s) # {} \/ \E r \in Requests : req[r].part = p /\ Refilling(req[r])

SerialAt(p) ==
  OneRow(p) /\ RowHeld(p) /\ LogHeld(p) /\ Evidenced(p) /\ Landed(p) /\ Filled(p)

SerialInv == \A p \in Participations \ contended : SerialAt(p)

\* None of it depends on anything but what belongs to p and the requests on p.
LEMMA SerialFrame ==
  ASSUME TypeInv, HomeInv, HomeInv', TypeInv', NEW p \in Participations, SerialAt(p),
         part'[p] = part[p], Kept(p),
         \A q \in Requests : req'[q].part = p <=> req[q].part = p,
         \A q \in Requests : req[q].part = p => req'[q] = req[q]
  PROVE  SerialAt(p)'
<1>1. SubmissionsOf(p)' = SubmissionsOf(p)
  BY DEF SubmissionsOf, HomeInv, RowsAtHome, Kept
<1>2. \A s \in SubmissionsOf(p) : req[s].part = p /\ s \in Requests
  BY DEF SubmissionsOf, HomeInv, RowsAtHome
<1>3. \A s \in SubmissionsOf(p) : FilesOf(s)' = FilesOf(s)
  BY <1>2 DEF Kept, FilesOf
<1>l. \A l \in Requests : logs[l] # Null =>
        /\ logs[l].sub \in Requests /\ req[logs[l].sub].part = req[l].part
  BY DEF HomeInv, LogsAtHome, Kin, TypeInv, TypeOK, LogRow
<1>4. OneRow(p)'
  BY <1>1 DEF SerialAt, OneRow
<1>5. RowHeld(p)'
  <2>1. \A r \in Requests : req[r].sub # Null =>
          req[r].sub \in Requests /\ req[req[r].sub].part = req[r].part
    BY DEF HomeInv, RequestsAtHome, HeldAtHome, Kin, TypeInv, TypeOK, Request
  <2>2. QED
    BY <1>1, <2>1 DEF SerialAt, RowHeld, Kept, Active
<1>6. LogHeld(p)'
  BY DEF SerialAt, LogHeld, Kept
<1>7. Evidenced(p)'
  BY <1>1, <1>2, <1>l DEF SerialAt, Evidenced, Kept
<1>8. Landed(p)'
  BY <1>l DEF SerialAt, Landed, Kept
<1>9. Filled(p)'
  BY <1>1, <1>3 DEF SerialAt, Filled
<1>10. QED
  BY <1>4, <1>5, <1>6, <1>7, <1>8, <1>9 DEF SerialAt

\* The point of a request that is refilling is one of a request at work.
LEMMA RefillingActive ==
  \A r \in Requests : Refilling(req[r]) => Active(r)
BY DEF Refilling, Active

\* The first request on a quiet participation finds everything settled.
LEMMA CallSerial ==
  ASSUME TypeInv, HomeInv, SerialInv, NEW r \in Requests, Call(r)
  PROVE  SerialInv'
<1> SUFFICES ASSUME NEW p \in Participations, p \notin contended' PROVE SerialAt(p)'
  BY DEF SerialInv
<1>1. /\ UNCHANGED <<tables, objects>> /\ req[r].pc = "idle" /\ ~Over(req'[r])
      /\ \A q \in Requests \ {r} : req'[q] = req[q]
      /\ req'[r].part \in Participations
  BY CallFrame, CallLocals
<1>2. /\ p \notin contended
      /\ req'[r].part = p => \A q \in Requests : ~(Active(q) /\ req[q].part = p)
  <2>1. PICK call : Begin(r, call) /\ req'[r] = call
    BY CallFrame
  <2>2. QED
    BY <2>1 DEF Begin
<1>3. SerialAt(p)
  BY <1>2 DEF SerialInv
<1>4. CASE req'[r].part # p
  <2>1. req[r].part # p
    BY <1>1, NullAssumption DEF HomeInv, RequestsAtHome, HeldAtHome
  <2>2. Kept(p) /\ part'[p] = part[p]
    BY <1>1 DEF Kept, tables
  <2>3. /\ \A q \in Requests : req'[q].part = p <=> req[q].part = p
        /\ \A q \in Requests : req[q].part = p => req'[q] = req[q]
    BY <1>1, <1>4, <2>1
  <2>4. QED
    BY <1>3, <2>2, <2>3, SerialFrame, CallHome, CallTypes
<1>5. CASE req'[r].part = p
  <2>1. SubmissionsOf(p)' = SubmissionsOf(p) /\ \A s : FilesOf(s)' = FilesOf(s)
    BY <1>1 DEF SubmissionsOf, FilesOf, tables
  <2>2. OneRow(p)'
    BY <1>3, <2>1 DEF SerialAt, OneRow
  <2>3. RowHeld(p)'
    <3> SUFFICES ASSUME NEW q \in Requests, Active(q)', req'[q].part = p, req'[q].sub # Null
                 PROVE  /\ SubmissionsOf(p) \subseteq {req'[q].sub}
                        /\ sub[req'[q].sub] = req'[q].smem
      BY <1>1, <2>1 DEF RowHeld, tables
    <3>1. q = r
      BY <1>1, <1>2, <1>5 DEF Active
    <3>2. req'[r].sub \in SubmissionsOf(p) /\ sub[req'[r].sub] = req'[r].smem
      BY <3>1, <1>5, CallLocals DEF SubmissionsOf
    <3>3. QED
      BY <3>1, <3>2, <1>3 DEF SerialAt, OneRow
  <2>4. LogHeld(p)'
    BY <1>1, <1>3, CallFrame DEF SerialAt, LogHeld, tables
  <2>5. Evidenced(p)'
    BY <1>1, <1>3, <2>1 DEF SerialAt, Evidenced, tables
  <2>6. Landed(p)'
    BY <1>1, <1>3 DEF SerialAt, Landed, tables, Over
  <2>7. Filled(p)'
    <3> SUFFICES ASSUME \A q \in Requests : req'[q].part = p => req'[q].pc # "failed",
                        NEW s \in SubmissionsOf(p)
                 PROVE  FilesOf(s) # {}
      BY <2>1 DEF Filled
    <3>1. \A q \in Requests : req[q].part = p => req[q].pc # "failed"
      BY <1>1
    <3>2. \A q \in Requests : ~(req[q].part = p /\ Refilling(req[q]))
      BY <1>2, <1>5, RefillingActive
    <3>3. QED
      BY <1>3, <3>1, <3>2 DEF SerialAt, Filled
  <2>8. QED
    BY <2>2, <2>3, <2>4, <2>5, <2>6, <2>7 DEF SerialAt
<1>6. QED
  BY <1>4, <1>5

\* What one step of the only request on p does to the submission of p.
LEMMA ProceedRow ==
  ASSUME TypeInv, HomeInv, ShapeInv, NEW r \in Requests, Proceed(r),
         NEW p \in Participations, req[r].part = p, OneRow(p), RowHeld(p)
  PROVE  /\ req[r].sub = Null => UNCHANGED sub
         /\ req[r].sub # Null =>
              /\ SubmissionsOf(p) \subseteq {req[r].sub}
              /\ SubmissionsOf(p)' \subseteq {req[r].sub}
         /\ SubmissionsOf(p)' = SubmissionsOf(p) \/ SaveSubmission(r) \/ RemoveRow(r)
         /\ RemoveRow(r) => SubmissionsOf(p)' = {}
         /\ SaveSubmission(r) => sub'[req[r].sub] = req[r].smem
         /\ \A s \in SubmissionsOf(p) :
              sub'[s] = sub[s] \/ RemoveRow(r) \/ (SaveReason(r) /\ sub'[s].reason)
<1>t. /\ req[r] \in Request /\ req[r].sub \in Requests \cup {Null}
      /\ sub \in [Requests -> SubmissionRow \cup {Null}]
      /\ sub' \in [Requests -> SubmissionRow \cup {Null}]
  BY LocalTypes, ProceedTypes DEF TypeInv, TypeOK, Request
<1>a. Active(r)
  BY ProceedFrame
<1>h. HeldAtHome(r)
  BY DEF HomeInv, RequestsAtHome
<1>1. req[r].sub = Null => UNCHANGED sub
  <2> SUFFICES ASSUME req[r].sub = Null PROVE \A s \in Requests : sub'[s] = sub[s]
    BY <1>t
  <2>1. QED
    BY RowWritten, NullAssumption
<1>2. CASE req[r].sub = Null
  <2>1. SubmissionsOf(p)' = SubmissionsOf(p)
    BY <1>1, <1>2 DEF SubmissionsOf
  <2>2. ~RemoveRow(r) /\ ~SaveSubmission(r)
    <3>1. RemoveRow(r) \/ SaveSubmission(r) => req[r].sub \in Requests
      BY LocalTypes, StepPoints DEF Locals, Busy, ShapeInv, Shaped, HandlerPoints, Handlers
    <3>2. QED
      BY <3>1, <1>2, NullAssumption
  <2>3. QED
    BY <1>1, <1>2, <2>1, <2>2 DEF SubmissionsOf
<1>3. CASE req[r].sub # Null
  <2>1. PICK h \in Requests : h = req[r].sub
    BY <1>3, <1>t
  <2>2. /\ SubmissionsOf(p) \subseteq {h}
        /\ sub[h] = req[r].smem \/ (req[r].pc = "SaveSubmission" /\ sub[h] = Null)
    BY <1>3, <1>a, <2>1 DEF RowHeld
  <2>3. \A s \in Requests : s # h => sub'[s] = sub[s]
    BY <2>1, RowWritten
  <2>4. SubmissionsOf(p)' \subseteq {h}
    BY <2>2, <2>3 DEF SubmissionsOf
  <2>5. req[r].smem # Null /\ req[r].smem.part = p
    BY <1>3, <1>h DEF HeldAtHome
  <2>6. \/ sub'[h] = sub[h]
        \/ /\ SaveSubmission(r) \/ TouchSubmission(r) \/ SaveReason(r) \/ RemoveRow(r)
           /\ req[r].smem \in SubmissionRow
           /\ RemoveRow(r) <=> sub'[h] = Null
           /\ SaveSubmission(r) \/ TouchSubmission(r) => sub'[h] = req[r].smem
           /\ SaveReason(r) => sub'[h] = [req[r].smem EXCEPT !.reason = TRUE]
    BY <2>1, RowWritten
  <2>7. RemoveRow(r) => sub'[h] = Null
    BY <1>t, <2>1 DEF RemoveRow
  <2>8. RemoveRow(r) => SubmissionsOf(p)' = {}
    BY <2>4, <2>7 DEF SubmissionsOf
  <2>9. SaveSubmission(r) => sub'[h] = req[r].smem
    BY <2>1, <1>t DEF SaveSubmission
  <2>10. sub'[h] = sub[h] \/ SaveSubmission(r) \/ RemoveRow(r) \/ TouchSubmission(r)
           \/ (SaveReason(r) /\ sub'[h].reason /\ sub'[h].part = p /\ sub'[h] # Null)
    BY <2>5, <2>6, RowsAssumption, StepPoints DEF SubmissionRow
  <2>11. TouchSubmission(r) => sub'[h] = sub[h]
    BY <2>2, <2>6, StepPoints
  <2>12. SaveReason(r) => sub[h] # Null /\ sub[h].part = p
    BY <2>2, <2>5, StepPoints
  <2>13. SubmissionsOf(p)' = SubmissionsOf(p) \/ SaveSubmission(r) \/ RemoveRow(r)
    BY <2>3, <2>10, <2>11, <2>12 DEF SubmissionsOf
  <2>14. SaveSubmission(r) /\ sub[h] # Null => sub'[h] = sub[h]
    BY <2>2, <2>9
  <2>15. \A s \in SubmissionsOf(p) :
            sub'[s] = sub[s] \/ RemoveRow(r) \/ (SaveReason(r) /\ sub'[s].reason)
    BY <2>2, <2>10, <2>11, <2>14 DEF SubmissionsOf
  <2>16. QED
    BY <1>3, <2>1, <2>2, <2>4, <2>8, <2>9, <2>13, <2>15
<1>4. QED
  BY <1>2, <1>3

\* A settled participation nobody contends for was read as it is: no request
\* on it read it open.
LEMMA SettledFresh ==
  ASSUME TypeInv, LifecycleInv, LockInv, NEW p \in Participations, p \notin contended,
         LogHeld(p), ShapeInv, Locked(part[p].status)
  PROVE  ~Stale(p)
<1> SUFFICES ASSUME NEW r \in Requests, Active(r), req[r].part = p, req[r].mem # Null,
                    ~Locked(req[r].mem.status)
             PROVE  FALSE
  BY DEF Stale
<1>1. req[r].pc \notin {"CheckLocked", "ReadParticipation"}
  BY DEF LockInv, LockPassed
<1>2. req[r].pc = "SaveReason"
  BY <1>1 DEF LifecycleInv, SnapshotCurrent
<1>3. req[r].op = "reject"
  BY <1>2 DEF ShapeInv, Shaped, HandlerPoints, Handlers
<1>4. part[p].status = "rejected"
  BY <1>2, <1>3 DEF LogHeld
<1>5. QED
  BY <1>4 DEF Locked

LEMMA ProceedRowHeld ==
  ASSUME TypeInv, HomeInv, ShapeInv, NEW r \in Requests, Proceed(r),
         NEW p \in Participations, req[r].part = p, OneRow(p), RowHeld(p),
         \A q \in Requests \ {r} : ~(Active(q) /\ req[q].part = p)
  PROVE  OneRow(p)' /\ RowHeld(p)'
<1>1. OneRow(p)'
  <2>1. CASE req[r].sub = Null
    BY <2>1, ProceedRow DEF OneRow, SubmissionsOf
  <2>2. CASE req[r].sub # Null
    BY <2>2, ProceedRow DEF OneRow
  <2>3. QED
    BY <2>1, <2>2
<1>2. RowHeld(p)'
  <2> SUFFICES ASSUME NEW q \in Requests, Active(q)', req'[q].part = p, req'[q].sub # Null
               PROVE  /\ SubmissionsOf(p)' \subseteq {req'[q].sub}
                      /\ \/ sub'[req'[q].sub] = req'[q].smem
                         \/ req'[q].pc = "SaveSubmission" /\ sub'[req'[q].sub] = Null
    BY DEF RowHeld
  <2>1. q = r /\ ~Over(req'[r])
    BY ProceedFrame DEF Active, Over
  <2>2. CASE FindExisting(r)
    <3>0. sub' = sub
      BY <2>2, FoundExisting DEF tables
    <3>1. sub' = sub /\ SubmissionsOf(p)' = SubmissionsOf(p)
      BY <3>0 DEF SubmissionsOf
    <3>2. CASE /\ req'[r].sub \in SubmissionsOf(p)
               /\ req'[r].smem = sub[req'[r].sub]
      BY <2>1, <3>1, <3>2 DEF OneRow
    <3>3. CASE /\ req'[r].pc = "SaveSubmission" /\ SubmissionsOf(p) = {}
               /\ req'[r].sub = r
      <4>1. sub[r] = Null
        BY <3>3 DEF HomeInv, RowsAtHome, SubmissionsOf
      <4>2. QED
        BY <2>1, <3>1, <3>3, <4>1
    <3>4. QED
      BY <2>2, <3>2, <3>3, FoundExisting
  <2>3. CASE ~FindExisting(r)
    <3>1. req'[r].sub = req[r].sub /\ req'[r].smem = req[r].smem
      BY <2>1, <2>3, ProceedLocals
    <3>2. /\ SubmissionsOf(p)' \subseteq {req[r].sub}
          /\ sub[req[r].sub] = req[r].smem
               \/ (req[r].pc = "SaveSubmission" /\ sub[req[r].sub] = Null)
      BY <2>1, <3>1, ProceedRow, ProceedFrame DEF RowHeld
    <3>3. CASE SaveSubmission(r)
      BY <2>1, <3>1, <3>2, <3>3, ProceedRow
    <3>4. CASE ~SaveSubmission(r)
      <4>1. req[r].pc # "SaveSubmission" /\ ~TouchSubmission(r) /\ ~SaveReason(r) /\ ~RemoveRow(r)
        <5>1. Flow(req[r], req'[r].pc)
          BY <2>1, ProceedFlow
        <5>2. ~TouchSubmission(r) /\ ~SaveReason(r) /\ ~RemoveRow(r)
          BY <5>1, StepPoints DEF Flow
        <5>3. ASSUME req[r].pc = "SaveSubmission" PROVE FALSE
          <6>1. \A k \in Keys : ~UploadObject(r, k) /\ ~DeleteObject(r, k)
            BY <5>3 DEF UploadObject, DeleteObject, Step
          <6>2. ~Fail(r)
            BY <2>1 DEF Fail, Over, Ended, Blank, TypeInv, TypeOK
          <6>3. QED
            BY <5>3, <6>1, <6>2, <3>4, StepPoints DEF Proceed
        <5>4. QED
          BY <5>2, <5>3
      <4>2. req[r].sub \in Requests
        BY <2>1, <3>1, LocalTypes DEF Request
      <4>3. sub'[req[r].sub] = sub[req[r].sub]
        BY <3>4, <4>1, <4>2, RowWritten
      <4>4. QED
        BY <2>1, <3>1, <3>2, <4>1, <4>3
    <3>5. QED
      BY <3>3, <3>4
  <2>4. QED
    BY <2>2, <2>3
<1>3. QED
  BY <1>1, <1>2

LEMMA ProceedLogHeld ==
  ASSUME TypeInv, ShapeInv, NEW r \in Requests, Proceed(r),
         NEW p \in Participations, req[r].part = p, LogHeld(p),
         \A q \in Requests \ {r} : ~(Active(q) /\ req[q].part = p)
  PROVE  LogHeld(p)'
<1>t. req[r] \in Request /\ logs \in [Requests -> LogRow \cup {Null}]
  BY LocalTypes DEF TypeInv, TypeOK
<1> SUFFICES ASSUME NEW q \in Requests, req'[q].part = p, req'[q].op \in {"approve", "reject"},
                    req'[q].pc \in {"SaveStatus", "SaveReason"}
             PROVE  /\ logs'[q] = [sub |-> req'[q].sub, action |-> req'[q].to]
                    /\ req'[q].pc = "SaveReason" => part'[p].status = "rejected"
  BY DEF LogHeld
<1>1. q = r /\ ~Over(req'[r]) /\ Busy(req[r])
  BY ProceedFrame DEF Active, Over, Busy
<1>2. /\ req'[r].op = req[r].op /\ req'[r].to = req[r].to /\ req'[r].part = p
      /\ Flow(req[r], req'[r].pc) /\ Shaped(req[r])
  BY <1>1, ProceedFrame, ProceedFlow DEF ShapeInv
<1>3. ~FindExisting(r)
  BY <1>1, <1>2, StepPoints DEF Shaped, HandlerPoints, Handlers
<1>4. req'[r].sub = req[r].sub
  BY <1>1, <1>3, ProceedLocals
<1>5. CASE req'[r].pc = "SaveStatus"
  <2>1. SaveLog(r)
    BY <1>1, <1>2, <1>5, ProceedFrame, StepPoints DEF Shaped, HandlerPoints, Handlers
  <2>2. logs'[r] = [sub |-> req[r].sub, action |-> req[r].to]
    BY <2>1, <1>t DEF SaveLog
  <2>3. QED
    BY <1>1, <1>2, <1>4, <1>5, <2>2
<1>6. CASE req'[r].pc = "SaveReason"
  <2>1. SaveStatus(r) /\ req[r].pc = "SaveStatus" /\ req[r].op = "reject"
    BY <1>1, <1>2, <1>6, ProceedFrame, StepPoints DEF Flow
  <2>2. logs'[r] = logs[r] /\ part' = [part EXCEPT ![p] = Written(req[r])]
    BY <2>1 DEF SaveStatus
  <2>3. req[r].to = "rejected" /\ req[r].mem \in ParticipationRow
    BY <1>2, <2>1, LocalTypes DEF Shaped, Locals
  <2>4. part'[p].status = "rejected"
    BY <2>2, <2>3 DEF Written, TypeInv, TypeOK, ParticipationRow
  <2>5. logs[r] = [sub |-> req[r].sub, action |-> req[r].to]
    BY <2>1 DEF LogHeld
  <2>6. QED
    BY <1>1, <1>2, <1>4, <2>2, <2>4, <2>5
<1>7. QED
  BY <1>1, <1>5, <1>6

LEMMA ProceedEvidenced ==
  ASSUME TypeInv, HomeInv, LockInv, ShapeInv, LifecycleInv, NEW r \in Requests, Proceed(r),
         NEW p \in Participations, req[r].part = p, p \notin contended, SerialAt(p)
  PROVE  Evidenced(p)'
<1>t. /\ req[r] \in Request /\ req[r] \in Locals /\ Active(r)
      /\ part \in [Participations -> ParticipationRow]
      /\ logs \in [Requests -> LogRow \cup {Null}]
  BY LocalTypes, ProceedFrame DEF TypeInv, TypeOK
<1> SUFFICES ASSUME part'[p].status = "verified"
             PROVE  \/ part'[p].verifiedBy # Null
                    \/ \E l \in Requests : /\ logs'[l] # Null /\ logs'[l].action = "verified"
                                           /\ logs'[l].sub \in SubmissionsOf(p)'
  BY DEF Evidenced
<1>1. CASE SaveStatus(r)
  <2>1. /\ req[r].pc = "SaveStatus" /\ req[r].mem \in ParticipationRow
        /\ part'[p] = Written(req[r]) /\ UNCHANGED <<sub, logs>>
    BY <1>1, <1>t DEF SaveStatus, Step, Locals
  <2>2. req[r].to = "verified"
    BY <2>1 DEF Written, ParticipationRow
  <2>3. CASE req[r].op = "transition"
    <3>1. req[r].by \in Users
      BY <2>3 DEF ShapeInv, Shaped
    <3>2. part'[p].verifiedBy = req[r].by
      BY <2>1, <2>2, <2>3 DEF Written, ParticipationRow
    <3>3. QED
      BY <3>1, <3>2, NullAssumption
  <2>4. CASE req[r].op = "approve"
    <3>1. logs[r] = [sub |-> req[r].sub, action |-> "verified"]
      BY <2>1, <2>2, <2>4 DEF SerialAt, LogHeld
    <3>2. req[r].sub \in Requests /\ req[r].smem \in SubmissionRow
      BY <2>4, <1>t DEF Locals, Busy, Active
    <3>3. logs[r] # Null
      BY <3>1, <3>2, RowsAssumption DEF LogRow
    <3>4. req[r].sub \in SubmissionsOf(p)
      <4>1. sub[req[r].sub] = req[r].smem
        BY <2>1, <3>2, <1>t, NullAssumption DEF SerialAt, RowHeld
      <4>2. req[r].smem.part = p /\ req[r].smem # Null
        BY <3>2, NullAssumption DEF HomeInv, RequestsAtHome, HeldAtHome
      <4>3. QED
        BY <3>2, <4>1, <4>2 DEF SubmissionsOf
    <3>5. SubmissionsOf(p)' = SubmissionsOf(p)
      BY <2>1 DEF SubmissionsOf
    <3>6. QED
      BY <2>1, <3>1, <3>3, <3>4, <3>5
  <2>5. CASE req[r].op \notin {"transition", "approve"}
    <3>1. req[r].op \in {"create", "reject"}
      BY <2>1, <2>5 DEF ShapeInv, Shaped, HandlerPoints, Handlers
    <3>2. req[r].to # "verified"
      BY <3>1, <1>t DEF ShapeInv, Shaped, LifecycleInv, EdgeChosen, FollowsEdge, Busy, Active
    <3>3. QED
      BY <2>2, <3>2
  <2>6. QED
    BY <2>3, <2>4, <2>5
<1>2. CASE ~SaveStatus(r)
  <2>1. part' = part
    BY <1>2, ProceedFrame
  <2>2. Locked(part[p].status) /\ Evidenced(p)
    BY <2>1 DEF Locked, SerialAt
  <2>3. ~Stale(p)
    BY <2>2, SettledFresh DEF SerialAt
  <2>4. Fail(r)
    BY <1>2, <2>2, <2>3, SettledStep
  <2>5. UNCHANGED <<sub, logs>>
    BY <2>4 DEF Fail, tables
  <2>6. SubmissionsOf(p)' = SubmissionsOf(p)
    BY <2>5 DEF SubmissionsOf
  <2>7. QED
    BY <2>1, <2>2, <2>5, <2>6 DEF Evidenced
<1>3. QED
  BY <1>1, <1>2

LEMMA ProceedLanded ==
  ASSUME TypeInv, HomeInv, LockInv, ShapeInv, NamedInv, LifecycleInv,
         NEW r \in Requests, Proceed(r),
         NEW p \in Participations, req[r].part = p, p \notin contended, SerialAt(p)
  PROVE  Landed(p)'
<1>t. /\ req[r] \in Request /\ req[r] \in Locals /\ Active(r) /\ ~Over(req[r])
      /\ logs \in [Requests -> LogRow \cup {Null}]
      /\ logs' \in [Requests -> LogRow \cup {Null}]
      /\ part \in [Participations -> ParticipationRow]
  BY LocalTypes, ProceedFrame, ProceedTypes DEF TypeInv, TypeOK, Active, Over
<1> SUFFICES ASSUME NEW q \in Requests, req'[q].pc = "done", logs'[q] # Null,
                    req'[q].part = p
             PROVE  IF logs'[q].action = "verified" THEN Locked(part'[p].status)
                                                    ELSE sub'[logs'[q].sub].reason
  BY DEF Landed
<1>1. ~SaveLog(r) \/ q # r
  <2> SUFFICES ASSUME SaveLog(r) PROVE req'[r].pc # "done"
    OBVIOUS
  <2> QED
    BY <1>t DEF SaveLog, Step, At, Request, TypeInv, TypeOK
<1>2. /\ logs'[q] = logs[q] /\ logs[q] # Null
      /\ RemoveRow(r) => logs[q].sub # req[r].sub
  <2>1. CASE RemoveRow(r)
    BY <2>1 DEF RemoveRow
  <2>2. CASE ~RemoveRow(r)
    BY <1>1, <2>2, <1>t, ProceedWrites DEF LogsWritten
  <2>3. QED
    BY <2>1, <2>2
<1>3. PICK s \in Requests : s = logs[q].sub /\ sub[s] # Null
  BY <1>2, <1>t DEF NamedInv, LogsNamed, LogRow
<1>4. CASE q # r
  <2>1. /\ req[q].pc = "done" /\ req[q].part = p
        /\ IF logs[q].action = "verified" THEN Locked(part[p].status) ELSE sub[s].reason
    BY <1>2, <1>3, <1>4, ProceedFrame DEF SerialAt, Landed
  <2>2. CASE logs[q].action = "verified"
    <3>1. ~Stale(p)
      BY <2>1, <2>2, SettledFresh DEF SerialAt
    <3>2. Locked(part'[p].status)
      BY <2>1, <2>2, <3>1, SettledKept
    <3>3. QED
      BY <1>2, <2>2, <3>2
  <2>3. CASE logs[q].action # "verified"
    <3>1. s \in SubmissionsOf(p)
      BY <1>2, <1>3, <2>1 DEF SubmissionsOf, HomeInv, RowsAtHome, LogsAtHome, Kin
    <3>2. RemoveRow(r) => sub'[s] = sub[s]
      BY <1>2, <1>3 DEF RemoveRow, TypeInv, TypeOK
    <3>3. sub'[s].reason
      BY <2>1, <2>3, <3>1, <3>2, ProceedRow DEF SerialAt
    <3>4. QED
      BY <1>2, <1>3, <2>3, <3>3
  <2>4. QED
    BY <2>2, <2>3
<1>5. CASE q = r
  <2>1. /\ req[r].op \in {"approve", "reject"} /\ req[r].pc \in {"SaveStatus", "SaveReason"}
        /\ logs[r] = [sub |-> req[r].sub, action |-> req[r].to]
    BY <1>2, <1>5, <1>t DEF NamedInv, LogsNamed
  <2>2. SaveStatus(r) \/ SaveReason(r)
    <3>1. \A k \in Keys : ~UploadObject(r, k) /\ ~DeleteObject(r, k)
      BY <2>1 DEF UploadObject, DeleteObject, Step
    <3>2. ~Fail(r)
      BY <1>5 DEF Fail, Ended, Blank, TypeInv, TypeOK
    <3>3. QED
      BY <2>1, <3>1, <3>2, StepPoints DEF Proceed
  <2>3. CASE SaveStatus(r)
    <3>1. req[r].op = "approve" /\ req[r].to = "verified" /\ req[r].mem \in ParticipationRow
      <4>1. req[r].op = "reject" => req'[r].pc = "SaveReason"
        BY <2>3, <1>t DEF SaveStatus, Step, At, Request, TypeInv, TypeOK
      <4>2. QED
        BY <2>1, <2>3, <4>1, <1>5, <1>t, StepPoints DEF ShapeInv, Shaped, Locals
    <3>2. part'[p].status = "verified"
      BY <2>3, <3>1, <1>t DEF SaveStatus, Written, ParticipationRow
    <3>3. QED
      BY <1>2, <1>5, <2>1, <3>1, <3>2 DEF Locked
  <2>4. CASE SaveReason(r)
    <3>1. req[r].op = "reject" /\ req[r].to = "rejected"
      BY <2>4, StepPoints DEF ShapeInv, Shaped, HandlerPoints, Handlers
    <3>2. req[r].smem \in SubmissionRow /\ req[r].sub = s
      BY <1>3, <1>5, <2>1, <2>4, <1>t, StepPoints DEF Locals
    <3>3. sub'[s] = [req[r].smem EXCEPT !.reason = TRUE]
      BY <2>4, <3>2 DEF SaveReason, TypeInv, TypeOK
    <3>4. sub'[s].reason
      BY <3>2, <3>3 DEF SubmissionRow
    <3>5. QED
      BY <1>2, <1>3, <1>5, <2>1, <3>1, <3>4
  <2>5. QED
    BY <2>2, <2>3, <2>4
<1>6. QED
  BY <1>4, <1>5

LEMMA ProceedFilled ==
  ASSUME TypeInv, HomeInv, ShapeInv, NEW r \in Requests, Proceed(r),
         NEW p \in Participations, req[r].part = p, SerialAt(p),
         \A q \in Requests \ {r} : ~(Active(q) /\ req[q].part = p)
  PROVE  Filled(p)'
<1>t. /\ req[r] \in Request /\ links \subseteq Requests \X Keys
      /\ req \in [Requests -> Request] /\ Shaped(req[r]) /\ Busy(req[r])
  BY LocalTypes, ProceedFrame DEF TypeInv, TypeOK, ShapeInv, Active, Busy
<1> SUFFICES ASSUME \A q \in Requests : req'[q].part = p => req'[q].pc # "failed",
                    NEW s \in SubmissionsOf(p)'
             PROVE  FilesOf(s)' # {} \/ (req'[r].part = p /\ Refilling(req'[r]))
  BY DEF Filled
<1>1. ~Fail(r) /\ req'[r].part = p
  <2>1. req'[r].part = p
    BY ProceedFrame, ProceedLocals
  <2>2. Fail(r) => req'[r].pc = "failed"
    BY <1>t DEF Fail, Ended, Blank
  <2>3. QED
    BY <2>1, <2>2
<1>2. \A q \in Requests : req[q].part = p => req[q].pc # "failed"
  <2>1. \A q \in Requests \ {r} : req'[q] = req[q]
    BY ProceedFrame
  <2>2. QED
    BY <2>1, <1>t DEF Busy
<1>3. \A x \in SubmissionsOf(p) : FilesOf(x) # {} \/ Refilling(req[r])
  BY <1>2, RefillingActive DEF SerialAt, Filled
<1>o. ~Over(req'[r]) => req'[r].op = req[r].op /\ Flow(req[r], req'[r].pc)
  BY ProceedFrame, ProceedFlow
<1>g. Over(req'[r]) => req[r].pc \in {"SaveStatus", "RemoveRow", "TouchSubmission", "SaveReason"}
  <2>1. ~Over(req'[r]) \/ SaveStatus(r) \/ RemoveRow(r) \/ TouchSubmission(r) \/ SaveReason(r)
    <3> USE <1>t DEF Step, At, Request, Over
    <3>1. CASE CheckOpportunity(r) \/ SaveRefs(r) \/ DeletePriorLinks(r) \/ SaveSubmission(r)
               \/ SaveLinks(r)
      BY <3>1 DEF CheckOpportunity, SaveRefs, DeletePriorLinks, SaveSubmission, SaveLinks
    <3>2. CASE CheckLocked(r) \/ ListFiles(r) \/ DeleteLinks(r) \/ DeleteRefs(r)
      BY <3>2 DEF CheckLocked, ListFiles, DeleteLinks, DeleteRefs
    <3>3. CASE ReadParticipation(r) \/ CheckLog(r) \/ SaveLog(r)
      BY <3>3 DEF ReadParticipation, CheckLog, SaveLog
    <3>4. CASE FindExisting(r)
      BY <3>4, FoundExisting
    <3>5. ASSUME NEW k \in Keys, UploadObject(r, k) \/ DeleteObject(r, k) PROVE ~Over(req'[r])
      <4>1. CASE UploadObject(r, k)
        BY <4>1 DEF UploadObject
      <4>2. CASE DeleteObject(r, k)
        BY <4>2 DEF DeleteObject
      <4>3. QED
        BY <3>5, <4>1, <4>2
    <3>6. QED
      BY <1>1, <3>1, <3>2, <3>3, <3>4, <3>5 DEF Proceed
  <2>2. QED
    BY <2>1, StepPoints
\* The steps that leave a submission without files are those of a request that
\* goes on to refill or remove it.
<1>4. CASE DeletePriorLinks(r) \/ DeleteLinks(r) \/ DeleteRefs(r)
  BY <1>1, <1>4, <1>o, <1>g, <1>t, StepPoints
  DEF Shaped, HandlerPoints, Handlers, Flow, Refilling
<1>5. CASE SaveSubmission(r)
  BY <1>1, <1>5, <1>o, <1>g, <1>t, StepPoints
  DEF Shaped, HandlerPoints, Handlers, Flow, Refilling
<1>6. CASE RemoveRow(r)
  BY <1>6, ProceedRow DEF SerialAt
\* The one that links the files.
<1>7. CASE SaveLinks(r)
  <2>1. links' = links \cup ({req[r].sub} \X req[r].want) /\ req[r].pc = "SaveLinks"
    BY <1>7, StepPoints DEF SaveLinks, NewLinks
  <2>2. req[r].want # {} /\ req[r].sub \in Requests
    BY <2>1, <1>t, LocalTypes DEF Shaped, HandlerPoints, Handlers, Locals
  <2>3. s = req[r].sub
    BY <2>2, NullAssumption, ProceedRow DEF SerialAt
  <2>4. PICK k \in req[r].want : k \in Keys
    BY <2>2, <1>t DEF Request
  <2>5. k \in FilesOf(s)'
    BY <2>1, <2>3, <2>4 DEF FilesOf
  <2>6. QED
    BY <2>5
\* All the others leave the links as they are.
<1>8. CASE ~(DeletePriorLinks(r) \/ DeleteLinks(r) \/ DeleteRefs(r) \/ SaveSubmission(r)
             \/ RemoveRow(r) \/ SaveLinks(r))
  <2>1. links' = links /\ s \in SubmissionsOf(p)
    BY <1>8, ProceedWrites, ProceedRow DEF LinksWritten, SerialAt
  <2>2. FilesOf(s)' = FilesOf(s)
    BY <2>1 DEF FilesOf
  <2>3. Refilling(req[r]) => Refilling(req'[r])
    <3> SUFFICES ASSUME Refilling(req[r]) PROVE Refilling(req'[r])
      OBVIOUS
    <3>1. req[r].pc \notin {"DeletePriorLinks", "DeleteLinks", "DeleteRefs", "SaveSubmission",
                            "RemoveRow", "SaveLinks"}
      <4>1. ASSUME req[r].pc \in {"DeletePriorLinks", "DeleteLinks", "DeleteRefs",
                                  "SaveSubmission", "RemoveRow", "SaveLinks"}
            PROVE  FALSE
        <5>1. \A k \in Keys : ~UploadObject(r, k) /\ ~DeleteObject(r, k)
          BY <4>1 DEF UploadObject, DeleteObject, Step
        <5>2. QED
          BY <4>1, <5>1, <1>1, <1>8, StepPoints DEF Proceed
      <4>2. QED
        BY <4>1
    <3>2. req[r].op = "update" /\ req[r].pc \in {"Upload", "SaveRefs"}
      BY <3>1 DEF Refilling
    <3>3. ~Over(req'[r])
      BY <3>2, <1>g
    <3>4. QED
      BY <3>2, <3>3, <1>o DEF Flow, Refilling
  <2>4. QED
    BY <2>1, <2>2, <2>3, <1>1, <1>3
<1>9. QED
  BY <1>4, <1>5, <1>6, <1>7, <1>8

LEMMA ProceedSerial ==
  ASSUME TypeInv, HomeInv, LockInv, ShapeInv, NamedInv, LifecycleInv, SerialInv,
         NEW r \in Requests, Proceed(r)
  PROVE  SerialInv'
<1> SUFFICES ASSUME NEW p \in Participations, p \notin contended' PROVE SerialAt(p)'
  BY DEF SerialInv
<1>1. p \notin contended /\ SerialAt(p) /\ Active(r)
  BY ProceedFrame DEF SerialInv
<1>2. /\ \A q \in Requests \ {r} : req'[q] = req[q]
      /\ req'[r].part = req[r].part
  BY ProceedFrame, ProceedLocals
<1>3. CASE req[r].part # p
  <2>1. part'[p] = part[p] /\ Kept(p)
    BY <1>3, ElsewhereKept
  <2>2. /\ \A q \in Requests : req'[q].part = p <=> req[q].part = p
        /\ \A q \in Requests : req[q].part = p => req'[q] = req[q]
    BY <1>2, <1>3
  <2>3. QED
    BY <1>1, <2>1, <2>2, SerialFrame, ProceedHome, ProceedTypes
<1>4. CASE req[r].part = p
  <2>1. \A q \in Requests \ {r} : ~(Active(q) /\ req[q].part = p)
    BY <1>1, <1>4 DEF LifecycleInv, Alone
  <2>2. OneRow(p)' /\ RowHeld(p)'
    BY <1>1, <1>4, <2>1, ProceedRowHeld DEF SerialAt
  <2>3. LogHeld(p)'
    BY <1>1, <1>4, <2>1, ProceedLogHeld DEF SerialAt
  <2>4. Evidenced(p)'
    BY <1>1, <1>4, ProceedEvidenced
  <2>5. Landed(p)'
    BY <1>1, <1>4, ProceedLanded
  <2>6. Filled(p)'
    BY <1>1, <1>4, <2>1, ProceedFilled
  <2>7. QED
    BY <2>2, <2>3, <2>4, <2>5, <2>6 DEF SerialAt
<1>5. QED
  BY <1>3, <1>4

LEMMA SerialInvariant == Spec => []SerialInv
<1>1. Init => SerialInv
  <2> SUFFICES ASSUME Init, NEW p \in Participations PROVE SerialAt(p)
    BY DEF SerialInv
  <2>1. SubmissionsOf(p) = {} /\ part[p].status = "not_started"
    BY DEF Init, SubmissionsOf
  <2>2. \A r \in Requests : req[r].pc = "idle" /\ req[r].part = Null
    BY DEF Init, Blank
  <2>3. QED
    BY <2>1, <2>2 DEF SerialAt, OneRow, RowHeld, LogHeld, Evidenced, Landed, Filled, Active
<1>2. /\ TypeInv /\ HomeInv /\ LockInv /\ ShapeInv /\ NamedInv /\ LifecycleInv
      /\ SerialInv /\ [Next]_vars
      => SerialInv'
  <2> SUFFICES ASSUME TypeInv, HomeInv, LockInv, ShapeInv, NamedInv, LifecycleInv,
                      SerialInv, [Next]_vars
               PROVE  SerialInv'
    OBVIOUS
  <2>1. ASSUME UNCHANGED <<tables, req, contended>> PROVE SerialInv'
    BY <2>1 DEF tables, SerialInv, SerialAt, OneRow, RowHeld, LogHeld, Evidenced, Landed,
                Filled, SubmissionsOf, FilesOf, Active
  <2>2. QED
    BY <2>1, CallSerial, ProceedSerial DEF Next, ToggleOpportunity, vars, tables
<1>3. QED
  BY <1>1, <1>2, TypeInvariant, HomeInvariant, LockInvariant, FlowInvariant,
     LifecycleInvariant, PTL DEF Spec

\* One submission for a participation, however often its owner hands in, edits
\* or removes and wherever those requests die, as long as no two of them
\* overlapped: the look for an existing row is enough when requests take turns.
THEOREM OneSubmissionSafe == Spec => []OneSubmission
<1>1. SerialInv => OneSubmission
  <2> SUFFICES ASSUME SerialInv, NEW p \in Participations \ contended
               PROVE  Cardinality(SubmissionsOf(p)) <= 1
    BY DEF OneSubmission
  <2>1. OneRow(p)
    BY DEF SerialInv, SerialAt
  <2>2. CASE SubmissionsOf(p) = {}
    BY <2>2, FS_EmptySet
  <2>3. CASE SubmissionsOf(p) # {}
    <3>1. PICK s \in SubmissionsOf(p) : SubmissionsOf(p) = {s}
      BY <2>1, <2>3 DEF OneRow
    <3>2. Cardinality({s}) = 1
      BY FS_Singleton, Zenon
    <3>3. Cardinality(SubmissionsOf(p)) = 1
      BY <3>1, <3>2
    <3>4. QED
      BY <3>3
  <2>4. QED
    BY <2>2, <2>3
<1>2. QED
  BY <1>1, SerialInvariant, PTL

\* Where requests took turns, a verified participation tells who verified it,
\* or still has the submission and the approval that did: nothing that runs
\* afterwards takes them away.
THEOREM VerifiedHasEvidenceSafe == Spec => []VerifiedHasEvidence
<1>1. SerialInv => VerifiedHasEvidence
  BY DEF SerialInv, SerialAt, Evidenced, VerifiedHasEvidence
<1>2. QED
  BY <1>1, SerialInvariant, PTL

\* Where requests took turns, a decision that was answered is not undone: an
\* approval leaves the participation verified or completed, a rejection its
\* reason, for as long as the log has the decision.
THEOREM DecisionsLandSafe == Spec => []DecisionsLand
<1>1. TypeInv /\ HomeInv /\ SerialInv => DecisionsLand
  <2> SUFFICES ASSUME TypeInv, HomeInv, SerialInv, NEW r \in Requests,
                      req[r].pc = "done", logs[r] # Null, req[r].part \notin contended
               PROVE  IF logs[r].action = "verified" THEN Locked(part[req[r].part].status)
                                                     ELSE sub[logs[r].sub].reason
    BY DEF DecisionsLand
  <2>1. req[r].part \in Participations
    BY LocalTypes DEF HomeInv, LogsAtHome, Kin, Request
  <2>2. QED
    BY <2>1 DEF SerialInv, SerialAt, Landed
<1>2. QED
  BY <1>1, TypeInvariant, HomeInvariant, SerialInvariant, PTL

\* Between requests that took turns and none of which died, a submission has
\* files, and each file has its reference and its stored object.
THEOREM IntactSubmissionSafe == Spec => []IntactSubmission
<1>1. TypeInv /\ HomeInv /\ NamedInv /\ SerialInv /\ StoredFiles => IntactSubmission
  <2> SUFFICES ASSUME TypeInv, HomeInv, NamedInv, SerialInv, StoredFiles,
                      NEW s \in Requests, sub[s] # Null, sub[s].part \notin contended,
                      \A r \in Requests : req[r].part = sub[s].part => req[r].pc = "done"
               PROVE  FilesOf(s) # {} /\ FilesOf(s) \subseteq refs \cap objects
    BY DEF IntactSubmission
  <2>1. PICK p \in Participations : p = sub[s].part /\ req[s].part = p
    BY DEF TypeInv, TypeOK, SubmissionRow, HomeInv, RowsAtHome
  <2>2. s \in SubmissionsOf(p)
    BY <2>1 DEF SubmissionsOf
  <2>3. FilesOf(s) # {}
    <3>1. \A r \in Requests : ~(req[r].part = p /\ Refilling(req[r]))
      BY <2>1, RefillingActive DEF Active
    <3>2. Filled(p)
      BY <2>1 DEF SerialInv, SerialAt
    <3>3. QED
      BY <2>1, <2>2, <3>1, <3>2 DEF Filled
  <2>4. ASSUME NEW k \in FilesOf(s) PROVE k \in refs /\ k \in objects
    <3>1. k \in Keys /\ <<s, k>> \in links
      BY DEF FilesOf
    <3>2. k \in refs /\ req[k[1]].part = p
      BY <2>1, <3>1 DEF NamedInv, LinksNamed, HomeInv, LinksAtHome, Kin
    <3>3. ASSUME NEW r \in Requests, k \in req[r].old PROVE req[r].pc = "done"
      BY <2>1, <3>2, <3>3 DEF HomeInv, RequestsAtHome, HeldAtHome, Kin
    <3>4. QED
      BY <3>2, <3>3 DEF StoredFiles
  <2>5. QED
    BY <2>3, <2>4
<1>2. QED
  BY <1>1, TypeInvariant, HomeInvariant, FlowInvariant, SerialInvariant,
     StoredFilesSafe, PTL

=============================================================================
