---------------------------- MODULE Opportunities ----------------------------
(***************************************************************************)
(* Publishing opportunities and registering for them.  As everywhere, each *)
(* awaited call of the database is a step, a save(entity) writes the whole *)
(* row as it was read, and a request may die between two steps.            *)
(*                                                                         *)
(* A definition commented as a mutant is the wrong form of the one after   *)
(* it: no action uses it, and a property has to tell the two apart.        *)
(***************************************************************************)
EXTENDS Naturals, FiniteSets

CONSTANTS
  Requests,        \* the calls of a behaviour; each one is made once
  Opportunities,
  Enrollments,     \* the enrollments of the period of the opportunities
  Tables,          \* which of opportunity_targets and _rounds exist
  Concurrency,     \* bound: requests in flight at once
  Faults,          \* may database calls fail, or the server die?
  Null

Lists == {"targets", "rounds"}

ASSUME TablesAssumption == Tables \subseteq Lists
ASSUME ConcurrencyAssumption == Concurrency \in Nat \ {0}
ASSUME FaultsAssumption == Faults \in BOOLEAN

VARIABLES
  row,        \* opportunities: state, deleted_at, and whose text it shows
  lists,      \* whose rows opportunity_targets and opportunity_rounds hold
  reg,        \* participations: opportunity and enrollment, by inserting request
  req,        \* the requests: control point and local variables
  published,  \* history: opportunities that have been published
  contested   \* history: what two requests have been writing at once

vars == <<row, lists, reg, req, published, contested>>

\* No operation sets the other values of the enum: open, closed, cancelled.
States == {"draft", "published", "archived"}

\* A row of opportunities; edit is the update whose text it shows.
Row == [state : States, deleted : BOOLEAN, edit : Requests \cup {Null}]

\* A row of participations.
Registration == [opp : Opportunities, enr : Enrollments]

ASSUME NullAssumption ==
  Null \notin Requests \cup Opportunities \cup Enrollments \cup Row \cup Registration

\* Two requests that touch the same thing of an opportunity may clash.
Touches(op) ==
  CASE op \in {"update", "publish", "archive", "remove"} -> "row"
    [] op \in Lists -> op
    [] OTHER -> "registration"

Live(o) == row[o] # Null /\ ~row[o].deleted
Registered(o, e) == \E r \in Requests : reg[r] = [opp |-> o, enr |-> e]

-----------------------------------------------------------------------------
(* Requests.                                                               *)

Blank == [pc |-> "idle", op |-> "none", opp |-> Null, enr |-> Null, mem |-> Null]

Active(r) == req[r].pc \notin {"idle", "done", "failed"}

\* The first query finds the opportunity, unless it is deleted.
Begin(r, op, o, e, pc) ==
  /\ req[r].pc = "idle"
  /\ Cardinality({q \in Requests : Active(q)}) < Concurrency
  /\ Live(o)
  /\ req' = [req EXCEPT ![r] = [pc |-> pc, op |-> op, opp |-> o, enr |-> e, mem |-> row[o]]]
  /\ contested' =
       IF \E q \in Requests : Active(q) /\ req[q].opp = o /\ Touches(req[q].op) = Touches(op)
         THEN contested \cup {<<o, Touches(op)>>} ELSE contested

\* Mutant: registrations are only looked for, not constrained.
NoConstraintError(r) ==
  /\ req[r].pc = "FindExisting"
  /\ Registered(req[r].opp, req[r].enr)

\* A student registers once: the handler looks, the unique index of
\* participations insists.  A table that is not there fails its first query.
Throws(r) ==
  \/ /\ req[r].pc \in {"FindExisting", "SaveRegistration"}
     /\ Registered(req[r].opp, req[r].enr)
  \/ req[r].pc \in {"DeleteRows", "InsertRows"} /\ req[r].op \notin Tables

Step(r, pc, next) ==
  /\ req[r].pc = pc
  /\ ~Throws(r)
  /\ req' = [req EXCEPT ![r].pc = next]
  /\ UNCHANGED contested

Fail(r) ==
  /\ Active(r)
  /\ Faults \/ Throws(r)
  /\ req' = [req EXCEPT ![r].pc = "failed"]
  /\ UNCHANGED <<row, lists, reg, published, contested>>

-----------------------------------------------------------------------------
(* OpportunitiesService.                                                   *)

\* Its one write comes last.
Create(o) ==
  /\ row[o] = Null
  /\ row' = [row EXCEPT ![o] = [state |-> "draft", deleted |-> FALSE, edit |-> Null]]
  /\ UNCHANGED <<lists, reg, req, published, contested>>

\* Mutant: an archived opportunity is published again.
PublishableAlways(o) == row[o].state # "published"
Publishable(o) == row[o].state = "draft"
Archivable(o) == row[o].state = "published"

\* Mutant: whatever nobody has registered for yet may go.
RemovableUnregistered(o) == \A e \in Enrollments : ~Registered(o, e)
Removable(o) == row[o].state = "draft"

BeginUpdate(r, o) ==
  /\ Begin(r, "update", o, Null, "SaveRow")
  /\ UNCHANGED <<row, lists, reg, published>>

BeginPublish(r, o) ==
  /\ Begin(r, "publish", o, Null, "SaveRow")
  /\ Publishable(o)
  /\ UNCHANGED <<row, lists, reg, published>>

BeginArchive(r, o) ==
  /\ Begin(r, "archive", o, Null, "SaveRow")
  /\ Archivable(o)
  /\ UNCHANGED <<row, lists, reg, published>>

BeginRemove(r, o) ==
  /\ Begin(r, "remove", o, Null, "SoftRemove")
  /\ Removable(o)
  /\ UNCHANGED <<row, lists, reg, published>>

\* Mutant: archive sets CLOSED, a state of the enum that nothing leaves.
SavedClosed(r) ==
  CASE req[r].op = "publish" -> [req[r].mem EXCEPT !.state = "published"]
    [] req[r].op = "archive" -> [req[r].mem EXCEPT !.state = "closed"]
    [] OTHER                 -> [req[r].mem EXCEPT !.edit = r]

\* What update, publish and archive save: the row they read, with their change.
Saved(r) ==
  CASE req[r].op = "publish" -> [req[r].mem EXCEPT !.state = "published"]
    [] req[r].op = "archive" -> [req[r].mem EXCEPT !.state = "archived"]
    [] OTHER                 -> [req[r].mem EXCEPT !.edit = r]

SaveRow(r) ==
  /\ Step(r, "SaveRow", "done")
  /\ row' = [row EXCEPT ![req[r].opp] = Saved(r)]
  /\ published' = IF req[r].op = "publish" THEN published \cup {req[r].opp} ELSE published
  /\ UNCHANGED <<lists, reg>>

\* softRemove sets deleted_at and nothing else.
SoftRemove(r) ==
  /\ Step(r, "SoftRemove", "done")
  /\ row' = [row EXCEPT ![req[r].opp].deleted = TRUE]
  /\ UNCHANGED <<lists, reg, published>>

\* setTargets and setRounds: all rows go, the new ones come.
BeginSet(r, list, o) ==
  /\ Begin(r, list, o, Null, "DeleteRows")
  /\ UNCHANGED <<row, lists, reg, published>>

\* Mutant: the old rows stay.
NothingLeftOut(list, o) == lists[list][o]
RowsLeft(list, o) == {}

\* An empty list inserts nothing.
DeleteRows(r) ==
  /\ \E next \in {"InsertRows", "done"} : Step(r, "DeleteRows", next)
  /\ lists' = [lists EXCEPT ![req[r].op][req[r].opp] = RowsLeft(req[r].op, req[r].opp)]
  /\ UNCHANGED <<row, reg, published>>

InsertRows(r) ==
  /\ Step(r, "InsertRows", "done")
  /\ lists' = [lists EXCEPT ![req[r].op][req[r].opp] = @ \cup {r}]
  /\ UNCHANGED <<row, reg, published>>

-----------------------------------------------------------------------------
(* ParticipationsService.create                                            *)

\* Mutant: drafts are open to registration.
OpenInAnyState(o) == row[o].state \in States
OpenToRegistration(o) == row[o].state # "draft"

BeginRegister(r, o, e) ==
  /\ Begin(r, "register", o, e, "FindExisting")
  /\ OpenToRegistration(o)
  /\ UNCHANGED <<row, lists, reg, published>>

FindExisting(r) ==
  /\ Step(r, "FindExisting", "SaveRegistration")
  /\ UNCHANGED <<row, lists, reg, published>>

SaveRegistration(r) ==
  /\ Step(r, "SaveRegistration", "done")
  /\ reg' = [reg EXCEPT ![r] = [opp |-> req[r].opp, enr |-> req[r].enr]]
  /\ UNCHANGED <<row, lists, published>>

-----------------------------------------------------------------------------
Init ==
  /\ row = [o \in Opportunities |-> Null]
  /\ lists = [l \in Lists |-> [o \in Opportunities |-> {}]]
  /\ reg = [r \in Requests |-> Null]
  /\ req = [r \in Requests |-> Blank]
  /\ published = {} /\ contested = {}

Next ==
  \/ \E o \in Opportunities : Create(o)
  \/ \E r \in Requests :
       \/ \E o \in Opportunities :
            \/ BeginUpdate(r, o) \/ BeginPublish(r, o)
            \/ BeginArchive(r, o) \/ BeginRemove(r, o)
            \/ \E l \in Lists : BeginSet(r, l, o)
            \/ \E e \in Enrollments : BeginRegister(r, o, e)
       \/ SaveRow(r) \/ SoftRemove(r) \/ DeleteRows(r) \/ InsertRows(r)
       \/ FindExisting(r) \/ SaveRegistration(r) \/ Fail(r)

Spec == Init /\ [][Next]_vars

-----------------------------------------------------------------------------
(* Properties.                                                             *)

Request ==
  [pc : {"idle", "done", "failed", "SaveRow", "SoftRemove", "DeleteRows",
         "InsertRows", "FindExisting", "SaveRegistration"},
   op : {"none", "update", "publish", "archive", "remove", "register"} \cup Lists,
   opp : Opportunities \cup {Null}, enr : Enrollments \cup {Null}, mem : Row \cup {Null}]

\* Every variable keeps its type.
TypeOK ==
  /\ row \in [Opportunities -> Row \cup {Null}]
  /\ lists \in [Lists -> [Opportunities -> SUBSET Requests]]
  /\ reg \in [Requests -> Registration \cup {Null}]
  /\ req \in [Requests -> Request]
  /\ published \subseteq Opportunities
  /\ contested \subseteq Opportunities \X (Lists \cup {"row", "registration"})

\* The row of an opportunity follows its states and keeps its text until two
\* requests write it at once (Publication, for the readers of the table).
ContestedRows == {o \in Opportunities : <<o, "row">> \in contested}
P == INSTANCE Publication WITH contested <- ContestedRows, Edits <- Requests
FollowsPublication == P!Spec

\* One participation per student and opportunity, however the calls overlap:
\* the second of two that both found none is stopped by the index.
OneParticipation ==
  \A a, b \in Requests : reg[a] # Null /\ reg[a] = reg[b] => a = b

\* Nobody has registered, or is about to, for an opportunity that was never
\* published, whatever a stale save did to its state since.
RegisteredAfterPublishing ==
  /\ \A r \in Requests : reg[r] # Null => reg[r].opp \in published
  /\ \A r \in Requests : Active(r) /\ req[r].op = "register" => req[r].opp \in published

\* A deleted opportunity has no participations, unless two requests were
\* writing its row at once.
DeletedUnused ==
  \A o \in Opportunities \ ContestedRows :
    row[o] # Null /\ row[o].deleted => \A e \in Enrollments : ~Registered(o, e)

\* The targets and the rounds of an opportunity come from one call, unless
\* two of them overlapped: an interrupted one leaves none, never a mixture.
OneCallsRows ==
  \A l \in Lists, o \in Opportunities :
    <<o, l>> \notin contested => Cardinality(lists[l][o]) <= 1

=============================================================================
