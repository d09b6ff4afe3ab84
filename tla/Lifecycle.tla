------------------------------ MODULE Lifecycle ------------------------------
(***************************************************************************)
(* What the participation table promises its readers, with no request in   *)
(* sight: each participation walks along the edges of the status graph.    *)
(* The one way out is two requests at work on it at once: a late save of   *)
(* the row may then put any status there.                                  *)
(***************************************************************************)
CONSTANT Participations

VARIABLES status, contended

Statuses == {"not_started", "in_progress", "submitted", "verified",
             "rejected", "incomplete", "completed"}

\* An upload submits a participation from any status that is not settled;
\* the other edges are those updateStatus, approve and reject may take.
Edges ==
  ({"not_started", "in_progress", "submitted", "rejected", "incomplete"}
     \X {"submitted"})
  \cup {<<"not_started", "in_progress">>, <<"in_progress", "completed">>,
        <<"submitted", "verified">>, <<"submitted", "rejected">>,
        <<"submitted", "incomplete">>, <<"rejected", "in_progress">>,
        <<"incomplete", "in_progress">>, <<"verified", "completed">>}

Init == status = [p \in Participations |-> "not_started"] /\ contended = {}

Move(p, to) ==
  /\ <<status[p], to>> \in Edges
  /\ status' = [status EXCEPT ![p] = to]
  /\ UNCHANGED contended

Overlap(p) ==
  /\ contended' = contended \cup {p}
  /\ UNCHANGED status

Overwrite(p, to) ==
  /\ p \in contended
  /\ status' = [status EXCEPT ![p] = to]
  /\ UNCHANGED contended

Next ==
  \E p \in Participations :
    \/ Overlap(p)
    \/ \E to \in Statuses : Move(p, to) \/ Overwrite(p, to)

Spec == Init /\ [][Next]_<<status, contended>>
=============================================================================
