------------------------------ MODULE MCReview ------------------------------
(***************************************************************************)
(* Review with its parameters for TLC: every participation belongs to one  *)
(* student and is assigned to one team leader.                             *)
(***************************************************************************)
EXTENDS Review, TLC

CONSTANTS student, leader

OneOwner == [p \in Participations |-> student]
OneLeader == [p \in Participations |-> leader]

\* The column stores the statuses of the entity.
EntityColumn == Statuses

\* Requests are interchangeable: they name nothing but the rows they insert.
\* So are participations, which all have the same owner and leader.
Symmetry == Permutations(Requests) \cup Permutations(Participations)
=============================================================================
