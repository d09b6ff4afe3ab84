--------------------------- MODULE MCOpportunities ---------------------------
(***************************************************************************)
(* Opportunities with its parameters for TLC.                              *)
(***************************************************************************)
EXTENDS Opportunities, TLC

\* Both lists have their table, as the entities say.
EntityTables == Lists

\* Requests and enrollments are interchangeable.
Symmetry == Permutations(Requests) \cup Permutations(Enrollments)
=============================================================================
