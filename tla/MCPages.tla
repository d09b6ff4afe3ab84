------------------------------ MODULE MCPages ------------------------------
(***************************************************************************)
(* Pages with its parameters for TLC: what students, an applicant, a team   *)
(* leader and an officer find when they open their pages.                  *)
(***************************************************************************)
EXTENDS Pages

CONSTANTS c1, c2, p1

Of(state, status, decided, enrolled, leads) ==
  [state |-> state, status |-> status, decided |-> decided, enrolled |-> enrolled, leads |-> leads]
At(state, status, decided) == Of(state, status, decided, TRUE, TRUE)
Table(a, b, c) == [o \in {c1, c2, p1} |-> IF o = c1 THEN a ELSE IF o = c2 THEN b ELSE c]
Missing == At("missing", "none", FALSE)
Start(pages, failures, calls, a, b, c) ==
  [rows |-> Table(a, b, c), tour |-> pages, losses |-> failures, slots |-> 1 .. calls]
Student == Start({"certifications"}, 0, 3, At("archived", "in_progress", FALSE),
                 At("published", "rejected", TRUE), Missing)
Beginner == Start({"certifications"}, 0, 1, At("published", "in_progress", FALSE), Missing, Missing)
Applicant == Start({"certifications", "placements"}, 0, 2, Of("published", "none", FALSE, FALSE, FALSE),
                   Missing, Of("published", "none", FALSE, FALSE, FALSE))
Leader(named) == Start({"team-leader", "help"}, 0, 2, Of("published", "submitted", FALSE, TRUE, named),
                       Missing, Missing)
Officer == Start({"opportunities", "help"}, 1, 2, At("draft", "none", FALSE),
                 At("published", "none", FALSE), Missing)
MCPeriods == {{c1, c2}, {p1}}
MCForms == {Start({"new", "edit", "opportunities"}, 0, 2, At("published", "none", FALSE), Missing, Missing)}
MCStarts == {Student, Beginner, Applicant, Leader(TRUE), Leader(FALSE), Officer}
=============================================================================
