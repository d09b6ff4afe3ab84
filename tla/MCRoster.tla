------------------------------ MODULE MCRoster ------------------------------
(***************************************************************************)
(* Roster with its parameters for TLC: files of two rows at most for two   *)
(* users, and three organisations to begin with: one branch whose sections *)
(* are empty, one with groups, a leader and a student, and a student whose *)
(* branch is not that of his section.                                      *)
(***************************************************************************)
EXTENDS Roster

CONSTANTS ann, bob

MCEmails == {ann, bob}
MCNames == [branch |-> {"cs", "ec"}, section |-> {"A", "B"}, group |-> {"x"}]

Line(u, s, g) == [email |-> u, branch |-> "cs", section |-> s, group |-> g]
MCFiles ==
  [groups |-> {<<Line(ann, "A", "x"), Line(ann, "B", "x")>>},
   team_leaders |-> {<<Line(ann, "A", "x"), Line(bob, "A", "x")>>, <<Line(ann, "B", "x")>>},
   mentors |-> {<<Line(ann, "A", Null), Line(bob, "B", Null)>>, <<>>},
   students |-> {<<Line(ann, "B", "x"), Line(bob, "A", "x")>>,
                 <<Line(bob, "A", "x"), Line(bob, "B", "x")>>}]

Unit(kind, up, name, head) ==
  [kind |-> kind, up |-> up, name |-> name, head |-> head, dead |-> FALSE]
Empty == <<0, 1>> :> Unit("branch", Null, "cs", Null) @@ <<0, 2>> :> Unit("section", <<0, 1>>, "A", Null)
           @@ <<0, 3>> :> Unit("section", <<0, 1>>, "B", Null)
Grouped == Empty @@ <<0, 4>> :> Unit("group", <<0, 2>>, "x", bob)
             @@ <<0, 5>> :> Unit("group", <<0, 3>>, "x", Null)
\* A student whose branch is not the one his section is in.
Apart == <<0, 1>> :> Unit("branch", Null, "cs", Null) @@ <<0, 2>> :> Unit("section", <<0, 1>>, "A", Null)
           @@ <<0, 3>> :> Unit("branch", Null, "ec", Null)
Student(user, branch, section, group) ==
  [user |-> user, branch |-> branch, section |-> section, group |-> group,
   active |-> TRUE, dead |-> FALSE]
MCOrganisations ==
  {[unit |-> Empty, enr |-> <<>>, users |-> {}, role |-> {}],
   [unit |-> Grouped, users |-> {ann, bob}, role |-> {<<bob, <<0, 4>>>>},
    enr |-> <<0, 6>> :> Student(ann, <<0, 1>>, <<0, 2>>, <<0, 4>>)],
   [unit |-> Apart, users |-> {ann}, role |-> {},
    enr |-> <<0, 4>> :> Student(ann, <<0, 3>>, <<0, 2>>, Null)]}
=============================================================================
