----------------------------- MODULE MCListings -----------------------------
(***************************************************************************)
(* Listings with its parameters for TLC: three students' enrollments, three *)
(* groups, two sections and three opportunities, as two databases have them. *)
(***************************************************************************)
EXTENDS Listings

CONSTANTS ann, bob, eve, e1, e2, e3, a, b, o1, o2, o3

MCUserOf == e1 :> ann @@ e2 :> bob @@ e3 :> ann
MCPeriodOf == e1 :> 1 @@ e2 :> 1 @@ e3 :> 2 @@ o1 :> 1 @@ o2 :> 1 @@ o3 :> 2
MCSectionOf == e1 :> a @@ e2 :> a @@ e3 :> b @@ 1 :> a @@ 2 :> a @@ 3 :> b
MCNameOf == 1 :> "G1" @@ 2 :> "G2" @@ 3 :> "G1"
MCTypeOf == o1 :> "training" @@ o2 :> "training" @@ o3 :> "placement"
MCTarget == o1 :> [section |-> a, group |-> Null] @@ o2 :> [section |-> a, group |-> 1]
            @@ o3 :> [section |-> Null, group |-> Null]

In(state, g) == [state |-> state, active |-> TRUE, group |-> g]
Inactive(g) == [state |-> "live", active |-> FALSE, group |-> g]
Grp(live, u, heads) == [live |-> live, leader |-> u, heads |-> heads]
Made(state, open) == [state |-> state, open |-> open]
Of(o, e, status) == [opp |-> o, enr |-> e, status |-> status, leader |-> eve]
Sub(i) == [part |-> i, live |-> TRUE]

\* Two students of one group at work on two certifications: more than a list of
\* follow-ups shows.
Busy ==
  [enr |-> e1 :> In("live", 1) @@ e2 :> In("live", 1) @@ e3 :> In("none", Null),
   grp |-> 1 :> Grp(TRUE, eve, {eve}) @@ 2 :> Grp(FALSE, Null, {}) @@ 3 :> Grp(FALSE, Null, {}),
   sec |-> a :> [mentor |-> bob, heads |-> {bob}] @@ b :> [mentor |-> Null, heads |-> {}],
   opp |-> o1 :> Made("published", "now") @@ o2 :> Made("published", "now") @@ o3 :> Made("none", "now"),
   posted |-> <<o1, o2>>,
   part |-> <<Of(o1, e1, "submitted"), Of(o1, e2, "verified"), Of(o2, e1, "in_progress")>>,
   subs |-> <<Sub(1), Sub(2)>>, log |-> <<2>>]

\* Two groups of one name, one with an inactive student; an opportunity that is
\* not open yet.
Spread ==
  [enr |-> e1 :> In("live", 1) @@ e2 :> Inactive(1) @@ e3 :> In("live", 3),
   grp |-> 1 :> Grp(TRUE, eve, {eve}) @@ 2 :> Grp(FALSE, Null, {}) @@ 3 :> Grp(TRUE, Null, {}),
   sec |-> a :> [mentor |-> bob, heads |-> {bob}] @@ b :> [mentor |-> eve, heads |-> {eve}],
   opp |-> o1 :> Made("published", "now") @@ o2 :> Made("published", "early") @@ o3 :> Made("published", "now"),
   posted |-> <<o1, o2, o3>>,
   part |-> <<Of(o1, e1, "verified"), Of(o3, e3, "submitted"), Of(o1, e2, "in_progress")>>,
   subs |-> <<Sub(1), Sub(2)>>, log |-> <<1>>]

MCDatabases == {Busy, Spread}
=============================================================================
