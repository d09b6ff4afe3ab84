----------------------------- MODULE Publication -----------------------------
(***************************************************************************)
(* What the opportunities table promises its readers: a draft is published *)
(* and then archived, an edit changes the text and nothing else, and only  *)
(* a draft is deleted, for good.  Two requests that write one row at once  *)
(* are the one way out: the row is then contested and may become anything. *)
(***************************************************************************)
CONSTANTS Opportunities, Edits, Null

VARIABLES row, contested

States == {"draft", "published", "archived"}

\* OPEN, CLOSED and CANCELLED are in the enum; no operation sets them.
Edges == {<<"draft", "published">>, <<"published", "archived">>}

Rows == [state : States, deleted : BOOLEAN, edit : Edits \cup {Null}]

Init == row = [o \in Opportunities |-> Null] /\ contested = {}

Live(o) == row[o] # Null /\ ~row[o].deleted

Create(o) ==
  /\ row[o] = Null
  /\ row' = [row EXCEPT ![o] = [state |-> "draft", deleted |-> FALSE, edit |-> Null]]
  /\ UNCHANGED contested

Edit(o, e) ==
  /\ Live(o)
  /\ row' = [row EXCEPT ![o].edit = e]
  /\ UNCHANGED contested

Move(o, to) ==
  /\ Live(o)
  /\ <<row[o].state, to>> \in Edges
  /\ row' = [row EXCEPT ![o].state = to]
  /\ UNCHANGED contested

Remove(o) ==
  /\ Live(o)
  /\ row[o].state = "draft"
  /\ row' = [row EXCEPT ![o].deleted = TRUE]
  /\ UNCHANGED contested

Overlap(o) ==
  /\ contested' = contested \cup {o}
  /\ UNCHANGED row

Overwrite(o) ==
  /\ o \in contested
  /\ \E new \in Rows : row' = [row EXCEPT ![o] = new]
  /\ UNCHANGED contested

Next ==
  \E o \in Opportunities :
    \/ Create(o) \/ Remove(o) \/ Overlap(o) \/ Overwrite(o)
    \/ \E e \in Edits : Edit(o, e)
    \/ \E to \in States : Move(o, to)

Spec == Init /\ [][Next]_<<row, contested>>
=============================================================================
