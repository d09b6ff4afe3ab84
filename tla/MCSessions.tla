----------------------------- MODULE MCSessions -----------------------------
(***************************************************************************)
(* Sessions with its parameters for TLC.                                   *)
(***************************************************************************)
EXTENDS Sessions, TLC

\* The pages are interchangeable; only the run without liveness may say so.
Symmetry == Permutations(Tabs)
=============================================================================
