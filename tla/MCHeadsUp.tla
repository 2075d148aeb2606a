----------------------------- MODULE MCHeadsUp -----------------------------
(***************************************************************************)
(* The whole contract with two players, from an empty table: every circuit *)
(* in every order, missed deadlines included.                              *)
(***************************************************************************)
EXTENDS ClientRules, TLC

Symmetry == Permutations(Players)

==============================================================================
