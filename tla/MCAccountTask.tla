---------------------------- MODULE MCAccountTask ----------------------------
(***************************************************************************)
(* Instances of AccountTask for TLC.                                       *)
(***************************************************************************)
EXTENDS AccountTask, TLC

CONSTANTS r1, r2, r3, a, b

\* Two requests of one person and one of another.
ThreeRequests == {r1, r2, r3}
TwoPersons    == {a, b}
TwoTabs       == r1 :> a @@ r2 :> a @@ r3 :> b
Alike         == Permutations({r1, r2})

\* Two requests of two persons; only a has the right credentials.
TwoRequests == {r1, r2}
OneEach     == r1 :> a @@ r2 :> b
FirstGood   == {a}
=============================================================================
