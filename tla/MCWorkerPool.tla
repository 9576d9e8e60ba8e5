---------------------------- MODULE MCWorkerPool ----------------------------
(***************************************************************************)
(* An instance of WorkerPool for TLC.                                      *)
(***************************************************************************)
EXTENDS WorkerPool

CONSTANTS r1, r2, ann, bob, cid

TwoRequests  == {r1, r2}
ThreePersons == {ann, bob, cid}
TwoPersons   == r1 :> ann @@ r2 :> bob
=============================================================================
