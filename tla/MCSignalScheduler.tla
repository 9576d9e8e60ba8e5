-------------------------- MODULE MCSignalScheduler --------------------------
(***************************************************************************)
(* An instance of SignalScheduler for TLC.                                 *)
(***************************************************************************)
EXTENDS SignalScheduler

CONSTANTS c1, c2, c3

ThreeCalls == {c1, c2, c3}
=============================================================================
