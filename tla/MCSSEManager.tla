---------------------------- MODULE MCSSEManager ----------------------------
(***************************************************************************)
(* Instances of SSEManager for TLC.                                        *)
(***************************************************************************)
EXTENDS SSEManager, TLC

CONSTANTS c1, c2, p1, k1, k2

TwoClients == {c1, c2}
TwoKeys    == {k1, k2}

\* Every other choice of their keys is one of these under another name.
UpToNames  == c1 :> {k1} @@ c2 :> {k1, k2}

\* event_generator() both reads and broadcasts: c1 is a reader and a publisher.
MixedTasks      == {c1, c2, p1}
MixedPublishers == {c1, p1}
OnePricer       == {p1}
=============================================================================
