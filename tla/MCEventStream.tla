---------------------------- MODULE MCEventStream ----------------------------
(***************************************************************************)
(* Instances of EventStream for TLC.                                       *)
(***************************************************************************)
EXTENDS EventStream

CONSTANTS r1, r2, k0, k1, k2, u0, u1, u2

MinusOne == -1

\* One reader; k0 is the key of a connection of an earlier run.
LoneReader  == {r1}
LoneKeys    == {k1, k0}
LoneMapped  == r1 :> k1
LonePersons == {u0, u1}
LonePerson  == k1 :> u1 @@ k0 :> u0
LoneOrder   == <<k1, k0>>
LoneBooked  == {u1}

\* Two readers, each with its own person and key.
TwoReaders == {r1, r2}
TwoKeys    == {k1, k2}
TwoMapped  == r1 :> k1 @@ r2 :> k2
TwoPersons == {u1, u2}
TwoPerson  == k1 :> u1 @@ k2 :> u2
TwoOrder   == <<k1, k2>>

\* Two connections of one person in the same second share a key.
SharedKeys    == {k1}
SharedMapped  == r1 :> k1 @@ r2 :> k1
SharedPersons == {u1}
SharedPerson  == k1 :> u1
SharedOrder   == <<k1>>
=============================================================================
