-------------------------- MODULE PersonDictionary --------------------------
(***************************************************************************)
(* PersonDictionary (deribit_client/deribit_person.py), a dictionary of    *)
(* bounded size that drops its first key, under create_person_manual()     *)
(* (project/functions.py), which every request runs in a thread of its     *)
(* own: it adds a person that is missing, gets it, and stores it again.    *)
(* Nothing locks the dictionary; between threads an action is one          *)
(* operation on it.  The persons are the keys in the order of insertion.   *)
(***************************************************************************)
EXTENDS Integers, FiniteSets, SequencesExt

CONSTANTS
  Requests,    \* each with a thread that makes its person
  Persons,
  person,      \* the person of each request
  MaxSize,     \* DERIBIT_QUEUE_SIZE
  NoPerson

ASSUME DictionaryAssumption ==
  /\ IsFiniteSet(Requests)
  /\ Requests # {}
  /\ person \in [Requests -> Persons]
  /\ MaxSize \in Nat \ {0}
  /\ NoPerson \notin Persons

VARIABLES
  persons,     \* PersonManager.person_dict
  making,      \* where create_person_manual() of a request is
  victim,      \* the key its __setitem__ is about to pop
  crowded      \* history: has the dictionary ever been full?

dictVars == <<persons, making, victim, crowded>>

Makings == {"away", "add", "add: pop", "add: store", "get",
            "set", "set: pop", "set: store", "done", "failed"}

\* The persons of earlier requests may be there.
DictInit ==
  /\ persons \in {s \in UNION {[1 .. n -> Persons] : n \in 0 .. MaxSize} : IsInjective(s)}
  /\ making = [r \in Requests |-> "away"]
  /\ victim = [r \in Requests |-> NoPerson]
  /\ crowded = (Len(persons) = MaxSize)

Goes(r, from, to) == making[r] = from /\ making' = [making EXCEPT ![r] = to]

Has(u) == u \in ToSet(persons)

\* "user_id not in person_dict"
Looks(r) ==
  /\ Goes(r, "away", IF Has(person[r]) THEN "get" ELSE "add")
  /\ UNCHANGED <<persons, victim, crowded>>

-----------------------------------------------------------------------------
(* __setitem__, called by add() and once more by create_person_manual() *)

\* Mutant: a place is kept free.
FullTooSoon == Len(persons) + 1 >= MaxSize

\* Mutant: the size is not looked at.
NeverFull == FALSE

Full == Len(persons) >= MaxSize

\* The size is tested, also for a key that is in the dictionary already, and
\* the first key is read.
Measures(r, call, pop, store) ==
  /\ IF Full
     THEN Goes(r, call, pop) /\ victim' = [victim EXCEPT ![r] = Head(persons)]
     ELSE Goes(r, call, store) /\ UNCHANGED victim
  /\ UNCHANGED <<persons, crowded>>

\* The key is popped; if another thread did so before, this is a KeyError.
Pops(r, pop, store) ==
  /\ IF Has(victim[r])
     THEN /\ Goes(r, pop, store)
          /\ \E i \in DOMAIN persons :
               persons[i] = victim[r] /\ persons' = RemoveAt(persons, i)
     ELSE Goes(r, pop, "failed") /\ UNCHANGED persons
  /\ victim' = [victim EXCEPT ![r] = NoPerson]
  /\ UNCHANGED crowded

Stores(r, store, next) ==
  /\ Goes(r, store, next)
  /\ persons' = IF Has(person[r]) THEN persons ELSE Append(persons, person[r])
  /\ crowded' = (crowded \/ Len(persons') >= MaxSize)
  /\ UNCHANGED victim

\* p_dict.get(): None has no attributes to set.
Gets(r) ==
  /\ Goes(r, "get", IF Has(person[r]) THEN "set" ELSE "failed")
  /\ UNCHANGED <<persons, victim, crowded>>

Makes(r) ==
  \/ Looks(r)
  \/ Measures(r, "add", "add: pop", "add: store")
  \/ Pops(r, "add: pop", "add: store")
  \/ Stores(r, "add: store", "get")
  \/ Gets(r)
  \/ Measures(r, "set", "set: pop", "set: store")
  \/ Pops(r, "set: pop", "set: store")
  \/ Stores(r, "set: store", "done")

-----------------------------------------------------------------------------
(* Properties *)

DictTypeOK ==
  /\ persons \in Seq(Persons)
  /\ making \in [Requests -> Makings]
  /\ victim \in [Requests -> Persons \cup {NoPerson}]
  /\ crowded \in BOOLEAN
  /\ \A r \in Requests : making[r] \in {"add: pop", "set: pop"} => victim[r] # NoPerson

Storing == {r \in Requests : making[r] \in {"add: store", "set: store"}}

\* However the threads interleave between the test of the size and the store
\* (deribit_person.py:54-56), the dictionary exceeds its size by less than the
\* number of threads.
SizeBound == Len(persons) + Cardinality(Storing) < MaxSize + Cardinality(Requests)

\* Persons are lost, and makers fail, only when the dictionary has been full:
\* until then whoever was stored is found (functions.py:393-404).
LostOnlyWhenFull ==
  \/ crowded
  \/ \A r \in Requests : /\ making[r] # "failed"
                         /\ making[r] \in {"get", "set", "done"} => Has(person[r])
=============================================================================
