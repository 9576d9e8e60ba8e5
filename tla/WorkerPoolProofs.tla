--------------------------- MODULE WorkerPoolProofs ---------------------------
(***************************************************************************)
(* Proofs about WorkerPool and the PersonDictionary in it: the types, the  *)
(* size of the dictionary under threads, who may be lost, and who waits.   *)
(***************************************************************************)
EXTENDS WorkerPool, SequenceTheorems, FiniteSetTheorems, TLAPS

\* A part of a sequence.
LEMMA PartTyped ==
  ASSUME NEW S, NEW s \in Seq(S), NEW n \in 0 .. Len(s)
  PROVE  /\ SubSeq(s, 1, n) \in Seq(S) /\ Len(SubSeq(s, 1, n)) = n
         /\ SubSeq(s, n + 1, Len(s)) \in Seq(S) /\ Len(SubSeq(s, n + 1, Len(s))) = Len(s) - n
  OBVIOUS

\* A sequence without one of its elements.
LEMMA RemovedTyped ==
  ASSUME NEW S, NEW s \in Seq(S), NEW i \in 1 .. Len(s)
  PROVE  RemoveAt(s, i) \in Seq(S) /\ Len(RemoveAt(s, i)) = Len(s) - 1
  <1>1. Len(s) \in Nat /\ i - 1 \in 0 .. Len(s) /\ i \in 0 .. Len(s) /\ i \in Int
    BY LenProperties
  <1> DEFINE a == SubSeq(s, 1, i - 1)
             b == SubSeq(s, i + 1, Len(s))
  <1>2. a \in Seq(S) /\ Len(a) = i - 1
    BY <1>1, PartTyped
  <1>3. b \in Seq(S) /\ Len(b) = Len(s) - i
    BY <1>1, PartTyped
  <1>4. RemoveAt(s, i) = a \o b
    BY DEF RemoveAt
  <1> HIDE DEF a, b
  <1>5. a \o b \in Seq(S) /\ Len(a \o b) = Len(a) + Len(b)
    BY <1>2, <1>3, ConcatProperties
  <1> QED BY <1>1, <1>2, <1>3, <1>4, <1>5

-----------------------------------------------------------------------------
(* The dictionary *)

\* What a thread does to the dictionary: nothing, a removal after its test, or
\* a store.
LEMMA DictionarySteps ==
  ASSUME DictTypeOK, NEW r \in Requests, Makes(r)
  PROVE  \/ /\ UNCHANGED <<persons, crowded, victim>>
            /\ making[r] \in {"away", "get"}
            /\ making' \in {[making EXCEPT ![r] = m] : m \in {"get", "add", "set", "failed"}}
         \/ /\ Full
            /\ UNCHANGED <<persons, crowded>>
            /\ making[r] \in {"add", "set"}
            /\ making' \in {[making EXCEPT ![r] = m] : m \in {"add: pop", "set: pop"}}
            /\ victim' = [victim EXCEPT ![r] = Head(persons)]
         \/ /\ ~Full
            /\ UNCHANGED <<persons, crowded, victim>>
            /\ making[r] \in {"add", "set"}
            /\ making' \in {[making EXCEPT ![r] = m] : m \in {"add: store", "set: store"}}
         \/ /\ making[r] \in {"add: pop", "set: pop"}
            /\ \/ /\ making' \in {[making EXCEPT ![r] = m] : m \in {"add: store", "set: store"}}
                  /\ \E i \in DOMAIN persons : persons' = RemoveAt(persons, i)
               \/ making' = [making EXCEPT ![r] = "failed"] /\ UNCHANGED persons
            /\ victim' = [victim EXCEPT ![r] = NoPerson]
            /\ UNCHANGED crowded
         \/ /\ making[r] \in {"add: store", "set: store"}
            /\ making' \in {[making EXCEPT ![r] = m] : m \in {"get", "done"}}
            /\ persons' = IF Has(person[r]) THEN persons ELSE Append(persons, person[r])
            /\ crowded' = (crowded \/ Len(persons') >= MaxSize)
            /\ UNCHANGED victim
  <1>1. ASSUME Looks(r) \/ Gets(r)
        PROVE  /\ UNCHANGED <<persons, crowded, victim>>
               /\ making[r] \in {"away", "get"}
               /\ making' \in {[making EXCEPT ![r] = m] : m \in {"get", "add", "set", "failed"}}
    BY <1>1 DEF Looks, Gets, Goes
  <1>2. ASSUME NEW call \in {"add", "set"}, NEW pop \in {"add: pop", "set: pop"},
               NEW store \in {"add: store", "set: store"}, Measures(r, call, pop, store)
        PROVE  /\ making[r] \in {"add", "set"}
               /\ UNCHANGED <<persons, crowded>>
               /\ \/ /\ Full
                     /\ making' \in {[making EXCEPT ![r] = m] : m \in {"add: pop", "set: pop"}}
                     /\ victim' = [victim EXCEPT ![r] = Head(persons)]
                  \/ /\ ~Full
                     /\ UNCHANGED victim
                     /\ making' \in {[making EXCEPT ![r] = m] : m \in {"add: store", "set: store"}}
    BY <1>2 DEF Measures, Goes
  <1>3. ASSUME NEW pop \in {"add: pop", "set: pop"}, NEW store \in {"add: store", "set: store"},
               Pops(r, pop, store)
        PROVE  /\ making[r] \in {"add: pop", "set: pop"}
               /\ \/ /\ making' \in {[making EXCEPT ![r] = m] : m \in {"add: store", "set: store"}}
                     /\ \E i \in DOMAIN persons : persons' = RemoveAt(persons, i)
                  \/ making' = [making EXCEPT ![r] = "failed"] /\ UNCHANGED persons
               /\ victim' = [victim EXCEPT ![r] = NoPerson]
               /\ UNCHANGED crowded
    BY <1>3 DEF Pops, Goes
  <1>4. ASSUME NEW store \in {"add: store", "set: store"}, NEW next \in {"get", "done"},
               Stores(r, store, next)
        PROVE  /\ making[r] \in {"add: store", "set: store"}
               /\ making' \in {[making EXCEPT ![r] = m] : m \in {"get", "done"}}
               /\ persons' = IF Has(person[r]) THEN persons ELSE Append(persons, person[r])
               /\ crowded' = (crowded \/ Len(persons') >= MaxSize)
               /\ UNCHANGED victim
    BY <1>4 DEF Stores, Goes
  <1>5. CASE Looks(r) \/ Gets(r)
    BY <1>1, <1>5
  <1>6. CASE Measures(r, "add", "add: pop", "add: store") \/ Measures(r, "set", "set: pop", "set: store")
    BY <1>2, <1>6
  <1>7. CASE Pops(r, "add: pop", "add: store") \/ Pops(r, "set: pop", "set: store")
    BY <1>3, <1>7
  <1>8. CASE Stores(r, "add: store", "get") \/ Stores(r, "set: store", "done")
    BY <1>4, <1>8
  <1> QED BY <1>5, <1>6, <1>7, <1>8 DEF Makes

\* The types of the dictionary.
LEMMA DictTypes ==
  ASSUME DictTypeOK, NEW r \in Requests, Makes(r)
  PROVE  DictTypeOK'
  <1> USE DictionaryAssumption
  <1>0. /\ persons \in Seq(Persons)
        /\ making \in [Requests -> Makings]
        /\ victim \in [Requests -> Persons \cup {NoPerson}]
        /\ crowded \in BOOLEAN
        /\ \A q \in Requests : making[q] \in {"add: pop", "set: pop"} => victim[q] # NoPerson
        /\ person[r] \in Persons
        /\ Len(persons) \in Nat
    BY LenProperties DEF DictTypeOK
  <1>1. CASE /\ UNCHANGED <<persons, crowded, victim>>
             /\ making' \in {[making EXCEPT ![r] = m] : m \in {"get", "add", "set", "failed",
                                                               "add: store", "set: store"}}
    BY <1>0, <1>1 DEF DictTypeOK, Makings
  <1>2. CASE /\ Full
             /\ UNCHANGED <<persons, crowded>>
             /\ making' \in {[making EXCEPT ![r] = m] : m \in {"add: pop", "set: pop"}}
             /\ victim' = [victim EXCEPT ![r] = Head(persons)]
    <2>1. persons # <<>>
      <3>1. Len(<<>>) = 0
        BY EmptySeq
      <3>2. Len(persons) \in Nat /\ MaxSize \in Nat \ {0}
        BY <1>0
      <3>3. Len(persons) >= MaxSize
        BY <1>2 DEF Full
      <3>4. Len(persons) # 0
        BY <3>2, <3>3
      <3> QED BY <3>1, <3>4
    <2>2. Head(persons) \in Persons
      BY <1>0, <2>1, HeadTailProperties
    <2> QED BY <1>0, <1>2, <2>2 DEF DictTypeOK, Makings
  <1>3. CASE /\ making' \in {[making EXCEPT ![r] = m] : m \in {"add: store", "set: store", "failed"}}
             /\ \/ UNCHANGED persons
                \/ \E i \in DOMAIN persons : persons' = RemoveAt(persons, i)
             /\ victim' = [victim EXCEPT ![r] = NoPerson]
             /\ UNCHANGED crowded
    <2>1. persons' \in Seq(Persons)
      <3>1. DOMAIN persons = 1 .. Len(persons)
        BY <1>0, LenProperties
      <3>2. CASE UNCHANGED persons
        BY <1>0, <3>2
      <3>3. CASE \E i \in DOMAIN persons : persons' = RemoveAt(persons, i)
        <4>1. PICK i \in 1 .. Len(persons) : persons' = RemoveAt(persons, i)
          BY <3>1, <3>3
        <4> QED BY <1>0, <4>1, RemovedTyped
      <3> QED BY <1>3, <3>2, <3>3
    <2> QED BY <1>0, <1>3, <2>1 DEF DictTypeOK, Makings
  <1>4. CASE /\ making' \in {[making EXCEPT ![r] = m] : m \in {"get", "done"}}
             /\ persons' = IF Has(person[r]) THEN persons ELSE Append(persons, person[r])
             /\ crowded' = (crowded \/ Len(persons') >= MaxSize)
             /\ UNCHANGED victim
    <2>1. persons' \in Seq(Persons)
      BY <1>0, <1>4, AppendProperties
    <2>2. crowded' \in BOOLEAN
      BY <1>0, <1>4
    <2> QED BY <1>0, <1>4, <2>1, <2>2 DEF DictTypeOK, Makings
  <1> QED BY <1>1, <1>2, <1>3, <1>4, DictionarySteps

\* The size stays within its bound: a thread that found room has not stored yet,
\* or its person is counted already.
LEMMA SizeStep ==
  ASSUME DictTypeOK, SizeBound, NEW r \in Requests, Makes(r)
  PROVE  SizeBound'
  <1>0. /\ persons \in Seq(Persons)
        /\ making \in [Requests -> Makings]
        /\ person[r] \in Persons
        /\ Len(persons) \in Nat
        /\ MaxSize \in Nat
    BY DictionaryAssumption, LenProperties DEF DictTypeOK
  <1>1. /\ IsFiniteSet(Requests)
        /\ IsFiniteSet(Storing)
        /\ IsFiniteSet(Storing')
        /\ Cardinality(Requests) \in Nat
        /\ Cardinality(Storing) \in Nat
        /\ Cardinality(Storing') \in Nat
        /\ Cardinality(Storing') <= Cardinality(Requests)
    <2>1. IsFiniteSet(Requests) /\ Storing \in SUBSET Requests /\ Storing' \in SUBSET Requests
      BY DictionaryAssumption DEF Storing
    <2> QED BY <2>1, FS_Subset, FS_CardinalityType
  <1>2. Len(persons) + Cardinality(Storing) < MaxSize + Cardinality(Requests)
    BY DEF SizeBound
  <1>3. ASSUME NEW m, making' = [making EXCEPT ![r] = m]
        PROVE  Storing' = IF m \in {"add: store", "set: store"} THEN Storing \cup {r} ELSE Storing \ {r}
    BY <1>0, <1>3 DEF Storing
  <1>4. /\ Cardinality(Storing \cup {r}) <= Cardinality(Storing) + 1
        /\ Cardinality(Storing \ {r}) <= Cardinality(Storing)
        /\ r \in Storing => Cardinality(Storing \ {r}) = Cardinality(Storing) - 1
    <2>1. Cardinality(Storing \cup {r}) = IF r \in Storing THEN Cardinality(Storing)
                                                         ELSE Cardinality(Storing) + 1
      BY <1>1, FS_AddElement
    <2>2. Cardinality(Storing \ {r}) = IF r \in Storing THEN Cardinality(Storing) - 1
                                                       ELSE Cardinality(Storing)
      BY <1>1, FS_RemoveElement
    <2>3. Cardinality(Storing) \in Nat
      BY <1>1
    <2> QED BY <2>1, <2>2, <2>3
  <1>5. CASE /\ UNCHANGED persons
             /\ making' \in {[making EXCEPT ![r] = m] : m \in {"get", "add", "set", "failed",
                                                               "add: pop", "set: pop"}}
    <2>1. Storing' = Storing \ {r}
      BY <1>3, <1>5
    <2>2. Cardinality(Storing') <= Cardinality(Storing)
      BY <1>4, <2>1
    <2>3. Len(persons') = Len(persons)
      BY <1>5
    <2> QED BY <1>0, <1>1, <1>2, <2>2, <2>3 DEF SizeBound
  <1>6. CASE ~Full /\ UNCHANGED persons
    BY <1>0, <1>1, <1>6 DEF SizeBound, Full
  <1>7. CASE /\ making' \in {[making EXCEPT ![r] = m] : m \in {"add: store", "set: store"}}
             /\ \E i \in DOMAIN persons : persons' = RemoveAt(persons, i)
    <2>1. Storing' = Storing \cup {r}
      BY <1>3, <1>7
    <2>2. DOMAIN persons = 1 .. Len(persons)
      BY <1>0, LenProperties
    <2>3. PICK i \in 1 .. Len(persons) : persons' = RemoveAt(persons, i)
      BY <1>7, <2>2
    <2>4. Len(persons') = Len(persons) - 1
      BY <1>0, <2>3, RemovedTyped
    <2> QED BY <1>0, <1>1, <1>2, <1>4, <2>1, <2>4 DEF SizeBound
  <1>8. CASE /\ making[r] \in {"add: store", "set: store"}
             /\ making' \in {[making EXCEPT ![r] = m] : m \in {"get", "done"}}
             /\ persons' = IF Has(person[r]) THEN persons ELSE Append(persons, person[r])
    <2>1. Storing' = Storing \ {r} /\ r \in Storing
      BY <1>3, <1>8 DEF Storing
    <2>2. Len(persons') \in {Len(persons), Len(persons) + 1}
      BY <1>0, <1>8, AppendProperties
    <2>3. Len(persons') <= Len(persons) + 1 /\ Len(persons') \in Nat
      BY <1>0, <2>2
    <2>4. Cardinality(Storing') = Cardinality(Storing) - 1
      BY <1>4, <2>1
    <2> QED BY <1>0, <1>1, <1>2, <2>3, <2>4 DEF SizeBound
  <1> QED BY <1>5, <1>6, <1>7, <1>8, DictionarySteps

\* While the dictionary has not been full there is room, nobody is about to pop
\* a key, nobody failed, and whoever was stored is found.
Roomy ==
  ~crowded =>
    /\ Len(persons) < MaxSize
    /\ \A r \in Requests : /\ making[r] \notin {"add: pop", "set: pop", "failed"}
                           /\ making[r] \in {"get", "set", "done"} => Has(person[r])

\* Every step keeps it.
LEMMA RoomyStep ==
  ASSUME DictTypeOK, Roomy, NEW r \in Requests, Makes(r)
  PROVE  Roomy'
  <1> SUFFICES ASSUME ~crowded'
               PROVE  /\ Len(persons') < MaxSize
                      /\ \A q \in Requests :
                           /\ making'[q] \notin {"add: pop", "set: pop", "failed"}
                           /\ making'[q] \in {"get", "set", "done"} => Has(person[q])'
    BY DEF Roomy
  <1>0. /\ persons \in Seq(Persons)
        /\ making \in [Requests -> Makings]
        /\ person[r] \in Persons
        /\ Len(persons) \in Nat
        /\ MaxSize \in Nat
        /\ crowded \in BOOLEAN
    BY DictionaryAssumption, LenProperties DEF DictTypeOK
  <1>1. ~crowded
    BY <1>0, DictionarySteps
  <1>2. /\ Len(persons) < MaxSize
        /\ \A q \in Requests : /\ making[q] \notin {"add: pop", "set: pop", "failed"}
                               /\ making[q] \in {"get", "set", "done"} => Has(person[q])
    BY <1>1 DEF Roomy
  <1>3. ~Full
    <2>1. Len(persons) \in Nat /\ MaxSize \in Nat
      BY <1>0
    <2>2. Len(persons) < MaxSize
      BY <1>2
    <2> QED BY <2>1, <2>2 DEF Full
  <1>4. ASSUME NEW m \in Makings, making' = [making EXCEPT ![r] = m], UNCHANGED persons,
               m \notin {"add: pop", "set: pop", "failed"},
               m \in {"get", "set", "done"} => Has(person[r])
        PROVE  /\ Len(persons') < MaxSize
               /\ \A q \in Requests :
                    /\ making'[q] \notin {"add: pop", "set: pop", "failed"}
                    /\ making'[q] \in {"get", "set", "done"} => Has(person[q])'
    <2>1. Len(persons') < MaxSize
      BY <1>2, <1>4
    <2>2. making \in [Requests -> Makings]
      BY <1>0
    <2> QED BY <1>2, <1>4, <2>1, <2>2 DEF Has
  <1>5. CASE Looks(r) \/ Gets(r)
    <2>1. making[r] = "get" => Has(person[r])
      BY <1>2
    <2>2. UNCHANGED persons
      BY <1>5 DEF Looks, Gets
    <2>3. CASE Has(person[r])
      <3>1. making' \in {[making EXCEPT ![r] = "get"], [making EXCEPT ![r] = "set"]}
        BY <1>5, <2>3 DEF Looks, Gets, Goes
      <3> QED BY <1>4, <2>2, <2>3, <3>1 DEF Makings
    <2>4. CASE ~Has(person[r])
      <3>1. making' = [making EXCEPT ![r] = "add"]
        BY <1>5, <2>1, <2>4 DEF Looks, Gets, Goes
      <3> QED BY <1>4, <2>2, <3>1 DEF Makings
    <2> QED BY <2>3, <2>4
  <1>6. CASE \/ Measures(r, "add", "add: pop", "add: store")
             \/ Measures(r, "set", "set: pop", "set: store")
    <2>1. /\ UNCHANGED persons
          /\ making' \in {[making EXCEPT ![r] = "add: store"], [making EXCEPT ![r] = "set: store"]}
      BY <1>3, <1>6 DEF Measures, Goes
    <2> QED BY <1>4, <2>1 DEF Makings
  <1>7. CASE Pops(r, "add: pop", "add: store") \/ Pops(r, "set: pop", "set: store")
    <2>1. making[r] \in {"add: pop", "set: pop"}
      BY <1>7 DEF Pops, Goes
    <2> QED BY <1>2, <2>1
  <1>8. CASE Stores(r, "add: store", "get") \/ Stores(r, "set: store", "done")
    <2>1. /\ making' \in {[making EXCEPT ![r] = m] : m \in {"get", "done"}}
          /\ persons' = IF Has(person[r]) THEN persons ELSE Append(persons, person[r])
          /\ crowded' = (crowded \/ Len(persons') >= MaxSize)
      BY <1>8 DEF Stores, Goes
    <2>2. ~(Len(persons') >= MaxSize)
      BY <2>1
    <2>3. Len(persons') \in Nat
      BY <1>0, <2>1, AppendProperties, LenProperties
    <2>4. ToSet(persons) \subseteq ToSet(persons') /\ person[r] \in ToSet(persons')
      <3>1. CASE Has(person[r])
        BY <2>1, <3>1 DEF Has
      <3>2. CASE ~Has(person[r])
        <4>1. /\ DOMAIN persons = 1 .. Len(persons)
              /\ DOMAIN persons' = 1 .. Len(persons) + 1
              /\ \A i \in 1 .. Len(persons) : persons'[i] = persons[i]
              /\ persons'[Len(persons) + 1] = person[r]
          BY <1>0, <2>1, <3>2, AppendProperties, LenProperties
        <4> QED BY <1>0, <4>1 DEF ToSet
      <3> QED BY <3>1, <3>2
    <2>5. Len(persons') < MaxSize
      <3>1. MaxSize \in Nat
        BY <1>0
      <3> QED BY <2>2, <2>3, <3>1
    <2>6. making \in [Requests -> Makings]
      BY <1>0
    <2>7. \A q \in Requests : Has(person[q]) => Has(person[q])'
      BY <2>4 DEF Has
    <2>8. Has(person[r])'
      BY <2>4 DEF Has
    <2>9. PICK m \in {"get", "done"} : making' = [making EXCEPT ![r] = m]
      BY <2>1
    <2> QED BY <1>2, <2>5, <2>6, <2>7, <2>8, <2>9
  <1> QED BY <1>5, <1>6, <1>7, <1>8 DEF Makes

-----------------------------------------------------------------------------
(* The queue of factories *)

\* The conjuncts of TypeOK about the queue and the workers.
PoolTypeOK ==
  /\ pool \in 0 .. limitations
  /\ filler \in {"top", "put", "incr", "dead"}
  /\ slot \in 0 .. limitations - 1
  /\ worker \in [Requests -> Places]
  /\ loop \in Requests \cup {NoRequest}
  /\ getter \in Requests \cup {NoRequest}
  /\ clients \in 0 .. MaxClients

\* Whoever waits has bound the queue to its loop.
Bound == \A r \in Waiting : loop = r

\* Steps of the dictionary leave the queue alone, and the other way round.
LEMMA PoolStep ==
  ASSUME PoolTypeOK, Bound, [Next]_vars
  PROVE  /\ PoolTypeOK'
         /\ Bound'
         /\ UNCHANGED dictVars \/ \E r \in Requests : Makes(r)
  <1> USE PoolAssumption
  <1>0. /\ pool \in 0 .. limitations
        /\ filler \in {"top", "put", "incr", "dead"}
        /\ slot \in 0 .. limitations - 1
        /\ worker \in [Requests -> Places]
        /\ loop \in Requests \cup {NoRequest}
        /\ getter \in Requests \cup {NoRequest}
        /\ clients \in 0 .. MaxClients
        /\ \A r \in Requests : worker[r] \in {"wait", "asleep"} => loop = r
    BY DEF PoolTypeOK, Bound, Waiting
  <1>1. ASSUME NextSlot PROVE slot' \in 0 .. limitations - 1 /\ filler' \in {"top", "put"}
    BY <1>0, <1>1 DEF NextSlot
  <1>2. CASE Fills \/ Dies
    <2>1. CASE Begins \/ Skips \/ Counts \/ Dies
      <3>1. UNCHANGED <<dictVars, pool, worker, loop, getter, clients>>
        BY <2>1 DEF Begins, Skips, Counts, Dies
      <3>2. slot' \in 0 .. limitations - 1 /\ filler' \in {"top", "put", "incr", "dead"}
        BY <1>0, <1>1, <2>1 DEF Begins, Skips, Counts, Dies
      <3> QED BY <1>0, <3>1, <3>2 DEF PoolTypeOK, Bound, Waiting
    <2>2. CASE Puts
      <3>1. /\ UNCHANGED <<dictVars, slot, loop, clients>>
            /\ pool' = pool + 1
            /\ pool < limitations
            /\ filler' = "incr"
            /\ getter' = NoRequest
        BY <2>2 DEF Puts, Room
      <3>2. \A r \in Requests : worker'[r] = worker[r] \/ worker'[r] = "test"
        BY <2>2 DEF Puts
      <3>3. worker' \in [Requests -> Places]
        BY <1>0, <2>2 DEF Puts, Places
      <3>4. \A r \in Requests : worker'[r] \in {"wait", "asleep"} => loop' = r
        BY <1>0, <3>1, <3>2
      <3> QED BY <1>0, <3>1, <3>3, <3>4 DEF PoolTypeOK, Bound, Waiting
    <2> QED BY <1>2, <2>1, <2>2 DEF Fills
  <1>3. ASSUME NEW r \in Requests, NEW from, NEW to \in Places, Moves(r, from, to),
               to \in {"wait", "asleep"} => from \in {"wait", "asleep"} \/ loop' = r,
               loop' = loop \/ (loop = NoRequest /\ loop' = r)
        PROVE  /\ worker' \in [Requests -> Places]
               /\ \A q \in Requests : worker'[q] \in {"wait", "asleep"} => loop' = q
    <2>1. worker' \in [Requests -> Places] /\ worker'[r] = to /\ worker[r] = from
      BY <1>0, <1>3 DEF Moves
    <2>2. ASSUME NEW q \in Requests, worker'[q] \in {"wait", "asleep"} PROVE loop' = q
      <3>1. CASE q = r
        BY <1>0, <1>3, <2>1, <2>2, <3>1
      <3>2. CASE q # r
        <4>1. worker'[q] = worker[q]
          BY <1>0, <1>3, <3>2 DEF Moves
        <4> QED BY <1>0, <1>3, <2>2, <4>1
      <3> QED BY <3>1, <3>2
    <2> QED BY <2>1, <2>2
  <1>4. ASSUME NEW r \in Requests, Arrives(r) \/ Works(r)
        PROVE  PoolTypeOK' /\ Bound' /\ UNCHANGED dictVars
    <2>1. UNCHANGED <<dictVars, filler, slot>>
      BY <1>4 DEF Arrives, Works, Finds, Waits, Sleeps, Refused, Takes, Searches, Equips
    <2>2. /\ pool' \in 0 .. limitations
          /\ loop' \in Requests \cup {NoRequest}
          /\ getter' \in Requests \cup {NoRequest}
      BY <1>0, <1>4 DEF Arrives, Works, Finds, Waits, Sleeps, Refused, Takes, Searches, Equips
    <2>3. clients' \in 0 .. MaxClients
      <3>1. ClientLeft \in 0 .. MaxClients
        BY <1>0 DEF ClientLeft
      <3>2. clients' \in {clients, ClientLeft}
        BY <1>4 DEF Arrives, Works, Finds, Waits, Sleeps, Refused, Takes, Searches, Equips
      <3> QED BY <1>0, <3>1, <3>2
    <2>4. /\ worker' \in [Requests -> Places]
          /\ \A q \in Requests : worker'[q] \in {"wait", "asleep"} => loop' = q
      <3>1. CASE Arrives(r) \/ Finds(r) \/ Refused(r) \/ Takes(r) \/ Searches(r) \/ Equips(r)
        <4>1. loop' = loop
          BY <3>1 DEF Arrives, Finds, Refused, Takes, Searches, Equips
        <4>2. \E from : \E to \in Places \ {"wait", "asleep"} : Moves(r, from, to)
          BY <3>1 DEF Arrives, Finds, Refused, Takes, Searches, Equips, Places
        <4> QED BY <1>3, <4>1, <4>2
      <3>2. CASE Waits(r)
        <4>1. loop' = r /\ loop \in {r, NoRequest} /\ Moves(r, "test", "wait") /\ "wait" \in Places
          BY <3>2 DEF Waits, Places
        <4> QED BY <1>3, <4>1
      <3>3. CASE Sleeps(r)
        <4>1. loop' = loop /\ Moves(r, "wait", "asleep") /\ "asleep" \in Places
          BY <3>3 DEF Sleeps, Places
        <4> QED BY <1>3, <4>1
      <3> QED BY <1>4, <3>1, <3>2, <3>3 DEF Works
    <2> QED BY <1>0, <2>1, <2>2, <2>3, <2>4 DEF PoolTypeOK, Bound, Waiting
  <1>5. ASSUME UNCHANGED poolVars PROVE PoolTypeOK' /\ Bound'
    <2>1. PoolTypeOK' = PoolTypeOK
      BY <1>5 DEF PoolTypeOK, poolVars
    <2>2. Bound' = Bound
      BY <1>5 DEF Bound, Waiting, poolVars
    <2> QED BY <2>1, <2>2
  <1>6. ASSUME UNCHANGED vars PROVE PoolTypeOK' /\ Bound'
    BY <1>5, <1>6 DEF vars, poolVars
  <1>7. UNCHANGED dictVars \/ \E r \in Requests : Makes(r)
    BY <1>2, <1>4 DEF Next, vars, Fills, Begins, Skips, Puts, Counts, Dies
  <1> QED BY <1>2, <1>4, <1>5, <1>6, <1>7 DEF Next

-----------------------------------------------------------------------------
(* The theorems *)

\* The invariants together.
IInv == DictTypeOK /\ SizeBound /\ Roomy /\ PoolTypeOK /\ Bound

\* What holds of the dictionary does not depend on the queue.
LEMMA DictFrame ==
  ASSUME UNCHANGED dictVars
  PROVE  DictTypeOK' = DictTypeOK /\ SizeBound' = SizeBound /\ Roomy' = Roomy
  BY DEF dictVars, DictTypeOK, SizeBound, Storing, Roomy, Has

\* The dictionaries that earlier requests may have left.
LEMMA InitHolds == Init => IInv
  <1> SUFFICES ASSUME Init PROVE IInv
    OBVIOUS
  <1> USE PoolAssumption, DictionaryAssumption
  <1>1. /\ persons \in Seq(Persons)
        /\ Len(persons) \in 0 .. MaxSize
    <2>1. PICK n \in 0 .. MaxSize : persons \in [1 .. n -> Persons]
      BY DEF Init, DictInit
    <2> QED BY <2>1
  <1>2. /\ making = [r \in Requests |-> "away"]
        /\ victim = [r \in Requests |-> NoPerson]
        /\ crowded = (Len(persons) = MaxSize)
    BY DEF Init, DictInit
  <1>3. DictTypeOK
    <2>1. crowded \in BOOLEAN
      BY <1>2
    <2>2. \A r \in Requests : making[r] = "away"
      BY <1>2
    <2> QED BY <1>1, <1>2, <2>1, <2>2 DEF DictTypeOK, Makings
  <1>4. SizeBound
    <2>1. Storing = {}
      BY <1>2 DEF Storing
    <2>2. Cardinality(Storing) = 0 /\ Cardinality(Requests) \in Nat /\ Cardinality(Requests) # 0
      BY <2>1, FS_EmptySet, FS_CardinalityType
    <2> QED BY <1>1, <2>2 DEF SizeBound
  <1>5. Roomy
    <2>1. Len(persons) # MaxSize => Len(persons) < MaxSize
      BY <1>1
    <2>2. \A r \in Requests : making[r] = "away"
      BY <1>2
    <2> QED BY <1>2, <2>1, <2>2 DEF Roomy
  <1>6. PoolTypeOK /\ Bound
    BY DEF Init, PoolTypeOK, Bound, Waiting, Places
  <1> QED BY <1>3, <1>4, <1>5, <1>6 DEF IInv

\* Every step keeps the invariants.
LEMMA StepHolds == IInv /\ [Next]_vars => IInv'
  <1> SUFFICES ASSUME DictTypeOK, SizeBound, Roomy, PoolTypeOK, Bound, [Next]_vars PROVE IInv'
    BY DEF IInv
  <1>1. PoolTypeOK' /\ Bound'
    BY PoolStep
  <1>2. CASE UNCHANGED dictVars
    BY <1>1, <1>2, DictFrame DEF IInv
  <1>3. ASSUME NEW r \in Requests, Makes(r) PROVE IInv'
    BY <1>1, <1>3, DictTypes, SizeStep, RoomyStep DEF IInv
  <1> QED BY <1>2, <1>3, PoolStep

\* All of them hold in every state.
THEOREM InvariantHolds == Spec => []IInv
  BY InitHolds, StepHolds, PTL DEF Spec

\* Every variable keeps its type; the queue never holds more factories than
\* lifespan() asked for (deribit_clients.py:185, 197).
THEOREM PoolTypes == Spec => []TypeOK
  <1>1. IInv => TypeOK
    BY PoolAssumption DEF IInv, TypeOK, PoolTypeOK
  <1> QED BY <1>1, InvariantHolds, PTL

\* However many threads interleave between the test of the size and the store
\* (deribit_person.py:54-56), the dictionary exceeds its size by less than
\* their number.
THEOREM SizeIsBounded == Spec => []SizeBound
  <1>1. IInv => SizeBound
    BY DEF IInv
  <1> QED BY <1>1, InvariantHolds, PTL

\* Persons are lost, and makers fail, only when the dictionary has been full
\* (functions.py:393-404).
THEOREM LostOnlyFromFull == Spec => []LostOnlyWhenFull
  <1>1. IInv => LostOnlyWhenFull
    BY DEF IInv, Roomy, LostOnlyWhenFull
  <1> QED BY <1>1, InvariantHolds, PTL

\* At most one worker ever waits for a factory (task_account_user.py:37).
THEOREM OnlyOneWaits == Spec => []OneWaits
  <1>1. IInv => OneWaits
    BY DEF IInv, Bound, OneWaits
  <1> QED BY <1>1, InvariantHolds, PTL
=============================================================================
