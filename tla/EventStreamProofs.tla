--------------------------- MODULE EventStreamProofs ---------------------------
(***************************************************************************)
(* Proofs about EventStream: the types, the lock of the manager when       *)
(* generators are cancelled, whose messages a reader is given, the length  *)
(* of its queue, the one way to a deadlock, the order of a lone reader's   *)
(* prices, and the mailbox that the records are to the others.             *)
(***************************************************************************)
EXTENDS EventStream, SequenceTheorems, TLAPS

-----------------------------------------------------------------------------
(* The inductive invariant *)

\* A generator between its scan and the end of its broadcast has a key.
Chosen ==
  \A r \in Readers :
    pc[r] \in {"fetch", "answer", "broadcast", "put", "delete", "deleted"} => data[r].key \in Keys

\* Nobody stands in the line of the lock twice.
OnceInLine == \A i, j \in DOMAIN waiters : waiters[i] = waiters[j] => i = j

\* Who waits for a queue or for a deletion has the lock.
Holding == \A r \in Readers : pc[r] \in {"put", "delete", "deleted"} => owner = r

\* The queues that a broadcast has not reached are those of its own connection.
Aimed == \A r \in Readers : pc[r] = "put" => \A c \in todo : mapped_key[c] = data[r].key

\* What the postman is about to write is a price of the database.
Postable == posting = Nothing \/ (posting.key \in Keys /\ posting.price \in 1 .. price)

LockInv  == LockNotAbandoned /\ OnceInLine /\ Holding
QueueInv == QueueBound /\ OwnMessages /\ Aimed
IInv     == TypeOK /\ Chosen /\ LockInv /\ QueueInv /\ Postable

-----------------------------------------------------------------------------
(* Sequences and steps *)

\* A sequence without one of its elements: the others stay in their order.
LEMMA Removed ==
  ASSUME NEW S, NEW s \in Seq(S), NEW i \in 1 .. Len(s)
  PROVE  /\ RemoveAt(s, i) \in Seq(S)
         /\ Len(RemoveAt(s, i)) = Len(s) - 1
         /\ \A j \in 1 .. Len(s) - 1 : RemoveAt(s, i)[j] = s[IF j < i THEN j ELSE j + 1]
  <1> DEFINE a == SubSeq(s, 1, i - 1)
             b == SubSeq(s, i + 1, Len(s))
  <1>1. Len(s) \in Nat /\ i \in Int
    BY LenProperties
  <1>2. /\ a \in Seq(S) /\ Len(a) = i - 1
        /\ \A j \in 1 .. i - 1 : a[j] = s[j]
    BY <1>1
  <1>3. /\ b \in Seq(S) /\ Len(b) = Len(s) - i
        /\ \A j \in 1 .. Len(s) - i : b[j] = s[i + j]
    BY <1>1
  <1>4. RemoveAt(s, i) = a \o b
    BY DEF RemoveAt
  <1> HIDE DEF a, b
  <1>5. /\ a \o b \in Seq(S)
        /\ Len(a \o b) = Len(a) + Len(b)
        /\ \A j \in 1 .. Len(a) + Len(b) : (a \o b)[j] = IF j <= Len(a) THEN a[j] ELSE b[j - Len(a)]
    BY <1>2, <1>3, ConcatProperties
  <1>6. ASSUME NEW j \in 1 .. Len(s) - 1
        PROVE  (a \o b)[j] = s[IF j < i THEN j ELSE j + 1]
    <2>1. CASE j < i
      BY <1>1, <1>2, <1>3, <1>5, <2>1
    <2>2. CASE ~(j < i)
      <3>1. j - Len(a) \in 1 .. Len(s) - i /\ i + (j - Len(a)) = j + 1
        BY <1>1, <1>2, <2>2
      <3>2. b[j - Len(a)] = s[j + 1]
        BY <1>3, <3>1
      <3> QED BY <1>1, <1>2, <1>3, <1>5, <2>2, <3>2
    <2> QED BY <2>1, <2>2
  <1> QED BY <1>1, <1>2, <1>3, <1>4, <1>5, <1>6

\* The lock's line when one generator comes to its end or gets to its head.
LEMMA LineGrows ==
  ASSUME waiters \in Seq(Readers), OnceInLine, NEW r \in Readers, r \notin ToSet(waiters),
         waiters' = Append(waiters, r)
  PROVE  /\ waiters' \in Seq(Readers)
         /\ OnceInLine'
         /\ ToSet(waiters') = ToSet(waiters) \cup {r}
  <1>1. /\ waiters' \in Seq(Readers)
        /\ Len(waiters') = Len(waiters) + 1
        /\ Len(waiters) \in Nat
        /\ \A i \in 1 .. Len(waiters) : waiters'[i] = waiters[i]
        /\ waiters'[Len(waiters) + 1] = r
    BY AppendProperties, LenProperties
  <1>2. \A i \in 1 .. Len(waiters) : waiters[i] # r
    BY DEF ToSet
  <1>3. OnceInLine'
    BY <1>1, <1>2 DEF OnceInLine
  <1> QED BY <1>1, <1>3 DEF ToSet

\* Its head leaves the line.
LEMMA LineShrinks ==
  ASSUME waiters \in Seq(Readers), OnceInLine, waiters # <<>>, waiters' = Tail(waiters)
  PROVE  /\ Head(waiters) \in Readers
         /\ waiters' \in Seq(Readers)
         /\ OnceInLine'
         /\ ToSet(waiters') = ToSet(waiters) \ {Head(waiters)}
  <1>1. /\ Head(waiters) = waiters[1]
        /\ Head(waiters) \in Readers
        /\ waiters' \in Seq(Readers)
        /\ Len(waiters') = Len(waiters) - 1
        /\ \A i \in 1 .. Len(waiters') : waiters'[i] = waiters[i + 1]
        /\ Len(waiters) \in Nat \ {0}
    BY HeadTailProperties, EmptySeq, LenProperties
  <1>2. OnceInLine'
    BY <1>1 DEF OnceInLine
  <1>3. ASSUME NEW x PROVE x \in ToSet(waiters') <=> x \in ToSet(waiters) /\ x # Head(waiters)
    <2>1. ASSUME x \in ToSet(waiters') PROVE x \in ToSet(waiters) /\ x # Head(waiters)
      <3>1. PICK i \in 1 .. Len(waiters') : waiters'[i] = x
        BY <2>1 DEF ToSet
      <3>2. i + 1 \in DOMAIN waiters /\ 1 \in DOMAIN waiters /\ i + 1 # 1
        BY <1>1, <3>1
      <3>3. waiters[i + 1] = x
        BY <1>1, <3>1
      <3> QED BY <1>1, <3>2, <3>3 DEF ToSet, OnceInLine
    <2>2. ASSUME x \in ToSet(waiters), x # Head(waiters) PROVE x \in ToSet(waiters')
      <3>1. PICK k \in 1 .. Len(waiters) : waiters[k] = x
        BY <2>2 DEF ToSet
      <3>2. k - 1 \in 1 .. Len(waiters') /\ waiters'[k - 1] = x
        BY <1>1, <2>2, <3>1
      <3>3. k - 1 \in DOMAIN waiters'
        BY <1>1, <3>2
      <3> QED BY <3>2, <3>3, Zenon DEF ToSet
    <2> QED BY <2>1, <2>2
  <1> QED BY <1>1, <1>2, <1>3

\* A generator leaves the line, wherever it stands.
LEMMA LineLeft ==
  ASSUME waiters \in Seq(Readers), OnceInLine, NEW r \in Readers, LeavesLine(r)
  PROVE  /\ waiters' \in Seq(Readers)
         /\ OnceInLine'
         /\ ToSet(waiters') = ToSet(waiters) \ {r}
  <1>1. CASE r \notin ToSet(waiters) /\ UNCHANGED waiters
    BY <1>1 DEF OnceInLine
  <1>2. ASSUME NEW i \in DOMAIN waiters, waiters[i] = r, waiters' = RemoveAt(waiters, i)
        PROVE  /\ waiters' \in Seq(Readers)
               /\ OnceInLine'
               /\ ToSet(waiters') = ToSet(waiters) \ {r}
    <2>1. /\ i \in 1 .. Len(waiters) /\ i \in Int
          /\ Len(waiters) \in Nat
      BY LenProperties
    <2>2. /\ waiters' \in Seq(Readers)
          /\ Len(waiters') = Len(waiters) - 1
          /\ \A j \in 1 .. Len(waiters) - 1 : waiters'[j] = waiters[IF j < i THEN j ELSE j + 1]
      BY <1>2, <2>1, Removed
    <2>3. ASSUME NEW j \in 1 .. Len(waiters) - 1, NEW k \in 1 .. Len(waiters) - 1,
                 waiters'[j] = waiters'[k]
          PROVE  j = k
      <3> DEFINE at(n) == IF n < i THEN n ELSE n + 1
      <3>1. at(j) \in DOMAIN waiters /\ at(k) \in DOMAIN waiters
        BY <2>1
      <3>2. waiters[at(j)] = waiters[at(k)]
        BY <2>2, <2>3
      <3>3. at(j) = at(k)
        BY <3>1, <3>2 DEF OnceInLine
      <3> QED BY <2>1, <3>3
    <2>4. ASSUME NEW x PROVE x \in ToSet(waiters') <=> x \in ToSet(waiters) /\ x # r
      <3>1. ASSUME x \in ToSet(waiters') PROVE x \in ToSet(waiters) /\ x # r
        BY <1>2, <2>1, <2>2, <3>1 DEF ToSet, OnceInLine
      <3>2. ASSUME x \in ToSet(waiters), x # r PROVE x \in ToSet(waiters')
        <4>1. PICK k \in 1 .. Len(waiters) : waiters[k] = x
          BY <3>2 DEF ToSet
        <4>2. k # i
          BY <1>2, <3>2, <4>1
        <4>3. CASE k < i
          <5>1. k \in 1 .. Len(waiters) - 1 /\ waiters'[k] = x
            BY <2>1, <2>2, <4>1, <4>3
          <5> QED BY <2>2, <5>1 DEF ToSet
        <4>4. CASE k > i
          <5>1. k - 1 \in 1 .. Len(waiters) - 1 /\ waiters'[k - 1] = x
            BY <2>1, <2>2, <4>1, <4>4
          <5> QED BY <2>2, <5>1 DEF ToSet
        <4> QED BY <2>1, <4>1, <4>2, <4>3, <4>4
      <3> QED BY <3>1, <3>2
    <2>5. OnceInLine'
      BY <2>1, <2>2, <2>3 DEF OnceInLine
    <2> QED BY <2>2, <2>4, <2>5
  <1> QED BY <1>1, <1>2 DEF LeavesLine

\* What the queues get from a sweep, and where it leaves the broadcast.
LEMMA Swept ==
  ASSUME TypeOK, NEW r \in Readers, NEW S \in SUBSET Readers, NEW D \in SUBSET S, Sweep(r, S, D)
  PROVE  /\ \A c \in Readers : \/ queue'[c] = queue[c]
                               \/ c \in S /\ ~Full(c) /\ queue'[c] = Append(queue[c], data[r])
         /\ queue' \in [Readers -> Seq(Messages)]
         /\ todo' \subseteq S
         /\ stuck' \in Readers \cup {NoReader}
         /\ \/ /\ owner' = NoReader
               /\ pc' = [pc EXCEPT ![r] = "receive"]
               /\ data' = [data EXCEPT ![r] = Nothing]
            \/ /\ owner' = r
               /\ pc' = [pc EXCEPT ![r] = "put"]
               /\ UNCHANGED data
  <1>1. /\ queue \in [Readers -> Seq(Messages)]
        /\ data[r] \in Messages
    BY DEF TypeOK
  <1>2. queue' = [c \in Readers |-> IF c \in D THEN Append(queue[c], data[r]) ELSE queue[c]]
    BY DEF Sweep
  <1>3. \A c \in Readers : Append(queue[c], data[r]) \in Seq(Messages)
    BY <1>1, AppendProperties
  <1>4. \A c \in D : ~Full(c)
    BY DEF Sweep
  <1>5. queue' \in [Readers -> Seq(Messages)]
    BY <1>1, <1>2, <1>3
  <1>6. \A c \in Readers : \/ queue'[c] = queue[c]
                           \/ c \in S /\ ~Full(c) /\ queue'[c] = Append(queue[c], data[r])
    BY <1>2, <1>4
  <1> HIDE DEF Messages, Full
  <1> QED BY <1>5, <1>6 DEF Sweep, EndRound

-----------------------------------------------------------------------------
(* The types *)

\* Nobody's data and nothing is well typed.
LEMMA NothingTyped == Nothing \in Messages
  BY StreamAssumption DEF Nothing, Messages

\* A key that has a record has a price that is one, or none.
LEMMA PriceTyped ==
  ASSUME TypeOK, NEW k \in Keys, NEW n \in 0 .. MaxPrice
  PROVE  /\ [key |-> k, price |-> n] \in Messages
         /\ record[k] > 0 => record[k] \in 1 .. MaxPrice
         /\ 0 \in Records /\ NoRecord \in Records /\ n \in Records
  BY StreamAssumption DEF TypeOK, Messages, Records

\* A deletion given up is one of the keys that may be late.
LEMMA LateTyped ==
  ASSUME late \subseteq Slow, NEW S \in SUBSET Readers, GiveUp(S)
  PROVE  late' \subseteq Slow
  BY DEF GiveUp

\* The initial state has the types.
LEMMA InitTyped == Init => TypeOK /\ Chosen /\ Postable
  <1> SUFFICES ASSUME Init PROVE TypeOK /\ Chosen /\ Postable
    OBVIOUS
  <1>1. NoRecord .. price \subseteq Records
    BY StreamAssumption DEF Init, Records
  <1>2. record \in [Keys -> Records] /\ price \in 0 .. MaxPrice
    BY <1>1 DEF Init
  <1>3. <<>> \in Seq(Messages) /\ <<>> \in Seq(Readers)
    BY EmptySeq
  <1> HIDE DEF Messages, Nothing
  <1>4. TypeOK
    BY <1>2, <1>3, NothingTyped, StreamAssumption DEF Init, TypeOK, Phases
  <1> QED BY <1>4 DEF Init, Chosen, Postable

\* Every step keeps the types and the keys of the generators.
LEMMA TypeStep == IInv /\ [Next]_vars => TypeOK' /\ Chosen'
  <1> SUFFICES ASSUME TypeOK, Chosen, OnceInLine, Aimed, Postable, [Next]_vars
               PROVE  TypeOK' /\ Chosen'
    BY DEF IInv, LockInv, QueueInv
  <1> USE StreamAssumption, NothingTyped
  <1>0. /\ record \in [Keys -> Records]
        /\ pc \in [Readers -> Phases]
        /\ data \in [Readers -> Messages]
        /\ queue \in [Readers -> Seq(Messages)]
        /\ waiters \in Seq(Readers)
        /\ price \in 0 .. MaxPrice
        /\ late \subseteq Slow
        /\ NoRecord \in Records
    BY DEF TypeOK, Records
  <1> HIDE DEF Messages
  <1>1. ASSUME NEW r \in Readers, Connect(r) PROVE TypeOK' /\ Chosen'
    BY <1>1 DEF Connect, Step, TypeOK, Chosen, Phases, Records, storeVars, lockVars
  <1>2. ASSUME NEW r \in Readers, Start(r) \/ HandOver(r) PROVE TypeOK' /\ Chosen'
    <2>1. waiters' = Append(waiters, r)
      BY <1>2 DEF Start, HandOver
    <2>2. waiters' \in Seq(Readers)
      BY <1>0, <2>1, AppendProperties
    <2> QED BY <1>2, <2>2 DEF Start, HandOver, Step, TypeOK, Chosen, Phases, storeVars, lockVars
  <1>3. ASSUME NEW r \in Readers, Subscribe(r) PROVE TypeOK' /\ Chosen'
    <2>1. waiters' \in Seq(Readers)
      BY <1>0, <1>3, HeadTailProperties DEF Subscribe, Admitted
    <2> QED BY <1>3, <2>1 DEF Subscribe, Step, TypeOK, Chosen, Phases, storeVars, lockVars
  <1>4. ASSUME NEW r \in Readers, Disconnected(r) \/ SkipRound(r) PROVE TypeOK' /\ Chosen'
    <2>1. \E l \in {"closed", "receive"} : pc' = [pc EXCEPT ![r] = l]
      BY <1>4 DEF Disconnected, SkipRound, Step
    <2> QED BY <1>4, <2>1 DEF Disconnected, SkipRound, TypeOK, Chosen, Phases, storeVars, lockVars
  <1>5. ASSUME NEW r \in Readers, Scan(r) PROVE TypeOK' /\ Chosen'
    <2>1. CASE EndRound(r)
      BY <1>5, <2>1 DEF Scan, EndRound, TypeOK, Chosen, Phases, storeVars, lockVars
    <2>2. ASSUME NEW k \in Keys, pc' = [pc EXCEPT ![r] = "fetch"],
                 data' = [data EXCEPT ![r] = [key |-> k, price |-> 0]]
          PROVE  TypeOK' /\ Chosen'
      <3>1. [key |-> k, price |-> 0] \in Messages
        BY <1>0, PriceTyped
      <3>2. data' \in [Readers -> Messages]
        BY <1>0, <2>2, <3>1
      <3>3. Chosen'
        BY <1>0, <2>2 DEF Chosen
      <3> QED BY <1>5, <2>2, <3>2, <3>3 DEF Scan, TypeOK, Phases, storeVars, lockVars
    <2> QED BY <1>5, <2>1, <2>2 DEF Scan, Step
  <1>6. ASSUME NEW r \in Readers, Fetch(r) PROVE TypeOK' /\ Chosen'
    <2>1. data[r].key \in Keys
      BY <1>6 DEF Fetch, Chosen
    <2>2. record[data[r].key] \in 0 .. MaxPrice
      BY <1>0, <1>6, <2>1 DEF Fetch, Records
    <2>3. /\ data' \in [Readers -> Messages]
          /\ \A q \in Readers : data'[q].key = data[q].key
      BY <1>0, <1>6, <2>2 DEF Fetch, Messages
    <2>4. Chosen'
      BY <1>0, <1>6, <2>1, <2>3 DEF Fetch, Step, Chosen
    <2> QED BY <1>6, <2>3, <2>4 DEF Fetch, Step, TypeOK, Phases, storeVars, lockVars
  <1>7. ASSUME NEW r \in Readers, FetchFails(r) PROVE TypeOK' /\ Chosen'
    BY <1>7 DEF FetchFails, EndRound, TypeOK, Chosen, Phases, storeVars, lockVars
  <1>8. ASSUME NEW r \in Readers, Broadcast(r) PROVE TypeOK' /\ Chosen'
    <2>1. waiters' \in Seq(Readers)
      BY <1>0, <1>8, HeadTailProperties DEF Broadcast, Admitted
    <2>2. PICK D \in SUBSET Audience(data[r].key) : Sweep(r, Audience(data[r].key), D)
      BY <1>8 DEF Broadcast
    <2>3. Audience(data[r].key) \in SUBSET Readers /\ pc[r] = "broadcast"
      BY <1>8 DEF Audience, TypeOK, Broadcast, Admitted
    <2>4. /\ queue' \in [Readers -> Seq(Messages)]
          /\ todo' \subseteq Readers
          /\ stuck' \in Readers \cup {NoReader}
          /\ owner' \in Readers \cup {NoReader}
          /\ \/ pc' = [pc EXCEPT ![r] = "receive"] /\ data' = [data EXCEPT ![r] = Nothing]
             \/ pc' = [pc EXCEPT ![r] = "put"] /\ UNCHANGED data
      BY <2>2, <2>3, Swept
    <2>5. pc' \in [Readers -> Phases] /\ data' \in [Readers -> Messages]
      <3>1. "receive" \in Phases /\ "put" \in Phases
        BY DEF Phases
      <3>2. pc' \in [Readers -> Phases]
        BY <1>0, <2>4, <3>1
      <3>3. data' \in [Readers -> Messages]
        BY <1>0, <2>4
      <3> QED BY <3>2, <3>3
    <2>6. Chosen'
      <3>1. CASE pc' = [pc EXCEPT ![r] = "receive"] /\ data' = [data EXCEPT ![r] = Nothing]
        BY <1>0, <3>1 DEF Chosen
      <3>2. CASE pc' = [pc EXCEPT ![r] = "put"] /\ UNCHANGED data
        BY <1>0, <2>3, <3>2 DEF Chosen
      <3> QED BY <2>4, <3>1, <3>2
    <2> QED BY <1>8, <2>1, <2>4, <2>5, <2>6 DEF Broadcast, TypeOK, storeVars
  <1>9. ASSUME NEW r \in Readers, Resume(r) PROVE TypeOK' /\ Chosen'
    <2>1. PICK D \in SUBSET todo : Sweep(r, todo, D)
      BY <1>9 DEF Resume
    <2>2. todo \in SUBSET Readers /\ pc[r] = "put"
      BY <1>9 DEF TypeOK, Resume
    <2>3. /\ queue' \in [Readers -> Seq(Messages)]
          /\ todo' \subseteq Readers
          /\ stuck' \in Readers \cup {NoReader}
          /\ owner' \in Readers \cup {NoReader}
          /\ \/ pc' = [pc EXCEPT ![r] = "receive"] /\ data' = [data EXCEPT ![r] = Nothing]
             \/ pc' = [pc EXCEPT ![r] = "put"] /\ UNCHANGED data
      BY <2>1, <2>2, Swept
    <2>4. pc' \in [Readers -> Phases] /\ data' \in [Readers -> Messages]
      <3>1. "receive" \in Phases /\ "put" \in Phases
        BY DEF Phases
      <3>2. pc' \in [Readers -> Phases]
        BY <1>0, <2>3, <3>1
      <3>3. data' \in [Readers -> Messages]
        BY <1>0, <2>3
      <3> QED BY <3>2, <3>3
    <2>5. Chosen'
      <3>1. CASE pc' = [pc EXCEPT ![r] = "receive"] /\ data' = [data EXCEPT ![r] = Nothing]
        BY <1>0, <3>1 DEF Chosen
      <3>2. CASE pc' = [pc EXCEPT ![r] = "put"] /\ UNCHANGED data
        BY <1>0, <2>2, <3>2 DEF Chosen
      <3> QED BY <2>3, <3>1, <3>2
    <2> QED BY <1>9, <2>3, <2>4, <2>5 DEF Resume, TypeOK, storeVars
  <1>10. ASSUME NEW r \in Readers, Miss(r) PROVE TypeOK' /\ Chosen'
    <2>1. waiters' \in Seq(Readers)
      BY <1>0, <1>10, HeadTailProperties DEF Miss, Admitted
    <2> QED BY <1>10, <2>1 DEF Miss, Step, TypeOK, Chosen, Phases, storeVars
  <1>11. ASSUME NEW r \in Readers, DeleteEnds(r) PROVE TypeOK' /\ Chosen'
    <2>1. late' \subseteq Slow
      BY <1>0, <1>11, LateTyped DEF DeleteEnds
    <2> QED BY <1>11, <2>1 DEF DeleteEnds, EndRound, TypeOK, Chosen, Phases
  <1>12. ASSUME NEW r \in Readers, Receive(r) PROVE TypeOK' /\ Chosen'
    <2>1. Head(queue[r]) \in Messages /\ Tail(queue[r]) \in Seq(Messages)
      BY <1>0, <1>12, HeadTailProperties DEF Receive
    <2>2. Head(queue[r]).price \in 0 .. MaxPrice
      BY <2>1 DEF Messages
    <2> QED BY <1>12, <2>1, <2>2 DEF Receive, Step, TypeOK, Chosen, Phases, storeVars, lockVars
  <1>13. ASSUME NEW r \in Readers, KeepAlive(r) PROVE TypeOK' /\ Chosen'
    BY <1>13 DEF KeepAlive, Step, TypeOK, Chosen, Phases, storeVars, lockVars
  <1>14. ASSUME NEW r \in Readers, Cancelled(r) PROVE TypeOK' /\ Chosen'
    <2>1. waiters' \in Seq(Readers)
      BY <1>0, <1>14, LineLeft DEF Cancelled
    <2>2. late' \subseteq Slow
      BY <1>0, <1>14, LateTyped DEF Cancelled
    <2>3. todo' \subseteq Readers /\ stuck' \in Readers \cup {NoReader}
          /\ owner' \in Readers \cup {NoReader}
      BY <1>14 DEF Cancelled, TypeOK
    <2>4. /\ pc' = [pc EXCEPT ![r] = "closed"]
          /\ data' = [data EXCEPT ![r] = Nothing]
      BY <1>14 DEF Cancelled
    <2> QED BY <1>14, <2>1, <2>2, <2>3, <2>4 DEF Cancelled, TypeOK, Chosen, Phases
  <1>15. ASSUME NEW r \in Readers, Leave(r) \/ TimerFires(r) PROVE TypeOK' /\ Chosen'
    BY <1>15 DEF Leave, TimerFires, TypeOK, Chosen, storeVars, lockVars
  <1>16. ASSUME NEW k \in Keys, Expire(k) \/ (k \in Slow /\ LateDelete(k))
         PROVE  TypeOK' /\ Chosen'
    <2>1. late' \subseteq Slow
      BY <1>0, <1>16 DEF Expire, LateDelete
    <2>2. record' \in {record, [record EXCEPT ![k] = NoRecord]}
      BY <1>16 DEF Expire, LateDelete
    <2>3. record' \in [Keys -> Records]
      BY <1>0, <2>2
    <2> QED BY <1>16, <2>1, <2>3 DEF Expire, LateDelete, TypeOK, Chosen, loopVars, lockVars
  <1>17. ASSUME NEW p \in Booked, PostmanReads(p) PROVE TypeOK' /\ Chosen'
    <2>1. PICK k \in Keys : posting' = [key |-> k, price |-> price]
      BY <1>17 DEF PostmanReads
    <2>2. posting' \in Messages
      BY <1>0, <2>1, PriceTyped
    <2> QED BY <1>17, <2>2 DEF PostmanReads, TypeOK, Chosen, loopVars, lockVars
  <1>18. CASE PriceArrives
    BY <1>18 DEF PriceArrives, TypeOK, Chosen, loopVars, lockVars
  <1>19. CASE PostmanWrites
    <2>1. posting.price \in Records
      BY <1>0, <1>19 DEF PostmanWrites, Postable, Records
    <2>2. record' \in [Keys -> Records]
      BY <1>0, <1>19, <2>1 DEF PostmanWrites
    <2> QED BY <1>19, <2>2 DEF PostmanWrites, TypeOK, Chosen, loopVars, lockVars
  <1>20. CASE Restart
    <2>1. late' \subseteq Slow
      BY <1>0, <1>20, LateTyped DEF Restart
    <2> QED BY <1>20, <2>1 DEF Restart, TypeOK, Chosen, Phases
  <1>21. CASE UNCHANGED vars
    BY <1>21 DEF vars, storeVars, loopVars, lockVars, TypeOK, Chosen
  <1>22. ASSUME NEW r \in Readers, RedisDeletes(r) PROVE TypeOK' /\ Chosen'
    <2>1. record' \in [Keys -> Records]
      BY <1>0, <1>22 DEF RedisDeletes, Step, Chosen
    <2> QED BY <1>22, <2>1 DEF RedisDeletes, Step, TypeOK, Chosen, Phases, lockVars
  <1> QED BY <1>1, <1>2, <1>3, <1>4, <1>5, <1>6, <1>7, <1>8, <1>9, <1>10, <1>11, <1>12, <1>13,
             <1>14, <1>15, <1>16, <1>17, <1>18, <1>19, <1>20, <1>21, <1>22
             DEF Next, Generator

-----------------------------------------------------------------------------
(* The lock *)

\* The lock at rest: nothing that a step of this kind does disturbs it.
LEMMA LockKept ==
  ASSUME TypeOK, LockInv, UNCHANGED <<owner, waiters>>,
         \A q \in Readers : \/ pc'[q] = pc[q]
                            \/ /\ pc[q] \notin {"subscribe", "broadcast", "put", "delete", "deleted"}
                               /\ pc'[q] \notin {"put", "delete", "deleted"}
  PROVE  LockInv'
  <1>1. waiters \in Seq(Readers) /\ \A i \in DOMAIN waiters : waiters[i] \in Readers
    BY ElementOfSeq DEF TypeOK
  <1> QED BY <1>1 DEF TypeOK, LockInv, LockNotAbandoned, OnceInLine, Holding

\* Who stands in line, in terms of places and of the set.
LEMMA InLine ==
  ASSUME TypeOK
  PROVE  /\ ToSet(waiters) \subseteq Readers
         /\ LockNotAbandoned <=>
              /\ owner # NoReader => pc[owner] \in {"put", "delete", "deleted"}
              /\ \A q \in ToSet(waiters) : pc[q] \in {"subscribe", "broadcast"}
  <1>1. waiters \in Seq(Readers) /\ \A i \in DOMAIN waiters : waiters[i] \in Readers
    BY ElementOfSeq DEF TypeOK
  <1> QED BY <1>1 DEF LockNotAbandoned, ToSet

\* The lock is given back, or handed to the head of its line, or left to the
\* next by one that gives up.
LEMMA LockStep == IInv /\ [Next]_vars => LockInv'
  <1> SUFFICES ASSUME IInv, [Next]_vars PROVE LockInv'
    OBVIOUS
  <1>0. /\ TypeOK
        /\ TypeOK'
        /\ LockInv
        /\ pc \in [Readers -> Phases]
        /\ waiters \in Seq(Readers)
        /\ OnceInLine
        /\ NoReader \notin Readers
        /\ owner \in Readers \cup {NoReader}
    BY TypeStep, StreamAssumption DEF IInv, LockInv, TypeOK
  <1>1. /\ ToSet(waiters) \subseteq Readers
        /\ owner # NoReader => pc[owner] \in {"put", "delete", "deleted"}
        /\ \A q \in ToSet(waiters) : pc[q] \in {"subscribe", "broadcast"}
        /\ \A q \in Readers : pc[q] \in {"put", "delete", "deleted"} => owner = q
    BY <1>0, InLine DEF LockInv, Holding
  <1>2. /\ OnceInLine'
        /\ owner' # NoReader => pc'[owner'] \in {"put", "delete", "deleted"}
        /\ \A q \in ToSet(waiters)' : pc'[q] \in {"subscribe", "broadcast"}
        /\ \A q \in Readers : pc'[q] \in {"put", "delete", "deleted"} => owner' = q
        => LockInv'
    <2>1. LockNotAbandoned' <=>
            /\ owner' # NoReader => pc'[owner'] \in {"put", "delete", "deleted"}
            /\ \A q \in ToSet(waiters)' : pc'[q] \in {"subscribe", "broadcast"}
      BY <1>0 DEF LockNotAbandoned, ToSet
    <2> QED BY <1>0, <2>1 DEF LockInv, Holding
  <1>3. ASSUME NEW r \in Readers, Connect(r) \/ Disconnected(r) \/ SkipRound(r) \/ Scan(r)
                                  \/ Fetch(r) \/ FetchFails(r) \/ Receive(r) \/ KeepAlive(r)
        PROVE  LockInv'
    <2>1. /\ UNCHANGED <<owner, waiters>>
          /\ pc[r] \notin {"subscribe", "broadcast", "put", "delete", "deleted"}
          /\ \E l \in {"accepted", "closed", "receive", "fetch", "answer", "loop"} :
               pc' = [pc EXCEPT ![r] = l]
      BY <1>3 DEF Connect, Disconnected, SkipRound, Scan, Fetch, FetchFails, Receive, KeepAlive,
                  Step, EndRound, lockVars
    <2> QED BY <1>0, <2>1, LockKept
  <1>4. ASSUME NEW r \in Readers, Leave(r) \/ TimerFires(r) PROVE LockInv'
    BY <1>0, <1>4, LockKept DEF Leave, TimerFires, lockVars
  <1>5. CASE \/ \E k \in Keys : Expire(k)
             \/ \E k \in Slow : LateDelete(k)
             \/ \E p \in Booked : PostmanReads(p)
             \/ PriceArrives \/ PostmanWrites \/ UNCHANGED vars
    <2>1. UNCHANGED <<owner, waiters, pc>>
      BY <1>5 DEF Expire, LateDelete, PostmanReads, PriceArrives, PostmanWrites, vars, loopVars, lockVars
    <2> QED BY <1>0, <2>1, LockKept
  <1>6. ASSUME NEW r \in Readers, Start(r) \/ HandOver(r) PROVE LockInv'
    <2>1. /\ UNCHANGED owner
          /\ waiters' = Append(waiters, r)
          /\ pc[r] \in {"accepted", "answer"}
          /\ \E l \in {"subscribe", "broadcast"} : pc' = [pc EXCEPT ![r] = l]
      BY <1>6 DEF Start, HandOver, Step
    <2>2. OnceInLine' /\ ToSet(waiters') = ToSet(waiters) \cup {r}
      BY <1>0, <1>1, <2>1, LineGrows
    <2> QED BY <1>0, <1>1, <1>2, <2>1, <2>2
  <1>7. ASSUME NEW r \in Readers, Subscribe(r) \/ Broadcast(r) \/ Miss(r) PROVE LockInv'
    <2>1. /\ pc[r] \in {"subscribe", "broadcast"}
          /\ owner = NoReader
          /\ waiters # <<>>
          /\ Head(waiters) = r
          /\ waiters' = Tail(waiters)
      BY <1>7 DEF Subscribe, Broadcast, Miss, Admitted
    <2>2. OnceInLine' /\ ToSet(waiters') = ToSet(waiters) \ {r}
      BY <1>0, <2>1, LineShrinks
    <2>3. \/ owner' = NoReader /\ \E l \in {"loop", "receive"} : pc' = [pc EXCEPT ![r] = l]
          \/ owner' = r /\ \E l \in {"put", "delete"} : pc' = [pc EXCEPT ![r] = l]
      BY <1>7, <2>1 DEF Subscribe, Broadcast, Miss, Step, Sweep, EndRound
    <2> QED BY <1>0, <1>1, <1>2, <2>1, <2>2, <2>3
  <1>8. ASSUME NEW r \in Readers, Resume(r) \/ DeleteEnds(r) PROVE LockInv'
    <2>1. /\ pc[r] \in {"put", "delete", "deleted"}
          /\ UNCHANGED waiters
          /\ \/ owner' = NoReader /\ pc' = [pc EXCEPT ![r] = "receive"]
             \/ owner' = r /\ pc' = [pc EXCEPT ![r] = "put"]
      BY <1>8 DEF Resume, DeleteEnds, Sweep, EndRound
    <2>2. OnceInLine' /\ ToSet(waiters)' = ToSet(waiters) /\ r \notin ToSet(waiters)
      BY <1>0, <1>1, <2>1 DEF OnceInLine
    <2> QED BY <1>0, <1>1, <1>2, <2>1, <2>2
  <1>9. ASSUME NEW r \in Readers, Cancelled(r) PROVE LockInv'
    <2>1. OnceInLine' /\ ToSet(waiters') = ToSet(waiters) \ {r}
      BY <1>0, <1>9, LineLeft DEF Cancelled
    <2>2. /\ pc' = [pc EXCEPT ![r] = "closed"]
          /\ owner' = IF owner = r THEN NoReader ELSE owner
      BY <1>9 DEF Cancelled
    <2> QED BY <1>0, <1>1, <1>2, <2>1, <2>2
  <1>10. CASE Restart
    <2>1. /\ owner' = NoReader
          /\ waiters' = <<>>
          /\ \A q \in Readers : pc'[q] \in {"away", "closed"}
      BY <1>10 DEF Restart
    <2>2. ToSet(waiters') = {} /\ OnceInLine'
      BY <2>1 DEF ToSet, OnceInLine
    <2> QED BY <1>2, <2>1, <2>2
  <1>11. ASSUME NEW r \in Readers, RedisDeletes(r) PROVE LockInv'
    <2>1. /\ pc[r] = "delete"
          /\ pc' = [pc EXCEPT ![r] = "deleted"]
          /\ UNCHANGED <<owner, waiters>>
      BY <1>11 DEF RedisDeletes, Step, lockVars
    <2>2. OnceInLine' /\ ToSet(waiters)' = ToSet(waiters) /\ r \notin ToSet(waiters)
      BY <1>0, <1>1, <2>1 DEF OnceInLine
    <2> QED BY <1>0, <1>1, <1>2, <2>1, <2>2
  <1> QED BY <1>3, <1>4, <1>5, <1>6, <1>7, <1>8, <1>9, <1>10, <1>11 DEF Next, Generator

-----------------------------------------------------------------------------
(* The queues *)

\* A sweep fills no queue beyond its bound, and only those of its connection.
LEMMA SweptBounded ==
  ASSUME TypeOK, QueueBound, OwnMessages,
         NEW r \in Readers, NEW S \in SUBSET Readers, NEW D \in SUBSET S, Sweep(r, S, D),
         \A c \in S : mapped_key[c] = data[r].key
  PROVE  QueueBound' /\ OwnMessages'
  <1>1. /\ queue \in [Readers -> Seq(Messages)]
        /\ data[r] \in Messages
        /\ QueueSize \in Nat
    BY StreamAssumption DEF TypeOK
  <1> HIDE DEF Messages
  <1>2. ASSUME NEW c \in Readers
        PROVE  /\ Len(queue'[c]) <= QueueSize
               /\ \A i \in DOMAIN queue'[c] : queue'[c][i].key = mapped_key[c]
    <2>1. Len(queue[c]) \in Nat /\ queue[c] \in Seq(Messages)
      BY <1>1, LenProperties
    <2>2. CASE queue'[c] = queue[c]
      BY <2>2 DEF QueueBound, OwnMessages
    <2>3. CASE c \in S /\ ~Full(c) /\ queue'[c] = Append(queue[c], data[r])
      <3>1. /\ Len(queue'[c]) = Len(queue[c]) + 1
            /\ DOMAIN queue'[c] = 1 .. Len(queue[c]) + 1
            /\ \A i \in 1 .. Len(queue[c]) : queue'[c][i] = queue[c][i]
            /\ queue'[c][Len(queue[c]) + 1] = data[r]
        BY <1>1, <2>1, <2>3, AppendProperties, LenProperties
      <3>2. Len(queue[c]) < QueueSize
        BY <1>1, <2>1, <2>3 DEF Full
      <3>3. \A i \in 1 .. Len(queue[c]) : queue[c][i].key = mapped_key[c]
        BY <2>1 DEF OwnMessages
      <3> QED BY <1>1, <2>1, <2>3, <3>1, <3>2, <3>3
    <2> QED BY <2>2, <2>3, Swept
  <1> QED BY <1>2 DEF QueueBound, OwnMessages

\* A message goes to the queues of its own connection, and to one with room.
LEMMA QueueStep == IInv /\ [Next]_vars => QueueInv'
  <1> SUFFICES ASSUME IInv, [Next]_vars PROVE QueueInv'
    OBVIOUS
  <1>0. /\ TypeOK
        /\ Holding
        /\ QueueBound
        /\ OwnMessages
        /\ Aimed
        /\ pc \in [Readers -> Phases]
        /\ data \in [Readers -> Messages]
        /\ queue \in [Readers -> Seq(Messages)]
        /\ NoReader \notin Readers
    BY StreamAssumption DEF IInv, LockInv, QueueInv, TypeOK
  <1> HIDE DEF Messages
  <1>1. ASSUME UNCHANGED <<queue, todo>>, NEW r \in Readers,
               \A q \in Readers \ {r} : pc'[q] = pc[q] /\ data'[q] = data[q],
               pc'[r] # "put"
        PROVE  QueueInv'
    BY <1>0, <1>1 DEF QueueInv, QueueBound, OwnMessages, Aimed
  <1>2. ASSUME UNCHANGED <<queue, todo, pc, data>> PROVE QueueInv'
    BY <1>0, <1>2 DEF QueueInv, QueueBound, OwnMessages, Aimed
  <1>3. ASSUME NEW r \in Readers, Connect(r) \/ Start(r) \/ Subscribe(r) \/ Disconnected(r)
                \/ SkipRound(r) \/ Fetch(r) \/ HandOver(r) \/ FetchFails(r) \/ Miss(r)
                \/ RedisDeletes(r) \/ DeleteEnds(r) \/ KeepAlive(r)
        PROVE  QueueInv'
    <2>1. /\ UNCHANGED <<queue, todo>>
          /\ \E l \in {"accepted", "subscribe", "loop", "closed", "receive", "answer",
                       "broadcast", "delete", "deleted"} :
               pc' = [pc EXCEPT ![r] = l]
          /\ \A q \in Readers \ {r} : data'[q] = data[q]
      BY <1>0, <1>3 DEF Connect, Start, Subscribe, Disconnected, SkipRound, Fetch, HandOver,
                        FetchFails, Miss, RedisDeletes, DeleteEnds, KeepAlive, Step,
                        EndRound, lockVars
    <2> QED BY <1>0, <1>1, <2>1
  <1>4. ASSUME NEW r \in Readers, Scan(r) PROVE QueueInv'
    <2>1. /\ UNCHANGED <<queue, todo>>
          /\ \E l \in {"receive", "fetch"} : pc' = [pc EXCEPT ![r] = l]
          /\ \A q \in Readers \ {r} : data'[q] = data[q]
      BY <1>0, <1>4 DEF Scan, Step, EndRound, lockVars
    <2> QED BY <1>0, <1>1, <2>1
  <1>5. ASSUME NEW r \in Readers, Leave(r) \/ TimerFires(r) PROVE QueueInv'
    BY <1>2, <1>5 DEF Leave, TimerFires, lockVars
  <1>6. CASE \/ \E k \in Keys : Expire(k)
             \/ \E k \in Slow : LateDelete(k)
             \/ \E p \in Booked : PostmanReads(p)
             \/ PriceArrives \/ PostmanWrites \/ UNCHANGED vars
    BY <1>2, <1>6 DEF Expire, LateDelete, PostmanReads, PriceArrives, PostmanWrites, vars,
                      loopVars, lockVars
  <1>7. ASSUME NEW r \in Readers, NEW S \in SUBSET Readers, NEW D \in SUBSET S, Sweep(r, S, D),
               \A c \in S : mapped_key[c] = data[r].key, pc[r] = "put" \/ owner = NoReader
        PROVE  QueueInv'
    <2>1. QueueBound' /\ OwnMessages'
      BY <1>0, <1>7, SweptBounded
    <2>2. todo' \subseteq S
      BY <1>0, <1>7, Swept
    <2>3. \A q \in Readers \ {r} : pc[q] # "put"
      BY <1>0, <1>7 DEF Holding
    <2>4. \/ pc' = [pc EXCEPT ![r] = "receive"]
          \/ pc' = [pc EXCEPT ![r] = "put"] /\ UNCHANGED data
      BY <1>0, <1>7, Swept
    <2> QED BY <1>0, <1>7, <2>1, <2>2, <2>3, <2>4 DEF QueueInv, Aimed
  <1>8. ASSUME NEW r \in Readers, Broadcast(r) PROVE QueueInv'
    <2>1. PICK D \in SUBSET Audience(data[r].key) : Sweep(r, Audience(data[r].key), D)
      BY <1>8 DEF Broadcast
    <2>2. /\ Audience(data[r].key) \in SUBSET Readers
          /\ \A c \in Audience(data[r].key) : mapped_key[c] = data[r].key
      BY <1>0 DEF Audience, TypeOK
    <2>3. owner = NoReader
      BY <1>8 DEF Broadcast, Admitted
    <2> QED BY <1>7, <2>1, <2>2, <2>3
  <1>9. ASSUME NEW r \in Readers, Resume(r) PROVE QueueInv'
    <2>1. PICK D \in SUBSET todo : Sweep(r, todo, D)
      BY <1>9 DEF Resume
    <2>2. /\ todo \in SUBSET Readers
          /\ pc[r] = "put"
          /\ \A c \in todo : mapped_key[c] = data[r].key
      BY <1>0, <1>9 DEF Resume, TypeOK, Aimed
    <2> QED BY <1>7, <2>1, <2>2
  <1>10. ASSUME NEW r \in Readers, Receive(r) PROVE QueueInv'
    <2>1. /\ queue' = [queue EXCEPT ![r] = Tail(@)]
          /\ pc' = [pc EXCEPT ![r] = "loop"]
          /\ UNCHANGED <<todo, data>>
          /\ queue[r] # <<>>
      BY <1>10 DEF Receive, Step, lockVars
    <2>2. /\ Len(Tail(queue[r])) = Len(queue[r]) - 1
          /\ Len(queue[r]) \in Nat
          /\ Tail(queue[r]) \in Seq(Messages)
          /\ \A i \in 1 .. Len(Tail(queue[r])) : Tail(queue[r])[i] = queue[r][i + 1]
      BY <1>0, <2>1, HeadTailProperties, LenProperties
    <2>3. /\ Len(Tail(queue[r])) <= QueueSize
          /\ \A i \in DOMAIN Tail(queue[r]) : Tail(queue[r])[i].key = mapped_key[r]
      BY <1>0, <2>2, StreamAssumption DEF QueueBound, OwnMessages
    <2>4. QueueBound' /\ OwnMessages'
      BY <1>0, <2>1, <2>3 DEF QueueBound, OwnMessages
    <2> QED BY <1>0, <2>1, <2>4 DEF QueueInv, Aimed
  <1>11. ASSUME NEW r \in Readers, Cancelled(r) PROVE QueueInv'
    <2>1. /\ UNCHANGED queue
          /\ pc' = [pc EXCEPT ![r] = "closed"]
          /\ data' = [data EXCEPT ![r] = Nothing]
          /\ todo' = todo \/ todo' = {}
      BY <1>11 DEF Cancelled
    <2> QED BY <1>0, <2>1 DEF QueueInv, QueueBound, OwnMessages, Aimed
  <1>12. CASE Restart
    <2>1. /\ queue' = [q \in Readers |-> <<>>]
          /\ todo' = {}
      BY <1>12 DEF Restart
    <2>2. Len(<<>>) = 0
      BY EmptySeq
    <2> QED BY <2>1, <2>2, StreamAssumption DEF QueueInv, QueueBound, OwnMessages, Aimed
  <1> QED BY <1>3, <1>4, <1>5, <1>6, <1>8, <1>9, <1>10, <1>11, <1>12 DEF Next, Generator

-----------------------------------------------------------------------------
(* The records *)

\* What a step may do to the records, and to what the postman holds.
LEMMA RecordStep ==
  ASSUME IInv, [Next]_vars
  PROVE  /\ \/ UNCHANGED record
            \/ UNCHANGED price /\ \E k \in Keys :
                 \/ record' = [record EXCEPT ![k] = 0]
                 \/ record' = [record EXCEPT ![k] = NoRecord]
                 \/ posting # Nothing /\ record' = [record EXCEPT ![posting.key] = posting.price]
         /\ price' = price \/ price' = price + 1
         /\ Postable'
  <1>0. /\ Chosen
        /\ Postable
        /\ price \in 0 .. MaxPrice
        /\ \A r \in Readers : mapped_key[r] \in Keys
        /\ MaxPrice \in Nat
        /\ Slow \subseteq Keys
    BY StreamAssumption DEF IInv, TypeOK
  <1>1. ASSUME UNCHANGED <<posting, price>> PROVE Postable'
    BY <1>0, <1>1 DEF Postable
  <1>2. ASSUME NEW r \in Readers, Connect(r)
        PROVE  UNCHANGED <<posting, price>> /\ \E k \in Keys : record' = [record EXCEPT ![k] = 0]
    BY <1>0, <1>2 DEF Connect
  <1>3. ASSUME NEW r \in Readers, Start(r) \/ Subscribe(r) \/ Disconnected(r) \/ SkipRound(r)
                \/ Scan(r) \/ Fetch(r) \/ HandOver(r) \/ FetchFails(r) \/ Broadcast(r)
                \/ Resume(r) \/ Miss(r) \/ DeleteEnds(r) \/ Receive(r) \/ KeepAlive(r)
                \/ Cancelled(r) \/ Leave(r) \/ TimerFires(r)
        PROVE  UNCHANGED <<record, posting, price>>
    BY <1>3 DEF Start, Subscribe, Disconnected, SkipRound, Scan, Fetch, HandOver, FetchFails,
                Broadcast, Resume, Miss, DeleteEnds, Receive, KeepAlive, Cancelled, Leave,
                TimerFires, storeVars
  <1>4. ASSUME NEW r \in Readers, RedisDeletes(r)
        PROVE  /\ UNCHANGED <<posting, price>>
               /\ \E k \in Keys : record' = [record EXCEPT ![k] = NoRecord]
    BY <1>0, <1>4 DEF RedisDeletes, Step, Chosen
  <1>5. ASSUME NEW k \in Keys, Expire(k) \/ LateDelete(k)
        PROVE  /\ UNCHANGED <<posting, price>>
               /\ record' \in {record, [record EXCEPT ![k] = NoRecord]}
    BY <1>5 DEF Expire, LateDelete
  <1>6. ASSUME NEW p \in Booked, PostmanReads(p)
        PROVE  UNCHANGED <<record, price>> /\ Postable'
    <2>1. /\ UNCHANGED <<record, price>>
          /\ price > 0
          /\ \E k \in Keys : posting' = [key |-> k, price |-> price]
      BY <1>6 DEF PostmanReads
    <2> QED BY <1>0, <2>1 DEF Postable
  <1>7. CASE PriceArrives
    <2>1. UNCHANGED <<record, posting>> /\ price' = price + 1
      BY <1>7 DEF PriceArrives
    <2> QED BY <1>0, <2>1 DEF Postable
  <1>8. CASE PostmanWrites
    <2>1. /\ UNCHANGED price
          /\ posting' = Nothing
          /\ posting # Nothing
          /\ UNCHANGED record \/ record' = [record EXCEPT ![posting.key] = posting.price]
      BY <1>8 DEF PostmanWrites
    <2> QED BY <1>0, <2>1 DEF Postable
  <1>9. CASE Restart \/ UNCHANGED vars
    <2>1. UNCHANGED <<record, posting, price>>
      BY <1>9 DEF Restart, vars, storeVars
    <2> QED BY <1>1, <2>1
  <1> QED BY <1>0, <1>1, <1>2, <1>3, <1>4, <1>5, <1>6, <1>7, <1>8, <1>9 DEF Next, Generator

-----------------------------------------------------------------------------
(* Who waits for whom *)

\* Who wants the lock stands in its line.
Queued == \A r \in Readers : pc[r] \in {"subscribe", "broadcast"} => r \in ToSet(waiters)

\* The queue a broadcast awaits is one that it has not reached ...
Awaited == \A r \in Readers : pc[r] = "put" => stuck \in todo

\* ... and that of a reader that subscribed and may be gone since.
Seated ==
  /\ todo \subseteq subscribed
  /\ \A c \in subscribed : pc[c] \notin {"away", "accepted", "subscribe"}

WaitInv == Queued /\ Awaited /\ Seated

\* A sweep leaves its broadcast at a queue of its own, or ends it.
LEMMA SweptWaits ==
  ASSUME TypeOK, NEW r \in Readers, NEW S \in SUBSET Readers, NEW D \in SUBSET S, Sweep(r, S, D)
  PROVE  \/ pc' = [pc EXCEPT ![r] = "receive"]
         \/ pc' = [pc EXCEPT ![r] = "put"] /\ stuck' \in todo'
  <1> HIDE DEF Full
  <1> QED BY DEF Sweep, EndRound

\* Every step keeps who waits for whom.
LEMMA WaitStep == IInv /\ WaitInv /\ [Next]_vars => WaitInv'
  <1> SUFFICES ASSUME IInv, WaitInv, [Next]_vars PROVE WaitInv'
    OBVIOUS
  <1>0. /\ TypeOK
        /\ Holding
        /\ OnceInLine
        /\ Queued /\ Awaited /\ Seated
        /\ pc \in [Readers -> Phases]
        /\ waiters \in Seq(Readers)
        /\ todo \subseteq Readers
        /\ subscribed \subseteq Readers
        /\ NoReader \notin Readers
    BY StreamAssumption DEF IInv, LockInv, WaitInv, TypeOK
  <1>1. /\ owner # NoReader => pc[owner] \in {"put", "delete", "deleted"}
        /\ \A q \in ToSet(waiters) : pc[q] \in {"subscribe", "broadcast"}
        /\ ToSet(waiters) \subseteq Readers
    BY <1>0, InLine DEF IInv, LockInv
  \* Steps that leave the line, the lock and the table alone.
  <1>2. ASSUME UNCHANGED <<waiters, todo, stuck, subscribed>>, NEW r \in Readers,
               \/ UNCHANGED pc
               \/ \E l \in {"accepted", "loop", "fetch", "answer", "delete", "deleted", "receive",
                           "closed"} :
                    pc' = [pc EXCEPT ![r] = l] /\ (l = "accepted" => pc[r] = "away")
        PROVE  WaitInv'
    BY <1>0, <1>2 DEF WaitInv, Queued, Awaited, Seated
  <1>3. ASSUME NEW r \in Readers, Connect(r) \/ Disconnected(r) \/ SkipRound(r)
                \/ Scan(r) \/ Fetch(r) \/ FetchFails(r) \/ RedisDeletes(r) \/ DeleteEnds(r)
                \/ Receive(r) \/ KeepAlive(r) \/ Leave(r) \/ TimerFires(r)
        PROVE  WaitInv'
    <2>1. /\ UNCHANGED <<waiters, todo, stuck, subscribed>>
          /\ \/ UNCHANGED pc
             \/ \E l \in {"accepted", "loop", "fetch", "answer", "delete", "deleted", "receive",
                         "closed"} :
                  pc' = [pc EXCEPT ![r] = l] /\ (l = "accepted" => pc[r] = "away")
      BY <1>3 DEF Connect, Disconnected, SkipRound, Scan, Fetch, FetchFails, RedisDeletes,
                  DeleteEnds, Receive, KeepAlive, Leave, TimerFires, Step, EndRound, lockVars
    <2> QED BY <1>2, <2>1
  <1>4. CASE \/ \E k \in Keys : Expire(k)
             \/ \E k \in Slow : LateDelete(k)
             \/ \E p \in Booked : PostmanReads(p)
             \/ PriceArrives \/ PostmanWrites \/ UNCHANGED vars
    <2>1. UNCHANGED <<waiters, todo, stuck, subscribed, pc>>
      BY <1>4 DEF Expire, LateDelete, PostmanReads, PriceArrives, PostmanWrites, vars, loopVars, lockVars
    <2> QED BY <1>0, <2>1 DEF WaitInv, Queued, Awaited, Seated
  <1>5. ASSUME NEW r \in Readers, Start(r) \/ HandOver(r) PROVE WaitInv'
    <2>1. /\ UNCHANGED <<todo, stuck, subscribed>>
          /\ waiters' = Append(waiters, r)
          /\ \/ pc[r] = "accepted" /\ pc' = [pc EXCEPT ![r] = "subscribe"]
             \/ pc[r] = "answer" /\ pc' = [pc EXCEPT ![r] = "broadcast"]
      BY <1>5 DEF Start, HandOver, Step
    <2>2. ToSet(waiters') = ToSet(waiters) \cup {r}
      BY <1>0, <1>1, <2>1, LineGrows
    <2> QED BY <1>0, <2>1, <2>2 DEF WaitInv, Queued, Awaited, Seated
  <1>6. ASSUME NEW r \in Readers, Subscribe(r) \/ Miss(r) \/ Broadcast(r)
        PROVE  /\ ToSet(waiters') = ToSet(waiters) \ {r}
               /\ pc[r] \in {"subscribe", "broadcast"}
               /\ \A q \in Readers : pc[q] # "put"
    <2>1. /\ pc[r] \in {"subscribe", "broadcast"}
          /\ owner = NoReader
          /\ waiters # <<>>
          /\ Head(waiters) = r
          /\ waiters' = Tail(waiters)
      BY <1>6 DEF Subscribe, Broadcast, Miss, Admitted
    <2>2. ToSet(waiters') = ToSet(waiters) \ {r}
      BY <1>0, <2>1, LineShrinks
    <2> QED BY <1>0, <2>1, <2>2 DEF Holding
  <1>7. ASSUME NEW r \in Readers, Subscribe(r) PROVE WaitInv'
    <2>1. /\ UNCHANGED <<todo, stuck>>
          /\ subscribed' = subscribed \cup {r}
          /\ pc' = [pc EXCEPT ![r] = "loop"]
      BY <1>7 DEF Subscribe, Step
    <2> QED BY <1>0, <1>6, <1>7, <2>1 DEF WaitInv, Queued, Awaited, Seated
  <1>8. ASSUME NEW r \in Readers, Miss(r) PROVE WaitInv'
    <2>1. /\ UNCHANGED <<todo, stuck, subscribed>>
          /\ pc' = [pc EXCEPT ![r] = "delete"]
      BY <1>8 DEF Miss, Step
    <2> QED BY <1>0, <1>6, <1>8, <2>1 DEF WaitInv, Queued, Awaited, Seated
  \* A broadcast that has the lock, and the queues it has not reached.
  <1>9. ASSUME NEW r \in Readers, NEW S \in SUBSET subscribed, NEW D \in SUBSET S, Sweep(r, S, D),
               pc[r] \in {"broadcast", "put"}, UNCHANGED subscribed,
               \A q \in Readers \ {r} : pc[q] # "put",
               ToSet(waiters') = ToSet(waiters) \ {r}
        PROVE  WaitInv'
    <2>1. todo' \subseteq S
      BY <1>9 DEF Sweep
    <2>2. \/ pc' = [pc EXCEPT ![r] = "receive"]
          \/ pc' = [pc EXCEPT ![r] = "put"] /\ stuck' \in todo'
      BY <1>0, <1>9, SweptWaits
    <2> QED BY <1>0, <1>9, <2>1, <2>2 DEF WaitInv, Queued, Awaited, Seated
  <1>10. ASSUME NEW r \in Readers, Broadcast(r) PROVE WaitInv'
    <2>1. PICK D \in SUBSET Audience(data[r].key) : Sweep(r, Audience(data[r].key), D)
      BY <1>10 DEF Broadcast
    <2>2. /\ Audience(data[r].key) \in SUBSET subscribed
          /\ pc[r] = "broadcast"
          /\ UNCHANGED subscribed
      BY <1>10 DEF Audience, Broadcast, Admitted
    <2> QED BY <1>6, <1>9, <1>10, <2>1, <2>2
  <1>11. ASSUME NEW r \in Readers, Resume(r) PROVE WaitInv'
    <2>1. PICK D \in SUBSET todo : Sweep(r, todo, D)
      BY <1>11 DEF Resume
    <2>2. pc[r] = "put" /\ UNCHANGED <<waiters, subscribed>>
      BY <1>11 DEF Resume
    <2>3. /\ r \notin ToSet(waiters)
          /\ \A q \in Readers \ {r} : pc[q] # "put"
      BY <1>0, <1>1, <2>2 DEF Holding
    <2>4. ToSet(waiters') = ToSet(waiters) \ {r}
      BY <2>2, <2>3
    <2> QED BY <1>0, <1>9, <2>1, <2>2, <2>3, <2>4 DEF Seated
  <1>12. ASSUME NEW r \in Readers, Cancelled(r) PROVE WaitInv'
    <2>1. ToSet(waiters') = ToSet(waiters) \ {r}
      BY <1>0, <1>12, LineLeft DEF Cancelled
    <2>2. /\ pc[r] # "away"
          /\ pc' = [pc EXCEPT ![r] = "closed"]
          /\ UNCHANGED subscribed
          /\ IF owner = r THEN todo' = {} ELSE UNCHANGED <<todo, stuck>>
      BY <1>12 DEF Cancelled
    <2> QED BY <1>0, <2>1, <2>2 DEF WaitInv, Queued, Awaited, Seated, Holding
  <1>13. CASE Restart
    BY <1>13 DEF Restart, WaitInv, Queued, Awaited, Seated
  <1> QED BY <1>3, <1>4, <1>5, <1>7, <1>8, <1>10, <1>11, <1>12, <1>13 DEF Next, Generator

\* If nobody can move and somebody runs, a broadcast awaits a full queue.
LEMMA OnlyAwaitedBlocks == IInv /\ WaitInv => OnlyFullQueuesBlock
  <1> SUFFICES ASSUME IInv, WaitInv, NEW r \in Readers, pc[r] \notin {"away", "closed"},
                      \A q \in Readers : ~CanMove(q)
               PROVE  /\ owner # NoReader
                      /\ pc[owner] = "put"
                      /\ Full(stuck)
                      /\ pc[stuck] \in {"closed", "broadcast", "put"}
    BY DEF OnlyFullQueuesBlock
  <1>0. /\ TypeOK
        /\ Holding
        /\ Queued /\ Awaited /\ Seated
        /\ pc \in [Readers -> Phases]
        /\ waiters \in Seq(Readers)
        /\ subscribed \subseteq Readers
        /\ NoReader \notin Readers
        /\ owner \in Readers \cup {NoReader}
    BY StreamAssumption DEF IInv, LockInv, WaitInv, TypeOK
  <1>1. /\ owner # NoReader => pc[owner] \in {"put", "delete", "deleted"}
        /\ \A q \in ToSet(waiters) : pc[q] \in {"subscribe", "broadcast"}
        /\ ToSet(waiters) \subseteq Readers
    BY <1>0, InLine DEF IInv, LockInv
  <1>2. \A q \in Readers : pc[q] \in {"away", "closed", "subscribe", "broadcast", "put"}
    BY <1>0 DEF CanMove, Phases
  <1>3. owner # NoReader
    <2> SUFFICES ASSUME owner = NoReader PROVE FALSE
      OBVIOUS
    <2>1. pc[r] \in {"subscribe", "broadcast"}
      BY <1>0, <1>2 DEF Holding
    <2>2. waiters # <<>>
      BY <1>0, <2>1 DEF Queued, ToSet
    <2>3. Head(waiters) \in ToSet(waiters)
      BY <1>0, <2>2, HeadTailProperties, EmptySeq, LenProperties DEF ToSet
    <2> QED BY <1>1, <2>3 DEF CanMove
  <1>4. owner \in Readers /\ pc[owner] = "put"
    BY <1>0, <1>1, <1>2, <1>3
  <1>5. Full(stuck)
    BY <1>4 DEF CanMove
  <1>6. stuck \in Readers /\ pc[stuck] \notin {"away", "accepted", "subscribe"}
    BY <1>0, <1>4 DEF Awaited, Seated
  <1> QED BY <1>2, <1>3, <1>4, <1>5, <1>6

-----------------------------------------------------------------------------
(* The order of the prices *)

\* The messages of a queue: oldest price first, none below n, none above n.
Sorted(s)   == \A i, j \in DOMAIN s : i <= j => s[i].price <= s[j].price
Above(s, n) == \A i \in DOMAIN s : n <= s[i].price
Below(s, n) == \A i \in DOMAIN s : s[i].price <= n

\* A generator carries a price for its own reader.
Handing(r) == pc[r] \in {"answer", "broadcast", "put"} /\ data[r].key = mapped_key[r]

\* What a reader got, what is queued for it and what it carries: in that order.
InOrder(r) ==
  /\ Sorted(queue[r])
  /\ Above(queue[r], received[r])
  /\ Handing(r) => received[r] <= data[r].price /\ Below(queue[r], data[r].price)

\* None of it is newer than n.
UpTo(r, n) ==
  /\ received[r] <= n
  /\ Below(queue[r], n)
  /\ Handing(r) => data[r].price <= n

\* A reader was handed nothing newer than its record, which is no newer than
\* what the postman is about to write, which is no newer than the database.
FreshInv ==
  /\ \A k \in Keys : record[k] <= price
  /\ posting # Nothing => \A k \in Keys : record[k] <= posting.price
  /\ \A r \in Readers :
       /\ InOrder(r)
       /\ UpTo(r, price)
       /\ posting # Nothing => UpTo(r, posting.price)
       /\ record[mapped_key[r]] > 0 => UpTo(r, record[mapped_key[r]])

\* A message at the end of a queue ...
LEMMA SortedAppend ==
  ASSUME NEW s \in Seq(Messages), NEW m \in Messages, Sorted(s), Below(s, m.price)
  PROVE  /\ Sorted(Append(s, m))
         /\ \A n \in Int : Above(s, n) /\ n <= m.price => Above(Append(s, m), n)
         /\ \A n \in Int : Below(s, n) /\ m.price <= n => Below(Append(s, m), n)
  <1>1. /\ Len(s) \in Nat
        /\ DOMAIN s = 1 .. Len(s)
        /\ DOMAIN Append(s, m) = 1 .. Len(s) + 1
        /\ \A i \in 1 .. Len(s) : Append(s, m)[i] = s[i]
        /\ Append(s, m)[Len(s) + 1] = m
    <2> HIDE DEF Messages
    <2> QED BY AppendProperties, LenProperties
  <1>2. m.price \in Int
    BY DEF Messages
  <1> DEFINE t == Append(s, m)
  <1> HIDE DEF t
  <1>3. /\ DOMAIN t = 1 .. Len(s) + 1
        /\ \A i \in 1 .. Len(s) : t[i] = s[i]
        /\ t[Len(s) + 1] = m
    BY <1>1 DEF t
  <1>4. \A i \in DOMAIN t : \/ i \in 1 .. Len(s) /\ i \in DOMAIN s /\ t[i] = s[i]
                            \/ i = Len(s) + 1 /\ t[i] = m
    BY <1>1, <1>3
  <1>5. ASSUME NEW i \in DOMAIN t, NEW j \in DOMAIN t, i <= j
        PROVE  t[i].price <= t[j].price
    <2>1. CASE j \in 1 .. Len(s)
      <3>1. i \in 1 .. Len(s)
        BY <1>1, <1>3, <1>5, <2>1
      <3> QED BY <1>1, <1>3, <1>5, <2>1, <3>1 DEF Sorted
    <2>2. CASE j = Len(s) + 1
      <3>1. CASE i = Len(s) + 1
        BY <1>2, <1>3, <2>2, <3>1
      <3>2. CASE i \in 1 .. Len(s)
        BY <1>1, <1>3, <2>2, <3>2 DEF Below
      <3> QED BY <1>4, <3>1, <3>2
    <2> QED BY <1>4, <2>1, <2>2
  <1>6. Sorted(t)
    BY <1>5 DEF Sorted
  <1>7. /\ \A n \in Int : Above(s, n) /\ n <= m.price => Above(t, n)
        /\ \A n \in Int : Below(s, n) /\ m.price <= n => Below(t, n)
    BY <1>4 DEF Above, Below
  <1> QED BY <1>6, <1>7 DEF t

\* ... and the one taken from its front.
LEMMA SortedTail ==
  ASSUME NEW s \in Seq(Messages), s # <<>>, Sorted(s)
  PROVE  /\ Sorted(Tail(s))
         /\ Above(Tail(s), Head(s).price)
         /\ \A n : Above(s, n) => n <= Head(s).price
         /\ \A n : Below(s, n) => Head(s).price <= n /\ Below(Tail(s), n)
  <1> DEFINE t == Tail(s)
             h == Head(s)
  <1>1. /\ Len(s) \in Nat \ {0}
        /\ DOMAIN s = 1 .. Len(s)
        /\ h = s[1]
        /\ DOMAIN t = 1 .. Len(s) - 1
        /\ \A i \in 1 .. Len(s) - 1 : t[i] = s[i + 1]
    <2> HIDE DEF Messages
    <2>1. t \in Seq(Messages) /\ Len(t) = Len(s) - 1 /\ \A i \in 1 .. Len(t) : t[i] = s[i + 1]
      BY HeadTailProperties
    <2>2. Len(s) \in Nat \ {0} /\ DOMAIN s = 1 .. Len(s) /\ h = s[1]
      BY HeadTailProperties, EmptySeq, LenProperties
    <2>3. DOMAIN t = 1 .. Len(t)
      BY <2>1, LenProperties
    <2> QED BY <2>1, <2>2, <2>3
  <1> HIDE DEF t, h
  <1>2. \A i \in DOMAIN t : i \in Int /\ i + 1 \in DOMAIN s /\ 1 <= i + 1 /\ t[i] = s[i + 1]
    BY <1>1
  <1>3. 1 \in DOMAIN s
    BY <1>1
  <1>4. Sorted(t)
    BY <1>2 DEF Sorted
  <1>5. Above(t, h.price)
    BY <1>1, <1>2, <1>3 DEF Sorted, Above
  <1>6. /\ \A n : Above(s, n) => n <= h.price
        /\ \A n : Below(s, n) => h.price <= n /\ Below(t, n)
    BY <1>1, <1>2, <1>3 DEF Above, Below
  <1> QED BY <1>4, <1>5, <1>6 DEF t, h

\* An empty queue is in any order.
LEMMA SortedEmpty == Sorted(<<>>) /\ \A n : Above(<<>>, n) /\ Below(<<>>, n)
  <1>1. DOMAIN <<>> = {}
    BY EmptySeq
  <1> QED BY <1>1 DEF Sorted, Above, Below

\* What is no newer than n is no newer than what comes after n.
LEMMA UpToMonotone ==
  ASSUME TypeOK, NEW r \in Readers, NEW n \in Int, NEW m \in Int, n <= m, UpTo(r, n)
  PROVE  UpTo(r, m)
  <1>1. /\ received[r] \in Int
        /\ data[r] \in Messages /\ queue[r] \in Seq(Messages)
        /\ \A x \in Messages : x.price \in Int
    <2>1. \A x \in Messages : x.price \in Int
      BY DEF Messages
    <2> HIDE DEF Messages
    <2> QED BY <2>1, StreamAssumption DEF TypeOK
  <1>2. \A i \in DOMAIN queue[r] : queue[r][i] \in Messages
    BY <1>1, ElementOfSeq
  <1> HIDE DEF Messages
  <1> QED BY <1>1, <1>2 DEF UpTo, Below

\* What is handed on to a lone reader stays in order, and only grows by a price
\* that is in its record.
LEMMA HandedStep ==
  ASSUME \A q, r \in Readers : q = r, IInv, FreshInv, [Next]_vars, NEW r \in Readers
  PROVE  /\ InOrder(r)'
         /\ received[r] <= received'[r]
         /\ \A n \in Int : UpTo(r, n) /\ record[mapped_key[r]] <= n => UpTo(r, n)'
  <1> DEFINE Goal == /\ InOrder(r)'
                     /\ received[r] <= received'[r]
                     /\ \A n \in Int : UpTo(r, n) /\ record[mapped_key[r]] <= n => UpTo(r, n)'
  <1> SUFFICES Goal
    OBVIOUS
  <1>0. /\ TypeOK
        /\ \A q \in Readers : q = r
        /\ Chosen /\ Aimed
        /\ InOrder(r)
        /\ UpTo(r, price)
        /\ record[mapped_key[r]] > 0 => UpTo(r, record[mapped_key[r]])
        /\ pc \in [Readers -> Phases]
        /\ data \in [Readers -> Messages]
        /\ queue \in [Readers -> Seq(Messages)]
        /\ received \in [Readers -> 0 .. MaxPrice]
        /\ received[r] \in Int
        /\ MaxPrice \in Nat
        /\ mapped_key[r] \in Keys
    BY StreamAssumption DEF IInv, QueueInv, FreshInv, TypeOK
  <1> HIDE DEF Messages, Phases
  \* Nothing is handed on, or what was carried is dropped.
  <1>1. ASSUME queue'[r] = queue[r], received'[r] = received[r],
               Handing(r)' => Handing(r) /\ data'[r].price = data[r].price
        PROVE  Goal
    BY <1>0, <1>1 DEF InOrder, UpTo
  <1>2. ASSUME NEW q \in Readers, Connect(q) \/ Start(q) \/ Subscribe(q) \/ Disconnected(q)
                \/ SkipRound(q) \/ Scan(q) \/ HandOver(q) \/ FetchFails(q) \/ Miss(q)
                \/ RedisDeletes(q) \/ DeleteEnds(q) \/ KeepAlive(q) \/ Cancelled(q) \/ Leave(q)
                \/ TimerFires(q)
        PROVE  Goal
    <2>1. q = r
      BY <1>0
    <2>2. /\ UNCHANGED <<queue, received>>
          /\ \/ UNCHANGED pc /\ UNCHANGED data
             \/ pc[r] = "answer" /\ UNCHANGED data
             \/ \E l \in {"accepted", "subscribe", "loop", "fetch", "delete", "deleted", "receive",
                         "closed"} :
                  pc' = [pc EXCEPT ![r] = l]
      BY <1>2, <2>1 DEF Connect, Start, Subscribe, Disconnected, SkipRound, Scan, HandOver,
                        FetchFails, Miss, RedisDeletes, DeleteEnds, KeepAlive, Cancelled,
                        Leave, TimerFires, Step, EndRound, lockVars
    <2>3. Handing(r)' => Handing(r) /\ data'[r].price = data[r].price
      BY <1>0, <2>2 DEF Handing
    <2> QED BY <1>1, <2>2, <2>3
  <1>3. CASE \/ \E k \in Keys : Expire(k)
             \/ \E k \in Slow : LateDelete(k)
             \/ \E p \in Booked : PostmanReads(p)
             \/ PriceArrives \/ PostmanWrites \/ UNCHANGED vars
    <2>1. UNCHANGED <<queue, received, pc, data>>
      BY <1>3 DEF Expire, LateDelete, PostmanReads, PriceArrives, PostmanWrites, vars, loopVars, lockVars
    <2> QED BY <1>1, <2>1 DEF Handing
  <1>4. ASSUME NEW q \in Readers, Fetch(q) PROVE Goal
    <2>1. q = r
      BY <1>0
    <2>2. /\ UNCHANGED <<queue, received>>
          /\ pc' = [pc EXCEPT ![r] = "answer"]
          /\ data' = [data EXCEPT ![r].price = record[data[r].key]]
          /\ record[data[r].key] > 0
      BY <1>4, <2>1 DEF Fetch, Step
    <2>3. data'[r].key = data[r].key /\ data'[r].price = record[data[r].key]
      <3>1. data'[r] = [data[r] EXCEPT !.price = record[data[r].key]]
        BY <1>0, <2>2
      <3>2. data[r] \in Messages
        BY <1>0
      <3> QED BY <3>1, <3>2 DEF Messages
    <2>4. Handing(r)' => data'[r].price = record[mapped_key[r]]
      BY <2>3 DEF Handing
    <2>5. Handing(r)' => UpTo(r, record[mapped_key[r]])
      BY <1>0, <2>2, <2>3 DEF Handing
    <2> QED BY <1>0, <2>2, <2>4, <2>5 DEF InOrder, UpTo
  \* The queue of the reader gets what is carried.
  <1>5. ASSUME NEW S \in SUBSET Readers, NEW D \in SUBSET S, Sweep(r, S, D),
               \A c \in S : mapped_key[c] = data[r].key,
               pc[r] \in {"broadcast", "put"}, UNCHANGED received
        PROVE  Goal
    <2>1. \/ queue'[r] = queue[r]
          \/ r \in S /\ queue'[r] = Append(queue[r], data[r])
      BY <1>0, <1>5, Swept
    <2>2. \/ pc' = [pc EXCEPT ![r] = "receive"]
          \/ pc' = [pc EXCEPT ![r] = "put"] /\ UNCHANGED data
      BY <1>0, <1>5, Swept
    <2>3. Handing(r)' => Handing(r) /\ data'[r].price = data[r].price
      BY <1>0, <1>5, <2>2 DEF Handing
    <2>4. CASE queue'[r] = queue[r]
      BY <1>1, <1>5, <2>3, <2>4
    <2>5. CASE r \in S /\ queue'[r] = Append(queue[r], data[r])
      <3>1. Handing(r)
        BY <1>5, <2>5 DEF Handing
      <3>2. /\ Sorted(queue[r]) /\ Below(queue[r], data[r].price)
            /\ Above(queue[r], received[r]) /\ received[r] <= data[r].price
        BY <1>0, <3>1 DEF InOrder
      <3>3. queue[r] \in Seq(Messages) /\ data[r] \in Messages /\ data[r].price \in Int
        <4>1. queue[r] \in Seq(Messages) /\ data[r] \in Messages
          BY <1>0
        <4> QED BY <4>1 DEF Messages
      <3>4. /\ Sorted(queue'[r])
            /\ \A n \in Int : Above(queue[r], n) /\ n <= data[r].price => Above(queue'[r], n)
            /\ \A n \in Int : Below(queue[r], n) /\ data[r].price <= n => Below(queue'[r], n)
        BY <2>5, <3>2, <3>3, SortedAppend
      <3>5. Above(queue'[r], received[r]) /\ Below(queue'[r], data[r].price)
        BY <1>0, <3>2, <3>3, <3>4
      <3>6. InOrder(r)'
        BY <1>5, <2>3, <3>2, <3>4, <3>5 DEF InOrder, Sorted, Above, Below
      <3>7. \A n \in Int : UpTo(r, n) => UpTo(r, n)'
        BY <1>5, <2>3, <3>1, <3>4 DEF UpTo, Below
      <3> QED BY <1>0, <1>5, <3>6, <3>7
    <2> QED BY <2>1, <2>4, <2>5
  <1>6. ASSUME NEW q \in Readers, Broadcast(q) PROVE Goal
    <2>1. q = r
      BY <1>0
    <2>2. PICK D \in SUBSET Audience(data[r].key) : Sweep(r, Audience(data[r].key), D)
      BY <1>6, <2>1 DEF Broadcast
    <2>3. /\ Audience(data[r].key) \in SUBSET Readers
          /\ \A c \in Audience(data[r].key) : mapped_key[c] = data[r].key
          /\ pc[r] = "broadcast"
          /\ UNCHANGED received
      BY <1>0, <1>6, <2>1 DEF Audience, TypeOK, Broadcast, Admitted
    <2> QED BY <1>5, <2>2, <2>3
  <1>7. ASSUME NEW q \in Readers, Resume(q) PROVE Goal
    <2>1. q = r
      BY <1>0
    <2>2. PICK D \in SUBSET todo : Sweep(r, todo, D)
      BY <1>7, <2>1 DEF Resume
    <2>3. /\ todo \in SUBSET Readers
          /\ pc[r] = "put"
          /\ \A c \in todo : mapped_key[c] = data[r].key
          /\ UNCHANGED received
      BY <1>0, <1>7, <2>1 DEF Resume, TypeOK, Aimed
    <2> QED BY <1>5, <2>2, <2>3
  <1>8. ASSUME NEW q \in Readers, Receive(q) PROVE Goal
    <2>1. q = r
      BY <1>0
    <2>2. /\ queue[r] # <<>>
          /\ queue' = [queue EXCEPT ![r] = Tail(@)]
          /\ received' = [received EXCEPT ![r] = Head(queue[r]).price]
          /\ pc' = [pc EXCEPT ![r] = "loop"]
      BY <1>8, <2>1 DEF Receive, Step
    <2>3. /\ queue'[r] = Tail(queue[r])
          /\ received'[r] = Head(queue[r]).price
          /\ ~Handing(r)'
      BY <1>0, <2>2 DEF Handing
    <2>4. queue[r] \in Seq(Messages) /\ Sorted(queue[r]) /\ Above(queue[r], received[r])
      BY <1>0 DEF InOrder
    <2>5. /\ Sorted(Tail(queue[r]))
          /\ Above(Tail(queue[r]), Head(queue[r]).price)
          /\ \A n : Above(queue[r], n) => n <= Head(queue[r]).price
          /\ \A n : Below(queue[r], n) => Head(queue[r]).price <= n /\ Below(Tail(queue[r]), n)
      BY <2>2, <2>4, SortedTail
    <2>6. InOrder(r)'
      BY <2>3, <2>5 DEF InOrder, Sorted, Above
    <2>7. \A n : UpTo(r, n) => UpTo(r, n)'
      BY <2>3, <2>5 DEF UpTo, Below
    <2> QED BY <2>3, <2>4, <2>5, <2>6, <2>7
  <1>9. CASE Restart
    <2>1. /\ queue'[r] = <<>>
          /\ UNCHANGED received
          /\ ~Handing(r)'
      BY <1>9 DEF Restart, Handing
    <2>2. InOrder(r)'
      BY <2>1, SortedEmpty DEF InOrder, Sorted, Above
    <2>3. \A n : UpTo(r, n) => UpTo(r, n)'
      BY <2>1, SortedEmpty DEF UpTo, Below
    <2> QED BY <1>0, <2>1, <2>2, <2>3
  <1> HIDE DEF Goal
  <1> QED BY <1>2, <1>3, <1>4, <1>6, <1>7, <1>8, <1>9 DEF Next, Generator

\* What the postman holds: what it held, nothing, or the latest price.
LEMMA PostingStep ==
  ASSUME [Next]_vars
  PROVE  \/ UNCHANGED posting
         \/ posting' = Nothing
         \/ UNCHANGED <<record, price>> /\ posting'.price = price
  <1>1. ASSUME NEW r \in Readers, Connect(r) \/ Generator(r) \/ Scan(r) \/ Fetch(r)
                                  \/ RedisDeletes(r) \/ Cancelled(r) \/ Leave(r) \/ TimerFires(r)
        PROVE  UNCHANGED posting
    BY <1>1 DEF Connect, Generator, Scan, Fetch, RedisDeletes, Cancelled, Leave, TimerFires, Start, Subscribe,
                Disconnected, SkipRound, FetchFails, HandOver, Broadcast, Resume, Miss, DeleteEnds,
                Receive, KeepAlive, storeVars
  <1>2. ASSUME NEW p \in Booked, PostmanReads(p)
        PROVE  UNCHANGED <<record, price>> /\ posting'.price = price
    BY <1>2 DEF PostmanReads
  <1>3. CASE PostmanWrites
    BY <1>3 DEF PostmanWrites
  <1>4. CASE \/ \E k \in Keys : Expire(k)
             \/ \E k \in Slow : LateDelete(k)
             \/ PriceArrives \/ Restart \/ UNCHANGED vars
    BY <1>4 DEF Expire, LateDelete, PriceArrives, Restart, vars, storeVars
  <1> QED BY <1>1, <1>2, <1>3, <1>4 DEF Next

\* Every step keeps the order of the prices that a lone reader is handed.
LEMMA FreshStep ==
  ASSUME \A q, r \in Readers : q = r
  PROVE  IInv /\ FreshInv /\ [Next]_vars => FreshInv' /\ \A r \in Readers : received[r] <= received'[r]
  <1> SUFFICES ASSUME IInv, FreshInv, [Next]_vars
               PROVE  FreshInv' /\ \A r \in Readers : received[r] <= received'[r]
    OBVIOUS
  <1>0. /\ TypeOK /\ TypeOK'
        /\ Postable
        /\ price \in Int /\ price' \in Int
        /\ \A k \in Keys : record[k] \in Int /\ record'[k] \in Int
        /\ \A k \in Keys : record[k] <= price
        /\ NoRecord = -1
        /\ \A r \in Readers : mapped_key[r] \in Keys
    <2>1. TypeOK /\ TypeOK' /\ Postable
      BY TypeStep DEF IInv
    <2>2. /\ record \in [Keys -> Records] /\ record' \in [Keys -> Records]
          /\ price \in 0 .. MaxPrice /\ price' \in 0 .. MaxPrice
      BY <2>1 DEF TypeOK
    <2>3. \A n \in Records \cup (0 .. MaxPrice) : n \in Int
      BY StreamAssumption DEF Records
    <2> QED BY <2>1, <2>2, <2>3, StreamAssumption DEF FreshInv
  <1>1. price <= price'
    BY <1>0, RecordStep
  <1>2. posting # Nothing => /\ posting.price \in Int /\ posting.price > 0 /\ posting.price <= price
                             /\ \A k \in Keys : record[k] <= posting.price
    BY <1>0 DEF Postable, FreshInv
  <1>3. ASSUME NEW k \in Keys
        PROVE  \/ record'[k] <= 0
               \/ record'[k] = record[k]
               \/ posting # Nothing /\ record'[k] = posting.price
    BY <1>0, RecordStep DEF TypeOK
  <1>4. \A k \in Keys : record'[k] <= price'
    <2> TAKE k \in Keys
    <2>1. 0 <= price
      BY StreamAssumption DEF IInv, TypeOK
    <2> QED BY <1>0, <1>1, <1>2, <1>3, <2>1
  <1>5. posting' # Nothing => \A k \in Keys : record'[k] <= posting'.price
    <2>1. CASE UNCHANGED posting
      BY <1>0, <1>2, <1>3, <2>1
    <2>2. CASE UNCHANGED <<record, price>> /\ posting'.price = price
      BY <1>0, <2>2
    <2> QED BY <2>1, <2>2, PostingStep
  <1>6. ASSUME NEW r \in Readers
        PROVE  /\ InOrder(r)'
               /\ received[r] <= received'[r]
               /\ UpTo(r, price)'
               /\ posting' # Nothing => UpTo(r, posting.price)'
               /\ record'[mapped_key[r]] > 0 => UpTo(r, record[mapped_key[r]])'
    <2> DEFINE k == mapped_key[r]
               Up(n) == /\ received'[r] <= n
                        /\ Below(queue'[r], n)
                        /\ Handing(r)' => data'[r].price <= n
    <2>1. InOrder(r)' /\ received[r] <= received'[r]
      BY HandedStep
    <2>2. \A n \in Int : UpTo(r, n) /\ record[k] <= n => Up(n)
      BY HandedStep DEF UpTo, Below
    <2>3. /\ k \in Keys
          /\ UpTo(r, price)
          /\ posting # Nothing => UpTo(r, posting.price)
          /\ record[k] > 0 => UpTo(r, record[k])
      BY <1>0 DEF FreshInv
    <2>4. UpTo(r, price')
      BY <1>0, <1>1, <2>3, UpToMonotone
    <2>5. Up(price')
      BY <1>0, <1>1, <2>2, <2>3, <2>4
    <2>6. Up(price)
      BY <1>0, <2>2, <2>3
    <2>7. posting # Nothing => Up(posting.price)
      BY <1>2, <2>2, <2>3
    <2>8. posting' # Nothing => Up(posting'.price)
      BY <2>6, <2>7, PostingStep
    <2>9. record'[k] > 0 => Up(record'[k])
      <3>1. CASE record'[k] <= 0
        BY <1>0, <2>3, <3>1
      <3>2. CASE record'[k] = record[k]
        BY <1>0, <2>2, <2>3, <3>2
      <3>3. CASE posting # Nothing /\ record'[k] = posting.price
        BY <2>7, <3>3
      <3> QED BY <1>3, <2>3, <3>1, <3>2, <3>3
    <2> QED BY <2>1, <2>5, <2>8, <2>9 DEF UpTo, Below
  <1> QED BY <1>4, <1>5, <1>6 DEF FreshInv

-----------------------------------------------------------------------------
(* The theorems *)

\* The invariant holds: nobody waits at first, and every step keeps it.
THEOREM InvariantHolds == Spec => []IInv
  <1>1. Init => IInv
    <2> SUFFICES ASSUME Init PROVE IInv
      OBVIOUS
    <2>1. Len(<<>>) = 0 /\ DOMAIN <<>> = {}
      BY EmptySeq
    <2>2. LockInv
      BY <2>1 DEF Init, LockInv, LockNotAbandoned, OnceInLine, Holding
    <2>3. QueueInv
      BY <2>1, StreamAssumption DEF Init, QueueInv, QueueBound, OwnMessages, Aimed
    <2> QED BY <2>2, <2>3, InitTyped DEF IInv
  <1>2. IInv /\ [Next]_vars => IInv'
    <2> SUFFICES ASSUME IInv, [Next]_vars PROVE IInv'
      OBVIOUS
    <2> QED BY TypeStep, LockStep, QueueStep, RecordStep DEF IInv
  <1> QED BY <1>1, <1>2, PTL DEF Spec

\* Types of the streams, of Redis and of the postman.
THEOREM StreamTypes == Spec => []TypeOK
  BY InvariantHolds, PTL DEF IInv

\* The lock of the manager is held by a generator that runs a broadcast, and
\* waited for by running ones, however clients come and go (functions.py:356).
THEOREM LockIsNotAbandoned == Spec => []LockNotAbandoned
  <1>1. IInv => LockNotAbandoned
    BY DEF IInv, LockInv
  <1> QED BY <1>1, InvariantHolds, PTL

\* A reader's queue holds the messages of its own connection only, for any
\* number of readers and of shared keys (functions.py:316-320).
THEOREM MessagesAreOwn == Spec => []OwnMessages
  <1>1. IInv => OwnMessages
    BY DEF IInv, QueueInv
  <1> QED BY <1>1, InvariantHolds, PTL

\* A queue holds at most DERIBIT_QUEUE_SIZE messages (sse_manager.py:39, 92).
THEOREM QueuesAreBounded == Spec => []QueueBound
  <1>1. IInv => QueueBound
    BY DEF IInv, QueueInv
  <1> QED BY <1>1, InvariantHolds, PTL

\* The generators never all wait for each other, unless a broadcast awaits the
\* full queue of a reader that is gone, broadcasts or waits to: for any number of
\* connections and any size of the queues (sse_manager.py:79, 99).
THEOREM OnlyAFullQueueBlocks == Spec => []OnlyFullQueuesBlock
  <1>1. Init => WaitInv
    BY DEF Init, WaitInv, Queued, Awaited, Seated
  <1>2. Spec => []WaitInv
    BY <1>1, WaitStep, InvariantHolds, PTL DEF Spec
  <1> QED BY <1>2, OnlyAwaitedBlocks, InvariantHolds, PTL

\* A lone client is never sent an older price after a newer one, whatever the
\* keys in Redis, the prices, restarts and expiries: between Redis and a lone
\* reader, one generator alone carries the prices (functions.py:316-339).
THEOREM LoneReaderIsFresh ==
  ASSUME \A q, r \in Readers : q = r
  PROVE  Spec => Fresh
  <1>1. Init => FreshInv
    <2> SUFFICES ASSUME Init PROVE FreshInv
      OBVIOUS
    <2>1. /\ \A k \in Keys : record[k] \in -1 .. price
          /\ price \in 0 .. MaxPrice
          /\ posting = Nothing
          /\ \A r \in Readers : mapped_key[r] \in Keys
      BY StreamAssumption DEF Init
    <2>2. \A r \in Readers : queue[r] = <<>> /\ received[r] = 0 /\ ~Handing(r)
      BY DEF Init, Handing
    <2>3. \A r \in Readers : InOrder(r) /\ \A n \in Nat : UpTo(r, n)
      BY <2>2, SortedEmpty DEF InOrder, UpTo
    <2> QED BY <2>1, <2>3 DEF FreshInv
  <1>2. Spec => []FreshInv
    BY <1>1, FreshStep, InvariantHolds, PTL DEF Spec
  <1>3. IInv /\ FreshInv /\ [Next]_vars => [\A r \in Readers : received'[r] >= received[r]]_vars
    <2> SUFFICES ASSUME IInv, FreshInv, [Next]_vars, NEW r \in Readers
                 PROVE  received'[r] >= received[r]
      OBVIOUS
    <2>1. TypeOK /\ TypeOK'
      BY TypeStep DEF IInv
    <2>2. received[r] \in Int /\ received'[r] \in Int
      BY <2>1 DEF TypeOK
    <2>3. received[r] <= received'[r]
      BY FreshStep
    <2> QED BY <2>2, <2>3
  <1> QED BY <1>2, <1>3, InvariantHolds, PTL DEF Spec, Fresh

\* A step of the streams or of their environment is a step of the mailbox or
\* leaves it alone.
LEMMA MailboxStep == IInv /\ [Next]_vars => [Box!Next]_(Box!vars)
  <1> SUFFICES ASSUME IInv, [Next]_vars PROVE Box!Next \/ UNCHANGED Box!vars
    OBVIOUS
  <1> DEFINE Shown(n) == [ticker |-> IF n > 0 THEN "ticker" ELSE "none", row |-> n]
             box  == [k \in Keys |-> Shown(record[k])]
             rows == [t \in {"ticker"} |-> price]
  <1>0. /\ record \in [Keys -> Records]
        /\ price \in Nat
        /\ NoRecord = -1
        /\ Postable
    BY StreamAssumption DEF IInv, TypeOK
  <1>1. ASSUME NEW k \in Keys, NEW n, record' = [record EXCEPT ![k] = n]
        PROVE  box' = [box EXCEPT ![k] = Shown(n)]
    BY <1>0, <1>1
  <1>2. CASE UNCHANGED <<record, price>>
    BY <1>2 DEF Box!vars
  <1>3. CASE UNCHANGED record /\ price' = price + 1
    <2>1. Box!NewRow("ticker")
      BY <1>3 DEF Box!NewRow
    <2> QED BY <2>1 DEF Box!Next
  <1>4. ASSUME NEW k \in Keys, record' = [record EXCEPT ![k] = 0], UNCHANGED price
        PROVE  Box!Next
    <2>1. box' = [box EXCEPT ![k] = Shown(0)]
      BY <1>1, <1>4
    <2>2. Shown(0) = [ticker |-> "none", row |-> 0]
      OBVIOUS
    <2>3. box' = [box EXCEPT ![k] = [ticker |-> "none", row |-> 0]]
      BY <2>1, <2>2
    <2>4. Box!Put(k)
      BY <1>4, <2>3 DEF Box!Put
    <2> QED BY <2>4 DEF Box!Next
  <1>5. ASSUME NEW k \in Keys, record' = [record EXCEPT ![k] = NoRecord], UNCHANGED price
        PROVE  Box!Next
    <2>1. box' = [box EXCEPT ![k] = Shown(NoRecord)]
      BY <1>1, <1>5
    <2>2. Shown(NoRecord) = [ticker |-> "none", row |-> NoRecord]
      BY <1>0
    <2>3. box' = [box EXCEPT ![k] = [ticker |-> "none", row |-> NoRecord]]
      BY <2>1, <2>2
    <2>4. Box!Drop(k)
      BY <1>5, <2>3 DEF Box!Drop
    <2> QED BY <2>4 DEF Box!Next
  <1>6. ASSUME posting # Nothing, record' = [record EXCEPT ![posting.key] = posting.price],
               UNCHANGED price
        PROVE  Box!Next
    <2>1. posting.key \in Keys /\ posting.price \in 1 .. price
      BY <1>0, <1>6 DEF Postable
    <2> DEFINE k == posting.key
               n == posting.price
    <2>2. box' = [box EXCEPT ![k] = Shown(n)]
      BY <1>1, <1>6, <2>1
    <2>3. Shown(n) = [ticker |-> "ticker", row |-> n]
      BY <2>1, <1>0
    <2>4. box' = [box EXCEPT ![k] = [ticker |-> "ticker", row |-> n]]
      BY <2>2, <2>3
    <2>5. n \in 1 .. price /\ n <= price
      BY <1>0, <2>1
    <2> HIDE DEF k, n
    <2>6. k \in Keys
      BY <2>1 DEF k
    <2>7. \E t \in {"ticker"} : \E m \in 1 .. rows[t] : Box!Fill(k, t, m)
      BY <1>6, <2>4, <2>5 DEF Box!Fill
    <2> QED BY <2>6, <2>7 DEF Box!Next
  <1> QED BY <1>2, <1>3, <1>4, <1>5, <1>6, RecordStep

\* To each other and to the postman the streams are users of a mailbox: a
\* record holds nothing or a price that the database has (functions.py:316-334,
\* task_send_every_60_seconds.py:224).
THEOREM StreamsImplementMailbox == Spec => Mailed
  <1>1. Init => Box!Init
    <2> SUFFICES ASSUME Init PROVE Box!Init
      OBVIOUS
    <2>1. /\ record \in [Keys -> NoRecord .. price]
          /\ price \in Nat
          /\ NoRecord = -1
      BY StreamAssumption DEF Init
    <2>2. ASSUME NEW n \in -1 .. price
          PROVE  \/ n = -1 \/ n = 0
                 \/ [ticker |-> "ticker", row |-> n] \in Box!Prices /\ n <= price /\ n > 0
      BY <2>1 DEF Box!Prices
    <2> QED BY <2>1, <2>2 DEF Box!Init
  <1> QED BY <1>1, MailboxStep, InvariantHolds, PTL DEF Spec, Mailed, Box!Spec
=============================================================================
