------------------------- MODULE RequestQueueProofs -------------------------
(***************************************************************************)
(* Proofs about RequestQueue: the types, that no request is lost, doubled  *)
(* or overtaken on its way to the workers (NoneLost), what a returned      *)
(* enqueue() has achieved (ReturnedIsQueued), and how requests are served. *)
(***************************************************************************)
EXTENDS RequestQueue, SequenceTheorems, TLAPS

\* A prefix and the rest of a sequence, as PutAll cuts it.
LEMMA Cut ==
  ASSUME NEW S, NEW s \in Seq(S), NEW n \in 0 .. Len(s)
  PROVE  /\ SubSeq(s, 1, n) \in Seq(S)
         /\ SubSeq(s, n + 1, Len(s)) \in Seq(S)
         /\ Len(SubSeq(s, 1, n)) = n
         /\ n = Len(s) => SubSeq(s, 1, n) = s /\ SubSeq(s, n + 1, Len(s)) = <<>>
  OBVIOUS

\* Taking the head of the second of two sequences to the end of the first one
\* leaves their concatenation as it is.
LEMMA Shift ==
  ASSUME NEW S, NEW s \in Seq(S), NEW t \in Seq(S), t # <<>>
  PROVE  Append(s, Head(t)) \o Tail(t) = s \o t
  <1>1. /\ Head(t) \in S
        /\ Tail(t) \in Seq(S)
        /\ Len(Tail(t)) = Len(t) - 1
        /\ \A i \in 1 .. Len(Tail(t)) : Tail(t)[i] = t[i + 1]
    BY HeadTailProperties
  <1>2. Append(s, Head(t)) \in Seq(S)
    BY <1>1
  <1> DEFINE a == Append(s, Head(t)) \o Tail(t)
             b == s \o t
  <1>3. /\ a \in Seq(S)
        /\ b \in Seq(S)
        /\ Len(a) = Len(b)
    BY <1>1, <1>2
  <1>4. ASSUME NEW i \in 1 .. Len(a) PROVE a[i] = b[i]
    BY <1>1, <1>2
  <1> HIDE DEF a, b
  <1>5. a = b
    BY <1>3, <1>4, SeqEqual
  <1> QED BY <1>5 DEF a, b

\* Appending to the second of two sequences appends to their concatenation.
LEMMA AppendLast ==
  ASSUME NEW S, NEW s \in Seq(S), NEW t \in Seq(S), NEW e \in S
  PROVE  s \o Append(t, e) = Append(s \o t, e)
  <1> DEFINE a == s \o Append(t, e)
             b == Append(s \o t, e)
  <1>1. /\ a \in Seq(S)
        /\ b \in Seq(S)
        /\ Len(a) = Len(b)
    OBVIOUS
  <1>2. ASSUME NEW i \in 1 .. Len(a) PROVE a[i] = b[i]
    OBVIOUS
  <1> HIDE DEF a, b
  <1>3. a = b
    BY <1>1, <1>2, SeqEqual
  <1> QED BY <1>3 DEF a, b

-----------------------------------------------------------------------------

\* PutAll, handed a sequence of keys, changes the queue, the keys left and the
\* deque in one of two ways: all the keys fit, or r awaits a full queue.
LEMMA PutAllCases ==
  ASSUME TypeOK, NEW r \in Requests, NEW s \in Seq(Requests), PutAll(r, s)
  PROVE  /\ queue' \in Seq(Requests)
         /\ Len(queue') <= QueueSize
         /\ left' \in [Requests -> Seq(Requests)]
         /\ \/ /\ queue' = queue \o s
               /\ left' = [left EXCEPT ![r] = <<>>]
               /\ postman' = <<>>
               /\ pc' = [pc EXCEPT ![r] = "done"]
               /\ jammed' = jammed
            \/ /\ \A q \in Requests \ {r} : left'[q] = left[q]
               /\ postman' = postman
               /\ pc' = [pc EXCEPT ![r] = "put"]
               /\ jammed' = TRUE
  <1> DEFINE n == Min2(Len(s), QueueSize - Len(queue))
  <1>1. /\ queue \in Seq(Requests)
        /\ Len(queue) \in 0 .. QueueSize
        /\ left \in [Requests -> Seq(Requests)]
        /\ Len(s) \in Nat
    BY DEF TypeOK
  <1>2. n \in 0 .. Len(s) /\ n <= QueueSize - Len(queue)
    BY <1>1, QueueAssumption DEF Min2
  <1>3. /\ queue' = queue \o SubSeq(s, 1, n)
        /\ left' = [left EXCEPT ![r] = SubSeq(s, n + 1, Len(s))]
        /\ IF n = Len(s)
           THEN postman' = <<>> /\ pc' = [pc EXCEPT ![r] = "done"] /\ jammed' = jammed
           ELSE postman' = postman /\ pc' = [pc EXCEPT ![r] = "put"] /\ jammed' = TRUE
    BY DEF PutAll
  <1> HIDE DEF n
  <1>4. /\ SubSeq(s, 1, n) \in Seq(Requests)
        /\ SubSeq(s, n + 1, Len(s)) \in Seq(Requests)
        /\ Len(SubSeq(s, 1, n)) = n
        /\ n = Len(s) => SubSeq(s, 1, n) = s /\ SubSeq(s, n + 1, Len(s)) = <<>>
    BY <1>2, Cut
  <1>5. queue' \in Seq(Requests) /\ Len(queue') = Len(queue) + n
    BY <1>1, <1>3, <1>4, ConcatProperties
  <1>6. Len(queue') <= QueueSize
    BY <1>1, <1>2, <1>5, QueueAssumption
  <1>7. left' \in [Requests -> Seq(Requests)]
    BY <1>1, <1>3, <1>4
  <1>8. CASE n = Len(s)
    BY <1>3, <1>4, <1>5, <1>6, <1>7, <1>8
  <1>9. CASE n # Len(s)
    BY <1>1, <1>3, <1>5, <1>6, <1>7, <1>9
  <1> QED BY <1>8, <1>9

\* The types are kept by every step (clearing the deque, filling the queue and
\* awaiting it included).
LEMMA TypeStep == TypeOK /\ [Next]_vars => TypeOK'
  <1> SUFFICES ASSUME TypeOK, [Next]_vars PROVE TypeOK'
    OBVIOUS
  <1> USE QueueAssumption
  <1>1. ASSUME NEW r \in Requests, Enqueue(r) PROVE TypeOK'
    <2>1. postman' \in Seq(Requests) /\ called' \in Seq(Requests)
      BY <1>1 DEF TypeOK, Enqueue
    <2>2. ToSet(postman') \subseteq Requests
      BY <2>1, LenProperties, ElementOfSeq DEF ToSet
    <2>3. writing' \in [Requests -> SUBSET Requests]
      BY <1>1, <2>2 DEF TypeOK, Enqueue
    <2> QED BY <1>1, <2>1, <2>3 DEF TypeOK, Enqueue, workVars
  <1>2. ASSUME NEW r \in Requests, NEW k \in Requests, Written(r, k) PROVE TypeOK'
    BY <1>2 DEF TypeOK, Written, workVars
  <1>3. ASSUME NEW r \in Requests, GatherFails(r) PROVE TypeOK'
    BY <1>3 DEF TypeOK, GatherFails, workVars
  <1>4. ASSUME NEW r \in Requests, NEW s \in Seq(Requests), PutAll(r, s),
               UNCHANGED <<writing, stored, called, workVars>>
        PROVE  TypeOK'
    <2>1. /\ queue' \in Seq(Requests)
          /\ Len(queue') <= QueueSize
          /\ left' \in [Requests -> Seq(Requests)]
      BY <1>4, PutAllCases
    <2>2. \/ /\ left' = [left EXCEPT ![r] = <<>>]
             /\ postman' = <<>>
             /\ pc' = [pc EXCEPT ![r] = "done"]
             /\ jammed' = jammed
          \/ /\ \A q \in Requests \ {r} : left'[q] = left[q]
             /\ postman' = postman
             /\ pc' = [pc EXCEPT ![r] = "put"]
             /\ jammed' = TRUE
      BY <1>4, PutAllCases
    <2>3. /\ postman' \in Seq(Requests)
          /\ pc' \in [Requests -> {"new", "gather", "put", "done", "failed"}]
          /\ jammed' \in BOOLEAN
      <3>1. /\ <<>> \in Seq(Requests)
            /\ postman \in Seq(Requests)
            /\ pc \in [Requests -> {"new", "gather", "put", "done", "failed"}]
            /\ jammed \in BOOLEAN
        BY EmptySeq DEF TypeOK
      <3>2. CASE postman' = <<>> /\ pc' = [pc EXCEPT ![r] = "done"] /\ jammed' = jammed
        BY <3>1, <3>2
      <3>3. CASE postman' = postman /\ pc' = [pc EXCEPT ![r] = "put"] /\ jammed' = TRUE
        BY <3>1, <3>3
      <3> QED BY <2>2, <3>2, <3>3
    <2>4. \A q \in Requests : /\ left'[q] # <<>> => pc'[q] = "put"
                              /\ pc'[q] = "put" => jammed'
      <3>1. /\ left \in [Requests -> Seq(Requests)]
            /\ pc \in [Requests -> {"new", "gather", "put", "done", "failed"}]
            /\ \A q \in Requests : /\ left[q] # <<>> => pc[q] = "put"
                                   /\ pc[q] = "put" => jammed
        BY DEF TypeOK
      <3> TAKE q \in Requests
      <3>2. CASE q = r
        BY <2>2, <3>1, <3>2
      <3>3. CASE q # r
        BY <2>2, <3>1, <3>3
      <3> QED BY <3>2, <3>3
    <2> QED BY <1>4, <2>1, <2>3, <2>4 DEF TypeOK, workVars
  <1>5. ASSUME NEW r \in Requests, Gathered(r) PROVE TypeOK'
    <2>1. postman \in Seq(Requests)
      BY DEF TypeOK
    <2> QED BY <1>4, <1>5, <2>1 DEF Gathered
  <1>6. ASSUME NEW r \in Requests, PutMore(r) PROVE TypeOK'
    <2>1. left[r] \in Seq(Requests)
      BY DEF TypeOK
    <2> QED BY <1>4, <1>6, <2>1 DEF PutMore
  <1>7. ASSUME NEW w \in Requests, Start(w) \/ Check(w) \/ Hang(w) PROVE TypeOK'
    <2>1. \E l \in {"over", "check", "take", "hung"} : worker' = [worker EXCEPT ![w] = l]
      BY <1>7 DEF Start, Check, Hang
    <2> QED BY <1>7, <2>1 DEF TypeOK, Start, Check, Hang, sendVars
  <1>8. ASSUME NEW w \in Requests, Take(w) PROVE TypeOK'
    <2>1. /\ Head(queue) \in Requests
          /\ Tail(queue) \in Seq(Requests)
          /\ Len(Tail(queue)) <= QueueSize
      BY <1>8, HeadTailProperties, LenProperties DEF TypeOK, Take
    <2>2. queue' = Tail(queue) /\ key' = [key EXCEPT ![w] = Head(queue)]
      BY <1>8 DEF Take
    <2>3. taken' \in Seq(Requests)
      BY <1>8, <2>1 DEF Take, TypeOK
    <2>4. worker[w] = "take" /\ worker' = [worker EXCEPT ![w] = "read"]
      BY <1>8 DEF Take
    <2>5. /\ worker' \in [Requests -> {"off", "check", "take", "read", "over", "hung"}]
          /\ key' \in [Requests -> Requests \cup {NoRequest}]
          /\ \A v \in Requests : key'[v] # NoRequest <=> worker'[v] = "read"
      BY <2>1, <2>2, <2>4 DEF TypeOK
    <2>6. UNCHANGED sendVars
      BY <1>8 DEF Take
    <2>7. queue' \in Seq(Requests) /\ Len(queue') <= QueueSize
      BY <2>1, <2>2
    <2> QED BY <2>3, <2>5, <2>6, <2>7 DEF TypeOK, sendVars
  <1>9. ASSUME NEW w \in Requests, Use(w) PROVE TypeOK'
    BY <1>9 DEF TypeOK, Use, sendVars
  <1>10. CASE UNCHANGED vars
    BY <1>10 DEF TypeOK, vars, sendVars, workVars
  <1> QED
    BY <1>1, <1>2, <1>3, <1>5, <1>6, <1>7, <1>8, <1>9, <1>10 DEF Next, Sender, Worker

\* Every variable keeps its type; a request that has keys left to put awaits a
\* full queue, and the queue keeps its size (enqueue, deribit_clients.py:122).
THEOREM QueueTypes == Spec => []TypeOK
  <1>1. Init => TypeOK
    <2> SUFFICES ASSUME Init PROVE TypeOK
      OBVIOUS
    <2>1. <<>> \in Seq(Requests) /\ Len(<<>>) = 0
      BY EmptySeq
    <2>2. /\ postman \in Seq(Requests)
          /\ queue \in Seq(Requests)
          /\ called \in Seq(Requests)
          /\ taken \in Seq(Requests)
          /\ Len(queue) <= QueueSize
          /\ left = [r \in Requests |-> <<>>]
          /\ left \in [Requests -> Seq(Requests)]
      BY <2>1, QueueAssumption DEF Init
    <2>3. /\ pc = [r \in Requests |-> "new"]
          /\ writing = [r \in Requests |-> {}]
          /\ stored = {}
          /\ worker = [r \in Requests |-> "off"]
          /\ key = [r \in Requests |-> NoRequest]
          /\ jammed = FALSE
      BY DEF Init
    <2> QED BY <2>2, <2>3 DEF TypeOK
  <1> QED BY <1>1, TypeStep, PTL DEF Spec

-----------------------------------------------------------------------------

\* No step loses, doubles or reorders a request before the queue was full once.
LEMMA NoneLostStep == TypeOK /\ NoneLost /\ [Next]_vars => NoneLost'
  <1> SUFFICES ASSUME TypeOK, NoneLost, [Next]_vars, ~jammed' PROVE (taken \o queue \o postman = called)'
    BY DEF NoneLost
  <1>0. /\ taken \in Seq(Requests)
        /\ queue \in Seq(Requests)
        /\ postman \in Seq(Requests)
        /\ taken \o queue \in Seq(Requests)
    BY ConcatProperties DEF TypeOK
  <1>1. ~jammed => taken \o queue \o postman = called
    BY DEF NoneLost
  <1>2. ASSUME NEW r \in Requests, Enqueue(r)
        PROVE  (taken \o queue \o postman = called)'
    <2>1. /\ postman' = Append(postman, r)
          /\ called' = Append(called, r)
          /\ taken' = taken
          /\ queue' = queue
          /\ jammed' = jammed
      BY <1>2 DEF Enqueue, workVars
    <2>2. taken \o queue \o Append(postman, r) = Append(taken \o queue \o postman, r)
      BY <1>0, AppendLast
    <2> QED BY <1>1, <2>1, <2>2
  <1>3. ASSUME NEW r \in Requests, Gathered(r)
        PROVE  (taken \o queue \o postman = called)'
    <2>1. /\ queue' = queue \o postman
          /\ postman' = <<>>
          /\ jammed' = jammed
      BY <1>0, <1>3, PutAllCases DEF Gathered
    <2>2. taken' = taken /\ called' = called
      BY <1>3 DEF Gathered, workVars
    <2>3. taken \o (queue \o postman) = (taken \o queue) \o postman
      BY <1>0, ConcatAssociative
    <2>4. taken \o (queue \o postman) \in Seq(Requests)
      BY <1>0, ConcatProperties
    <2>5. taken \o (queue \o postman) \o <<>> = taken \o (queue \o postman)
      BY <2>4, ConcatEmptySeq
    <2> QED BY <1>1, <2>1, <2>2, <2>3, <2>5
  <1>4. ASSUME NEW r \in Requests, PutMore(r) PROVE FALSE
    <2>1. left[r] \in Seq(Requests) /\ jammed /\ jammed \in BOOLEAN
      BY <1>4 DEF TypeOK, PutMore
    <2> QED BY <1>4, <2>1, PutAllCases DEF PutMore
  <1>5. ASSUME NEW w \in Requests, Take(w)
        PROVE  (taken \o queue \o postman = called)'
    <2>1. /\ queue # <<>>
          /\ taken' = Append(taken, Head(queue))
          /\ queue' = Tail(queue)
          /\ UNCHANGED <<postman, called, jammed>>
      BY <1>5 DEF Take, sendVars
    <2>2. Append(taken, Head(queue)) \o Tail(queue) = taken \o queue
      BY <1>0, <2>1, Shift
    <2> QED BY <1>1, <2>1, <2>2
  <1>6. ASSUME UNCHANGED <<taken, queue, postman, called, jammed>>
        PROVE  (taken \o queue \o postman = called)'
    BY <1>1, <1>6
  <1> QED
    BY <1>2, <1>3, <1>4, <1>5, <1>6
    DEF Next, Sender, Worker, Written, GatherFails, Start, Check, Hang, Use,
        vars, sendVars, workVars

\* As long as no enqueue() had to await a full queue, every request is, in the
\* order of the calls, with a worker, in the queue or in the deque: clearing the
\* deque (deribit_clients.py:124) never drops what another caller appended.
THEOREM NoRequestLost == Spec => []NoneLost
  <1>1. Init => NoneLost
    <2> SUFFICES ASSUME Init PROVE NoneLost
      OBVIOUS
    <2>1. <<>> \o <<>> = <<>>
      BY EmptySeq, ConcatEmptySeq
    <2> QED BY <2>1 DEF Init, NoneLost
  <1> QED BY <1>1, NoneLostStep, QueueTypes, PTL DEF Spec
-----------------------------------------------------------------------------

\* The elements of a longer sequence.
LEMMA ToSetAppend ==
  ASSUME NEW S, NEW s \in Seq(S), NEW e \in S
  PROVE  ToSet(Append(s, e)) = ToSet(s) \cup {e}
  <1>1. /\ DOMAIN Append(s, e) = 1 .. Len(s) + 1
        /\ DOMAIN s = 1 .. Len(s)
        /\ Len(s) \in Nat
        /\ \A i \in 1 .. Len(s) : Append(s, e)[i] = s[i]
        /\ Append(s, e)[Len(s) + 1] = e
    BY AppendProperties, LenProperties
  <1> QED BY <1>1 DEF ToSet

\* The elements of two sequences in a row.
LEMMA ToSetConcat ==
  ASSUME NEW S, NEW s \in Seq(S), NEW t \in Seq(S)
  PROVE  ToSet(s \o t) = ToSet(s) \cup ToSet(t)
  <1>1. /\ Len(s \o t) = Len(s) + Len(t)
        /\ \A i \in 1 .. Len(s) + Len(t) :
             (s \o t)[i] = IF i <= Len(s) THEN s[i] ELSE t[i - Len(s)]
        /\ Len(s) \in Nat /\ Len(t) \in Nat
    BY ConcatProperties, LenProperties
  <1>2. ASSUME NEW i \in 1 .. Len(t) PROVE t[i] = (s \o t)[Len(s) + i]
    BY <1>1
  <1>3. \A i \in 1 .. Len(t) : Len(s) + i \in 1 .. Len(s) + Len(t)
    BY <1>1
  <1>4. ToSet(t) \subseteq ToSet(s \o t)
    <2>1. DOMAIN t = 1 .. Len(t) /\ DOMAIN (s \o t) = 1 .. Len(s) + Len(t)
      BY <1>1, LenProperties
    <2> SUFFICES ASSUME NEW i \in 1 .. Len(t) PROVE t[i] \in ToSet(s \o t)
      BY <2>1 DEF ToSet
    <2> QED BY <1>2, <1>3, <2>1 DEF ToSet
  <1>5. ToSet(s) \subseteq ToSet(s \o t)
    BY <1>1 DEF ToSet
  <1>6. ToSet(s \o t) \subseteq ToSet(s) \cup ToSet(t)
    BY <1>1 DEF ToSet
  <1> QED BY <1>4, <1>5, <1>6

\* The elements of a sequence are its head and those of its tail.
LEMMA ToSetHeadTail ==
  ASSUME NEW S, NEW s \in Seq(S), s # <<>>
  PROVE  ToSet(s) = {Head(s)} \cup ToSet(Tail(s))
  <1>1. /\ Len(Tail(s)) = Len(s) - 1
        /\ \A i \in 1 .. Len(Tail(s)) : Tail(s)[i] = s[i + 1]
        /\ Len(s) \in Nat \ {0}
        /\ Head(s) = s[1]
    BY HeadTailProperties, LenProperties
  <1>2. ASSUME NEW i \in 1 .. Len(s) PROVE s[i] \in {Head(s)} \cup ToSet(Tail(s))
    <2>1. CASE i = 1
      BY <1>1, <2>1
    <2>2. CASE i # 1
      <3>1. i - 1 \in 1 .. Len(Tail(s)) /\ Tail(s)[i - 1] = s[i]
        BY <1>1, <2>2
      <3>2. DOMAIN Tail(s) = 1 .. Len(Tail(s))
        BY HeadTailProperties, LenProperties
      <3> QED BY <3>1, <3>2 DEF ToSet
    <2> QED BY <2>1, <2>2
  <1>3. ASSUME NEW i \in 1 .. Len(Tail(s)) PROVE Tail(s)[i] \in ToSet(s)
    BY <1>1 DEF ToSet
  <1>4. Head(s) \in ToSet(s)
    BY <1>1 DEF ToSet
  <1> QED BY <1>1, <1>2, <1>3, <1>4 DEF ToSet

\* The keys that are in the queue or have left it.
Queued == ToSet(taken) \cup ToSet(queue)

\* Where the record and the key of a request are while its enqueue() waits for
\* its writes, and after.
Underway ==
  \A r \in Requests :
    /\ pc[r] = "gather" => r \in writing[r] \cup stored
    /\ pc[r] \in {"put", "done"} => r \in stored
    /\ pc[r] = "gather" /\ ~jammed => r \in Queued \cup ToSet(postman)
    /\ pc[r] = "done" /\ ~jammed => r \in Queued

\* Every step keeps it.
LEMMA UnderwayStep == TypeOK /\ Underway /\ [Next]_vars => Underway'
  <1> SUFFICES ASSUME TypeOK, Underway, [Next]_vars PROVE Underway'
    OBVIOUS
  <1>0. /\ taken \in Seq(Requests)
        /\ queue \in Seq(Requests)
        /\ postman \in Seq(Requests)
        /\ pc \in [Requests -> {"new", "gather", "put", "done", "failed"}]
        /\ writing \in [Requests -> SUBSET Requests]
        /\ jammed \in BOOLEAN
    BY DEF TypeOK
  <1>1. ASSUME NEW r \in Requests, Enqueue(r) PROVE Underway'
    <2>1. /\ ToSet(postman') = ToSet(postman) \cup {r}
          /\ UNCHANGED <<queue, taken, stored, jammed>>
          /\ writing' = [writing EXCEPT ![r] = ToSet(postman')]
          /\ pc' = [pc EXCEPT ![r] = "gather"]
      BY <1>0, <1>1, ToSetAppend DEF Enqueue, workVars
    <2> QED BY <1>0, <2>1 DEF Underway, Queued
  <1>2. ASSUME NEW r \in Requests, NEW k \in Requests, Written(r, k) PROVE Underway'
    BY <1>0, <1>2 DEF Written, Underway, Queued, workVars
  <1>3. ASSUME NEW r \in Requests, GatherFails(r) PROVE Underway'
    <2>1. /\ UNCHANGED <<queue, taken, stored, jammed, postman>>
          /\ pc' = [pc EXCEPT ![r] = "failed"]
          /\ \A q \in Requests \ {r} : writing'[q] = writing[q]
      BY <1>0, <1>3 DEF GatherFails, workVars
    <2> QED BY <1>0, <2>1 DEF Underway, Queued
  <1>4. ASSUME NEW r \in Requests, Gathered(r) PROVE Underway'
    <2>1. /\ pc[r] = "gather"
          /\ r \in stored
          /\ UNCHANGED <<writing, stored, taken>>
      BY <1>0, <1>4 DEF Gathered, Underway, workVars
    <2>2. \/ /\ queue' = queue \o postman
             /\ pc' = [pc EXCEPT ![r] = "done"]
             /\ jammed' = jammed
          \/ /\ pc' = [pc EXCEPT ![r] = "put"]
             /\ jammed' = TRUE
      BY <1>0, <1>4, PutAllCases DEF Gathered
    <2>3. CASE queue' = queue \o postman /\ pc' = [pc EXCEPT ![r] = "done"] /\ jammed' = jammed
      <3>1. ToSet(queue') = ToSet(queue) \cup ToSet(postman)
        BY <1>0, <2>3, ToSetConcat
      <3>2. Queued' = Queued \cup ToSet(postman)
        BY <2>1, <3>1 DEF Queued
      <3> QED BY <1>0, <2>1, <2>3, <3>2 DEF Underway
    <2>4. CASE pc' = [pc EXCEPT ![r] = "put"] /\ jammed' = TRUE
      BY <1>0, <2>1, <2>4 DEF Underway
    <2> QED BY <2>2, <2>3, <2>4
  <1>5. ASSUME NEW r \in Requests, PutMore(r) PROVE Underway'
    <2>1. /\ pc[r] = "put"
          /\ r \in stored
          /\ jammed = TRUE
          /\ left[r] \in Seq(Requests)
          /\ UNCHANGED <<writing, stored>>
      BY <1>5 DEF PutMore, Underway, TypeOK
    <2>2. /\ jammed' = TRUE
          /\ pc' \in {[pc EXCEPT ![r] = "done"], [pc EXCEPT ![r] = "put"]}
      BY <1>5, <2>1, PutAllCases DEF PutMore
    <2> QED BY <1>0, <2>1, <2>2 DEF Underway
  <1>6. ASSUME NEW w \in Requests, Take(w) PROVE Underway'
    <2>1. /\ queue # <<>>
          /\ taken' = Append(taken, Head(queue))
          /\ queue' = Tail(queue)
          /\ UNCHANGED sendVars
      BY <1>6 DEF Take
    <2>2. Head(queue) \in Requests
      BY <1>0, <2>1, HeadTailProperties
    <2>3. ToSet(taken') = ToSet(taken) \cup {Head(queue)}
      BY <1>0, <2>1, <2>2, ToSetAppend
    <2>4. ToSet(queue) = {Head(queue)} \cup ToSet(queue')
      BY <1>0, <2>1, ToSetHeadTail
    <2>5. Queued' = Queued
      BY <2>3, <2>4 DEF Queued
    <2> QED BY <2>1, <2>5 DEF Underway, sendVars
  <1>7. ASSUME UNCHANGED <<sendVars, queue, taken>> PROVE Underway'
    BY <1>7 DEF Underway, Queued, sendVars
  <1> QED
    BY <1>1, <1>2, <1>3, <1>4, <1>5, <1>6, <1>7
    DEF Next, Sender, Worker, Start, Check, Hang, Use, vars, workVars

\* An enqueue() that returned without an error has its record in Redis and, as
\* long as none had to await a full queue, its key in the queue or with a
\* worker, although other callers clear the deque (deribit_clients.py:104-125).
THEOREM ReturnedRequestsAreQueued == Spec => []ReturnedIsQueued
  <1>1. Init => Underway
    BY DEF Init, Underway
  <1>2. Underway => ReturnedIsQueued
    BY DEF Underway, Queued, ReturnedIsQueued
  <1> QED BY <1>1, <1>2, UnderwayStep, QueueTypes, PTL DEF Spec

-----------------------------------------------------------------------------
(* Served once, first come first served *)

\* As long as no enqueue() had to await a full queue, no key is given to two
\* workers or put in the queue again after a worker took it, and the workers get
\* the keys in the order of the calls, although each enqueue() puts the keys of
\* all requests in the deque (deribit_clients.py:95-124).
ServedOnceInOrder ==
  ~jammed => /\ IsInjective(taken \o queue)
             /\ \A i \in DOMAIN taken : i \in DOMAIN called /\ taken[i] = called[i]

\* Every request calls once.
CalledOnce ==
  /\ IsInjective(called)
  /\ \A r \in Requests : pc[r] = "new" => \A i \in DOMAIN called : called[i] # r

\* The front of a sequence in which nothing is twice.
LEMMA FrontOf ==
  ASSUME NEW S, NEW s \in Seq(S), NEW t \in Seq(S), NEW c \in Seq(S), s \o t = c
  PROVE  /\ \A i \in DOMAIN s : i \in DOMAIN c /\ s[i] = c[i]
         /\ IsInjective(c) => IsInjective(s)
  <1>1. /\ DOMAIN s = 1 .. Len(s) /\ Len(s) \in Nat
        /\ DOMAIN c = 1 .. Len(c) /\ Len(c) \in Nat
        /\ Len(t) \in Nat
    BY LenProperties
  <1>2. /\ Len(c) = Len(s) + Len(t)
        /\ \A i \in 1 .. Len(s) + Len(t) : c[i] = IF i <= Len(s) THEN s[i] ELSE t[i - Len(s)]
    BY ConcatProperties
  <1>3. \A i \in DOMAIN s : i \in DOMAIN c /\ s[i] = c[i]
    BY <1>1, <1>2
  <1>4. IsInjective(c) => IsInjective(s)
    BY <1>3 DEF IsInjective
  <1> QED BY <1>3, <1>4

\* A request is added to the calls when it leaves "new", for good.
LEMMA CalledOnceStep == TypeOK /\ CalledOnce /\ [Next]_vars => CalledOnce'
  <1> SUFFICES ASSUME TypeOK, CalledOnce, [Next]_vars PROVE CalledOnce'
    OBVIOUS
  <1>0. /\ called \in Seq(Requests)
        /\ pc \in [Requests -> {"new", "gather", "put", "done", "failed"}]
        /\ DOMAIN called = 1 .. Len(called)
        /\ Len(called) \in Nat
        /\ IsInjective(called)
        /\ \A r \in Requests : pc[r] = "new" => \A i \in DOMAIN called : called[i] # r
    BY LenProperties DEF TypeOK, CalledOnce
  <1>1. ASSUME NEW r \in Requests, Enqueue(r) PROVE CalledOnce'
    <2>1. /\ pc[r] = "new"
          /\ pc' = [pc EXCEPT ![r] = "gather"]
          /\ called' = Append(called, r)
      BY <1>1 DEF Enqueue
    <2>2. /\ DOMAIN called' = 1 .. Len(called) + 1
          /\ \A i \in 1 .. Len(called) : called'[i] = called[i]
          /\ called'[Len(called) + 1] = r
      BY <1>0, <2>1, AppendProperties, LenProperties
    <2>3. \A i \in DOMAIN called' : i \in DOMAIN called \/ i = Len(called) + 1
      BY <1>0, <2>2
    <2>4. \A i \in DOMAIN called : called[i] # r /\ called'[i] = called[i]
      BY <1>0, <2>1, <2>2
    <2>5. IsInjective(called')
      BY <1>0, <2>2, <2>3, <2>4 DEF IsInjective
    <2>6. \A q \in Requests : pc'[q] = "new" => q # r /\ pc[q] = "new"
      BY <1>0, <2>1
    <2>7. \A q \in Requests : pc'[q] = "new" => \A i \in DOMAIN called' : called'[i] # q
      BY <1>0, <2>2, <2>3, <2>4, <2>6
    <2> QED BY <2>5, <2>7 DEF CalledOnce
  <1>2. ASSUME NEW r \in Requests, NEW l \in {"failed", "done", "put"},
               pc' = [pc EXCEPT ![r] = l], called' = called
        PROVE  CalledOnce'
    BY <1>0, <1>2 DEF CalledOnce
  <1>3. ASSUME NEW r \in Requests, NEW s, PutAll(r, s)
        PROVE  \E l \in {"done", "put"} : pc' = [pc EXCEPT ![r] = l]
    BY <1>3 DEF PutAll
  <1>4. ASSUME NEW r \in Requests, GatherFails(r) \/ Gathered(r) \/ PutMore(r)
        PROVE  CalledOnce'
    BY <1>2, <1>3, <1>4 DEF GatherFails, Gathered, PutMore
  <1>5. ASSUME UNCHANGED <<pc, called>> PROVE CalledOnce'
    BY <1>5 DEF CalledOnce
  <1> QED
    BY <1>1, <1>4, <1>5
    DEF Next, Sender, Worker, Written, Start, Check, Take, Hang, Use, vars, sendVars

\* As long as no enqueue() had to await a full queue, every key is given to one
\* worker at most, first come first served (deribit_clients.py:95-124): what the
\* workers took and what is in the queue is the front of the calls.
THEOREM RequestsAreServedOnce == Spec => []ServedOnceInOrder
  <1>1. Init => CalledOnce
    <2> SUFFICES ASSUME Init PROVE CalledOnce
      OBVIOUS
    <2>1. DOMAIN called = {}
      BY EmptySeq DEF Init
    <2> QED BY <2>1 DEF CalledOnce, IsInjective
  <1>2. TypeOK /\ NoneLost /\ CalledOnce => ServedOnceInOrder
    <2> SUFFICES ASSUME TypeOK, NoneLost, CalledOnce, ~jammed
                 PROVE  /\ IsInjective(taken \o queue)
                        /\ \A i \in DOMAIN taken : i \in DOMAIN called /\ taken[i] = called[i]
      BY DEF ServedOnceInOrder
    <2>1. /\ taken \in Seq(Requests)
          /\ queue \in Seq(Requests)
          /\ postman \in Seq(Requests)
          /\ called \in Seq(Requests)
          /\ taken \o queue \in Seq(Requests)
      BY ConcatProperties DEF TypeOK
    <2>2. (taken \o queue) \o postman = called
      BY DEF NoneLost
    <2>3. IsInjective(taken \o queue)
      BY <2>1, <2>2, FrontOf DEF CalledOnce
    <2>4. \A i \in DOMAIN (taken \o queue) :
            i \in DOMAIN called /\ (taken \o queue)[i] = called[i]
      BY <2>1, <2>2, FrontOf
    <2>5. \A i \in DOMAIN taken : i \in DOMAIN (taken \o queue) /\ taken[i] = (taken \o queue)[i]
      BY <2>1, FrontOf
    <2> QED BY <2>3, <2>4, <2>5
  <1> QED BY <1>1, <1>2, CalledOnceStep, NoRequestLost, QueueTypes, PTL DEF Spec
=============================================================================
