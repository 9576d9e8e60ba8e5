-------------------------- MODULE SSEManagerProofs --------------------------
(***************************************************************************)
(* Theorems about SSEManager, for any tasks, keys and queue size: the lock,*)
(* the table, the streams and the account of each call, the one way to a   *)
(* deadlock, and the refinement of PubSub.                                 *)
(***************************************************************************)
EXTENDS SSEManager, SequenceTheorems, TLAPS

-----------------------------------------------------------------------------
(* Lemmas about sequences *)

\* A sequence updated at a position of its own, or at none, keeps its type.
LEMMA SeqUpdate ==
  ASSUME NEW S, NEW s \in Seq(S), NEW i, NEW e, i \in 1 .. Len(s) => e \in S
  PROVE  /\ [s EXCEPT ![i] = e] \in Seq(S)
         /\ Len([s EXCEPT ![i] = e]) = Len(s)
  <1>1. CASE i \in 1 .. Len(s)
    BY <1>1, ExceptSeq
  <1>2. CASE i \notin 1 .. Len(s)
    <2>1. [s EXCEPT ![i] = e] = s
      BY <1>2, LenProperties
    <2> QED BY <2>1
  <1> QED BY <1>1, <1>2

\* A waiter removed from the queue leaves the others in their order.
LEMMA RemoveAtProperties ==
  ASSUME NEW S, NEW s \in Seq(S), NEW i \in 1 .. Len(s)
  PROVE  /\ RemoveAt(s, i) \in Seq(S)
         /\ Len(RemoveAt(s, i)) = Len(s) - 1
         /\ \A j \in 1 .. Len(s) - 1 :
              RemoveAt(s, i)[j] = IF j < i THEN s[j] ELSE s[j + 1]
  <1> DEFINE a == SubSeq(s, 1, i - 1)
             b == SubSeq(s, i + 1, Len(s))
  <1>0. Len(s) \in Nat /\ \A j \in 1 .. Len(s) : s[j] \in S
    BY LenProperties, ElementOfSeq
  <1>1. /\ a \in Seq(S)
        /\ Len(a) = i - 1
        /\ \A j \in 1 .. i - 1 : a[j] = s[j]
    <2>1. /\ a \in Seq(S)
          /\ Len(a) = IF 1 <= i - 1 THEN (i - 1) - 1 + 1 ELSE 0
          /\ \A j \in 1 .. (i - 1) - 1 + 1 : a[j] = s[1 + j - 1]
      <3>1. \A j \in 1 .. i - 1 : s[j] \in S
        BY <1>0
      <3> QED BY <3>1, <1>0, SubSeqProperties
    <2> QED BY <2>1, <1>0
  <1>2. /\ b \in Seq(S)
        /\ Len(b) = Len(s) - i
        /\ \A j \in 1 .. Len(s) - i : b[j] = s[i + j]
    <2>1. /\ b \in Seq(S)
          /\ Len(b) = IF i + 1 <= Len(s) THEN Len(s) - (i + 1) + 1 ELSE 0
          /\ \A j \in 1 .. Len(s) - (i + 1) + 1 : b[j] = s[(i + 1) + j - 1]
      <3>1. \A j \in i + 1 .. Len(s) : s[j] \in S
        BY <1>0
      <3> QED BY <3>1, <1>0, SubSeqProperties
    <2> QED BY <2>1, <1>0
  <1>3. RemoveAt(s, i) = a \o b
    BY DEF RemoveAt
  <1>4. /\ a \o b \in Seq(S)
        /\ Len(a \o b) = Len(a) + Len(b)
        /\ \A j \in 1 .. Len(a) + Len(b) :
             (a \o b)[j] = IF j <= Len(a) THEN a[j] ELSE b[j - Len(a)]
    BY <1>1, <1>2, ConcatProperties
  <1> HIDE DEF a, b
  <1>5. Len(a) + Len(b) = Len(s) - 1
    BY <1>0, <1>1, <1>2
  <1>6. ASSUME NEW j \in 1 .. Len(s) - 1
        PROVE  (a \o b)[j] = IF j < i THEN s[j] ELSE s[j + 1]
    <2>1. CASE j < i
      BY <2>1, <1>0, <1>1, <1>4, <1>5
    <2>2. CASE ~ (j < i)
      <3>1. (a \o b)[j] = b[j - (i - 1)]
        BY <2>2, <1>0, <1>1, <1>4, <1>5
      <3>2. b[j - (i - 1)] = s[i + (j - (i - 1))]
        <4>1. j - (i - 1) \in 1 .. Len(s) - i
          BY <2>2, <1>0
        <4> QED BY <4>1, <1>2
      <3> QED BY <3>1, <3>2, <2>2, <1>0
    <2> QED BY <2>1, <2>2
  <1> QED BY <1>3, <1>4, <1>5, <1>6

-----------------------------------------------------------------------------
(* Type correctness *)

\* What Give(S, m) does to the queue of each client.
LEMMA GiveProperties ==
  ASSUME stream \in [Clients -> Seq(Nat)], NEW S \in SUBSET Clients, NEW m \in Nat,
         Give(S, m)
  PROVE  /\ stream' \in [Clients -> Seq(Nat)]
         /\ \A c \in Clients \ S : stream'[c] = stream[c]
         /\ \A c \in S : /\ Len(stream'[c]) = Len(stream[c]) + 1
                         /\ \A n \in 1 .. Len(stream[c]) : stream'[c][n] = stream[c][n]
                         /\ stream'[c][Len(stream[c]) + 1] = m
  <1>1. \A c \in Clients : stream'[c] = IF c \in S THEN Append(stream[c], m) ELSE stream[c]
    BY DEF Give
  <1>2. ASSUME NEW c \in Clients
        PROVE  /\ Append(stream[c], m) \in Seq(Nat)
               /\ Len(Append(stream[c], m)) = Len(stream[c]) + 1
               /\ \A n \in 1 .. Len(stream[c]) : Append(stream[c], m)[n] = stream[c][n]
               /\ Append(stream[c], m)[Len(stream[c]) + 1] = m
    BY AppendProperties
  <1>3. stream' \in [Clients -> Seq(Nat)]
    BY <1>2 DEF Give
  <1> QED BY <1>1, <1>2, <1>3

\* The table with one key rebound is again a table without empty sets.
LEMMA RebindProperties ==
  ASSUME TypeOK, NEW k \in Keys, NEW S \in SUBSET Clients,
         connections' = Rebind(k, S)
  PROVE  /\ DOMAIN connections' \subseteq Keys
         /\ connections' \in [DOMAIN connections' -> (SUBSET Clients) \ {{}}]
         /\ \A x \in Keys : Members(x)' = IF x = k THEN S ELSE Members(x)
  <1>1. CASE S = {}
    <2>1. connections' = [x \in DOMAIN connections \ {k} |-> connections[x]]
      BY <1>1 DEF Rebind
    <2> QED BY <2>1, <1>1 DEF TypeOK, Members
  <1>2. CASE S # {}
    <2>1. connections' = [x \in DOMAIN connections \cup {k} |->
                            IF x = k THEN S ELSE connections[x]]
      BY <1>2 DEF Rebind
    <2> QED BY <2>1, <1>2 DEF TypeOK, Members
  <1> QED BY <1>1, <1>2

\* The queue of the lock after a request, an admission and a cancellation.
LEMMA QueueTypes ==
  ASSUME TypeOK
  PROVE  /\ \A t \in Tasks : Append(waiters, t) \in Seq(Tasks)
         /\ waiters # <<>> => Tail(waiters) \in Seq(Tasks)
         /\ \A i \in 1 .. Len(waiters) : RemoveAt(waiters, i) \in Seq(Tasks)
  <1>1. \A t \in Tasks : Append(waiters, t) \in Seq(Tasks)
    BY AppendProperties DEF TypeOK
  <1>2. waiters # <<>> => Tail(waiters) \in Seq(Tasks)
    BY HeadTailProperties DEF TypeOK
  <1>3. \A i \in 1 .. Len(waiters) : RemoveAt(waiters, i) \in Seq(Tasks)
    BY RemoveAtProperties DEF TypeOK
  <1> QED BY <1>1, <1>2, <1>3

\* A change of the outcome, or of the outcome and the addressees, of a call.
LEMMA SentTypes ==
  ASSUME TypeOK, NEW t \in Tasks, NEW o \in Outcomes,
         NEW A, ticket[t] \in 1 .. Len(sent) => A \in SUBSET Clients
  PROVE  /\ [sent EXCEPT ![ticket[t]].state = o] \in Seq(Calls)
         /\ Len([sent EXCEPT ![ticket[t]].state = o]) = Len(sent)
         /\ [sent EXCEPT ![ticket[t]] = [@ EXCEPT !.to = A, !.state = o]] \in Seq(Calls)
         /\ Len([sent EXCEPT ![ticket[t]] = [@ EXCEPT !.to = A, !.state = o]]) = Len(sent)
  <1> DEFINE r == sent[ticket[t]]
  <1>1. ticket[t] \in 1 .. Len(sent) => r \in Calls
    BY ElementOfSeq DEF TypeOK
  <1>2. ticket[t] \in 1 .. Len(sent) => [r EXCEPT !.state = o] \in Calls
    BY <1>1 DEF Calls
  <1>3. ticket[t] \in 1 .. Len(sent) => [r EXCEPT !.to = A, !.state = o] \in Calls
    BY <1>1 DEF Calls
  <1> QED BY <1>2, <1>3, SeqUpdate DEF TypeOK

TypeInv == TypeOK /\ KeyNamed

\* The manager starts with well-typed variables, an empty table (sse_manager.py:21).
LEMMA TypeInit == Init => TypeInv
  <1> SUFFICES ASSUME Init PROVE TypeInv
    OBVIOUS
  <1>1. <<>> \in Seq(Nat) /\ <<>> \in Seq(Tasks) /\ <<>> \in Seq(Calls) /\ Len(<<>>) = 0
    BY EmptySeq
  <1>2. /\ DOMAIN connections \subseteq Keys
        /\ connections \in [DOMAIN connections -> (SUBSET Clients) \ {{}}]
    BY DEF Init
  <1>3. TypeOK
    BY <1>1, <1>2 DEF Init, TypeOK, Operations
  <1>4. KeyNamed
    BY SSEAssumption DEF Init, KeyNamed
  <1> QED BY <1>3, <1>4 DEF TypeInv

\* Every step keeps the types, and the keys of the waiting clients.
LEMMA TypeStep == TypeInv /\ [Next]_vars => TypeInv'
  <1> SUFFICES ASSUME TypeOK, KeyNamed, [Next]_vars PROVE TypeOK' /\ KeyNamed'
    BY DEF TypeInv
  <1> USE SSEAssumption DEF redisVars
  <1>0. Len(sent) \in Nat /\ Clients \subseteq Tasks
    BY LenProperties DEF TypeOK
  <1>a. \A t \in Tasks : Members(sent[ticket[t]].key) \in SUBSET Clients
    BY DEF Members, TypeOK
  <1>b. \A k \in Keys : Members(k) \in SUBSET Clients
    BY DEF Members, TypeOK
  <1>c. \A t \in Tasks : ticket[t] \in Nat
    BY <1>0 DEF TypeOK
  <1>1. ASSUME NEW c \in Clients, NEW k \in Keys, CallSubscribe(c, k)
        PROVE  TypeOK' /\ KeyNamed'
    BY <1>1, <1>0, QueueTypes
    DEF CallSubscribe, Request, TypeOK, KeyNamed, Operations, castVars
  <1>2. ASSUME NEW c \in Clients, Subscribe(c)
        PROVE  TypeOK' /\ KeyNamed'
    <2>1. home[c] \in Keys
      BY <1>2, <1>0 DEF Subscribe, Admitted, TypeOK, KeyNamed
    <2>2. Members(home[c]) \cup {c} \in SUBSET Clients
      BY <2>1, <1>b
    <2>3. /\ DOMAIN connections' \subseteq Keys
          /\ connections' \in [DOMAIN connections' -> (SUBSET Clients) \ {{}}]
      BY <1>2, <2>1, <2>2, RebindProperties DEF Subscribe
    <2> QED BY <2>3, <1>2, <1>0, QueueTypes
        DEF Subscribe, Admitted, PassThrough, TypeOK, KeyNamed, Operations, castVars
  <1>3. ASSUME NEW c \in Clients, CallUnsubscribe(c)
        PROVE  TypeOK' /\ KeyNamed'
    BY <1>3, <1>0, QueueTypes
    DEF CallUnsubscribe, Request, TypeOK, KeyNamed, Operations, castVars, readerVars
  <1>4. ASSUME NEW c \in Clients, Unsubscribe(c)
        PROVE  TypeOK' /\ KeyNamed'
    <2>1. home[c] \in Keys
      BY <1>4, <1>0 DEF Unsubscribe, Admitted, TypeOK, KeyNamed
    <2>2. Members(home[c]) \ {c} \in SUBSET Clients
      BY <2>1, <1>b
    <2>3. /\ DOMAIN connections' \subseteq Keys
          /\ connections' \in [DOMAIN connections' -> (SUBSET Clients) \ {{}}]
      BY <1>4, <2>1, <2>2, RebindProperties DEF Unsubscribe
    <2> QED BY <2>3, <1>4, <1>0, QueueTypes
        DEF Unsubscribe, Admitted, PassThrough, TypeOK, KeyNamed, Operations, castVars
  <1>5. ASSUME NEW c \in Clients, Take(c)
        PROVE  TypeOK' /\ KeyNamed'
    <2>1. taken' \in [Clients -> Nat]
      BY <1>5 DEF Take, TypeOK
    <2>2. UNCHANGED <<connections, home, stream, lockVars, castVars, gone, redisVars>>
      BY <1>5 DEF Take
    <2> QED BY <2>1, <2>2 DEF TypeOK, KeyNamed, castVars, lockVars
  <1>6. ASSUME NEW t \in Publishers, NEW k \in Keys, CallBroadcast(t, k)
        PROVE  TypeOK' /\ KeyNamed'
    <2>1. [key |-> k, to |-> {}, state |-> "called"] \in Calls
      BY DEF Calls, Outcomes
    <2>2. sent' \in Seq(Calls) /\ Len(sent') = Len(sent) + 1
      BY <2>1, <1>6, AppendProperties DEF CallBroadcast, TypeOK
    <2>3. /\ ticket' \in [Tasks -> 0 .. Len(sent')]
          /\ message' \in 0 .. Len(sent')
      BY <2>2, <1>6, <1>0 DEF CallBroadcast, TypeOK
    <2>4. waiters' \in Seq(Tasks) /\ op' \in [Tasks -> Operations]
      BY <1>6, QueueTypes DEF CallBroadcast, Request, TypeOK, Operations
    <2>5. KeyNamed'
      BY <1>6, <1>0 DEF CallBroadcast, Request, TypeOK, KeyNamed, readerVars
    <2> QED BY <2>2, <2>3, <2>4, <2>5, <1>6
        DEF CallBroadcast, Request, TypeOK, readerVars
  <1>7. ASSUME NEW t \in Pricers, CallPrice(t)
        PROVE  TypeOK' /\ KeyNamed'
    BY <1>7, <1>0, QueueTypes
    DEF CallPrice, Request, TypeOK, KeyNamed, Operations, castVars, readerVars
  <1>8. ASSUME NEW t \in Tasks, BroadcastToAll(t)
        PROVE  TypeOK' /\ KeyNamed'
    <2> DEFINE A == Audience(t)
    <2>1. A \in SUBSET Clients
      BY <1>a DEF Audience
    <2>2. sent' \in Seq(Calls) /\ Len(sent') = Len(sent)
      BY <2>1, <1>8, SentTypes DEF BroadcastToAll, Finish, Outcomes
    <2>3. stream' \in [Clients -> Seq(Nat)]
      BY <2>1, <1>8, <1>c, GiveProperties DEF BroadcastToAll, Finish, TypeOK
    <2> QED BY <2>1, <2>2, <2>3, <1>8, <1>0, QueueTypes
        DEF BroadcastToAll, Admitted, PassThrough, Finish, TypeOK, KeyNamed, Operations
  <1>9. ASSUME NEW t \in Tasks, BroadcastBlocks(t)
        PROVE  TypeOK' /\ KeyNamed'
    <2> DEFINE A == Audience(t)
    <2>1. A \in SUBSET Clients
      BY <1>a DEF Audience
    <2>2. PICK D \in SUBSET A, c \in A : Block(ticket[t], A, D, c, A)
      BY <1>9 DEF BroadcastBlocks
    <2>3. sent' \in Seq(Calls) /\ Len(sent') = Len(sent)
      BY <2>1, <2>2, SentTypes DEF Block, Outcomes
    <2>4. stream' \in [Clients -> Seq(Nat)]
      BY <2>1, <2>2, <1>c, GiveProperties DEF Block, TypeOK
    <2>5. todo' \subseteq Clients /\ stuck' \in Clients
      BY <2>1, <2>2 DEF Block
    <2> QED BY <2>3, <2>4, <2>5, <1>9, <1>0, QueueTypes
        DEF BroadcastBlocks, Admitted, Hold, TypeOK, KeyNamed, Operations
  <1>d. \A t \in Tasks : ticket[t] \in 1 .. Len(sent) => sent[ticket[t]].to \in SUBSET Clients
    <2>1. \A i \in 1 .. Len(sent) : sent[i] \in Calls
      BY ElementOfSeq DEF TypeOK
    <2>2. \A r \in Calls : r.to \in SUBSET Clients
      BY DEF Calls
    <2> QED BY <2>1, <2>2
  <1>10. ASSUME NEW t \in Tasks, ResumeToAll(t)
         PROVE  TypeOK' /\ KeyNamed'
    <2>1. sent' \in Seq(Calls) /\ Len(sent') = Len(sent)
      BY <1>10, <1>d, SentTypes DEF ResumeToAll, Finish, Outcomes
    <2>2. stream' \in [Clients -> Seq(Nat)]
      BY <1>10, <1>c, GiveProperties DEF ResumeToAll, Finish, TypeOK
    <2> QED BY <2>1, <2>2, <1>10, <1>0
        DEF ResumeToAll, Release, Finish, TypeOK, KeyNamed, Operations
  <1>11. ASSUME NEW t \in Tasks, ResumeBlocks(t)
         PROVE  TypeOK' /\ KeyNamed'
    <2>1. PICK D \in SUBSET todo, c \in todo :
            Block(ticket[t], todo, D, c, sent[ticket[t]].to)
      BY <1>11 DEF ResumeBlocks
    <2>2. sent' \in Seq(Calls) /\ Len(sent') = Len(sent)
      BY <2>1, <1>d, SentTypes DEF Block, Outcomes
    <2>3. D \in SUBSET Clients /\ c \in Clients
      BY DEF TypeOK
    <2>4. stream' \in [Clients -> Seq(Nat)]
      BY <2>1, <2>3, <1>c, GiveProperties DEF Block, TypeOK
    <2>5. todo' \subseteq Clients /\ stuck' \in Clients
      BY <2>1, <2>3 DEF Block, TypeOK
    <2> QED BY <2>2, <2>4, <2>5, <1>11, <1>0
        DEF ResumeBlocks, TypeOK, KeyNamed, Operations, lockVars
  <1>12. ASSUME NEW t \in Tasks, BroadcastMisses(t)
         PROVE  TypeOK' /\ KeyNamed'
    <2>1. sent' \in Seq(Calls) /\ Len(sent') = Len(sent)
      BY <1>12, SentTypes DEF BroadcastMisses, Outcomes
    <2> QED BY <2>1, <1>12, <1>0, QueueTypes
        DEF BroadcastMisses, Admitted, Hold, TypeOK, KeyNamed, Operations, readerVars
  <1>13. ASSUME NEW t \in Tasks, DeleteEnds(t)
         PROVE  TypeOK' /\ KeyNamed'
    BY <1>13, <1>0
    DEF DeleteEnds, GivesUp, Release, TypeOK, KeyNamed, Operations, readerVars, castVars
  <1>14. ASSUME NEW t \in Tasks, PriceEnters(t)
         PROVE  TypeOK' /\ KeyNamed'
    BY <1>14, <1>0, QueueTypes
    DEF PriceEnters, Admitted, Hold, TypeOK, KeyNamed, Operations, readerVars, castVars
  <1>15. ASSUME NEW t \in Tasks, PriceEnds(t)
         PROVE  TypeOK' /\ KeyNamed'
    BY <1>15, <1>0
    DEF PriceEnds, Release, TypeOK, KeyNamed, Operations, readerVars, castVars
  <1>16. ASSUME NEW t \in Tasks, CancelWaiter(t)
         PROVE  TypeOK' /\ KeyNamed'
    <2>1. sent' \in Seq(Calls) /\ Len(sent') = Len(sent)
      BY <1>16, SentTypes DEF CancelWaiter, Outcomes, TypeOK
    <2>2. waiters' \in Seq(Tasks)
      BY <1>16, QueueTypes DEF CancelWaiter
    <2> QED BY <2>1, <2>2, <1>16, <1>0
        DEF CancelWaiter, TypeOK, KeyNamed, Operations, readerVars
  <1>17. ASSUME NEW t \in Tasks, CancelOwner(t)
         PROVE  TypeOK' /\ KeyNamed'
    <2>1. sent' \in Seq(Calls) /\ Len(sent') = Len(sent)
      BY <1>17, SentTypes DEF CancelOwner, Outcomes, TypeOK
    <2>2. late' \in [Keys -> Nat]
      BY <1>17 DEF CancelOwner, GivesUp, TypeOK
    <2> QED BY <2>1, <2>2, <1>17, <1>0
        DEF CancelOwner, Release, TypeOK, KeyNamed, Operations, readerVars
  <1>18. ASSUME NEW k \in Keys, Store(k)
         PROVE  TypeOK' /\ KeyNamed'
    BY <1>18, <1>0 DEF Store, TypeOK, KeyNamed, readerVars, lockVars, castVars
  <1>19. ASSUME NEW c \in Clients, Depart(c)
         PROVE  TypeOK' /\ KeyNamed'
    BY <1>19, <1>0 DEF Depart, TypeOK, KeyNamed, readerVars, lockVars, castVars
  <1>20. CASE RedisDeletes
    BY <1>20, <1>0 DEF RedisDeletes, TypeOK, KeyNamed, readerVars, castVars
  <1>21. ASSUME NEW k \in Keys, LateDelete(k)
         PROVE  TypeOK' /\ KeyNamed'
    <2>1. late' \in [Keys -> Nat]
      BY <1>21 DEF LateDelete, TypeOK
    <2> QED BY <2>1, <1>21, <1>0
        DEF LateDelete, TypeOK, KeyNamed, readerVars, lockVars, castVars
  <1>22. CASE UNCHANGED vars
    BY <1>22 DEF vars, TypeOK, KeyNamed, readerVars, lockVars, castVars
  <1> QED
    BY <1>1, <1>2, <1>3, <1>4, <1>5, <1>6, <1>7, <1>8, <1>9, <1>10, <1>11, <1>12,
       <1>13, <1>14, <1>15, <1>16, <1>17, <1>18, <1>19, <1>20,
       <1>21, <1>22 DEF Next, Progress

\* Types hold in every reachable state, and _connections never keeps a key
\* with an empty set (subscribe and unsubscribe, sse_manager.py:34-53).
THEOREM TypeCorrect == Spec => []TypeInv
  BY TypeInit, TypeStep, PTL DEF Spec

\* Every variable keeps its type, and the table never holds an empty set
\* (sse_manager.py:52-53).
COROLLARY Typed == Spec => []TypeOK
  <1>1. TypeInv => TypeOK
    BY DEF TypeInv
  <1> QED BY <1>1, TypeCorrect, PTL

-----------------------------------------------------------------------------
(* The lock *)

\* What happens in Redis and to a generator, and leaves the manager alone.
Outside == \/ \E k \in Keys : Store(k) \/ LateDelete(k)
           \/ \E c \in Clients : Depart(c)

\* These steps change none of the manager's variables.
LEMMA OutsideSteps == Outside => UNCHANGED <<readerVars, lockVars, castVars>>
  BY DEF Outside, Store, LateDelete, Depart

\* Nor does Redis when it executes a DEL, but for what the owner awaits.
LEMMA RedisSteps ==
  RedisDeletes => /\ UNCHANGED <<readerVars, owner, waiters, op, castVars>>
                  /\ stage = "delete" /\ stage' = "deleted"
  BY DEF RedisDeletes

\* Every step acts on the lock in one of seven ways, or not at all.
LockStep ==
  \/ \E t \in Tasks, o \in Operations \ {"none"} :
       Request(t, o) /\ (t \in Clients \/ o \in {"broadcast", "price"})
  \/ \E t \in Tasks, o \in Operations : Admitted(t, o) /\ PassThrough(t)
  \/ \E t \in Tasks, s \in {"put", "delete"} : Admitted(t, "broadcast") /\ Hold(t, s)
  \/ \E t \in Tasks : Admitted(t, "price") /\ Hold(t, "price")
  \/ \E t \in Tasks : owner = t /\ Release(t)
  \/ \E t \in Tasks : /\ \E i \in 1 .. Len(waiters) : /\ waiters[i] = t
                                                      /\ waiters' = RemoveAt(waiters, i)
                      /\ op' = [op EXCEPT ![t] = "none"]
                      /\ UNCHANGED <<owner, stage>>
  \/ stage = "delete" /\ stage' = "deleted" /\ UNCHANGED <<owner, waiters, op>>
  \/ UNCHANGED lockVars

\* Whatever a task does, the lock and its queue change in one of these ways.
LEMMA LockSteps == [Next]_vars => LockStep
  <1> SUFFICES ASSUME [Next]_vars PROVE LockStep
    OBVIOUS
  <1> USE SSEAssumption DEF LockStep, Operations
  <1>1. ASSUME NEW c \in Clients,
               \/ \E k \in Keys : CallSubscribe(c, k)
               \/ CallUnsubscribe(c)
        PROVE  LockStep
    BY <1>1 DEF CallSubscribe, CallUnsubscribe
  <1>2. ASSUME NEW c \in Clients, Take(c) PROVE LockStep
    BY <1>2 DEF Take
  <1>3. ASSUME NEW t \in Publishers, NEW k \in Keys, CallBroadcast(t, k) PROVE LockStep
    BY <1>3 DEF CallBroadcast
  <1>4. ASSUME NEW t \in Pricers, CallPrice(t) PROVE LockStep
    BY <1>4 DEF CallPrice
  <1>5. ASSUME NEW t \in Clients, Subscribe(t) \/ Unsubscribe(t) PROVE LockStep
    BY <1>5 DEF Subscribe, Unsubscribe
  <1>6. ASSUME NEW t \in Tasks, BroadcastToAll(t) PROVE LockStep
    BY <1>6 DEF BroadcastToAll
  <1>7. ASSUME NEW t \in Tasks, BroadcastBlocks(t) \/ BroadcastMisses(t) PROVE LockStep
    BY <1>7 DEF BroadcastBlocks, BroadcastMisses
  <1>8. ASSUME NEW t \in Tasks, ResumeToAll(t) \/ DeleteEnds(t) \/ PriceEnds(t)
                                 \/ CancelOwner(t)
        PROVE  LockStep
    BY <1>8 DEF ResumeToAll, DeleteEnds, PriceEnds, CancelOwner
  <1>9. ASSUME NEW t \in Tasks, ResumeBlocks(t) PROVE LockStep
    BY <1>9 DEF ResumeBlocks
  <1>10. ASSUME NEW t \in Tasks, PriceEnters(t) PROVE LockStep
    BY <1>10 DEF PriceEnters
  <1>11. ASSUME NEW t \in Tasks, CancelWaiter(t) PROVE LockStep
    BY <1>11 DEF CancelWaiter
  <1>12. CASE Outside
    BY <1>12, OutsideSteps
  <1>13. CASE RedisDeletes
    BY <1>13, RedisSteps
  <1>14. CASE UNCHANGED vars
    BY <1>14 DEF vars
  <1> QED
    BY <1>1, <1>2, <1>3, <1>4, <1>5, <1>6, <1>7, <1>8, <1>9, <1>10, <1>11, <1>12,
       <1>13, <1>14 DEF Next, Progress, Outside

\* Each of them keeps the lock with one operation, which does not wait for it.
LEMMA LockKept == TypeOK /\ LockInv /\ LockStep => LockInv'
  <1> SUFFICES ASSUME TypeOK, LockInv, LockStep PROVE LockInv'
    OBVIOUS
  <1> USE SSEAssumption
  <1>0. /\ Len(waiters) \in Nat
        /\ DOMAIN waiters = 1 .. Len(waiters)
        /\ \A i \in 1 .. Len(waiters) : waiters[i] \in Tasks
    BY LenProperties, ElementOfSeq DEF TypeOK
  <1>1. ASSUME NEW t \in Tasks, NEW o \in Operations \ {"none"}, Request(t, o)
        PROVE  LockInv'
    <2>1. /\ DOMAIN waiters' = 1 .. Len(waiters) + 1
          /\ \A i \in 1 .. Len(waiters) : waiters'[i] = waiters[i]
          /\ waiters'[Len(waiters) + 1] = t
      BY <1>1, <1>0, AppendProperties, LenProperties DEF Request, TypeOK
    <2>2. t # owner /\ \A i \in 1 .. Len(waiters) : waiters[i] # t
      BY <1>1, <1>0 DEF Request, LockInv
    <2>3. /\ op'[t] = o
          /\ \A u \in Tasks \ {t} : op'[u] = op[u]
          /\ UNCHANGED <<owner, stage>>
      BY <1>1 DEF Request, TypeOK
    <2>4. (owner = NoTask <=> stage = "free")'
      BY <2>3 DEF LockInv
    <2>5. (owner # NoTask => op[owner] = IF stage = "price" THEN "price" ELSE "broadcast")'
      BY <2>2, <2>3 DEF LockInv, TypeOK
    <2>6. (\A i \in DOMAIN waiters : waiters[i] # owner /\ op[waiters[i]] # "none")'
      BY <2>1, <2>2, <2>3, <1>0 DEF LockInv, Operations
    <2>7. (\A i, j \in DOMAIN waiters : waiters[i] = waiters[j] => i = j)'
      BY <2>1, <2>2, <1>0 DEF LockInv
    <2> QED BY <2>4, <2>5, <2>6, <2>7 DEF LockInv
  <1>2. ASSUME waiters # <<>>, waiters' = Tail(waiters)
        PROVE  /\ DOMAIN waiters' = 1 .. Len(waiters) - 1
               /\ \A i \in 1 .. Len(waiters) - 1 : waiters'[i] = waiters[i + 1]
               /\ Head(waiters) = waiters[1]
               /\ \A i, j \in DOMAIN waiters' : waiters'[i] = waiters'[j] => i = j
               /\ \A i \in DOMAIN waiters' : waiters'[i] # Head(waiters)
    <2>1. /\ DOMAIN waiters' = 1 .. Len(waiters) - 1
          /\ \A i \in 1 .. Len(waiters) - 1 : waiters'[i] = waiters[i + 1]
      BY <1>2, HeadTailProperties, LenProperties DEF TypeOK
    <2>2. Head(waiters) = waiters[1] /\ Len(waiters) > 0
      BY <1>2, <1>0, EmptySeq DEF TypeOK
    <2>3. \A i \in DOMAIN waiters' : /\ i + 1 \in 1 .. Len(waiters)
                                     /\ i + 1 # 1
                                     /\ waiters'[i] = waiters[i + 1]
      BY <2>1, <1>0
    <2>4. \A i, j \in 1 .. Len(waiters) : waiters[i] = waiters[j] => i = j
      BY <1>0 DEF LockInv
    <2>5. \A i, j \in DOMAIN waiters' : waiters'[i] = waiters'[j] => i = j
      BY <2>1, <2>3, <2>4, <1>0
    <2>6. \A i \in DOMAIN waiters' : waiters'[i] # Head(waiters)
      BY <2>2, <2>3, <2>4, <1>0
    <2> QED BY <2>1, <2>2, <2>5, <2>6
  <1>3. ASSUME NEW t \in Tasks, NEW o \in Operations, Admitted(t, o), PassThrough(t)
        PROVE  LockInv'
    <2>1. waiters # <<>> /\ waiters' = Tail(waiters) /\ Head(waiters) = t
      BY <1>3 DEF Admitted, PassThrough
    <2>2. /\ DOMAIN waiters' = 1 .. Len(waiters) - 1
          /\ \A i \in 1 .. Len(waiters) - 1 : waiters'[i] = waiters[i + 1]
          /\ \A i, j \in DOMAIN waiters' : waiters'[i] = waiters'[j] => i = j
          /\ \A i \in DOMAIN waiters' : waiters'[i] # t
      BY <2>1, <1>2
    <2>3. /\ \A u \in Tasks \ {t} : op'[u] = op[u]
          /\ owner = NoTask /\ UNCHANGED <<owner, stage>>
      BY <1>3 DEF Admitted, PassThrough, TypeOK
    <2>4. (\A i \in DOMAIN waiters : waiters[i] # owner /\ op[waiters[i]] # "none")'
      <3>1. \A i \in DOMAIN waiters' : /\ i + 1 \in DOMAIN waiters
                                       /\ waiters'[i] = waiters[i + 1]
                                       /\ waiters[i + 1] \in Tasks
        BY <2>2, <1>0
      <3> QED BY <3>1, <2>2, <2>3 DEF LockInv
    <2> QED BY <2>2, <2>3, <2>4 DEF LockInv
  <1>4. ASSUME NEW t \in Tasks, NEW s \in {"put", "delete", "price"}, NEW o \in Operations,
               Admitted(t, o), Hold(t, s), o = IF s = "price" THEN "price" ELSE "broadcast"
        PROVE  LockInv'
    <2>1. waiters # <<>> /\ waiters' = Tail(waiters) /\ Head(waiters) = t
      BY <1>4 DEF Admitted, Hold
    <2>2. /\ owner = NoTask /\ op[t] = o /\ o # "none"
          /\ owner' = t /\ stage' = s /\ op' = op /\ t \in Tasks
      BY <1>4 DEF Admitted, Hold
    <2>3. /\ DOMAIN waiters' = 1 .. Len(waiters) - 1
          /\ \A i \in 1 .. Len(waiters) - 1 : waiters'[i] = waiters[i + 1]
          /\ \A i, j \in DOMAIN waiters' : waiters'[i] = waiters'[j] => i = j
          /\ \A i \in DOMAIN waiters' : waiters'[i] # t
      BY <2>1, <1>2
    <2>4. (owner = NoTask <=> stage = "free")'
      BY <2>2, <1>4
    <2>5. (owner # NoTask => op[owner] = IF stage = "price" THEN "price" ELSE "broadcast")'
      BY <2>2, <1>4
    <2>6. (\A i \in DOMAIN waiters : waiters[i] # owner /\ op[waiters[i]] # "none")'
      <3>1. \A i \in DOMAIN waiters' : i + 1 \in DOMAIN waiters /\ waiters'[i] = waiters[i + 1]
        BY <2>3, <1>0
      <3> QED BY <3>1, <2>2, <2>3 DEF LockInv
    <2> QED BY <2>3, <2>4, <2>5, <2>6 DEF LockInv
  <1>5. ASSUME NEW t \in Tasks, owner = t, Release(t)
        PROVE  LockInv'
    BY <1>5, <1>0 DEF Release, LockInv, TypeOK
  <1>6. ASSUME NEW t \in Tasks, NEW i \in 1 .. Len(waiters), waiters[i] = t,
               waiters' = RemoveAt(waiters, i), op' = [op EXCEPT ![t] = "none"],
               UNCHANGED <<owner, stage>>
        PROVE  LockInv'
    <2>0. /\ waiters' \in Seq(Tasks)
          /\ Len(waiters') = Len(waiters) - 1
          /\ \A j \in 1 .. Len(waiters) - 1 :
               waiters'[j] = IF j < i THEN waiters[j] ELSE waiters[j + 1]
      <3>1. waiters \in Seq(Tasks)
        BY DEF TypeOK
      <3>2. /\ RemoveAt(waiters, i) \in Seq(Tasks)
            /\ Len(RemoveAt(waiters, i)) = Len(waiters) - 1
            /\ \A j \in 1 .. Len(waiters) - 1 :
                 RemoveAt(waiters, i)[j] = IF j < i THEN waiters[j] ELSE waiters[j + 1]
        BY <3>1, RemoveAtProperties
      <3>3. waiters' = RemoveAt(waiters, i)
        BY <1>6
      <3> HIDE <1>6
      <3> QED BY <3>2, <3>3
    <2>1. DOMAIN waiters' = 1 .. Len(waiters) - 1
      BY <2>0, LenProperties
    <2>a. \A j, k \in 1 .. Len(waiters) : waiters[j] = waiters[k] => j = k
      BY <1>0 DEF LockInv
    <2> DEFINE was(j) == IF j < i THEN j ELSE j + 1
    <2>b. \A j \in DOMAIN waiters' : /\ was(j) \in (1 .. Len(waiters)) \ {i}
                                     /\ waiters'[j] = waiters[was(j)]
      BY <2>0, <2>1, <1>0
    <2>c. \A j, k \in DOMAIN waiters' : was(j) = was(k) => j = k
      BY <2>1, <1>0
    <2> HIDE DEF was
    <2>2. \A j \in DOMAIN waiters' : waiters'[j] # t
      BY <2>a, <2>b, <1>6
    <2>3. \A j, k \in DOMAIN waiters' : waiters'[j] = waiters'[k] => j = k
      BY <2>a, <2>b, <2>c
    <2>4. t # owner /\ \A u \in Tasks \ {t} : op'[u] = op[u]
      BY <1>6, <1>0 DEF LockInv, TypeOK
    <2>5. \A j \in DOMAIN waiters' : \E k \in 1 .. Len(waiters) : waiters'[j] = waiters[k]
      BY <2>b
    <2>6. (\A j \in DOMAIN waiters : waiters[j] # owner /\ op[waiters[j]] # "none")'
      BY <2>2, <2>4, <2>5, <1>6, <1>0 DEF LockInv
    <2>7. (owner # NoTask => op[owner] = IF stage = "price" THEN "price" ELSE "broadcast")'
      BY <2>4, <1>6 DEF LockInv, TypeOK
    <2> QED BY <2>3, <2>6, <2>7, <1>6 DEF LockInv
  <1>7. CASE UNCHANGED lockVars
    BY <1>7 DEF lockVars, LockInv
  <1>9. ASSUME stage = "delete", stage' = "deleted", UNCHANGED <<owner, waiters, op>>
        PROVE  LockInv'
    BY <1>9 DEF LockInv
  <1>8. Operations = {"none", "subscribe", "unsubscribe", "broadcast", "price"}
    BY DEF Operations
  <1> QED BY <1>1, <1>3, <1>4, <1>5, <1>6, <1>7, <1>8, <1>9 DEF LockStep

-----------------------------------------------------------------------------
(* The records of the broadcast calls, and the table under the lock *)

\* No step forgets a call or changes its key.
CallsKept == /\ DOMAIN sent \subseteq DOMAIN sent'
             /\ \A i \in DOMAIN sent : sent'[i].key = sent[i].key

\* The history of the broadcast calls only grows (broadcast, sse_manager.py:59).
LEMMA CallsKeptStep == TypeOK /\ [Next]_vars => CallsKept
  <1> SUFFICES ASSUME TypeOK, [Next]_vars PROVE CallsKept
    OBVIOUS
  <1>0. /\ DOMAIN sent = 1 .. Len(sent)
        /\ Len(sent) \in Nat
    BY LenProperties DEF TypeOK
  <1>a. \A i \in DOMAIN sent : sent[i] \in Calls
    BY <1>0, ElementOfSeq DEF TypeOK
  <1>b. ASSUME NEW m, NEW o, sent' = [sent EXCEPT ![m].state = o] PROVE CallsKept
    BY <1>a, <1>b DEF Calls, TypeOK, CallsKept
  <1>c. ASSUME NEW m, NEW o, NEW A,
               sent' = [sent EXCEPT ![m] = [@ EXCEPT !.to = A, !.state = o]]
        PROVE  CallsKept
    BY <1>a, <1>c DEF Calls, TypeOK, CallsKept
  <1>1. CASE UNCHANGED sent
    BY <1>1 DEF CallsKept
  <1>2. ASSUME NEW t \in Publishers, NEW k \in Keys, CallBroadcast(t, k) PROVE CallsKept
    <2>1. [key |-> k, to |-> {}, state |-> "called"] \in Calls
      BY DEF Calls, Outcomes
    <2>2. /\ sent' \in Seq(Calls)
          /\ Len(sent') = Len(sent) + 1
          /\ \A i \in 1 .. Len(sent) : sent'[i] = sent[i]
      BY <1>2, <2>1, AppendProperties DEF CallBroadcast, TypeOK
    <2>3. DOMAIN sent' = 1 .. Len(sent')
      BY <2>2, LenProperties
    <2> QED BY <1>0, <2>2, <2>3 DEF CallsKept
  <1>3. ASSUME NEW t \in Tasks, BroadcastToAll(t) \/ ResumeToAll(t) PROVE CallsKept
    <2>1. PICK m, A : sent' = [sent EXCEPT ![m] = [@ EXCEPT !.to = A, !.state = "done"]]
      BY <1>3 DEF BroadcastToAll, ResumeToAll, Finish
    <2> QED BY <2>1, <1>c
  <1>4. ASSUME NEW t \in Tasks, BroadcastBlocks(t) \/ ResumeBlocks(t) PROVE CallsKept
    <2>1. PICK S, D, c, A : Block(ticket[t], S, D, c, A)
      BY <1>4 DEF BroadcastBlocks, ResumeBlocks
    <2>2. sent' = [sent EXCEPT ![ticket[t]] = [@ EXCEPT !.to = A, !.state = "serving"]]
      BY <2>1 DEF Block
    <2> QED BY <2>2, <1>c
  <1>5. ASSUME NEW t \in Tasks, BroadcastMisses(t) PROVE CallsKept
    <2>1. sent' = [sent EXCEPT ![ticket[t]].state = "unknown key"]
      BY <1>5 DEF BroadcastMisses
    <2> QED BY <2>1, <1>1, <1>b
  <1>6. ASSUME NEW t \in Tasks, CancelWaiter(t) PROVE CallsKept
    <2>1. \/ sent' = sent
          \/ sent' = [sent EXCEPT ![ticket[t]].state = "cancelled"]
      BY <1>6 DEF CancelWaiter
    <2> QED BY <2>1, <1>1, <1>b
  <1>7. ASSUME NEW t \in Tasks, CancelOwner(t) PROVE CallsKept
    <2>1. \/ sent' = sent
          \/ sent' = [sent EXCEPT ![ticket[t]].state = "cancelled"]
      BY <1>7 DEF CancelOwner
    <2> QED BY <2>1, <1>1, <1>b
  <1>8. ASSUME NEW c \in Clients,
               \/ \E k \in Keys : CallSubscribe(c, k)
               \/ CallUnsubscribe(c) \/ Take(c) \/ Subscribe(c) \/ Unsubscribe(c)
        PROVE  UNCHANGED sent
    BY <1>8 DEF CallSubscribe, CallUnsubscribe, Take, Subscribe, Unsubscribe, castVars
  <1>9. ASSUME NEW t, CallPrice(t) \/ PriceEnters(t) \/ PriceEnds(t) \/ DeleteEnds(t)
        PROVE  UNCHANGED sent
    BY <1>9 DEF CallPrice, PriceEnters, PriceEnds, DeleteEnds, castVars
  <1>10. CASE Outside \/ RedisDeletes
    BY <1>1, <1>10, OutsideSteps, RedisSteps DEF castVars
  <1>11. CASE UNCHANGED vars
    BY <1>11 DEF vars, castVars, CallsKept
  <1> QED
    BY <1>1, <1>2, <1>3, <1>4, <1>5, <1>6, <1>7, <1>8, <1>9, <1>10, <1>11
    DEF Next, Progress, Outside

\* A task inside broadcast keeps the call it was given when it called.
LEMMA TicketsKept == TypeOK /\ TicketKnown /\ [Next]_vars => TicketKnown'
  <1> SUFFICES ASSUME TypeOK, TicketKnown, [Next]_vars PROVE TicketKnown'
    OBVIOUS
  <1> USE SSEAssumption
  <1>0. CallsKept
    BY CallsKeptStep
  <1>1. ASSUME UNCHANGED ticket, \A t \in Tasks : op'[t] = "broadcast" => op[t] = "broadcast"
        PROVE  TicketKnown'
    BY <1>0, <1>1 DEF TicketKnown, CallsKept
  <1>2. ASSUME NEW t \in Publishers, NEW k \in Keys, CallBroadcast(t, k) PROVE TicketKnown'
    <2>1. [key |-> k, to |-> {}, state |-> "called"] \in Calls
      BY DEF Calls, Outcomes
    <2>2. sent' \in Seq(Calls) /\ Len(sent') = Len(sent) + 1 /\ Len(sent) \in Nat
      BY <1>2, <2>1, AppendProperties, LenProperties DEF CallBroadcast, TypeOK
    <2>3. Len(sent) + 1 \in DOMAIN sent'
      BY <2>2, LenProperties
    <2> QED BY <2>3, <1>0, <1>2 DEF CallBroadcast, Request, TicketKnown, CallsKept, TypeOK
  <1>3. ASSUME NEW c \in Clients, \E k \in Keys : CallSubscribe(c, k) PROVE TicketKnown'
    BY <1>1, <1>3 DEF CallSubscribe, Request, castVars, TypeOK
  <1>4. ASSUME NEW c \in Clients, CallUnsubscribe(c) PROVE TicketKnown'
    BY <1>1, <1>4 DEF CallUnsubscribe, Request, castVars, TypeOK
  <1>5. ASSUME NEW c \in Clients, Subscribe(c) \/ Unsubscribe(c) PROVE TicketKnown'
    BY <1>1, <1>5 DEF Subscribe, Unsubscribe, PassThrough, castVars, TypeOK
  <1>6. ASSUME NEW c \in Clients, Take(c) PROVE TicketKnown'
    BY <1>1, <1>6 DEF Take, lockVars, castVars
  <1>7. ASSUME NEW t \in Pricers, CallPrice(t) PROVE TicketKnown'
    BY <1>1, <1>7 DEF CallPrice, Request, castVars, TypeOK
  <1>8. ASSUME NEW t \in Tasks, PriceEnters(t) PROVE TicketKnown'
    BY <1>1, <1>8 DEF PriceEnters, Hold, castVars
  <1>9. ASSUME NEW t \in Tasks, PriceEnds(t) \/ DeleteEnds(t) PROVE TicketKnown'
    BY <1>1, <1>9 DEF PriceEnds, DeleteEnds, Release, castVars, TypeOK
  <1>10. ASSUME NEW t \in Tasks, BroadcastToAll(t) PROVE TicketKnown'
    BY <1>1, <1>10 DEF BroadcastToAll, PassThrough, TypeOK
  <1>11. ASSUME NEW t \in Tasks, BroadcastBlocks(t) \/ BroadcastMisses(t) PROVE TicketKnown'
    BY <1>1, <1>11 DEF BroadcastBlocks, BroadcastMisses, Hold
  <1>12. ASSUME NEW t \in Tasks, ResumeToAll(t) \/ CancelOwner(t) PROVE TicketKnown'
    BY <1>1, <1>12 DEF ResumeToAll, CancelOwner, Release, TypeOK
  <1>13. ASSUME NEW t \in Tasks, ResumeBlocks(t) PROVE TicketKnown'
    BY <1>1, <1>13 DEF ResumeBlocks, lockVars
  <1>14. ASSUME NEW t \in Tasks, CancelWaiter(t) PROVE TicketKnown'
    BY <1>1, <1>14 DEF CancelWaiter, TypeOK
  <1>15. CASE Outside \/ RedisDeletes
    BY <1>1, <1>15, OutsideSteps, RedisSteps DEF lockVars, castVars
  <1>16. CASE UNCHANGED vars
    BY <1>1, <1>16 DEF vars, lockVars, castVars
  <1> QED
    BY <1>2, <1>3, <1>4, <1>5, <1>6, <1>7, <1>8, <1>9, <1>10, <1>11, <1>12, <1>13,
       <1>14, <1>15, <1>16 DEF Next, Progress, Outside

\* What the owner of the lock works on stays as it is: only the first waiter
\* of a free lock changes the table.
LEMMA TableKept ==
  TypeOK /\ LockInv /\ TicketKnown /\ SweepInv /\ TableStable /\ [Next]_vars
    => SweepInv' /\ TableStable'
  <1> SUFFICES ASSUME TypeOK, LockInv, TicketKnown, SweepInv, TableStable, [Next]_vars
               PROVE  SweepInv' /\ TableStable'
    OBVIOUS
  <1> USE SSEAssumption
  <1>0. CallsKept
    BY CallsKeptStep
  <1>1. ASSUME UNCHANGED <<connections, owner, todo, stuck, message>>,
               stage' = stage \/ (stage = "delete" /\ stage' = "deleted"),
               stage \in {"put", "delete", "deleted"} => ticket'[owner] = ticket[owner]
        PROVE  SweepInv' /\ TableStable'
    <2>1. stage \in {"put", "delete", "deleted"} => ticket[owner] \in DOMAIN sent
      BY DEF LockInv, TicketKnown, TypeOK
    <2>2. stage \in {"put", "delete", "deleted"} => Key(owner)' = Key(owner)
      BY <2>1, <1>0, <1>1 DEF CallsKept, Key
    <2> QED BY <2>2, <1>1 DEF SweepInv, TableStable, Members, Key
  <1>2. ASSUME stage' \in {"free", "price"}, todo' = {}
        PROVE  SweepInv' /\ TableStable'
    BY <1>2 DEF SweepInv, TableStable
  <1>3. ASSUME NEW t \in Tasks, ResumeToAll(t) \/ CancelOwner(t)
        PROVE  SweepInv' /\ TableStable'
    BY <1>2, <1>3 DEF ResumeToAll, CancelOwner, Release, Finish
  <1>4. ASSUME NEW t \in Tasks, DeleteEnds(t) \/ PriceEnds(t)
        PROVE  SweepInv' /\ TableStable'
    BY <1>2, <1>4 DEF DeleteEnds, PriceEnds, Release, SweepInv, castVars
  <1>5. ASSUME NEW t \in Tasks, PriceEnters(t)
        PROVE  SweepInv' /\ TableStable'
    BY <1>2, <1>5 DEF PriceEnters, Admitted, Hold, SweepInv, LockInv, castVars
  <1>6. ASSUME NEW t \in Tasks, BroadcastToAll(t)
        PROVE  SweepInv' /\ TableStable'
    BY <1>2, <1>6 DEF BroadcastToAll, Admitted, PassThrough, Finish, LockInv
  <1>7. ASSUME NEW c \in Clients, Subscribe(c) \/ Unsubscribe(c)
        PROVE  SweepInv' /\ TableStable'
    BY <1>2, <1>7 DEF Subscribe, Unsubscribe, Admitted, PassThrough, SweepInv, LockInv, castVars
  <1>8. ASSUME NEW t \in Tasks, BroadcastMisses(t)
        PROVE  SweepInv' /\ TableStable'
    <2>1. /\ owner' = t /\ stage' = "delete" /\ todo' = {} /\ connections' = connections
          /\ ticket'[t] = ticket[t] /\ op[t] = "broadcast"
      BY <1>8 DEF BroadcastMisses, Admitted, Hold, SweepInv, LockInv, readerVars
    <2>2. sent'[ticket[t]].key = sent[ticket[t]].key
      BY <2>1, <1>0 DEF CallsKept, TicketKnown
    <2> QED BY <2>1, <2>2, <1>8 DEF BroadcastMisses, SweepInv, TableStable, Key
  <1>9. ASSUME NEW t \in Tasks, BroadcastBlocks(t)
        PROVE  SweepInv' /\ TableStable'
    <2>1. PICK D \in SUBSET Audience(t), c \in Audience(t) :
            Block(ticket[t], Audience(t), D, c, Audience(t))
      BY <1>9 DEF BroadcastBlocks
    <2>2. /\ owner' = t /\ stage' = "put" /\ connections' = connections
          /\ ticket'[t] = ticket[t] /\ message' = ticket[t] /\ op[t] = "broadcast"
      BY <1>9 DEF BroadcastBlocks, Admitted, Hold
    <2>3. sent'[ticket[t]].key = sent[ticket[t]].key
      BY <2>2, <1>0 DEF CallsKept, TicketKnown
    <2>4. stuck' \in todo' /\ todo' \subseteq Audience(t)
      BY <2>1 DEF Block
    <2> QED BY <2>2, <2>3, <2>4 DEF SweepInv, TableStable, Audience, Members
  <1>10. ASSUME NEW t \in Tasks, ResumeBlocks(t)
         PROVE  SweepInv' /\ TableStable'
    <2>1. PICK D \in SUBSET todo, c \in todo :
            Block(ticket[t], todo, D, c, sent[ticket[t]].to)
      BY <1>10 DEF ResumeBlocks
    <2>2. /\ owner = t /\ stage = "put" /\ connections' = connections /\ ticket' = ticket
          /\ message' = message /\ owner' = t /\ stage' = "put"
      BY <1>10 DEF ResumeBlocks, lockVars
    <2>3. sent'[ticket[t]].key = sent[ticket[t]].key
      BY <2>2, <1>0 DEF CallsKept, TicketKnown, LockInv
    <2>4. stuck' \in todo' /\ todo' \subseteq todo
      BY <2>1 DEF Block
    <2> QED BY <2>2, <2>3, <2>4 DEF SweepInv, TableStable, Members
  <1>11. ASSUME NEW t \in Publishers, NEW k \in Keys, CallBroadcast(t, k)
         PROVE  SweepInv' /\ TableStable'
    <2>1. stage \in {"put", "delete", "deleted"} => t # owner
      BY <1>11 DEF CallBroadcast, Request, LockInv
    <2> QED BY <2>1, <1>1, <1>11 DEF CallBroadcast, Request, readerVars, TypeOK
  <1>12. ASSUME NEW c \in Clients, \E k \in Keys : CallSubscribe(c, k)
         PROVE  SweepInv' /\ TableStable'
    BY <1>1, <1>12 DEF CallSubscribe, Request, castVars
  <1>13. ASSUME NEW c \in Clients, CallUnsubscribe(c)
         PROVE  SweepInv' /\ TableStable'
    BY <1>1, <1>13 DEF CallUnsubscribe, Request, castVars, readerVars
  <1>14. ASSUME NEW c \in Clients, Take(c)
         PROVE  SweepInv' /\ TableStable'
    BY <1>1, <1>14 DEF Take, lockVars, castVars
  <1>15. ASSUME NEW t \in Pricers, CallPrice(t)
         PROVE  SweepInv' /\ TableStable'
    BY <1>1, <1>15 DEF CallPrice, Request, castVars, readerVars
  <1>16. ASSUME NEW t \in Tasks, CancelWaiter(t)
         PROVE  SweepInv' /\ TableStable'
    BY <1>1, <1>16 DEF CancelWaiter, readerVars
  <1>17. CASE Outside \/ RedisDeletes
    BY <1>1, <1>17, OutsideSteps, RedisSteps DEF readerVars, lockVars, castVars
  <1>18. CASE UNCHANGED vars
    BY <1>1, <1>18 DEF vars, readerVars, lockVars, castVars
  <1> QED
    BY <1>3, <1>4, <1>5, <1>6, <1>7, <1>8, <1>9, <1>10, <1>11, <1>12, <1>13,
       <1>14, <1>15, <1>16, <1>17, <1>18 DEF Next, Progress, Outside

\* The part of the inductive invariant that is about the lock and the table.
TableInv == TypeInv /\ LockInv /\ TicketKnown /\ SweepInv /\ TableStable

\* No operation runs at the start.
LEMMA TableInit == Init => TableInv
  <1> SUFFICES ASSUME Init PROVE TableInv
    OBVIOUS
  <1>1. TypeInv
    BY TypeInit
  <1>2. DOMAIN waiters = {}
    BY DEF Init
  <1>3. LockInv /\ TicketKnown /\ SweepInv /\ TableStable
    BY <1>2, SSEAssumption DEF Init, LockInv, TicketKnown, SweepInv, TableStable
  <1> QED BY <1>1, <1>3 DEF TableInv

\* Every step keeps the invariant of the lock and the table.
LEMMA TableStep == TableInv /\ [Next]_vars => TableInv'
  BY TypeStep, LockSteps, LockKept, TicketsKept, TableKept DEF TableInv, TypeInv

\* The lock and the table are consistent in every reachable state.
LEMMA TableAlways == Spec => []TableInv
  BY TableInit, TableStep, PTL DEF Spec

\* The set a broadcast iterates over keeps every queue still to be served
\* until it is served, and a key found missing stays missing until its record
\* is deleted (broadcast, sse_manager.py:79-99).
THEOREM TableIsStable == Spec => []TableStable
  <1>1. TableInv => TableStable
    BY DEF TableInv
  <1> QED BY <1>1, TableAlways, PTL

\* A record leaves Redis while its key has a subscriber only by a DEL that its
\* broadcast sent when there was none and then gave up, after a timeout or
\* cancelled; each such DEL removes one record at most (sse_manager.py:80-81,
\* functions.py:535).
THEOREM DeletionIsSafe == Spec => OnlyUnwatchedDeleted
  <1> DEFINE Safe(k) == /\ k \in cached \ cached' => k \notin DOMAIN connections
                                                       \/ late'[k] < late[k]
                        /\ late'[k] > late[k] => k \notin DOMAIN connections
  <1>1. TableInv /\ [Next]_vars => [\A k \in Keys : Safe(k)]_vars
    <2> SUFFICES ASSUME TableInv, Next, NEW k \in Keys
                 PROVE  Safe(k)
      BY DEF vars
    <2>0. /\ late \in [Keys -> Nat]
          /\ stage \in {"delete", "deleted"} => Key(owner) \notin DOMAIN connections
      BY DEF TableInv, TypeInv, TypeOK, TableStable
    <2>1. CASE UNCHANGED redisVars
      BY <2>0, <2>1 DEF redisVars
    <2>2. CASE RedisDeletes
      BY <2>0, <2>2 DEF RedisDeletes
    <2>3. ASSUME NEW t \in Tasks, owner = t, GivesUp(t), cached' = cached
          PROVE  Safe(k)
      <3>1. CASE UNCHANGED late
        BY <3>1, <2>0, <2>3
      <3>2. CASE stage = "delete" /\ late' = [late EXCEPT ![Key(t)] = @ + 1]
        BY <3>2, <2>0, <2>3
      <3> QED BY <2>3, <3>1, <3>2 DEF GivesUp
    <2>4. ASSUME NEW t \in Tasks, DeleteEnds(t) \/ CancelOwner(t)
          PROVE  Safe(k)
      BY <2>3, <2>4 DEF DeleteEnds, CancelOwner
    <2>5. ASSUME NEW x \in Keys, Store(x) \/ LateDelete(x)
          PROVE  Safe(k)
      BY <2>0, <2>5 DEF Store, LateDelete
    <2>6. ASSUME NEW c \in Clients,
                 \/ \E x \in Keys : CallSubscribe(c, x)
                 \/ CallUnsubscribe(c) \/ Take(c) \/ Depart(c) \/ Subscribe(c) \/ Unsubscribe(c)
          PROVE  UNCHANGED redisVars
      BY <2>6 DEF CallSubscribe, CallUnsubscribe, Take, Depart, Subscribe, Unsubscribe
    <2>7. ASSUME NEW t, \/ \E x \in Keys : CallBroadcast(t, x)
                        \/ CallPrice(t) \/ PriceEnters(t) \/ PriceEnds(t)
                        \/ BroadcastToAll(t) \/ BroadcastBlocks(t) \/ ResumeToAll(t)
                        \/ ResumeBlocks(t) \/ BroadcastMisses(t) \/ CancelWaiter(t)
          PROVE  UNCHANGED redisVars
      BY <2>7 DEF CallBroadcast, CallPrice, PriceEnters, PriceEnds, BroadcastToAll,
                  BroadcastBlocks, ResumeToAll, ResumeBlocks, BroadcastMisses, CancelWaiter
    <2> HIDE DEF Safe
    <2> QED BY <2>1, <2>2, <2>4, <2>5, <2>6, <2>7 DEF Next, Progress
  <1> QED BY <1>1, TableAlways, PTL DEF Spec, OnlyUnwatchedDeleted

-----------------------------------------------------------------------------
(* The order of the messages *)

\* Broadcasts wait for the lock in call order (asyncio.Lock is first come first
\* served, sse_manager.py:79).
LEMMA TicketOrderKept ==
  TableInv /\ TicketInv /\ [Next]_vars => TicketInv'
  <1> SUFFICES ASSUME TableInv, TicketInv, [Next]_vars PROVE TicketInv'
    OBVIOUS
  <1> USE SSEAssumption
  <1>0. /\ TypeOK /\ LockInv /\ TicketKnown
        /\ DOMAIN waiters = 1 .. Len(waiters) /\ Len(waiters) \in Nat
        /\ \A i \in 1 .. Len(waiters) : waiters[i] \in Tasks
        /\ Len(sent) \in Nat /\ message \in Nat
        /\ \A t \in Tasks : ticket[t] \in 0 .. Len(sent)
    BY LenProperties, ElementOfSeq DEF TableInv, TypeInv, TypeOK
  <1>1. ASSUME NEW t \in Publishers, NEW k \in Keys, CallBroadcast(t, k) PROVE TicketInv'
    <2>1. /\ DOMAIN waiters' = 1 .. Len(waiters) + 1
          /\ \A i \in 1 .. Len(waiters) : waiters'[i] = waiters[i]
          /\ waiters'[Len(waiters) + 1] = t
      BY <1>1, <1>0, AppendProperties, LenProperties DEF CallBroadcast, Request, TypeOK
    <2>2. \A i \in 1 .. Len(waiters) : waiters[i] # t
      BY <1>1, <1>0 DEF CallBroadcast, Request, LockInv
    <2>3. /\ ticket'[t] = Len(sent) + 1
          /\ \A u \in Tasks \ {t} : ticket'[u] = ticket[u] /\ op'[u] = op[u]
          /\ message' = message
      BY <1>1, <1>0 DEF CallBroadcast, Request, TypeOK
    <2>4. message <= Len(sent)
      BY <1>0 DEF TypeOK
    <2>5. \A i \in 1 .. Len(waiters) : /\ waiters'[i] = waiters[i]
                                       /\ ticket'[waiters'[i]] = ticket[waiters[i]]
                                       /\ op'[waiters'[i]] = op[waiters[i]]
                                       /\ ticket[waiters[i]] < Len(sent) + 1
      BY <2>1, <2>2, <2>3, <1>0
    <2>6. \A i \in DOMAIN waiters' : i \in 1 .. Len(waiters) \/ i = Len(waiters) + 1
      BY <2>1, <1>0
    <2>7. \A i \in DOMAIN waiters' : op'[waiters'[i]] = "broadcast"
                                       => message' < ticket'[waiters'[i]]
      BY <2>1, <2>3, <2>4, <2>5, <2>6, <1>0 DEF TicketInv
    <2>8. \A i, j \in DOMAIN waiters' :
            i < j /\ op'[waiters'[i]] = "broadcast" /\ op'[waiters'[j]] = "broadcast"
              => ticket'[waiters'[i]] < ticket'[waiters'[j]]
      <3> TAKE i, j \in DOMAIN waiters'
      <3>1. CASE j \in 1 .. Len(waiters) /\ i \in 1 .. Len(waiters)
        BY <3>1, <2>5, <1>0 DEF TicketInv
      <3>2. CASE j = Len(waiters) + 1 /\ i \in 1 .. Len(waiters)
        BY <3>2, <2>1, <2>3, <2>5
      <3>3. CASE i = Len(waiters) + 1
        BY <3>3, <2>1, <2>6, <1>0
      <3> QED BY <3>1, <3>2, <3>3, <2>6
    <2> QED BY <2>7, <2>8 DEF TicketInv
  <1>2. ASSUME NEW t \in Tasks, NEW o, Request(t, o), o # "broadcast",
               UNCHANGED <<message, ticket>>
        PROVE  TicketInv'
    <2>1. /\ DOMAIN waiters' = 1 .. Len(waiters) + 1
          /\ \A i \in 1 .. Len(waiters) : waiters'[i] = waiters[i]
          /\ waiters'[Len(waiters) + 1] = t
      BY <1>2, <1>0, AppendProperties, LenProperties DEF Request, TypeOK
    <2>2. /\ op'[t] # "broadcast"
          /\ \A u \in Tasks \ {t} : op'[u] = op[u]
      BY <1>2, <1>0 DEF Request, TypeOK
    <2>3. \A i \in 1 .. Len(waiters) : waiters[i] # t
      BY <1>2, <1>0 DEF Request, LockInv
    <2>4. \A i \in DOMAIN waiters' : op'[waiters'[i]] = "broadcast" =>
            /\ i \in DOMAIN waiters
            /\ waiters'[i] = waiters[i]
            /\ op[waiters[i]] = "broadcast"
      BY <2>1, <2>2, <2>3, <1>0
    <2> QED BY <2>4, <1>2 DEF TicketInv
  <1>3. ASSUME waiters # <<>>, waiters' = Tail(waiters), UNCHANGED ticket,
               \A t \in Tasks : op'[t] = "broadcast" => op[t] = "broadcast",
               \/ message' = message
               \/ op[Head(waiters)] = "broadcast" /\ message' = ticket[Head(waiters)]
        PROVE  TicketInv'
    <2>1. /\ DOMAIN waiters' = 1 .. Len(waiters) - 1
          /\ \A i \in 1 .. Len(waiters) - 1 : waiters'[i] = waiters[i + 1]
      BY <1>3, <1>0, HeadTailProperties, LenProperties DEF TypeOK
    <2>2. Head(waiters) = waiters[1] /\ Len(waiters) > 0
      BY <1>3, <1>0, EmptySeq DEF TypeOK
    <2>3. \A i \in DOMAIN waiters' : /\ i + 1 \in 1 .. Len(waiters)
                                     /\ 1 \in 1 .. Len(waiters)
                                     /\ 1 < i + 1
                                     /\ waiters'[i] = waiters[i + 1]
                                     /\ waiters[i + 1] \in Tasks
      BY <2>1, <1>0
    <2>4. \A i \in DOMAIN waiters' : op'[waiters'[i]] = "broadcast"
                                       => message' < ticket'[waiters'[i]]
      BY <2>2, <2>3, <1>3, <1>0 DEF TicketInv
    <2>5. \A i, j \in DOMAIN waiters' :
            i < j /\ op'[waiters'[i]] = "broadcast" /\ op'[waiters'[j]] = "broadcast"
              => ticket'[waiters'[i]] < ticket'[waiters'[j]]
      BY <2>1, <2>3, <1>3, <1>0 DEF TicketInv
    <2> QED BY <2>4, <2>5 DEF TicketInv
  <1>4. ASSUME NEW t \in Tasks, CancelWaiter(t) PROVE TicketInv'
    <2>1. PICK i \in 1 .. Len(waiters) : waiters[i] = t /\ waiters' = RemoveAt(waiters, i)
      BY <1>4 DEF CancelWaiter
    <2>2. /\ waiters' \in Seq(Tasks)
          /\ Len(waiters') = Len(waiters) - 1
          /\ \A j \in 1 .. Len(waiters) - 1 :
               waiters'[j] = IF j < i THEN waiters[j] ELSE waiters[j + 1]
      <3>1. waiters \in Seq(Tasks)
        BY <1>0 DEF TypeOK
      <3>2. /\ RemoveAt(waiters, i) \in Seq(Tasks)
            /\ Len(RemoveAt(waiters, i)) = Len(waiters) - 1
            /\ \A j \in 1 .. Len(waiters) - 1 :
                 RemoveAt(waiters, i)[j] = IF j < i THEN waiters[j] ELSE waiters[j + 1]
        BY <3>1, RemoveAtProperties
      <3>3. waiters' = RemoveAt(waiters, i)
        BY <2>1
      <3> HIDE <2>1
      <3> QED BY <3>2, <3>3
    <2> DEFINE was(j) == IF j < i THEN j ELSE j + 1
    <2>3. \A j \in DOMAIN waiters' : /\ was(j) \in 1 .. Len(waiters)
                                     /\ waiters'[j] = waiters[was(j)]
      BY <2>2, <1>0, LenProperties
    <2>4. \A j, k \in DOMAIN waiters' : j < k => was(j) < was(k)
      BY <2>2, <1>0, LenProperties
    <2> HIDE DEF was
    <2>5. /\ UNCHANGED <<message, ticket>>
          /\ \A u \in Tasks : op'[u] = "broadcast" => op[u] = "broadcast"
      BY <1>4, <1>0 DEF CancelWaiter, TypeOK
    <2>6. /\ DOMAIN waiters = 1 .. Len(waiters)
          /\ \A j \in DOMAIN waiters' :
               /\ op'[waiters'[j]] = "broadcast" => op[waiters[was(j)]] = "broadcast"
               /\ ticket'[waiters'[j]] = ticket[waiters[was(j)]]
      BY <2>3, <2>5, <1>0
    <2>7. \A j \in DOMAIN waiters' : op'[waiters'[j]] = "broadcast"
                                       => message' < ticket'[waiters'[j]]
      BY <2>3, <2>5, <2>6 DEF TicketInv
    <2>8. \A j, k \in DOMAIN waiters' :
            j < k /\ op'[waiters'[j]] = "broadcast" /\ op'[waiters'[k]] = "broadcast"
              => ticket'[waiters'[j]] < ticket'[waiters'[k]]
      BY <2>3, <2>4, <2>6 DEF TicketInv
    <2> QED BY <2>7, <2>8 DEF TicketInv
  <1>5. ASSUME UNCHANGED <<waiters, message, ticket>>,
               \A t \in Tasks : op'[t] = "broadcast" => op[t] = "broadcast"
        PROVE  TicketInv'
    BY <1>5, <1>0 DEF TicketInv
  <1>6. ASSUME NEW c \in Clients, \E k \in Keys : CallSubscribe(c, k) PROVE TicketInv'
    BY <1>2, <1>6 DEF CallSubscribe, castVars
  <1>7. ASSUME NEW c \in Clients, CallUnsubscribe(c) PROVE TicketInv'
    BY <1>2, <1>7 DEF CallUnsubscribe, castVars
  <1>8. ASSUME NEW t \in Pricers, CallPrice(t) PROVE TicketInv'
    BY <1>2, <1>8 DEF CallPrice, castVars
  <1>9. ASSUME NEW c \in Clients, Subscribe(c) \/ Unsubscribe(c) PROVE TicketInv'
    BY <1>3, <1>9, <1>0 DEF Subscribe, Unsubscribe, Admitted, PassThrough, castVars, TypeOK
  <1>10. ASSUME NEW t \in Tasks, BroadcastToAll(t) PROVE TicketInv'
    BY <1>3, <1>10, <1>0 DEF BroadcastToAll, Admitted, PassThrough, TypeOK
  <1>11. ASSUME NEW t \in Tasks, BroadcastBlocks(t) \/ BroadcastMisses(t) PROVE TicketInv'
    BY <1>3, <1>11, <1>0 DEF BroadcastBlocks, BroadcastMisses, Admitted, Hold
  <1>12. ASSUME NEW t \in Tasks, PriceEnters(t) PROVE TicketInv'
    BY <1>3, <1>12, <1>0 DEF PriceEnters, Admitted, Hold, castVars
  <1>13. ASSUME NEW t \in Tasks, ResumeToAll(t) \/ CancelOwner(t) PROVE TicketInv'
    BY <1>5, <1>13, <1>0 DEF ResumeToAll, CancelOwner, Release, TypeOK
  <1>14. ASSUME NEW t \in Tasks, PriceEnds(t) \/ DeleteEnds(t) PROVE TicketInv'
    BY <1>5, <1>14, <1>0 DEF PriceEnds, DeleteEnds, Release, castVars, TypeOK
  <1>15. ASSUME NEW t \in Tasks, ResumeBlocks(t) PROVE TicketInv'
    BY <1>5, <1>15 DEF ResumeBlocks, lockVars
  <1>16. ASSUME NEW c \in Clients, Take(c) PROVE TicketInv'
    BY <1>5, <1>16 DEF Take, lockVars, castVars
  <1>17. CASE Outside \/ RedisDeletes
    BY <1>5, <1>17, OutsideSteps, RedisSteps DEF lockVars, castVars
  <1>18. CASE UNCHANGED vars
    BY <1>5, <1>18 DEF vars, lockVars, castVars
  <1> QED
    BY <1>1, <1>4, <1>6, <1>7, <1>8, <1>9, <1>10, <1>11, <1>12, <1>13, <1>14,
       <1>15, <1>16, <1>17, <1>18 DEF Next, Progress, Outside

\* A message larger than all those of the queues it is put in keeps the order.
LEMMA GiveInOrder ==
  ASSUME TypeOK, CallOrder, NEW S \in SUBSET Clients, NEW m \in Nat, Give(S, m),
         \A c \in S : \A n \in DOMAIN stream[c] : stream[c][n] < m
  PROVE  /\ CallOrder'
         /\ \A c \in Clients : \A n \in DOMAIN stream'[c] :
              \/ n \in DOMAIN stream[c] /\ stream'[c][n] = stream[c][n]
              \/ c \in S /\ stream'[c][n] = m
  <1>0. \A c \in Clients : /\ stream[c] \in Seq(Nat)
                           /\ Len(stream[c]) \in Nat
                           /\ DOMAIN stream[c] = 1 .. Len(stream[c])
    BY LenProperties DEF TypeOK
  <1>1. /\ stream' \in [Clients -> Seq(Nat)]
        /\ \A c \in Clients \ S : stream'[c] = stream[c]
        /\ \A c \in S : /\ Len(stream'[c]) = Len(stream[c]) + 1
                        /\ \A n \in 1 .. Len(stream[c]) : stream'[c][n] = stream[c][n]
                        /\ stream'[c][Len(stream[c]) + 1] = m
    BY GiveProperties DEF TypeOK
  <1>2. \A c \in S : DOMAIN stream'[c] = 1 .. Len(stream[c]) + 1
    BY <1>1, LenProperties
  <1>3. \A c \in Clients : \A n \in DOMAIN stream'[c] :
          \/ n \in DOMAIN stream[c] /\ stream'[c][n] = stream[c][n]
          \/ c \in S /\ n = Len(stream[c]) + 1 /\ stream'[c][n] = m
    <2> TAKE c \in Clients
    <2>1. CASE c \notin S
      BY <2>1, <1>1
    <2>2. CASE c \in S
      <3>1. \A n \in DOMAIN stream'[c] : n \in 1 .. Len(stream[c]) \/ n = Len(stream[c]) + 1
        BY <2>2, <1>0, <1>2
      <3> QED BY <3>1, <2>2, <1>0, <1>1
    <2> QED BY <2>1, <2>2
  <1>4. CallOrder'
    <2> SUFFICES ASSUME NEW c \in Clients, NEW i \in DOMAIN stream'[c],
                        NEW j \in DOMAIN stream'[c], i < j
                 PROVE  stream'[c][i] < stream'[c][j]
      BY DEF CallOrder
    <2>1. CASE j \in DOMAIN stream[c] /\ i \in DOMAIN stream[c]
      BY <2>1, <1>0, <1>3 DEF CallOrder
    <2>2. CASE c \in S /\ j = Len(stream[c]) + 1
      <3>1. i \in DOMAIN stream[c] /\ stream'[c][i] = stream[c][i]
        <4>1. i \in 1 .. Len(stream[c])
          BY <2>2, <1>0, <1>2
        <4> QED BY <4>1, <2>2, <1>0, <1>1
      <3> QED BY <2>2, <3>1, <1>1
    <2>3. CASE c \in S /\ i = Len(stream[c]) + 1
      BY <2>3, <1>0, <1>2
    <2> QED BY <2>1, <2>2, <2>3, <1>3
  <1> QED BY <1>3, <1>4

\* The latest message served stays the largest in every queue, so that putting
\* it at the end (sse_manager.py:97-99) keeps the queue in call order.
LEMMA StreamKept ==
  TableInv /\ TicketInv /\ StreamInv /\ CallOrder /\ [Next]_vars
    => StreamInv' /\ CallOrder'
  <1> SUFFICES ASSUME TableInv, TicketInv, StreamInv, CallOrder, [Next]_vars
               PROVE  StreamInv' /\ CallOrder'
    OBVIOUS
  <1> USE SSEAssumption
  <1>0. /\ TypeOK /\ LockInv /\ SweepInv
        /\ message \in Nat
        /\ \A t \in Tasks : ticket[t] \in Nat
        /\ \A c \in Clients : \A n \in DOMAIN stream[c] : stream[c][n] \in Nat
    <2>1. Len(sent) \in Nat
      BY LenProperties DEF TableInv, TypeInv, TypeOK
    <2>2. \A c \in Clients : \A n \in DOMAIN stream[c] : stream[c][n] \in Nat
      BY ElementOfSeq, LenProperties DEF TableInv, TypeInv, TypeOK
    <2> QED BY <2>1, <2>2 DEF TableInv, TypeInv, TypeOK
  <1>1. ASSUME UNCHANGED <<stream, message>>, todo' \subseteq todo
        PROVE  StreamInv' /\ CallOrder'
    BY <1>1 DEF StreamInv, CallOrder
  <1>2. ASSUME NEW S \in SUBSET Clients, NEW D \in SUBSET S, NEW m \in Nat, Give(D, m),
               message' = m, message <= m,
               todo' = S \ D, \A c \in S : \A n \in DOMAIN stream[c] : stream[c][n] < m
        PROVE  StreamInv' /\ CallOrder'
    <2>1. /\ CallOrder'
          /\ \A c \in Clients : \A n \in DOMAIN stream'[c] :
               \/ n \in DOMAIN stream[c] /\ stream'[c][n] = stream[c][n]
               \/ c \in D /\ stream'[c][n] = m
      <3>1. D \in SUBSET Clients /\ \A c \in D : \A n \in DOMAIN stream[c] : stream[c][n] < m
        BY <1>2
      <3>2. TypeOK /\ CallOrder /\ Give(D, m) /\ m \in Nat
        BY <1>0, <1>2
      <3> HIDE <1>0, <1>1, <1>2
      <3> QED BY ONLY <3>1, <3>2, GiveInOrder
    <2>2. StreamInv'
      <3> SUFFICES ASSUME NEW c \in Clients, NEW n \in DOMAIN stream'[c]
                   PROVE  /\ stream'[c][n] <= m
                          /\ c \in todo' => stream'[c][n] < m
        BY <1>2 DEF StreamInv
      <3>1. CASE n \in DOMAIN stream[c] /\ stream'[c][n] = stream[c][n]
        <4>1. stream[c][n] <= message
          BY <3>1 DEF StreamInv
        <4>2. stream[c][n] <= m
          BY <4>1, <3>1, <1>2, <1>0
        <4>3. c \in todo' => stream[c][n] < m
          BY <3>1, <1>2
        <4> QED BY <4>2, <4>3, <3>1
      <3>2. CASE c \in D /\ stream'[c][n] = m
        BY <3>2, <1>2
      <3> QED BY <3>1, <3>2, <2>1
    <2> QED BY <2>1, <2>2
  <1>3. ASSUME NEW t \in Tasks, Admitted(t, "broadcast")
        PROVE  /\ message < ticket[t]
               /\ \A c \in Clients : \A n \in DOMAIN stream[c] : stream[c][n] < ticket[t]
    <2>1. 1 \in DOMAIN waiters /\ waiters[1] = t
      <3>1. waiters \in Seq(Tasks) /\ waiters # <<>>
        BY <1>3, <1>0 DEF Admitted, TypeOK
      <3>2. Len(waiters) \in Nat \ {0} /\ DOMAIN waiters = 1 .. Len(waiters)
        BY <3>1, EmptySeq, LenProperties
      <3> QED BY <3>1, <3>2, <1>3 DEF Admitted
    <2>2. message < ticket[t]
      BY <2>1, <1>3 DEF Admitted, TicketInv
    <2> QED BY <2>2, <1>0 DEF StreamInv
  <1>4. \A t \in Tasks : Audience(t) \in SUBSET Clients
    BY <1>0 DEF Audience, Members, TypeOK
  <1>5. ASSUME NEW t \in Tasks, BroadcastToAll(t) PROVE StreamInv' /\ CallOrder'
    <2>1. /\ Give(Audience(t), ticket[t]) /\ todo' = Audience(t) \ Audience(t)
          /\ message' = ticket[t] /\ Admitted(t, "broadcast")
      BY <1>5 DEF BroadcastToAll, Finish
    <2>2. /\ Audience(t) \in SUBSET Clients
          /\ message <= ticket[t] /\ ticket[t] \in Nat
          /\ \A c \in Audience(t) : \A n \in DOMAIN stream[c] : stream[c][n] < ticket[t]
      BY <2>1, <1>0, <1>3, <1>4
    <2> QED BY <2>1, <2>2, <1>2
  <1>6. ASSUME NEW t \in Tasks, BroadcastBlocks(t) PROVE StreamInv' /\ CallOrder'
    <2>1. PICK D \in SUBSET Audience(t) : /\ Give(D, ticket[t])
                                          /\ todo' = Audience(t) \ D
      BY <1>6 DEF BroadcastBlocks, Block
    <2>2. message' = ticket[t] /\ Admitted(t, "broadcast")
      BY <1>6 DEF BroadcastBlocks
    <2>3. /\ Audience(t) \in SUBSET Clients
          /\ message <= ticket[t] /\ ticket[t] \in Nat
          /\ \A c \in Audience(t) : \A n \in DOMAIN stream[c] : stream[c][n] < ticket[t]
      BY <2>2, <1>0, <1>3, <1>4
    <2> QED BY <2>1, <2>2, <2>3, <1>2
  <1>7. ASSUME stage = "put"
        PROVE  /\ message = ticket[owner]
               /\ \A c \in todo : \A n \in DOMAIN stream[c] : stream[c][n] < message
               /\ todo \in SUBSET Clients
    BY <1>7, <1>0 DEF SweepInv, StreamInv, TypeOK
  <1>8. ASSUME NEW t \in Tasks, ResumeToAll(t) PROVE StreamInv' /\ CallOrder'
    <2>1. /\ Give(todo, message) /\ todo' = todo \ todo /\ message' = message
          /\ stage = "put"
      BY <1>8, <1>7 DEF ResumeToAll, Finish
    <2> QED BY <2>1, <1>0, <1>2, <1>7
  <1>9. ASSUME NEW t \in Tasks, ResumeBlocks(t) PROVE StreamInv' /\ CallOrder'
    <2>1. PICK D \in SUBSET todo : Give(D, ticket[t]) /\ todo' = todo \ D
      BY <1>9 DEF ResumeBlocks, Block
    <2>2. ticket[t] = message /\ message' = message /\ stage = "put"
      BY <1>9, <1>7 DEF ResumeBlocks
    <2> QED BY <2>1, <2>2, <1>0, <1>2, <1>7
  <1>10. ASSUME NEW c \in Clients,
                \/ \E k \in Keys : CallSubscribe(c, k)
                \/ CallUnsubscribe(c) \/ Take(c) \/ Subscribe(c) \/ Unsubscribe(c)
         PROVE  StreamInv' /\ CallOrder'
    BY <1>10, <1>1 DEF CallSubscribe, CallUnsubscribe, Take, Subscribe, Unsubscribe,
                       castVars, readerVars
  <1>11. ASSUME NEW t, NEW k \in Keys, CallBroadcast(t, k)
         PROVE  StreamInv' /\ CallOrder'
    BY <1>11, <1>1 DEF CallBroadcast, readerVars
  <1>12. ASSUME NEW t, CallPrice(t) \/ PriceEnters(t) \/ PriceEnds(t) \/ DeleteEnds(t)
         PROVE  StreamInv' /\ CallOrder'
    BY <1>12, <1>1 DEF CallPrice, PriceEnters, PriceEnds, DeleteEnds, castVars, readerVars
  <1>13. ASSUME NEW t, BroadcastMisses(t) \/ CancelWaiter(t) \/ CancelOwner(t)
         PROVE  StreamInv' /\ CallOrder'
    BY <1>13, <1>1 DEF BroadcastMisses, CancelWaiter, CancelOwner, readerVars
  <1>14. CASE Outside \/ RedisDeletes \/ UNCHANGED vars
    BY <1>14, <1>1, OutsideSteps, RedisSteps DEF vars, castVars, readerVars
  <1> QED
    BY <1>5, <1>6, <1>8, <1>9, <1>10, <1>11, <1>12, <1>13, <1>14, SSEAssumption
    DEF Next, Progress, Outside

OrderInv == TableInv /\ TicketInv /\ StreamInv /\ CallOrder

\* Calls, waiters and queues are in order in every reachable state.
LEMMA OrderAlways == Spec => []OrderInv
  <1>1. Init => OrderInv
    <2> SUFFICES ASSUME Init PROVE OrderInv
      OBVIOUS
    <2>1. TableInv
      BY TableInit
    <2>2. DOMAIN waiters = {} /\ \A c \in Clients : DOMAIN stream[c] = {}
      BY DEF Init
    <2> QED BY <2>1, <2>2 DEF OrderInv, TicketInv, StreamInv, CallOrder
  <1>2. OrderInv /\ [Next]_vars => OrderInv'
    BY TableStep, TicketOrderKept, StreamKept DEF OrderInv
  <1> QED BY <1>1, <1>2, PTL DEF Spec

\* A reader gets its messages in the order of the broadcast calls, whoever
\* made them and however often a full queue suspended one (sse_manager.py:79-99).
THEOREM CallOrderHolds == Spec => []CallOrder
  <1>1. OrderInv => CallOrder
    BY DEF OrderInv
  <1> QED BY <1>1, OrderAlways, PTL

-----------------------------------------------------------------------------
(* The size of the queues *)

\* No step overfills a queue (sse_manager.py:97-99).
LEMMA BoundStep == TypeOK /\ QueueBound /\ [Next]_vars => QueueBound'
  <1> SUFFICES ASSUME TypeOK, QueueBound, [Next]_vars PROVE QueueBound'
    OBVIOUS
  <1> USE SSEAssumption
  <1>0. /\ \A c \in Clients : Len(stream[c]) \in Nat /\ taken[c] \in Nat
        /\ \A t \in Tasks : ticket[t] \in Nat
        /\ \A t \in Tasks : Audience(t) \in SUBSET Clients
    <2>1. Len(sent) \in Nat
      BY LenProperties DEF TypeOK
    <2> QED BY <2>1, LenProperties DEF TypeOK, Audience, Members
  <1>1. ASSUME UNCHANGED <<stream, taken>> PROVE QueueBound'
    BY <1>1 DEF QueueBound
  <1>2. ASSUME NEW D \in SUBSET Clients, NEW m \in Nat, Give(D, m),
               \A c \in D : ~ Full(c), UNCHANGED taken
        PROVE  QueueBound'
    <2>1. /\ \A c \in Clients \ D : Len(stream'[c]) = Len(stream[c])
          /\ \A c \in D : Len(stream'[c]) = Len(stream[c]) + 1
      BY <1>2, GiveProperties DEF TypeOK
    <2> QED BY <2>1, <1>0, <1>2 DEF QueueBound, Full
  <1>3. ASSUME NEW t \in Tasks, BroadcastToAll(t) PROVE QueueBound'
    <2>1. /\ Give(Audience(t), ticket[t]) /\ UNCHANGED taken
          /\ \A c \in Audience(t) : ~ Full(c)
      BY <1>3 DEF BroadcastToAll, Finish, Reaches
    <2> QED BY <2>1, <1>0, <1>2
  <1>4. ASSUME NEW t \in Tasks, ResumeToAll(t) PROVE QueueBound'
    <2>1. todo \in SUBSET Clients /\ Give(todo, ticket[t])
      BY <1>4 DEF ResumeToAll, Finish, TypeOK
    <2> QED BY <2>1, <1>4, <1>0, <1>2 DEF ResumeToAll, Reaches
  <1>5. ASSUME NEW t \in Tasks, BroadcastBlocks(t) PROVE QueueBound'
    <2>1. PICK D \in SUBSET Audience(t) : Give(D, ticket[t]) /\ \A c \in D : ~ Full(c)
      BY <1>5 DEF BroadcastBlocks, Block, Reaches
    <2>2. D \in SUBSET Clients /\ UNCHANGED taken
      BY <1>5, <1>0 DEF BroadcastBlocks
    <2> QED BY <2>1, <2>2, <1>0, <1>2
  <1>6. ASSUME NEW t \in Tasks, ResumeBlocks(t) PROVE QueueBound'
    <2>1. PICK D \in SUBSET todo : Give(D, ticket[t]) /\ \A c \in D : ~ Full(c)
      BY <1>6 DEF ResumeBlocks, Block, Reaches
    <2>2. D \in SUBSET Clients /\ UNCHANGED taken
      BY <1>6 DEF ResumeBlocks, TypeOK
    <2> QED BY <2>1, <2>2, <1>0, <1>2
  <1>7. ASSUME NEW c \in Clients, Take(c) PROVE QueueBound'
    <2>1. /\ stream' = stream
          /\ taken'[c] = taken[c] + 1 /\ taken[c] < Len(stream[c])
          /\ \A d \in Clients \ {c} : taken'[d] = taken[d]
      BY <1>7 DEF Take, TypeOK
    <2>2. Len(stream[c]) - (taken[c] + 1) \in 0 .. QueueSize
      BY <2>1, <1>0 DEF QueueBound
    <2> QED BY <2>1, <2>2 DEF QueueBound
  <1>8. ASSUME NEW c \in Clients,
               \/ \E k \in Keys : CallSubscribe(c, k)
               \/ CallUnsubscribe(c) \/ Subscribe(c) \/ Unsubscribe(c)
        PROVE  QueueBound'
    BY <1>8, <1>1 DEF CallSubscribe, CallUnsubscribe, Subscribe, Unsubscribe, readerVars
  <1>9. ASSUME NEW t, NEW k \in Keys, CallBroadcast(t, k) PROVE QueueBound'
    BY <1>9, <1>1 DEF CallBroadcast, readerVars
  <1>10. ASSUME NEW t, CallPrice(t) \/ PriceEnters(t) \/ PriceEnds(t) \/ DeleteEnds(t)
         PROVE  QueueBound'
    BY <1>10, <1>1 DEF CallPrice, PriceEnters, PriceEnds, DeleteEnds, readerVars
  <1>11. ASSUME NEW t, BroadcastMisses(t) \/ CancelWaiter(t) \/ CancelOwner(t)
         PROVE  QueueBound'
    BY <1>11, <1>1 DEF BroadcastMisses, CancelWaiter, CancelOwner, readerVars
  <1>12. CASE Outside \/ RedisDeletes \/ UNCHANGED vars
    BY <1>12, <1>1, OutsideSteps, RedisSteps DEF vars, readerVars
  <1> QED
    BY <1>3, <1>4, <1>5, <1>6, <1>7, <1>8, <1>9, <1>10, <1>11, <1>12
    DEF Next, Progress, Outside

\* No queue ever holds more than DERIBIT_QUEUE_SIZE messages, although a
\* broadcast resumes long after it found a queue full (sse_manager.py:95-99).
THEOREM QueuesAreBounded == Spec => []QueueBound
  <1>1. Init => QueueBound
    <2> SUFFICES ASSUME Init, NEW c \in Clients
                 PROVE  Len(stream[c]) - taken[c] \in 0 .. QueueSize
      BY DEF QueueBound
    <2>1. Len(stream[c]) = 0 /\ taken[c] = 0
      BY EmptySeq DEF Init
    <2> QED BY <2>1, SSEAssumption
  <1>2. TypeInv => TypeOK
    BY DEF TypeInv
  <1> QED BY <1>1, <1>2, BoundStep, TypeCorrect, PTL DEF Spec

-----------------------------------------------------------------------------
(* Delivery *)

\* What a step that puts message m in the queues of D adds to them.
LEMMA GiveGrows ==
  ASSUME TypeOK, NEW D \in SUBSET Clients, NEW m \in Nat, Give(D, m)
  PROVE  /\ \A c \in Clients, i \in Nat : Holds(c, i) => Holds(c, i)'
         /\ \A c \in D : Holds(c, m)'
         /\ \A c \in Clients : \A n \in DOMAIN stream'[c] :
              \/ n \in DOMAIN stream[c] /\ stream'[c][n] = stream[c][n]
              \/ c \in D /\ stream'[c][n] = m
  <1>0. \A c \in Clients : /\ stream[c] \in Seq(Nat)
                           /\ Len(stream[c]) \in Nat
                           /\ DOMAIN stream[c] = 1 .. Len(stream[c])
    BY LenProperties DEF TypeOK
  <1>1. /\ stream' \in [Clients -> Seq(Nat)]
        /\ \A c \in Clients \ D : stream'[c] = stream[c]
        /\ \A c \in D : /\ Len(stream'[c]) = Len(stream[c]) + 1
                        /\ \A n \in 1 .. Len(stream[c]) : stream'[c][n] = stream[c][n]
                        /\ stream'[c][Len(stream[c]) + 1] = m
    BY GiveProperties DEF TypeOK
  <1>2. \A c \in D : DOMAIN stream'[c] = 1 .. Len(stream[c]) + 1
    BY <1>1, LenProperties
  <1>3. \A c \in D : Holds(c, m)'
    <2> SUFFICES ASSUME NEW c \in D PROVE Holds(c, m)'
      OBVIOUS
    <2>1. Len(stream[c]) + 1 \in DOMAIN stream'[c]
      BY <1>0, <1>2
    <2> QED BY <2>1, <1>1 DEF Holds
  <1>4. \A c \in Clients : \A n \in DOMAIN stream[c] :
          n \in DOMAIN stream'[c] /\ stream'[c][n] = stream[c][n]
    <2> TAKE c \in Clients
    <2>1. CASE c \notin D
      BY <2>1, <1>1
    <2>2. CASE c \in D
      <3>1. DOMAIN stream[c] \subseteq DOMAIN stream'[c]
        BY <2>2, <1>0, <1>2
      <3> QED BY <3>1, <2>2, <1>0, <1>1
    <2> QED BY <2>1, <2>2
  <1>5. \A c \in Clients : \A n \in DOMAIN stream'[c] :
              \/ n \in DOMAIN stream[c] /\ stream'[c][n] = stream[c][n]
              \/ c \in D /\ stream'[c][n] = m
    <2> TAKE c \in Clients
    <2>1. CASE c \notin D
      BY <2>1, <1>1
    <2>2. CASE c \in D
      <3>1. \A n \in DOMAIN stream'[c] : n \in 1 .. Len(stream[c]) \/ n = Len(stream[c]) + 1
        BY <2>2, <1>0, <1>2
      <3> QED BY <3>1, <2>2, <1>0, <1>1
    <2> QED BY <2>1, <2>2
  <1>6. \A c \in Clients, i \in Nat : Holds(c, i) => Holds(c, i)'
    BY <1>4 DEF Holds
  <1> QED BY <1>3, <1>5, <1>6

\* How a step may change the records of the calls.
SameCalls    == sent' = sent
NewCall(k)   == sent' = Append(sent, [key |-> k, to |-> {}, state |-> "called"])
Marked(m, o) == sent' = [sent EXCEPT ![m].state = o]
Served(m, A, o) == sent' = [sent EXCEPT ![m] = [@ EXCEPT !.to = A, !.state = o]]

\* What each of the changes of the history leaves as it was.
LEMMA SentChanges ==
  ASSUME TypeOK
  PROVE  /\ \A k \in Keys : NewCall(k) =>
              /\ DOMAIN sent \subseteq DOMAIN sent'
              /\ \A i \in DOMAIN sent : sent'[i] = sent[i]
              /\ \A i \in DOMAIN sent' \ DOMAIN sent : /\ i = Len(sent) + 1
                                                       /\ sent'[i].state = "called"
         /\ \A m, o : Marked(m, o) =>
              /\ DOMAIN sent' = DOMAIN sent
              /\ \A i \in DOMAIN sent : /\ sent'[i].to = sent[i].to
                                        /\ i # m => sent'[i].state = sent[i].state
                                        /\ i = m => sent'[i].state = o
         /\ \A m, A, o : Served(m, A, o) =>
              /\ DOMAIN sent' = DOMAIN sent
              /\ \A i \in DOMAIN sent \ {m} : sent'[i] = sent[i]
              /\ m \in DOMAIN sent => sent'[m].to = A /\ sent'[m].state = o
  <1>0. /\ DOMAIN sent = 1 .. Len(sent) /\ Len(sent) \in Nat
        /\ \A i \in DOMAIN sent : sent[i] \in Calls
    BY ElementOfSeq, LenProperties DEF TypeOK
  <1>1. ASSUME NEW k \in Keys, NewCall(k)
        PROVE  /\ DOMAIN sent \subseteq DOMAIN sent'
               /\ \A i \in DOMAIN sent : sent'[i] = sent[i]
               /\ \A i \in DOMAIN sent' \ DOMAIN sent : /\ i = Len(sent) + 1
                                                        /\ sent'[i].state = "called"
    <2> DEFINE r == [key |-> k, to |-> {}, state |-> "called"]
    <2>1. r \in Calls
      BY DEF Calls, Outcomes
    <2>2. /\ Append(sent, r) \in Seq(Calls)
          /\ Len(Append(sent, r)) = Len(sent) + 1
          /\ \A i \in 1 .. Len(sent) : Append(sent, r)[i] = sent[i]
          /\ Append(sent, r)[Len(sent) + 1] = r
      BY <2>1, AppendProperties DEF TypeOK
    <2>3. DOMAIN Append(sent, r) = 1 .. Len(sent) + 1
      BY <2>2, LenProperties
    <2>4. sent' = Append(sent, r) /\ r.state = "called"
      BY <1>1 DEF NewCall
    <2> HIDE DEF r
    <2> QED BY <2>2, <2>3, <2>4, <1>0
  <1>2. ASSUME NEW m, NEW o, Marked(m, o)
        PROVE  /\ DOMAIN sent' = DOMAIN sent
               /\ \A i \in DOMAIN sent : /\ sent'[i].to = sent[i].to
                                         /\ i # m => sent'[i].state = sent[i].state
                                         /\ i = m => sent'[i].state = o
    BY <1>0, <1>2 DEF Marked, Calls, TypeOK
  <1>3. ASSUME NEW m, NEW A, NEW o, Served(m, A, o)
        PROVE  /\ DOMAIN sent' = DOMAIN sent
               /\ \A i \in DOMAIN sent \ {m} : sent'[i] = sent[i]
               /\ m \in DOMAIN sent => sent'[m].to = A /\ sent'[m].state = o
    BY <1>0, <1>3 DEF Served, Calls, TypeOK
  <1> QED BY <1>1, <1>2, <1>3

\* The set of waiting tasks after a request, an admission and a cancellation.
LEMMA WaitingSteps ==
  ASSUME TypeOK, LockInv, LockInv'
  PROVE  /\ \A t \in Tasks, o \in Operations : Request(t, o) => Waiting' \subseteq Waiting \cup {t}
         /\ \A t \in Tasks, o \in Operations : Admitted(t, o) /\ waiters' = Tail(waiters)
              => Waiting' \subseteq Waiting \ {t} /\ t \in Waiting
         /\ \A t \in Tasks : CancelWaiter(t) => Waiting' \subseteq Waiting \ {t} /\ t \in Waiting
  <1>0. /\ DOMAIN waiters = 1 .. Len(waiters) /\ Len(waiters) \in Nat
        /\ \A i, j \in DOMAIN waiters : waiters[i] = waiters[j] => i = j
    BY LenProperties DEF TypeOK, LockInv
  <1>1. ASSUME NEW t \in Tasks, NEW o \in Operations, Request(t, o)
        PROVE  Waiting' \subseteq Waiting \cup {t}
    <2>1. /\ DOMAIN waiters' = 1 .. Len(waiters) + 1
          /\ \A i \in 1 .. Len(waiters) : waiters'[i] = waiters[i]
          /\ waiters'[Len(waiters) + 1] = t
      BY <1>1, AppendProperties, LenProperties DEF Request, TypeOK
    <2>2. \A i \in DOMAIN waiters' : i \in 1 .. Len(waiters) \/ i = Len(waiters) + 1
      BY <2>1, <1>0
    <2> QED BY <2>1, <2>2, <1>0 DEF Waiting
  <1>2. ASSUME NEW t \in Tasks, NEW o \in Operations, Admitted(t, o), waiters' = Tail(waiters)
        PROVE  Waiting' \subseteq Waiting \ {t} /\ t \in Waiting
    <2>1. /\ waiters \in Seq(Tasks) /\ waiters # <<>> /\ Head(waiters) = t
      BY <1>2 DEF Admitted, TypeOK
    <2>2. /\ DOMAIN waiters' = 1 .. Len(waiters) - 1
          /\ \A i \in 1 .. Len(waiters) - 1 : waiters'[i] = waiters[i + 1]
      BY <2>1, <1>2, HeadTailProperties, LenProperties
    <2>3. 1 \in DOMAIN waiters /\ waiters[1] = t
      BY <2>1, <1>0, EmptySeq
    <2>4. \A i \in DOMAIN waiters' : /\ i + 1 \in DOMAIN waiters
                                     /\ i + 1 # 1
                                     /\ waiters'[i] = waiters[i + 1]
      BY <2>2, <1>0
    <2> QED BY <2>3, <2>4, <1>0 DEF Waiting
  <1>3. ASSUME NEW t \in Tasks, CancelWaiter(t)
        PROVE  Waiting' \subseteq Waiting \ {t} /\ t \in Waiting
    <2>1. PICK i \in 1 .. Len(waiters) : waiters[i] = t /\ waiters' = RemoveAt(waiters, i)
      BY <1>3 DEF CancelWaiter
    <2>2. waiters \in Seq(Tasks)
      BY DEF TypeOK
    <2>3. /\ RemoveAt(waiters, i) \in Seq(Tasks)
          /\ Len(RemoveAt(waiters, i)) = Len(waiters) - 1
          /\ \A j \in 1 .. Len(waiters) - 1 :
               RemoveAt(waiters, i)[j] = IF j < i THEN waiters[j] ELSE waiters[j + 1]
      BY <2>2, RemoveAtProperties
    <2>4. DOMAIN RemoveAt(waiters, i) = 1 .. Len(waiters) - 1
      BY <2>3, LenProperties
    <2>5. \A j \in DOMAIN waiters' : \E k \in DOMAIN waiters : k # i /\ waiters'[j] = waiters[k]
      <3> TAKE j \in DOMAIN waiters'
      <3>1. j \in 1 .. Len(waiters) - 1
        BY <2>1, <2>4
      <3>2. CASE j < i
        <4>1. j \in DOMAIN waiters /\ j # i /\ waiters'[j] = waiters[j]
          BY <3>1, <3>2, <2>1, <2>3, <1>0
        <4> QED BY <4>1
      <3>3. CASE ~ (j < i)
        <4>1. j + 1 \in DOMAIN waiters /\ j + 1 # i /\ waiters'[j] = waiters[j + 1]
          BY <3>1, <3>3, <2>1, <2>3, <1>0
        <4> QED BY <4>1
      <3> QED BY <3>2, <3>3
    <2> QED BY <2>1, <2>5, <1>0 DEF Waiting
  <1> QED BY <1>1, <1>2, <1>3

\* What was delivered stays so, and every step delivers what its record says.
LEMMA DeliveryKept ==
  OrderInv /\ OrderInv' /\ LedgerInv /\ Delivered /\ Addressed /\ [Next]_vars
    => LedgerInv' /\ Delivered' /\ Addressed'
  <1> SUFFICES ASSUME OrderInv, OrderInv', LedgerInv, Delivered, Addressed, [Next]_vars
               PROVE  LedgerInv' /\ Delivered' /\ Addressed'
    OBVIOUS
  <1> USE SSEAssumption
  <1>0. /\ TypeOK /\ LockInv /\ LockInv' /\ TicketKnown /\ TicketKnown' /\ SweepInv
        /\ Len(sent) \in Nat /\ message \in Nat /\ DOMAIN sent = 1 .. Len(sent)
        /\ \A t \in Tasks : ticket[t] \in Nat /\ Audience(t) \in SUBSET Clients
    <2>1. TypeOK /\ LockInv /\ LockInv' /\ TicketKnown /\ TicketKnown' /\ SweepInv
      BY DEF OrderInv, TableInv, TypeInv
    <2>2. Len(sent) \in Nat /\ DOMAIN sent = 1 .. Len(sent)
      BY <2>1, LenProperties DEF TypeOK
    <2>3. /\ message \in Nat
          /\ \A t \in Tasks : ticket[t] \in Nat /\ Audience(t) \in SUBSET Clients
      BY <2>1, <2>2 DEF TypeOK, Audience, Members
    <2> QED BY <2>1, <2>2, <2>3
  <1>1. /\ \A t \in Waiting : t \in Tasks /\ t # owner /\ op[t] # "none"
        /\ \A t \in Waiting : op[t] = "broadcast" =>
             ticket[t] \in DOMAIN sent /\ message < ticket[t]
        /\ \A t, u \in Waiting : t # u /\ op[t] = "broadcast" /\ op[u] = "broadcast"
             => ticket[t] # ticket[u]
    <2>1. \A i \in DOMAIN waiters : waiters[i] \in Tasks
      BY <1>0, ElementOfSeq, LenProperties DEF TypeOK
    <2>2. /\ \A t \in Waiting : t \in Tasks /\ t # owner /\ op[t] # "none"
          /\ \A t \in Waiting : op[t] = "broadcast" =>
               ticket[t] \in DOMAIN sent /\ message < ticket[t]
      BY <2>1, <1>0 DEF Waiting, LockInv, TicketKnown, TicketInv, OrderInv
    <2>3. DOMAIN waiters \subseteq Nat
      BY <1>0, LenProperties DEF TypeOK
    <2>4. ASSUME NEW i \in DOMAIN waiters, NEW j \in DOMAIN waiters,
                 waiters[i] # waiters[j],
                 op[waiters[i]] = "broadcast", op[waiters[j]] = "broadcast"
          PROVE  ticket[waiters[i]] # ticket[waiters[j]]
      <3>1. ticket[waiters[i]] \in Nat /\ ticket[waiters[j]] \in Nat /\ i \in Nat /\ j \in Nat
        BY <2>1, <2>3, <1>0
      <3>2. i < j \/ j < i
        BY <3>1, <2>4
      <3> QED BY <3>1, <3>2, <2>4 DEF TicketInv, OrderInv
    <2> QED BY <2>2, <2>4 DEF Waiting
  <1>2. stage \in {"put", "delete", "deleted"} => /\ op[owner] = "broadcast" /\ owner \in Tasks
                                       /\ ticket[owner] \in DOMAIN sent
    BY <1>0 DEF LockInv, TicketKnown, TypeOK
  <1>3. stage = "put" => ticket[owner] = message
    BY <1>0 DEF SweepInv
  \* Queues that do not change, records that keep their addressees.
  <1>4. ASSUME stream' = stream, DOMAIN sent \subseteq DOMAIN sent',
               \A i \in DOMAIN sent : /\ sent'[i].to = sent[i].to
                                      /\ sent'[i].state = "done" => sent[i].state = "done",
               \A i \in DOMAIN sent' \ DOMAIN sent : sent'[i].state # "done"
        PROVE  Delivered' /\ Addressed'
    BY <1>4 DEF Delivered, Addressed, Holds
  \* Message m is given to D; its record says A and o.
  <1>5. ASSUME NEW D \in SUBSET Clients, NEW m \in DOMAIN sent, NEW A \in SUBSET Clients,
               NEW o \in {"done", "serving"}, Give(D, m), Served(m, A, o), D \subseteq A,
               \/ \A c \in Clients : \A n \in DOMAIN stream[c] : stream[c][n] # m
               \/ sent[m].to = A,
               o = "done" => \A c \in A \ D : Holds(c, m)
        PROVE  /\ Delivered' /\ Addressed'
               /\ \A c \in Clients :
                    c \in D \/ (\E n \in DOMAIN stream[c] : stream[c][n] = m)
                      => \E n \in DOMAIN stream'[c] : stream'[c][n] = m
    <2>1. /\ DOMAIN sent' = DOMAIN sent
          /\ \A i \in DOMAIN sent \ {m} : sent'[i] = sent[i]
          /\ sent'[m].to = A /\ sent'[m].state = o
      BY <1>5, <1>0, SentChanges
    <2>2. m \in Nat /\ DOMAIN sent \subseteq Nat
      BY <1>0
    <2>3. /\ \A c \in Clients, i \in Nat : Holds(c, i) => Holds(c, i)'
          /\ \A c \in D : Holds(c, m)'
          /\ \A c \in Clients : \A n \in DOMAIN stream'[c] :
               \/ n \in DOMAIN stream[c] /\ stream'[c][n] = stream[c][n]
               \/ c \in D /\ stream'[c][n] = m
      <3>1. D \in SUBSET Clients /\ Give(D, m) /\ TypeOK
        BY <1>5, <1>0
      <3> HIDE <1>5, <1>0
      <3> QED BY <3>1, <2>2, GiveGrows
    <2>4. \A i \in DOMAIN sent \ {m} : sent[i].state = "done" => sent[i].to \subseteq Clients
      <3>1. \A i \in DOMAIN sent : sent[i] \in Calls
        BY <1>0, ElementOfSeq DEF TypeOK
      <3> QED BY <3>1 DEF Calls
    <2>5. Delivered'
      <3> SUFFICES ASSUME NEW i \in DOMAIN sent', sent'[i].state = "done",
                          NEW c \in sent'[i].to
                   PROVE  Holds(c, i)'
        BY DEF Delivered
      <3>1. CASE i = m
        BY <3>1, <2>1, <2>2, <2>3, <1>5
      <3>2. CASE i # m
        BY <3>2, <2>1, <2>2, <2>3, <2>4 DEF Delivered
      <3> QED BY <3>1, <3>2
    <2>6. Addressed'
      <3> SUFFICES ASSUME NEW c \in Clients, NEW n \in DOMAIN stream'[c]
                   PROVE  stream'[c][n] \in DOMAIN sent' /\ c \in sent'[stream'[c][n]].to
        BY DEF Addressed
      <3>1. CASE c \in D /\ stream'[c][n] = m
        BY <3>1, <2>1, <1>5
      <3>2. CASE n \in DOMAIN stream[c] /\ stream'[c][n] = stream[c][n]
        <4>1. stream[c][n] \in DOMAIN sent /\ c \in sent[stream[c][n]].to
          BY <3>2 DEF Addressed
        <4> QED BY <4>1, <3>2, <2>1, <1>5
      <3> QED BY <3>1, <3>2, <2>3
    <2>7. ASSUME NEW c \in Clients, c \in D \/ \E n \in DOMAIN stream[c] : stream[c][n] = m
          PROVE  \E n \in DOMAIN stream'[c] : stream'[c][n] = m
      BY <2>7, <2>2, <2>3 DEF Holds
    <2> QED BY <2>5, <2>6, <2>7
  <1>6. ASSUME NEW t \in Tasks, Admitted(t, "broadcast")
        PROVE  /\ t \in Waiting /\ op[t] = "broadcast" /\ ticket[t] \in DOMAIN sent
               /\ stage = "free" /\ todo = {}
               /\ \A c \in Clients : \A n \in DOMAIN stream[c] : stream[c][n] # ticket[t]
    <2>1. t \in Waiting
      <3>1. waiters \in Seq(Tasks) /\ waiters # <<>>
        BY <1>6, <1>0 DEF Admitted, TypeOK
      <3>2. 1 \in DOMAIN waiters /\ waiters[1] = t
        BY <3>1, <1>6, EmptySeq, LenProperties DEF Admitted
      <3> QED BY <3>2 DEF Waiting
    <2>2. op[t] = "broadcast" /\ ticket[t] \in DOMAIN sent /\ message < ticket[t]
      BY <2>1, <1>1, <1>6 DEF Admitted
    <2>3. \A c \in Clients : \A n \in DOMAIN stream[c] :
            stream[c][n] <= message /\ stream[c][n] \in Nat
      <3>1. \A c \in Clients : \A n \in DOMAIN stream[c] : stream[c][n] \in Nat
        BY <1>0, ElementOfSeq, LenProperties DEF TypeOK
      <3> QED BY <3>1 DEF OrderInv, StreamInv
    <2>4. stage = "free" /\ todo = {}
      BY <1>6, <1>0 DEF Admitted, LockInv, SweepInv
    <2> QED BY <2>1, <2>2, <2>3, <2>4, <1>0
  \* The waiting broadcasts, where nothing is left to say of the owner.
  <1>7. ASSUME stage' \notin {"put", "delete", "deleted"},
               \A u \in Waiting' : op'[u] = "broadcast" =>
                 /\ u \in Waiting /\ op[u] = "broadcast" /\ ticket'[u] = ticket[u]
                 /\ sent'[ticket[u]].state = sent[ticket[u]].state
        PROVE  LedgerInv'
    BY <1>7 DEF LedgerInv
  \* The same, where the owner stays in its await.
  <1>8. ASSUME UNCHANGED <<stream, todo, message, owner>>,
               stage' = stage \/ (stage = "delete" /\ stage' = "deleted"),
               \A u \in Waiting' : op'[u] = "broadcast" =>
                 /\ u \in Waiting /\ op[u] = "broadcast" /\ ticket'[u] = ticket[u]
                 /\ sent'[ticket[u]].state = sent[ticket[u]].state,
               stage \in {"put", "delete", "deleted"} => /\ ticket'[owner] = ticket[owner]
                                              /\ sent'[ticket[owner]].state # "done"
                                              /\ sent'[ticket[owner]].to = sent[ticket[owner]].to
        PROVE  LedgerInv'
    BY <1>8, <1>3 DEF LedgerInv, Holds
  <1>9. ASSUME NEW t \in Publishers, NEW k \in Keys, CallBroadcast(t, k)
        PROVE  LedgerInv' /\ Delivered' /\ Addressed'
    <2>1. /\ NewCall(k) /\ UNCHANGED <<stream, todo, message, stage, owner>>
          /\ Request(t, "broadcast") /\ t \in Tasks
          /\ ticket'[t] = Len(sent) + 1 /\ op'[t] = "broadcast"
          /\ \A u \in Tasks \ {t} : ticket'[u] = ticket[u] /\ op'[u] = op[u]
      BY <1>9, <1>0 DEF CallBroadcast, Request, NewCall, readerVars, TypeOK
    <2>2. /\ DOMAIN sent \subseteq DOMAIN sent'
          /\ \A i \in DOMAIN sent : sent'[i] = sent[i]
          /\ \A i \in DOMAIN sent' \ DOMAIN sent : sent'[i].state = "called"
      BY <2>1, <1>0, SentChanges
    <2>3. Delivered' /\ Addressed'
      BY <2>1, <2>2, <1>4
    <2>4. Waiting' \subseteq Waiting \cup {t}
      BY <2>1, <1>0, WaitingSteps DEF Operations
    <2>5. op[t] = "none"
      BY <2>1 DEF Request
    <2>6. t \notin Waiting /\ (stage \in {"put", "delete", "deleted"} => t # owner)
      BY <2>5, <1>1, <1>2
    <2>7. sent'[ticket'[t]].state = "called"
      <3>1. ticket'[t] \in DOMAIN sent' \ DOMAIN sent
        BY <2>1, <1>0 DEF TicketKnown
      <3> QED BY <3>1, <2>2
    <2>8. \A u \in Waiting' : op'[u] = "broadcast" => sent'[ticket'[u]].state = "called"
      <3> TAKE u \in Waiting'
      <3>1. CASE u = t
        BY <3>1, <2>7
      <3>2. CASE u # t
        BY <3>2, <2>1, <2>2, <2>4, <1>1 DEF LedgerInv
      <3> QED BY <3>1, <3>2
    <2>9. stage \in {"put", "delete", "deleted"} => /\ ticket'[owner] = ticket[owner]
                                         /\ sent'[ticket[owner]] = sent[ticket[owner]]
      BY <2>1, <2>2, <2>6, <1>2
    <2> QED BY <2>1, <2>3, <2>8, <2>9, <1>3 DEF LedgerInv, Holds
  \* Steps that leave the queues and the calls alone.
  <1>10. ASSUME UNCHANGED <<stream, sent>> PROVE Delivered' /\ Addressed'
    BY <1>10, <1>4
  <1>11. ASSUME NEW t \in Tasks, NEW o \in Operations \ {"broadcast"}, Request(t, o),
                UNCHANGED <<stream, castVars>>
         PROVE  LedgerInv' /\ Delivered' /\ Addressed'
    <2>1. /\ UNCHANGED <<stream, todo, message, stage, owner, ticket, sent>>
          /\ op'[t] # "broadcast" /\ \A u \in Tasks \ {t} : op'[u] = op[u]
      BY <1>11, <1>0 DEF Request, castVars, TypeOK
    <2>2. Waiting' \subseteq Waiting \cup {t}
      BY <1>11, <1>0, WaitingSteps
    <2>3. \A u \in Waiting' : op'[u] = "broadcast" =>
                 /\ u \in Waiting /\ op[u] = "broadcast" /\ ticket'[u] = ticket[u]
                 /\ sent'[ticket[u]].state = sent[ticket[u]].state
      BY <2>1, <2>2, <1>1
    <2>4. LedgerInv'
      BY <2>1, <2>3, <1>8 DEF LedgerInv
    <2> QED BY <2>1, <2>4, <1>10
  <1>12. ASSUME NEW t \in Tasks, NEW o \in Operations, Admitted(t, o),
                PassThrough(t) \/ Hold(t, "price"), UNCHANGED <<stream, castVars>>
         PROVE  LedgerInv' /\ Delivered' /\ Addressed'
    <2>1. /\ UNCHANGED <<stream, ticket, sent>> /\ waiters' = Tail(waiters)
          /\ \A u \in Tasks \ {t} : op'[u] = op[u]
      BY <1>12, <1>0 DEF PassThrough, Hold, castVars, TypeOK
    <2>2. stage' \notin {"put", "delete", "deleted"}
      BY <1>12, <1>0 DEF PassThrough, Hold, Admitted, LockInv
    <2>3. Waiting' \subseteq Waiting \ {t}
      BY <2>1, <1>12, <1>0, WaitingSteps
    <2>4. LedgerInv'
      BY <2>1, <2>2, <2>3, <1>1, <1>7
    <2> QED BY <2>1, <2>4, <1>10
  <1>13. ASSUME NEW t \in Tasks, owner = t, Release(t), UNCHANGED <<stream, castVars>>
         PROVE  LedgerInv' /\ Delivered' /\ Addressed'
    <2>1. /\ UNCHANGED <<stream, ticket, sent, waiters>> /\ stage' = "free"
          /\ \A u \in Tasks \ {t} : op'[u] = op[u]
      BY <1>13, <1>0 DEF Release, castVars, TypeOK
    <2>2. Waiting' = Waiting
      BY <2>1 DEF Waiting
    <2>3. LedgerInv'
      BY <2>1, <2>2, <1>1, <1>7, <1>13
    <2> QED BY <2>1, <2>3, <1>10
  <1>14. ASSUME UNCHANGED <<stream, lockVars, castVars>>
         PROVE  LedgerInv' /\ Delivered' /\ Addressed'
    <2>1. UNCHANGED <<stream, todo, message, stage, owner, ticket, sent, op, waiters>>
      BY <1>14 DEF lockVars, castVars
    <2>2. Waiting' = Waiting
      BY <2>1 DEF Waiting
    <2>3. LedgerInv'
      BY <2>1, <2>2, <1>8 DEF LedgerInv
    <2> QED BY <2>1, <2>3, <1>10
  \* Steps that mark the record of one call.
  <1>15. ASSUME NEW m, NEW o \in {"unknown key", "cancelled"}, Marked(m, o)
         PROVE  /\ DOMAIN sent' = DOMAIN sent
                /\ \A i \in DOMAIN sent : /\ sent'[i].to = sent[i].to
                                          /\ i # m => sent'[i].state = sent[i].state
                                          /\ sent'[i].state = "done" => sent[i].state = "done"
                                          /\ i = m => sent'[i].state # "done"
    <2>1. /\ DOMAIN sent' = DOMAIN sent
          /\ \A i \in DOMAIN sent : /\ sent'[i].to = sent[i].to
                                    /\ i # m => sent'[i].state = sent[i].state
                                    /\ i = m => sent'[i].state = o
      <3>1. /\ sent' = [sent EXCEPT ![m].state = o] /\ DOMAIN sent = 1 .. Len(sent)
            /\ \A i \in DOMAIN sent : sent[i] \in Calls
        BY <1>15, <1>0, ElementOfSeq DEF Marked, TypeOK
      <3> HIDE <1>15, <1>0
      <3> QED BY <3>1 DEF Calls
    <2> QED BY <2>1
  <1>16. ASSUME NEW t \in Tasks, BroadcastMisses(t)
         PROVE  LedgerInv' /\ Delivered' /\ Addressed'
    <2>1. /\ Marked(ticket[t], "unknown key") /\ UNCHANGED <<stream, ticket, op>>
          /\ waiters' = Tail(waiters) /\ Admitted(t, "broadcast")
          /\ owner' = t /\ stage' = "delete"
      BY <1>16 DEF BroadcastMisses, Hold, Marked, readerVars
    <2>2. t \in Waiting /\ op[t] = "broadcast" /\ ticket[t] \in DOMAIN sent
      BY <2>1, <1>6
    <2>3. /\ DOMAIN sent' = DOMAIN sent
          /\ \A i \in DOMAIN sent :
               /\ sent'[i].to = sent[i].to
               /\ i # ticket[t] => sent'[i].state = sent[i].state
               /\ sent'[i].state = "done" => sent[i].state = "done"
               /\ i = ticket[t] => sent'[i].state # "done"
      BY <2>1, <1>15
    <2>4. Waiting' \subseteq Waiting \ {t}
      BY <2>1, <1>0, WaitingSteps DEF Operations
    <2>5. \A u \in Waiting' : op'[u] = "broadcast" => sent'[ticket'[u]].state = "called"
      BY <2>1, <2>2, <2>3, <2>4, <1>1 DEF LedgerInv
    <2>6. LedgerInv'
      BY <2>1, <2>2, <2>3, <2>5 DEF LedgerInv
    <2> QED BY <2>1, <2>3, <2>6, <1>4
  <1>17. ASSUME NEW t \in Tasks, CancelWaiter(t)
         PROVE  LedgerInv' /\ Delivered' /\ Addressed'
    <2>1. /\ UNCHANGED <<stream, todo, message, stage, owner, ticket>>
          /\ op'[t] = "none" /\ \A u \in Tasks \ {t} : op'[u] = op[u]
          /\ IF op[t] = "broadcast" THEN Marked(ticket[t], "cancelled") ELSE sent' = sent
      BY <1>17, <1>0 DEF CancelWaiter, Marked, readerVars, TypeOK
    <2>2. Waiting' \subseteq Waiting \ {t} /\ t \in Waiting
      BY <1>17, <1>0, WaitingSteps
    <2>3. /\ DOMAIN sent' = DOMAIN sent
          /\ \A i \in DOMAIN sent :
               /\ sent'[i].to = sent[i].to
               /\ sent'[i].state = "done" => sent[i].state = "done"
               /\ ~ (op[t] = "broadcast" /\ i = ticket[t]) => sent'[i].state = sent[i].state
      BY <2>1, <1>15
    <2>4. \A u \in Waiting' : op'[u] = "broadcast" =>
                 /\ u \in Waiting /\ op[u] = "broadcast" /\ ticket'[u] = ticket[u]
                 /\ sent'[ticket[u]].state = sent[ticket[u]].state
      BY <2>1, <2>2, <2>3, <1>1
    <2>5. stage \in {"put", "delete", "deleted"} => /\ sent'[ticket[owner]].state # "done"
                                         /\ sent'[ticket[owner]].to = sent[ticket[owner]].to
      BY <2>3, <1>2 DEF LedgerInv
    <2>6. LedgerInv'
      BY <2>1, <2>4, <2>5, <1>8
    <2> QED BY <2>1, <2>3, <2>6, <1>4
  <1>18. ASSUME NEW t \in Tasks, CancelOwner(t)
         PROVE  LedgerInv' /\ Delivered' /\ Addressed'
    <2>1. /\ UNCHANGED <<stream, ticket, waiters>> /\ stage' = "free" /\ owner = t
          /\ op'[t] = "none" /\ \A u \in Tasks \ {t} : op'[u] = op[u]
          /\ IF stage = "put" THEN Marked(ticket[t], "cancelled") ELSE sent' = sent
      BY <1>18, <1>0 DEF CancelOwner, Release, Marked, readerVars, TypeOK
    <2>2. Waiting' = Waiting
      BY <2>1 DEF Waiting
    <2>3. /\ DOMAIN sent' = DOMAIN sent
          /\ \A i \in DOMAIN sent :
               /\ sent'[i].to = sent[i].to
               /\ sent'[i].state = "done" => sent[i].state = "done"
               /\ ~ (stage = "put" /\ i = ticket[t]) => sent'[i].state = sent[i].state
      BY <2>1, <1>15
    <2>4. stage = "put" => \A u \in Waiting : op[u] = "broadcast" => ticket[u] # ticket[t]
      <3>1. \A u \in Waiting : op[u] = "broadcast" =>
              ticket[u] \in Nat /\ message < ticket[u]
        BY <1>0, <1>1
      <3> QED BY <3>1, <2>1, <1>0, <1>3
    <2>5. \A u \in Waiting' : op'[u] = "broadcast" =>
                 /\ u \in Waiting /\ op[u] = "broadcast" /\ ticket'[u] = ticket[u]
                 /\ sent'[ticket[u]].state = sent[ticket[u]].state
      BY <2>1, <2>2, <2>3, <2>4, <1>1
    <2>6. LedgerInv'
      BY <2>1, <2>5, <1>7
    <2> QED BY <2>1, <2>3, <2>6, <1>4
  \* Steps that serve one broadcast.
  <1>19. ASSUME NEW t \in Tasks, BroadcastToAll(t)
         PROVE  LedgerInv' /\ Delivered' /\ Addressed'
    <2> DEFINE A == Audience(t)
    <2>1. /\ Give(A, ticket[t]) /\ Served(ticket[t], A, "done") /\ ticket' = ticket
          /\ waiters' = Tail(waiters) /\ Admitted(t, "broadcast") /\ stage' = stage
          /\ op'[t] = "none" /\ \A u \in Tasks \ {t} : op'[u] = op[u]
      BY <1>19, <1>0 DEF BroadcastToAll, Finish, PassThrough, Served, TypeOK
    <2>2. /\ t \in Waiting /\ op[t] = "broadcast" /\ ticket[t] \in DOMAIN sent
          /\ stage = "free"
          /\ \A c \in Clients : \A n \in DOMAIN stream[c] : stream[c][n] # ticket[t]
      BY <2>1, <1>6
    <2>3. A \in SUBSET Clients
      BY <1>0
    <2> HIDE DEF A
    <2>4. Delivered' /\ Addressed'
      BY <2>1, <2>2, <2>3, <1>5
    <2>5. \A i \in DOMAIN sent \ {ticket[t]} : sent'[i] = sent[i]
      BY <2>1, <1>0, SentChanges
    <2>6. Waiting' \subseteq Waiting \ {t}
      BY <2>1, <1>0, WaitingSteps DEF Operations
    <2>7. LedgerInv'
      BY <2>1, <2>2, <2>5, <2>6, <1>1, <1>7
    <2> QED BY <2>4, <2>7
  <1>20. ASSUME NEW t \in Tasks, BroadcastBlocks(t)
         PROVE  LedgerInv' /\ Delivered' /\ Addressed'
    <2> DEFINE A == Audience(t)
    <2>1. PICK D \in SUBSET A : /\ Give(D, ticket[t]) /\ todo' = A \ D
                                /\ Served(ticket[t], A, "serving")
      BY <1>20 DEF BroadcastBlocks, Block, Served
    <2>2. /\ ticket' = ticket /\ waiters' = Tail(waiters) /\ Admitted(t, "broadcast")
          /\ stage' = "put" /\ op' = op /\ owner' = t /\ message' = ticket[t]
      BY <1>20 DEF BroadcastBlocks, Hold
    <2>3. /\ t \in Waiting /\ op[t] = "broadcast" /\ ticket[t] \in DOMAIN sent
          /\ \A c \in Clients : \A n \in DOMAIN stream[c] : stream[c][n] # ticket[t]
      BY <2>2, <1>6
    <2>4. A \in SUBSET Clients
      BY <1>0
    <2> HIDE DEF A
    <2>5. /\ Delivered' /\ Addressed'
          /\ \A c \in Clients :
               c \in D \/ (\E n \in DOMAIN stream[c] : stream[c][n] = ticket[t])
                 => \E n \in DOMAIN stream'[c] : stream'[c][n] = ticket[t]
      <3>1. /\ D \in SUBSET Clients /\ A \in SUBSET Clients /\ D \subseteq A
            /\ ticket[t] \in DOMAIN sent
            /\ Give(D, ticket[t]) /\ Served(ticket[t], A, "serving")
            /\ \A c \in Clients : \A n \in DOMAIN stream[c] : stream[c][n] # ticket[t]
        BY <2>1, <2>3, <2>4
      <3>2. "serving" \in {"done", "serving"} /\ "serving" # "done"
        OBVIOUS
      <3> HIDE <2>1, <2>2, <2>3, <2>4, <1>20
      <3> QED BY <3>1, <3>2, <1>5
    <2>6. /\ \A i \in DOMAIN sent \ {ticket[t]} : sent'[i] = sent[i]
          /\ sent'[ticket[t]].to = A /\ sent'[ticket[t]].state = "serving"
      BY <2>1, <2>3, <1>0, SentChanges
    <2>7. Waiting' \subseteq Waiting \ {t}
      BY <2>2, <1>0, WaitingSteps DEF Operations
    <2>8. \A u \in Waiting' : op'[u] = "broadcast" => sent'[ticket'[u]].state = "called"
      BY <2>2, <2>3, <2>6, <2>7, <1>1 DEF LedgerInv
    <2>9. \A c \in sent'[message'].to \ todo' : Holds(c, message)'
      <3>1. \A c \in D : \E n \in DOMAIN stream'[c] : stream'[c][n] = ticket[t]
        BY <2>5, <2>1, <2>4
      <3>2. sent'[message'].to \ todo' \subseteq D /\ message' = ticket[t]
        BY <2>1, <2>2, <2>6
      <3> QED BY <3>1, <3>2 DEF Holds
    <2> QED BY <2>1, <2>2, <2>5, <2>6, <2>8, <2>9 DEF LedgerInv
  \* What a broadcast that is blocked in put() knows.
  <1>21. ASSUME NEW t \in Tasks, owner = t, stage = "put"
         PROVE  /\ ticket[t] = message /\ message \in DOMAIN sent
                /\ sent[message].to \in SUBSET Clients
                /\ todo \in SUBSET Clients /\ todo \subseteq sent[message].to
                /\ \A c \in sent[message].to \ todo : Holds(c, message)
                /\ \A u \in Waiting : op[u] = "broadcast" => ticket[u] # message
    <2>1. ticket[t] = message /\ message \in DOMAIN sent
      BY <1>21, <1>2, <1>3
    <2>2. sent[message].to \in SUBSET Clients
      <3>1. sent[message] \in Calls
        BY <2>1, <1>0, ElementOfSeq DEF TypeOK
      <3> QED BY <3>1 DEF Calls
    <2>3. todo \in SUBSET Clients
      BY <1>0 DEF TypeOK
    <2>4. \A u \in Waiting : op[u] = "broadcast" => ticket[u] # message
      <3>1. \A u \in Waiting : op[u] = "broadcast" => ticket[u] \in Nat /\ message < ticket[u]
        BY <1>0, <1>1
      <3> QED BY <3>1, <1>0
    <2> QED BY <2>1, <2>2, <2>3, <2>4, <1>21 DEF LedgerInv
  <1>22. ASSUME NEW t \in Tasks, ResumeToAll(t)
         PROVE  LedgerInv' /\ Delivered' /\ Addressed'
    <2> DEFINE A == sent[message].to
    <2>1. owner = t /\ stage = "put"
      BY <1>22 DEF ResumeToAll
    <2>2. /\ ticket[t] = message /\ message \in DOMAIN sent /\ A \in SUBSET Clients
          /\ todo \in SUBSET Clients /\ todo \subseteq A
          /\ \A c \in A \ todo : Holds(c, message)
          /\ \A u \in Waiting : op[u] = "broadcast" => ticket[u] # message
      BY <2>1, <1>21
    <2>3. /\ Give(todo, message) /\ Served(message, A, "done") /\ stage' = "free"
          /\ UNCHANGED <<ticket, waiters>> /\ op'[t] = "none"
          /\ \A u \in Tasks \ {t} : op'[u] = op[u]
      BY <1>22, <2>2, <1>0 DEF ResumeToAll, Finish, Release, Served, TypeOK
    <2>4. A = sent[message].to
      OBVIOUS
    <2> HIDE DEF A
    <2>5. Delivered' /\ Addressed'
      BY <2>2, <2>3, <2>4, <1>5
    <2>6. \A i \in DOMAIN sent \ {message} : sent'[i] = sent[i]
      BY <2>3, <1>0, SentChanges
    <2>7. Waiting' = Waiting
      BY <2>3 DEF Waiting
    <2>8. LedgerInv'
      BY <2>2, <2>3, <2>6, <2>7, <1>1, <1>7
    <2> QED BY <2>5, <2>8
  <1>23. ASSUME NEW t \in Tasks, ResumeBlocks(t)
         PROVE  LedgerInv' /\ Delivered' /\ Addressed'
    <2> DEFINE A == sent[message].to
    <2>1. owner = t /\ stage = "put"
      BY <1>23 DEF ResumeBlocks
    <2>2. /\ ticket[t] = message /\ message \in DOMAIN sent /\ A \in SUBSET Clients
          /\ todo \in SUBSET Clients /\ todo \subseteq A
          /\ \A c \in A \ todo : Holds(c, message)
          /\ \A u \in Waiting : op[u] = "broadcast" => ticket[u] # message
      BY <2>1, <1>21
    <2>3. PICK D \in SUBSET todo : /\ Give(D, message) /\ todo' = todo \ D
                                   /\ Served(message, A, "serving")
      BY <1>23, <2>2 DEF ResumeBlocks, Block, Served
    <2>4. UNCHANGED <<ticket, waiters, op, owner, stage, message>>
      BY <1>23 DEF ResumeBlocks, lockVars
    <2>5. A = sent[message].to
      OBVIOUS
    <2> HIDE DEF A
    <2>6. D \in SUBSET Clients /\ D \subseteq A
      BY <2>2, <2>3
    <2>7. /\ Delivered' /\ Addressed'
          /\ \A c \in Clients :
               c \in D \/ (\E n \in DOMAIN stream[c] : stream[c][n] = message)
                 => \E n \in DOMAIN stream'[c] : stream'[c][n] = message
      <3>1. /\ D \in SUBSET Clients /\ A \in SUBSET Clients /\ D \subseteq A
            /\ message \in DOMAIN sent
            /\ Give(D, message) /\ Served(message, A, "serving") /\ sent[message].to = A
        BY <2>2, <2>3, <2>5, <2>6
      <3>2. "serving" \in {"done", "serving"} /\ "serving" # "done"
        OBVIOUS
      <3> HIDE <2>1, <2>2, <2>3, <2>4, <2>5, <2>6, <1>23
      <3> QED BY <3>1, <3>2, <1>5
    <2>8. /\ \A i \in DOMAIN sent \ {message} : sent'[i] = sent[i]
          /\ sent'[message].to = A /\ sent'[message].state = "serving"
      BY <2>2, <2>3, <1>0, SentChanges
    <2>9. Waiting' = Waiting
      BY <2>4 DEF Waiting
    <2>10. \A u \in Waiting' : op'[u] = "broadcast" => sent'[ticket'[u]].state = "called"
      BY <2>2, <2>4, <2>8, <2>9, <1>1 DEF LedgerInv
    <2>11. \A c \in A \ todo' : Holds(c, message)'
      BY <2>2, <2>3, <2>4, <2>7 DEF Holds
    <2>12. /\ todo' \subseteq sent'[message'].to
           /\ \A c \in sent'[message'].to \ todo' : Holds(c, message)'
           /\ sent'[ticket'[owner']].state # "done"
      BY <2>1, <2>2, <2>3, <2>4, <2>8, <2>11
    <2> QED BY <2>7, <2>10, <2>12 DEF LedgerInv
  <1>24. CASE UNCHANGED vars
    BY <1>24, <1>14 DEF vars, readerVars
  <1>25. ASSUME NEW t \in Tasks, Progress(t)
         PROVE  LedgerInv' /\ Delivered' /\ Addressed'
    <2>1. CASE t \in Clients /\ Subscribe(t)
      BY <2>1, <1>12 DEF Subscribe, Operations
    <2>2. CASE t \in Clients /\ Unsubscribe(t)
      BY <2>2, <1>12 DEF Unsubscribe, Operations
    <2>3. CASE DeleteEnds(t)
      BY <2>3, <1>13 DEF DeleteEnds, readerVars
    <2>4. CASE PriceEnters(t)
      BY <2>4, <1>12 DEF PriceEnters, Operations, readerVars
    <2>5. CASE PriceEnds(t)
      BY <2>5, <1>13 DEF PriceEnds, readerVars
    <2> QED BY <2>1, <2>2, <2>3, <2>4, <2>5, <1>25,
               <1>16, <1>19, <1>20, <1>22, <1>23 DEF Progress
  <1>26. ASSUME NEW c \in Clients,
                (\E k \in Keys : CallSubscribe(c, k)) \/ CallUnsubscribe(c) \/ Take(c)
         PROVE  LedgerInv' /\ Delivered' /\ Addressed'
    <2>1. CASE (\E k \in Keys : CallSubscribe(c, k)) \/ CallUnsubscribe(c)
      BY <2>1, <1>11 DEF CallSubscribe, CallUnsubscribe, Operations, readerVars
    <2>2. CASE Take(c)
      BY <2>2, <1>14 DEF Take
    <2> QED BY <2>1, <2>2, <1>26
  <1>27. ASSUME NEW t \in Pricers, CallPrice(t)
         PROVE  LedgerInv' /\ Delivered' /\ Addressed'
    BY <1>27, <1>11 DEF CallPrice, Operations, readerVars
  <1>28. CASE Outside
    BY <1>28, <1>14, OutsideSteps DEF readerVars
  <1>29. CASE RedisDeletes
    <2>1. /\ UNCHANGED <<stream, todo, message, owner, ticket, sent, op, waiters>>
          /\ stage = "delete" /\ stage' = "deleted"
      BY <1>29, RedisSteps DEF readerVars, castVars
    <2>2. Waiting' = Waiting
      BY <2>1 DEF Waiting
    <2>3. LedgerInv'
      BY <2>1, <2>2, <1>8 DEF LedgerInv
    <2> QED BY <2>1, <2>3, <1>10
  <1> QED BY <1>9, <1>17, <1>18, <1>24, <1>25, <1>26, <1>27, <1>28, <1>29
      DEF Next, Outside

\* Everything that is invariant, with what has been delivered to whom.
LedgerAll == OrderInv /\ LedgerInv /\ Delivered /\ Addressed

\* It holds in every reachable state.
LEMMA LedgerAlways == Spec => []LedgerAll
  <1>1. Init => LedgerInv /\ Delivered /\ Addressed
    <2> SUFFICES ASSUME Init PROVE LedgerInv /\ Delivered /\ Addressed
      OBVIOUS
    <2>1. DOMAIN sent = {} /\ \A c \in Clients : DOMAIN stream[c] = {}
      BY DEF Init
    <2>2. Waiting = {} /\ stage = "free"
      BY DEF Init, Waiting
    <2> QED BY <2>1, <2>2 DEF LedgerInv, Delivered, Addressed
  <1> QED BY <1>1, OrderAlways, DeliveryKept, PTL DEF Spec, LedgerAll

\* A broadcast that returned gave its message once to each of the queues that
\* were under its key, and to no other (sse_manager.py:95-99).
THEOREM ExactlyOnceHolds == Spec => []ExactlyOnce
  <1>1. LedgerAll => ExactlyOnce
    <2> SUFFICES ASSUME LedgerAll, NEW c \in Clients,
                        NEW i \in DOMAIN stream[c], NEW j \in DOMAIN stream[c], i # j
                 PROVE  stream[c][i] # stream[c][j]
      BY DEF LedgerAll, ExactlyOnce
    <2>1. TypeOK /\ CallOrder
      BY DEF LedgerAll, OrderInv, TableInv, TypeInv
    <2>2. /\ i \in Nat /\ j \in Nat
          /\ stream[c][i] \in Nat /\ stream[c][j] \in Nat
      <3>1. stream[c] \in Seq(Nat) /\ DOMAIN stream[c] = 1 .. Len(stream[c])
        BY <2>1, LenProperties DEF TypeOK
      <3> QED BY <3>1, ElementOfSeq, LenProperties
    <2>3. i < j \/ j < i
      BY <2>2
    <2> QED BY <2>1, <2>2, <2>3 DEF CallOrder
  <1> QED BY <1>1, LedgerAlways, PTL

\* The strengthening of all the safety invariants above holds.
THEOREM InvariantHolds == Spec => []IInv
  <1>1. LedgerAll => IInv
    BY DEF LedgerAll, OrderInv, TableInv, TypeInv, IInv
  <1> QED BY <1>1, LedgerAlways, PTL

-----------------------------------------------------------------------------
(* Who can go on *)

\* Who is in an operation has the lock or is in its line, and only readers are
\* in the operations on the table.
InLine ==
  \A t \in Tasks : op[t] # "none" =>
    /\ t = owner \/ \E i \in DOMAIN waiters : waiters[i] = t
    /\ t \in Clients \/ op[t] \in {"broadcast", "price"}

\* Task t has an answer of Redis or of the database coming, or room in the queue
\* it waits for; the free lock is its; or it is the reader of the queue the owner
\* waits for, at leave to read.
Ready(t) ==
  \/ owner = t /\ stage \in {"delete", "deleted", "price"}
  \/ owner = t /\ stage = "put" /\ ~Full(stuck)
  \/ /\ owner = NoTask
     /\ waiters # <<>>
     /\ Head(waiters) = t
     /\ t \in Clients \/ op[t] \in {"broadcast", "price"}
     /\ op[t] # "none"
  \/ /\ stage = "put" /\ stuck = t
     /\ op[t] = "none" /\ t \notin gone /\ taken[t] < Len(stream[t])

\* While a task is in an operation, somebody can go on, unless the owner of the
\* lock waits for the full queue of a reader that is over or itself in an operation:
\* nothing else keeps the lock (sse_manager.py:34, 49, 79, 99).
OnlyJamsBlock ==
  (\E t \in Tasks : op[t] # "none") => Jam \/ \E t \in Tasks : Ready(t)

\* A task joins the line with its operation, and leaves it for the lock or with
\* its operation.
LEMMA LineKept == TypeOK /\ LockInv /\ InLine /\ LockStep => InLine'
  <1> SUFFICES ASSUME TypeOK, LockInv, InLine, LockStep PROVE InLine'
    OBVIOUS
  <1>0. /\ Len(waiters) \in Nat
        /\ DOMAIN waiters = 1 .. Len(waiters)
        /\ waiters \in Seq(Tasks)
        /\ op \in [Tasks -> Operations]
    BY LenProperties DEF TypeOK
  <1>1. ASSUME NEW t \in Tasks, NEW o \in Operations \ {"none"}, Request(t, o),
               t \in Clients \/ o \in {"broadcast", "price"}
        PROVE  InLine'
    <2>1. /\ DOMAIN waiters' = 1 .. Len(waiters) + 1
          /\ \A i \in 1 .. Len(waiters) : waiters'[i] = waiters[i]
          /\ waiters'[Len(waiters) + 1] = t
      BY <1>1, <1>0, AppendProperties, LenProperties DEF Request
    <2>2. /\ op'[t] = o
          /\ \A u \in Tasks \ {t} : op'[u] = op[u]
          /\ owner' = owner
      BY <1>0, <1>1 DEF Request
    <2>3. /\ \A i \in DOMAIN waiters : i \in DOMAIN waiters' /\ waiters'[i] = waiters[i]
          /\ Len(waiters) + 1 \in DOMAIN waiters'
      BY <1>0, <2>1
    <2> QED BY <1>1, <2>1, <2>2, <2>3 DEF InLine
  <1>2. ASSUME NEW t \in Tasks, NEW o, Admitted(t, o), waiters' = Tail(waiters)
        PROVE  \A u \in Tasks \ {t} :
                 (\E i \in DOMAIN waiters : waiters[i] = u)
                   => \E i \in DOMAIN waiters' : waiters'[i] = u
    <2>1. waiters # <<>> /\ waiters[1] = t
      BY <1>0, <1>2, HeadTailProperties, EmptySeq DEF Admitted
    <2>2. /\ DOMAIN waiters' = 1 .. Len(waiters) - 1
          /\ \A i \in 1 .. Len(waiters) - 1 : waiters'[i] = waiters[i + 1]
      BY <1>0, <1>2, <2>1, HeadTailProperties, LenProperties
    <2>3. ASSUME NEW u \in Tasks \ {t}, NEW i \in DOMAIN waiters, waiters[i] = u
          PROVE  i - 1 \in DOMAIN waiters' /\ waiters'[i - 1] = u
      <3>1. i # 1
        BY <2>1, <2>3
      <3>2. i - 1 \in 1 .. Len(waiters) - 1 /\ (i - 1) + 1 = i
        BY <1>0, <3>1
      <3> QED BY <2>2, <2>3, <3>2
    <2> QED BY <2>3
  <1>3. ASSUME NEW t \in Tasks, NEW o, Admitted(t, o), PassThrough(t) PROVE InLine'
    BY <1>0, <1>2, <1>3 DEF PassThrough, InLine
  <1>4. ASSUME NEW t \in Tasks, NEW o, NEW s, Admitted(t, o), Hold(t, s) PROVE InLine'
    <2>1. owner = NoTask /\ NoTask \notin Tasks
      BY <1>4, SSEAssumption DEF Admitted
    <2> QED BY <1>0, <1>2, <1>4, <2>1 DEF Hold, InLine
  <1>5. ASSUME NEW t \in Tasks, owner = t, Release(t) PROVE InLine'
    BY <1>0, <1>5 DEF Release, InLine
  <1>6. ASSUME NEW t \in Tasks, NEW i \in 1 .. Len(waiters), waiters[i] = t,
               waiters' = RemoveAt(waiters, i), op' = [op EXCEPT ![t] = "none"],
               UNCHANGED <<owner, stage>>
        PROVE  InLine'
    <2>1. /\ RemoveAt(waiters, i) \in Seq(Tasks)
          /\ Len(RemoveAt(waiters, i)) = Len(waiters) - 1
          /\ \A j \in 1 .. Len(waiters) - 1 :
               RemoveAt(waiters, i)[j] = IF j < i THEN waiters[j] ELSE waiters[j + 1]
      BY <1>0, RemoveAtProperties
    <2>2. /\ DOMAIN waiters' = 1 .. Len(waiters) - 1
          /\ \A j \in 1 .. Len(waiters) - 1 :
               waiters'[j] = IF j < i THEN waiters[j] ELSE waiters[j + 1]
      BY <1>6, <2>1, LenProperties
    <2>3. ASSUME NEW j \in 1 .. Len(waiters), j # i
          PROVE  \E k \in DOMAIN waiters' : waiters'[k] = waiters[j]
      <3>1. CASE j < i
        <4>1. j \in 1 .. Len(waiters) - 1
          BY <1>0, <3>1
        <4> QED BY <2>2, <3>1, <4>1
      <3>2. CASE ~(j < i)
        <4>1. j - 1 \in 1 .. Len(waiters) - 1 /\ ~(j - 1 < i) /\ (j - 1) + 1 = j
          BY <1>0, <2>3, <3>2
        <4> QED BY <2>2, <4>1
      <3> QED BY <3>1, <3>2
    <2>4. op'[t] = "none" /\ \A u \in Tasks \ {t} : op'[u] = op[u]
      BY <1>0, <1>6
    <2>5. \A j \in DOMAIN waiters : waiters[j] # t => j # i
      BY <1>6
    <2> QED BY <1>0, <1>6, <2>3, <2>4, <2>5 DEF InLine
  <1>7. CASE UNCHANGED lockVars
    BY <1>7 DEF lockVars, InLine
  <1>8. CASE UNCHANGED <<owner, waiters, op>>
    BY <1>8 DEF InLine
  <1> QED BY <1>1, <1>3, <1>4, <1>5, <1>6, <1>7, <1>8 DEF LockStep

\* The owner waits for an answer or for a queue; without an owner there is a
\* first in the line.
LEMMA SomebodyIsReady == IInv /\ InLine => OnlyJamsBlock
  <1> SUFFICES ASSUME IInv, InLine, NEW u \in Tasks, op[u] # "none", ~Jam
               PROVE  \E t \in Tasks : Ready(t)
    BY DEF OnlyJamsBlock
  <1>0. /\ owner \in Tasks \cup {NoTask}
        /\ waiters \in Seq(Tasks)
        /\ stage \in {"free", "put", "delete", "deleted", "price"}
        /\ taken \in [Clients -> Nat]
        /\ stream \in [Clients -> Seq(Nat)]
        /\ todo \subseteq Clients
        /\ owner = NoTask <=> stage = "free"
        /\ stage = "put" => stuck \in todo
        /\ \A i \in DOMAIN waiters : op[waiters[i]] # "none"
    BY DEF IInv, TypeOK, LockInv, SweepInv
  <1>1. CASE stage \in {"delete", "deleted", "price"}
    <2>1. owner \in Tasks
      BY <1>0, <1>1
    <2>2. Ready(owner)
      BY <1>1 DEF Ready
    <2> QED BY <2>1, <2>2
  <1>2. CASE stage = "put" /\ ~Full(stuck)
    <2>1. owner \in Tasks
      BY <1>0, <1>2
    <2>2. Ready(owner)
      BY <1>2 DEF Ready
    <2> QED BY <2>1, <2>2
  <1>3. CASE stage = "put" /\ Full(stuck)
    <2>1. stuck \in Clients /\ stuck \in Tasks
      BY <1>0, <1>3, SSEAssumption
    <2>2. op[stuck] = "none" /\ stuck \notin gone
      BY <1>3 DEF Jam
    <2>3. stream[stuck] \in Seq(Nat) /\ taken[stuck] \in Nat /\ QueueSize \in Nat \ {0}
      BY <1>0, <2>1, SSEAssumption
    <2>4. Len(stream[stuck]) \in Nat
      BY <2>3, LenProperties
    <2>5. taken[stuck] < Len(stream[stuck])
      BY <1>3, <2>3, <2>4 DEF Full
    <2>6. Ready(stuck)
      BY <1>3, <2>2, <2>5 DEF Ready
    <2> QED BY <2>1, <2>6
  <1>4. CASE stage = "free"
    <2>1. owner = NoTask /\ u # NoTask
      BY <1>0, <1>4, SSEAssumption
    <2>2. PICK i \in DOMAIN waiters : waiters[i] = u
      BY <2>1 DEF InLine
    <2>3. waiters # <<>>
      BY <2>2, EmptySeq
    <2>4. Head(waiters) = waiters[1] /\ Head(waiters) \in Tasks /\ 1 \in DOMAIN waiters
      BY <1>0, <2>3, HeadTailProperties, EmptySeq, LenProperties
    <2>5. op[Head(waiters)] # "none"
      BY <1>0, <2>4
    <2>6. Ready(Head(waiters))
      BY <2>1, <2>3, <2>4, <2>5 DEF Ready, InLine
    <2> QED BY <2>4, <2>6
  <1> QED BY <1>0, <1>1, <1>2, <1>3, <1>4

\* There is no deadlock but the jam: while a task is in an operation somebody
\* can go on, unless the broadcast that has the lock waits for the full queue of
\* a reader that is over or waits for the lock (sse_manager.py:79, 99).
THEOREM OnlyAJamBlocks == Spec => []OnlyJamsBlock
  <1>1. Init => InLine
    BY DEF Init, InLine
  <1>2. IInv /\ InLine /\ [Next]_vars => InLine'
    BY LockSteps, LineKept DEF IInv
  <1>3. Spec => []InLine
    BY <1>1, <1>2, InvariantHolds, PTL DEF Spec
  <1> QED BY <1>3, SomebodyIsReady, InvariantHolds, PTL

-----------------------------------------------------------------------------
(* Refinement *)

\* subscribe and unsubscribe change the audience of their own key only.
LEMMA RebindAudience ==
  ASSUME DOMAIN connections \subseteq Keys, NEW k \in Keys, NEW S,
         connections' = Rebind(k, S)
  PROVE  [x \in Keys |-> Members(x)]' = [[x \in Keys |-> Members(x)] EXCEPT ![k] = S]
  <1>1. \A x \in Keys : Members(x)' = IF x = k THEN S ELSE Members(x)
    BY DEF Members, Rebind
  <1> QED BY <1>1

\* The empty manager is the empty service.
LEMMA RefinesInit == Init => Abstract!Init
  BY SSEAssumption DEF Init, Abstract!Init, Members

\* Every step of the manager is a step of the service or changes none of it.
LEMMA RefinesStep == IInv /\ IInv' /\ [Next]_vars => [Abstract!Next]_Abstract!vars
  <1> SUFFICES ASSUME IInv, IInv', [Next]_vars
               PROVE  Abstract!Next \/ UNCHANGED Abstract!vars
    OBVIOUS
  <1> USE SSEAssumption
  <1>0. /\ DOMAIN connections \subseteq Keys
        /\ \A c \in Clients : home[c] \in Keys \cup {NoKey}
        /\ \A k \in Keys : Members(k) \in SUBSET Clients
        /\ todo \in SUBSET Clients
        /\ \A t \in Tasks : op[t] = "broadcast" =>
             /\ ticket[t] \in Nat /\ ticket[t] \in DOMAIN sent
             /\ sent[ticket[t]].key \in Keys
        /\ TypeOK
    <2>1. TypeOK /\ TicketKnown
      BY DEF IInv
    <2>2. ASSUME NEW t \in Tasks, op[t] = "broadcast"
          PROVE  /\ ticket[t] \in Nat /\ ticket[t] \in DOMAIN sent
                 /\ sent[ticket[t]].key \in Keys
      <3>1. ticket[t] \in DOMAIN sent /\ sent \in Seq(Calls)
        BY <2>1, <2>2 DEF TicketKnown, TypeOK
      <3>2. sent[ticket[t]] \in Calls /\ ticket[t] \in Nat
        BY <3>1, ElementOfSeq, LenProperties
      <3> QED BY <3>1, <3>2 DEF Calls
    <2> QED BY <2>1, <2>2 DEF TypeOK, Members
  \* A step of the lock, of the calls or of Redis is a stutter.
  <1>1. ASSUME UNCHANGED <<connections, stream, taken, todo, message>>
        PROVE  UNCHANGED Abstract!vars
    BY <1>1 DEF Abstract!vars, Members
  <1>2. ASSUME NEW t \in Tasks, NEW o \in Operations, Admitted(t, o)
        PROVE  /\ todo = {} /\ stage = "free"
               /\ o = "broadcast" => message \in Nat /\ message < ticket[t]
    <2>1. todo = {} /\ stage = "free"
      BY <1>2 DEF IInv, LockInv, SweepInv, Admitted
    <2>2. 1 \in DOMAIN waiters /\ waiters[1] = t
      <3>1. waiters \in Seq(Tasks) /\ waiters # <<>> /\ Head(waiters) = t
        BY <1>2, <1>0 DEF Admitted, TypeOK
      <3> QED BY <3>1, EmptySeq, LenProperties
    <2>3. message \in Nat
      BY <1>0, LenProperties DEF TypeOK
    <2> QED BY <2>1, <2>2, <2>3, <1>2 DEF IInv, TicketInv, Admitted
  <1>3. ASSUME NEW c \in Clients, Subscribe(c)
        PROVE  Abstract!Next
    <2>1. home[c] \in Keys
      BY <1>3, <1>0 DEF Subscribe, Admitted, IInv, KeyNamed
    <2>2. connections' = Rebind(home[c], Members(home[c]) \cup {c})
      BY <1>3 DEF Subscribe
    <2>3. [x \in Keys |-> Members(x)]'
            = [[x \in Keys |-> Members(x)] EXCEPT ![home[c]] = Members(home[c]) \cup {c}]
      BY <2>1, <2>2, <1>0, RebindAudience
    <2>4. todo = {} /\ UNCHANGED <<stream, taken, todo, message>>
      BY <1>2, <1>3, <1>0 DEF Subscribe, Operations, castVars
    <2>5. Abstract!Join(c, home[c])
      BY <2>1, <2>3, <2>4 DEF Abstract!Join
    <2> QED BY <2>1, <2>5 DEF Abstract!Next
  <1>4. ASSUME NEW c \in Clients, Unsubscribe(c)
        PROVE  Abstract!Next
    <2>1. home[c] \in Keys
      BY <1>4, <1>0 DEF Unsubscribe, Admitted, IInv, KeyNamed
    <2>2. connections' = Rebind(home[c], Members(home[c]) \ {c})
      BY <1>4 DEF Unsubscribe
    <2>3. [x \in Keys |-> Members(x)]'
            = [[x \in Keys |-> Members(x)] EXCEPT ![home[c]] = Members(home[c]) \ {c}]
      BY <2>1, <2>2, <1>0, RebindAudience
    <2>4. todo = {} /\ UNCHANGED <<stream, taken, todo, message>>
      BY <1>2, <1>4, <1>0 DEF Unsubscribe, Operations, castVars
    <2>5. Abstract!Leave(c, home[c])
      BY <2>1, <2>3, <2>4 DEF Abstract!Leave
    <2> QED BY <2>1, <2>5 DEF Abstract!Next
  \* The first part of a broadcast publishes its message ...
  <1>5. ASSUME NEW t \in Tasks, BroadcastToAll(t) \/ BroadcastBlocks(t)
        PROVE  Abstract!Next
    <2> DEFINE k == sent[ticket[t]].key
    <2>1. Admitted(t, "broadcast") /\ op[t] = "broadcast"
      BY <1>5 DEF BroadcastToAll, BroadcastBlocks, Admitted
    <2>2. /\ k \in Keys /\ Members(k) \in SUBSET Clients /\ Audience(t) = Members(k)
          /\ todo = {} /\ message < ticket[t] /\ ticket[t] \in Nat
      BY <2>1, <1>0, <1>2 DEF Audience, Operations
    <2>3. /\ message' = ticket[t] /\ UNCHANGED <<connections, taken>>
          /\ \E D \in SUBSET Members(k) : Give(D, ticket[t]) /\ todo' = Members(k) \ D
      <3>1. CASE BroadcastToAll(t)
        <4>1. /\ message' = ticket[t] /\ UNCHANGED <<connections, taken>>
              /\ Give(Members(k), ticket[t]) /\ todo' = {}
          BY <3>1, <2>2 DEF BroadcastToAll, Finish
        <4> QED BY <4>1
      <3>2. CASE BroadcastBlocks(t)
        BY <3>2, <2>2 DEF BroadcastBlocks, Block
      <3> QED BY <3>1, <3>2, <1>5
    <2> HIDE DEF k
    <2>4. [x \in Keys |-> Members(x)]' = [x \in Keys |-> Members(x)]
      BY <2>3 DEF Members
    <2>5. Abstract!Publish(k)
      BY <2>2, <2>3, <2>4 DEF Abstract!Publish, Abstract!Give, Give
    <2> QED BY <2>2, <2>5 DEF Abstract!Next
  \* ... and every resumption delivers it to more of its audience.
  <1>6. ASSUME NEW t \in Tasks, ResumeToAll(t) \/ ResumeBlocks(t)
        PROVE  Abstract!Next
    <2>1. stuck \in todo /\ ticket[t] = message
      BY <1>6 DEF ResumeToAll, ResumeBlocks, IInv, SweepInv
    <2>2. /\ UNCHANGED <<connections, taken, message>>
          /\ \E D \in SUBSET todo : /\ D # {}
                                    /\ Give(D, message)
                                    /\ todo' = todo \ D
      <3>1. CASE ResumeToAll(t)
        <4>1. /\ UNCHANGED <<connections, taken, message>>
              /\ Give(todo, message) /\ todo' = todo \ todo /\ todo # {}
          BY <3>1, <2>1 DEF ResumeToAll, Finish
        <4> QED BY <4>1
      <3>2. CASE ResumeBlocks(t)
        BY <3>2, <2>1 DEF ResumeBlocks, Block
      <3> QED BY <3>1, <3>2, <1>6
    <2>3. [x \in Keys |-> Members(x)]' = [x \in Keys |-> Members(x)]
      BY <2>2 DEF Members
    <2>4. Abstract!Deliver
      BY <2>2, <2>3 DEF Abstract!Deliver, Abstract!Give, Give
    <2> QED BY <2>4 DEF Abstract!Next
  <1>7. ASSUME NEW t \in Tasks, CancelOwner(t)
        PROVE  Abstract!Next
    <2>1. todo' = {} /\ UNCHANGED <<connections, stream, taken, message>>
      BY <1>7 DEF CancelOwner, readerVars
    <2>2. [x \in Keys |-> Members(x)]' = [x \in Keys |-> Members(x)]
      BY <2>1 DEF Members
    <2>3. Abstract!Abandon
      BY <2>1, <2>2 DEF Abstract!Abandon
    <2> QED BY <2>3 DEF Abstract!Next
  <1>8. ASSUME NEW c \in Clients, Take(c)
        PROVE  Abstract!Next
    <2>1. /\ taken[c] < Len(stream[c]) /\ taken' = [taken EXCEPT ![c] = @ + 1]
          /\ UNCHANGED <<connections, stream, todo, message>>
      BY <1>8 DEF Take, castVars
    <2>2. [x \in Keys |-> Members(x)]' = [x \in Keys |-> Members(x)]
      BY <2>1 DEF Members
    <2>3. Abstract!Consume(c)
      BY <2>1, <2>2 DEF Abstract!Consume
    <2> QED BY <2>3 DEF Abstract!Next
  <1>9. ASSUME NEW t \in Tasks, Progress(t)
        PROVE  Abstract!Next \/ UNCHANGED Abstract!vars
    <2>1. CASE BroadcastMisses(t)
      BY <2>1, <1>1 DEF BroadcastMisses, readerVars
    <2>2. CASE DeleteEnds(t) \/ PriceEnters(t) \/ PriceEnds(t)
      BY <2>2, <1>1 DEF DeleteEnds, PriceEnters, PriceEnds, readerVars, castVars
    <2> QED BY <2>1, <2>2, <1>3, <1>4, <1>5, <1>6, <1>9 DEF Progress
  <1>10. ASSUME NEW c \in Clients,
                (\E k \in Keys : CallSubscribe(c, k)) \/ CallUnsubscribe(c)
         PROVE  UNCHANGED Abstract!vars
    BY <1>10, <1>1 DEF CallSubscribe, CallUnsubscribe, readerVars, castVars
  <1>11. ASSUME NEW t \in Publishers, NEW k \in Keys, CallBroadcast(t, k)
         PROVE  UNCHANGED Abstract!vars
    BY <1>11, <1>1 DEF CallBroadcast, readerVars
  <1>12. ASSUME NEW t \in Tasks, CallPrice(t) \/ CancelWaiter(t)
         PROVE  UNCHANGED Abstract!vars
    BY <1>12, <1>1 DEF CallPrice, CancelWaiter, readerVars, castVars
  <1>13. CASE Outside \/ RedisDeletes
    BY <1>13, <1>1, OutsideSteps, RedisSteps DEF readerVars, castVars
  <1>14. CASE UNCHANGED vars
    BY <1>14, <1>1 DEF vars, readerVars, castVars
  <1> QED BY <1>7, <1>8, <1>9, <1>10, <1>11, <1>12, <1>13, <1>14 DEF Next, Outside

\* ServerSSEManager implements the publish/subscribe service: with its lock
\* and its blocking put() a broadcast is one delivery to a fixed audience.
THEOREM ManagerImplementsPubSub == Spec => Implements
  <1>1. IInv /\ IInv' /\ [Next]_vars => [Abstract!Next]_Abstract!vars
    BY RefinesStep
  <1> QED BY <1>1, RefinesInit, InvariantHolds, PTL DEF Spec, Implements, Abstract!Spec
=============================================================================
