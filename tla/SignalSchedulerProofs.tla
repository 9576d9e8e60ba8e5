------------------------- MODULE SignalSchedulerProofs -------------------------
(***************************************************************************)
(* Proofs about SignalScheduler: the types with the discipline of the lock *)
(* and of the event loop, that no entry is lost before its task ended,     *)
(* that none is left when all calls have ended, that the entries leave in  *)
(* the order they came, and that the handlers never all wait for nothing.  *)
(***************************************************************************)
EXTENDS SignalScheduler, SequenceTheorems, TLAPS

-----------------------------------------------------------------------------
(* The inductive invariant *)

\* A handler at the lock has an entry left to work on.
Busy == \A c \in Calls : pc[c] \in {"wait", "await"} => todo[c] # <<>>

\* The task of a call that is not over is in _tasks.
Entered == \A c \in Calls : task[c] = "delayed" => \E i \in DOMAIN entries : entries[i] = c

IInv == TypeOK /\ Busy /\ Entered

\* The entries are a queue: what is left of a copy s of it is a part that is
\* gone, of length k, and the front of what the queue e is by now.
Behind(s, e, k) ==
  /\ k \in 0 .. Len(s)
  /\ Len(s) - k <= Len(e)
  /\ \A i \in 1 .. Len(s) : i > k => s[i] = e[i - k]
  /\ \A i \in 1 .. Len(s) : i <= k => \A j \in 1 .. Len(e) : e[j] # s[i]

\* A call that was not made yet is in no list.
Unknown ==
  \A c \in Calls : pc[c] = "new" =>
    /\ \A j \in 1 .. Len(entries) : entries[j] # c
    /\ \A d \in Calls : \A i \in 1 .. Len(todo[d]) : todo[d][i] # c

\* Every copy is behind the entries, that of a handler with the lock is not.
Copies ==
  \A c \in Calls : /\ \E k \in Nat : Behind(todo[c], entries, k)
                   /\ pc[c] \in {"run", "await"} => Behind(todo[c], entries, 0)

\* As long as there are entries a handler goes on: it comes to the lock yet, has
\* it, or stands last in its line with a copy that lacks nothing.
GoesOn ==
  Sound /\ entries # <<>> =>
    \E d \in Calls : \/ pc[d] \in {"sleep", "run", "await"}
                     \/ /\ waiters # <<>>
                        /\ waiters[Len(waiters)] = d
                        /\ Behind(todo[d], entries, 0)

QueueInv == IsInjective(entries) /\ Unknown /\ Copies /\ GoesOn

-----------------------------------------------------------------------------
(* Sequences *)

\* A sequence without one of its elements has the types of the sequence and
\* its other elements.
LEMMA Removed ==
  ASSUME NEW S, NEW s \in Seq(S), NEW i \in 1 .. Len(s)
  PROVE  /\ RemoveAt(s, i) \in Seq(S)
         /\ \A j \in DOMAIN s : j # i => \E k \in DOMAIN RemoveAt(s, i) : RemoveAt(s, i)[k] = s[j]
  <1> DEFINE a == SubSeq(s, 1, i - 1)
             b == SubSeq(s, i + 1, Len(s))
  <1>1. Len(s) \in Nat /\ i \in Int
    BY LenProperties
  <1>2. /\ a \in Seq(S) /\ Len(a) = i - 1
        /\ \A j \in 1 .. i - 1 : a[j] = s[j]
    BY <1>1
  <1>3. /\ b \in Seq(S) /\ Len(b) = Len(s) - i
        /\ \A j \in 1 .. Len(s) - i : b[j] = s[i + j]
    BY <1>1
  <1>4. RemoveAt(s, i) = a \o b
    BY DEF RemoveAt
  <1> HIDE DEF a, b
  <1>5. /\ a \o b \in Seq(S)
        /\ Len(a \o b) = Len(a) + Len(b)
        /\ \A j \in 1 .. Len(a) + Len(b) : (a \o b)[j] = IF j <= Len(a) THEN a[j] ELSE b[j - Len(a)]
    BY <1>2, <1>3, ConcatProperties
  <1>6. DOMAIN (a \o b) = 1 .. Len(s) - 1
    BY <1>1, <1>2, <1>3, <1>5, LenProperties
  <1>7. ASSUME NEW j \in 1 .. Len(s), j # i
        PROVE  \E k \in 1 .. Len(s) - 1 : (a \o b)[k] = s[j]
    <2>1. CASE j < i
      <3>1. j \in 1 .. Len(s) - 1 /\ (a \o b)[j] = s[j]
        BY <1>1, <1>2, <1>3, <1>5, <2>1
      <3> QED BY <3>1
    <2>2. CASE j > i
      <3>1. j - 1 \in 1 .. Len(s) - 1 /\ ~(j - 1 <= Len(a)) /\ j - 1 \in 1 .. Len(a) + Len(b)
        BY <1>1, <1>2, <1>3, <2>2
      <3>2. j - 1 - Len(a) \in 1 .. Len(s) - i /\ i + (j - 1 - Len(a)) = j
        BY <1>1, <1>2, <2>2
      <3>3. (a \o b)[j - 1] = s[j]
        BY <1>3, <1>5, <3>1, <3>2
      <3> QED BY <3>1, <3>3
    <2>3. j < i \/ j > i
      BY <1>1, <1>7
    <2> QED BY <2>1, <2>2, <2>3, Zenon
  <1>8. DOMAIN s = 1 .. Len(s)
    BY LenProperties
  <1> QED BY <1>4, <1>5, <1>6, <1>7, <1>8, Zenon

\* A handler that takes the lock leaves the line if it stood there.
LEMMA LineAfter ==
  ASSUME TypeOK, NEW c \in Calls, Takes(c)
  PROVE  /\ Without(c) \in Seq(Calls)
         /\ ToSet(Without(c)) = {d \in Calls \ {c} : pc[d] = "wait"}
         /\ IsInjective(Without(c))
  <1>0. /\ waiters \in Seq(Calls)
        /\ ToSet(waiters) = {d \in Calls : pc[d] = "wait"}
        /\ IsInjective(waiters)
    BY DEF TypeOK
  <1>1. CASE pc[c] # "wait"
    BY <1>0, <1>1 DEF Without
  <1>2. CASE pc[c] = "wait"
    <2>1. c \in ToSet(waiters)
      BY <1>0, <1>2
    <2>2. waiters # <<>>
      BY <2>1, EmptySeq DEF ToSet
    <2> DEFINE t == Tail(waiters)
    <2>3. /\ Len(waiters) \in Nat \ {0}
          /\ waiters[1] = c
          /\ t \in Seq(Calls)
          /\ Len(t) = Len(waiters) - 1
          /\ \A i \in 1 .. Len(t) : t[i] = waiters[i + 1]
      BY <1>0, <1>2, <2>2, HeadTailProperties, LenProperties, EmptySeq DEF Takes
    <2>4. /\ DOMAIN t = 1 .. Len(waiters) - 1
          /\ DOMAIN waiters = 1 .. Len(waiters)
      BY <1>0, <2>3, LenProperties
    <2> HIDE DEF t
    <2>5. IsInjective(t)
      BY <1>0, <2>3, <2>4 DEF IsInjective
    <2>6. ASSUME NEW d PROVE d \in ToSet(t) <=> d \in ToSet(waiters) /\ d # c
      <3>1. ASSUME d \in ToSet(t) PROVE d \in ToSet(waiters) /\ d # c
        <4>1. PICK i \in 1 .. Len(waiters) - 1 : t[i] = d
          BY <2>4, <3>1 DEF ToSet
        <4>2. i + 1 \in DOMAIN waiters /\ 1 \in DOMAIN waiters /\ i + 1 # 1 /\ waiters[i + 1] = d
          BY <2>3, <2>4, <4>1
        <4> QED BY <1>0, <2>3, <4>2 DEF ToSet, IsInjective
      <3>2. ASSUME d \in ToSet(waiters), d # c PROVE d \in ToSet(t)
        <4>1. PICK i \in 1 .. Len(waiters) : waiters[i] = d
          BY <2>4, <3>2 DEF ToSet
        <4>2. i - 1 \in DOMAIN t /\ t[i - 1] = d
          BY <2>3, <2>4, <3>2, <4>1
        <4> QED BY <4>2 DEF ToSet
      <3> QED BY <3>1, <3>2
    <2>7. Without(c) = t
      BY <1>2 DEF Without, t
    <2> QED BY <1>0, <2>3, <2>5, <2>6, <2>7
  <1> QED BY <1>1, <1>2

-----------------------------------------------------------------------------
(* The steps *)

\* The parts of TypeOK about the lock and the event loop.
Ordered ==
  /\ \A c, d \in Calls : pc[c] = "run" /\ pc[d] = "run" => c = d
  /\ \A c \in Calls : pc[c] = "await" <=> owner = c
  /\ ToSet(waiters) = {c \in Calls : pc[c] = "wait"}
  /\ IsInjective(waiters)

\* A handler that has the lock, or takes it, goes on at l, with the lock if it
\* awaits a task and without it otherwise.
LEMMA LockStep ==
  ASSUME TypeOK, NEW c \in Calls, NEW l \in {"sleep", "run", "await", "over"},
         Takes(c) \/ (Quiet /\ pc[c] = "await"),
         pc' = [pc EXCEPT ![c] = l],
         waiters' = Without(c),
         owner' = IF l = "await" THEN c ELSE Nobody
  PROVE  Ordered' /\ waiters' \in Seq(Calls) /\ owner' \in Calls \cup {Nobody}
  <1>0. /\ pc \in [Calls -> {"new", "sleep", "run", "wait", "await", "over"}]
        /\ Nobody \notin Calls
        /\ \A d, e \in Calls : pc[d] = "run" /\ pc[e] = "run" => d = e
        /\ \A d \in Calls : pc[d] = "await" <=> owner = d
        /\ waiters \in Seq(Calls)
        /\ ToSet(waiters) = {d \in Calls : pc[d] = "wait"}
        /\ IsInjective(waiters)
    BY SignalAssumption DEF TypeOK
  <1>1. pc[c] \in {"run", "wait", "await"}
    BY DEF Takes
  <1>2. \A d \in Calls \ {c} : pc[d] # "run"
    BY <1>0 DEF Takes, Quiet
  <1>3. \A d \in Calls \ {c} : pc[d] # "await"
    BY <1>0 DEF Takes
  <1>4. /\ Without(c) \in Seq(Calls)
        /\ ToSet(Without(c)) = {d \in Calls \ {c} : pc[d] = "wait"}
        /\ IsInjective(Without(c))
    <2>1. CASE Takes(c)
      BY <2>1, LineAfter
    <2>2. CASE pc[c] = "await"
      BY <1>0, <2>2 DEF Without
    <2> QED BY <2>1, <2>2
  <1>5. \A d \in Calls : pc'[d] = IF d = c THEN l ELSE pc[d]
    BY <1>0
  <1>6. ToSet(waiters') = {d \in Calls : pc'[d] = "wait"}
    BY <1>4, <1>5
  <1>7. \A d \in Calls : pc'[d] = "await" <=> owner' = d
    BY <1>0, <1>3, <1>5
  <1>8. \A d, e \in Calls : pc'[d] = "run" /\ pc'[e] = "run" => d = e
    BY <1>2, <1>5
  <1>9. ToSet(waiters)' = ToSet(waiters') /\ IsInjective(waiters)'
    BY <1>4
  <1> QED BY <1>4, <1>6, <1>7, <1>8, <1>9 DEF Ordered

\* Nothing that is not at the lock changes its line.
LEMMA LockKept ==
  ASSUME TypeOK, UNCHANGED <<owner, waiters>>,
         \A c \in Calls : pc'[c] = pc[c] \/ {pc[c], pc'[c]} \cap {"wait", "await"} = {},
         \A c, d \in Calls : pc'[c] = "run" /\ pc'[d] = "run" => c = d
  PROVE  Ordered'
  <1>0. /\ \A d \in Calls : pc[d] = "await" <=> owner = d
        /\ ToSet(waiters) = {d \in Calls : pc[d] = "wait"}
        /\ IsInjective(waiters)
    BY DEF TypeOK
  <1>1. \A c \in Calls : (pc'[c] = "wait" <=> pc[c] = "wait") /\ (pc'[c] = "await" <=> pc[c] = "await")
    OBVIOUS
  <1>2. ToSet(waiters)' = ToSet(waiters) /\ IsInjective(waiters)'
    BY <1>0
  <1> QED BY <1>0, <1>1, <1>2 DEF Ordered

\* TypeOK by its parts.
LEMMA Types ==
  ASSUME task' \in [Calls -> {"none", "delayed", "done", "failed", "cancelled"}],
         entries' \in Seq(Calls),
         pc' \in [Calls -> {"new", "sleep", "run", "wait", "await", "over"}],
         todo' \in [Calls -> Seq(Calls)],
         owner' \in Calls \cup {Nobody},
         waiters' \in Seq(Calls),
         Ordered'
  PROVE  TypeOK'
  BY DEF TypeOK, Ordered

\* Every step keeps the invariant: at the lock one by one, elsewhere freely.
LEMMA Step == IInv /\ [Next]_vars => IInv'
  <1> SUFFICES ASSUME IInv, [Next]_vars PROVE IInv'
    OBVIOUS
  <1>0. /\ TypeOK
        /\ Busy
        /\ Entered
        /\ task \in [Calls -> {"none", "delayed", "done", "failed", "cancelled"}]
        /\ entries \in Seq(Calls)
        /\ pc \in [Calls -> {"new", "sleep", "run", "wait", "await", "over"}]
        /\ todo \in [Calls -> Seq(Calls)]
        /\ owner \in Calls \cup {Nobody}
        /\ waiters \in Seq(Calls)
        /\ \A c, d \in Calls : pc[c] = "run" /\ pc[d] = "run" => c = d
        /\ Ordered
    BY DEF IInv, TypeOK, Ordered
  <1>1. ASSUME NEW c \in Calls, NEW e \in {"done", "failed", "cancelled"},
               task' = [task EXCEPT ![c] = e], UNCHANGED <<entries, pc, todo, owner, waiters>>
        PROVE  IInv'
    <2>1. Ordered'
      BY <1>0, <1>1, LockKept
    <2>2. TypeOK'
      BY <1>0, <1>1, <2>1, Types
    <2>3. Busy' /\ Entered'
      BY <1>0, <1>1 DEF Busy, Entered
    <2> QED BY <2>2, <2>3 DEF IInv
  <1>2. ASSUME NEW c \in Calls, Run(c) \/ Fail(c) PROVE IInv'
    BY <1>1, <1>2 DEF Run, Fail
  <1>3. ASSUME NEW c \in Calls, TimeOut(c) PROVE IInv'
    <2>1. todo[c] # <<>> /\ todo[c] \in Seq(Calls)
      BY <1>0, <1>3 DEF TimeOut, Busy
    <2>2. Head(todo[c]) \in Calls
      BY <2>1, HeadTailProperties
    <2> QED BY <1>1, <1>3, <2>2 DEF TimeOut
  <1>4. ASSUME NEW c \in Calls, Schedule(c) PROVE IInv'
    <2>1. /\ task' = [task EXCEPT ![c] = "delayed"]
          /\ entries' = Append(entries, c)
          /\ pc[c] = "new"
          /\ pc' = [pc EXCEPT ![c] = "sleep"]
          /\ UNCHANGED <<todo, owner, waiters>>
      BY <1>4 DEF Schedule, Goto
    <2>2. /\ entries' \in Seq(Calls)
          /\ \A i \in DOMAIN entries : i \in DOMAIN entries' /\ entries'[i] = entries[i]
          /\ \E i \in DOMAIN entries' : entries'[i] = c
      <3>1. /\ entries' \in Seq(Calls)
            /\ Len(entries) \in Nat
            /\ DOMAIN entries = 1 .. Len(entries)
            /\ DOMAIN entries' = 1 .. Len(entries) + 1
            /\ \A i \in 1 .. Len(entries) : entries'[i] = entries[i]
            /\ entries'[Len(entries) + 1] = c
        BY <1>0, <2>1, AppendProperties, LenProperties
      <3> QED BY <3>1
    <2>3. Ordered'
      BY <1>0, <2>1, LockKept
    <2>4. TypeOK'
      BY <1>0, <2>1, <2>2, <2>3, Types
    <2>5. Entered'
      BY <1>0, <2>1, <2>2 DEF Entered
    <2>6. Busy'
      BY <1>0, <2>1 DEF Busy
    <2> QED BY <2>4, <2>5, <2>6 DEF IInv
  <1>5. ASSUME NEW c \in Calls, Wake(c) PROVE IInv'
    <2>1. /\ pc[c] = "sleep"
          /\ Quiet
          /\ pc' = [pc EXCEPT ![c] = "run"]
          /\ todo' = [todo EXCEPT ![c] = entries]
          /\ UNCHANGED <<task, entries, owner, waiters>>
      BY <1>5 DEF Wake, Goto
    <2>2. Ordered'
      BY <1>0, <2>1, LockKept DEF Quiet
    <2>3. TypeOK'
      BY <1>0, <2>1, <2>2, Types
    <2>4. Busy' /\ Entered'
      BY <1>0, <2>1 DEF Busy, Entered
    <2> QED BY <2>3, <2>4 DEF IInv
  <1>6. ASSUME NEW c \in Calls, Queue(c) PROVE IInv'
    <2>1. /\ pc[c] = "run"
          /\ todo[c] # <<>>
          /\ pc' = [pc EXCEPT ![c] = "wait"]
          /\ waiters' = Append(waiters, c)
          /\ UNCHANGED <<task, entries, todo, owner>>
      BY <1>6 DEF Queue, Goto
    <2>2. /\ waiters' \in Seq(Calls)
          /\ ToSet(waiters)' = ToSet(waiters) \cup {c}
          /\ IsInjective(waiters)'
      <3>1. /\ waiters' \in Seq(Calls)
            /\ Len(waiters) \in Nat
            /\ DOMAIN waiters = 1 .. Len(waiters)
            /\ DOMAIN waiters' = 1 .. Len(waiters) + 1
            /\ \A i \in 1 .. Len(waiters) : waiters'[i] = waiters[i]
            /\ waiters'[Len(waiters) + 1] = c
        BY <1>0, <2>1, AppendProperties, LenProperties
      <3>2. c \notin ToSet(waiters) /\ IsInjective(waiters)
        BY <1>0, <2>1 DEF Ordered
      <3>3. \A i \in 1 .. Len(waiters) : waiters[i] # c
        BY <3>1, <3>2 DEF ToSet
      <3>4. IsInjective(waiters)'
        BY <3>1, <3>2, <3>3 DEF IsInjective
      <3>5. ToSet(waiters)' = ToSet(waiters) \cup {c}
        BY <3>1 DEF ToSet
      <3> QED BY <3>1, <3>4, <3>5
    <2>3. Ordered'
      BY <1>0, <2>1, <2>2 DEF Ordered
    <2>4. TypeOK'
      BY <1>0, <2>1, <2>2, <2>3, Types
    <2>5. Busy' /\ Entered'
      BY <1>0, <2>1 DEF Busy, Entered
    <2> QED BY <2>4, <2>5 DEF IInv
  <1>7. ASSUME NEW c \in Calls, Await(c) PROVE IInv'
    <2>1. /\ Takes(c)
          /\ pc' = [pc EXCEPT ![c] = "await"]
          /\ waiters' = Without(c)
          /\ owner' = c
          /\ UNCHANGED <<task, entries, todo>>
      BY <1>7 DEF Await, Goto
    <2>2. todo[c] # <<>>
      BY <1>0, <2>1 DEF Takes, Busy
    <2>3. Ordered' /\ waiters' \in Seq(Calls) /\ owner' \in Calls \cup {Nobody}
      BY <1>0, <2>1, LockStep
    <2>4. TypeOK'
      BY <1>0, <2>1, <2>3, Types
    <2>5. Busy' /\ Entered'
      BY <1>0, <2>1, <2>2 DEF Busy, Entered
    <2> QED BY <2>4, <2>5 DEF IInv
  <1>8. ASSUME NEW c \in Calls, NEW e, Ended(c, e)
        PROVE  /\ Takes(c) \/ (Quiet /\ pc[c] = "await")
               /\ Tail(todo[c]) \in Seq(Calls)
               /\ Head(todo[c]) \in Calls
               /\ task[Head(todo[c])] = e
    <2>1. Takes(c) \/ (Quiet /\ pc[c] = "await")
      BY <1>8 DEF Ended
    <2>2. todo[c] # <<>> /\ todo[c] \in Seq(Calls)
      BY <1>0, <2>1 DEF Takes, Busy
    <2> QED BY <1>8, <2>1, <2>2, HeadTailProperties DEF Ended
  <1>9. ASSUME NEW c \in Calls, Takes(c) \/ (Quiet /\ pc[c] = "await"),
               NEW l \in {"sleep", "run", "over"}, NEW s \in Seq(Calls), Release(c, l, s),
               entries' \in Seq(Calls), Entered'
        PROVE  IInv'
    <2>1. /\ pc' = [pc EXCEPT ![c] = l]
          /\ waiters' = Without(c)
          /\ owner' = Nobody
          /\ todo' = [todo EXCEPT ![c] = s]
          /\ UNCHANGED task
      BY <1>9 DEF Release, Goto
    <2>2. Ordered' /\ waiters' \in Seq(Calls) /\ owner' \in Calls \cup {Nobody}
      BY <1>0, <1>9, <2>1, LockStep
    <2>3. TypeOK'
      BY <1>0, <1>9, <2>1, <2>2, Types
    <2>4. Busy'
      BY <1>0, <2>1 DEF Busy
    <2> QED BY <1>9, <2>3, <2>4 DEF IInv
  <1>10. ASSUME NEW c \in Calls, Delete(c) PROVE IInv'
    <2>1. PICK i \in DOMAIN entries : entries[i] = Head(todo[c]) /\ entries' = RemoveAt(entries, i)
      BY <1>10 DEF Delete
    <2>2. Ended(c, "done") /\ Release(c, "run", Tail(todo[c]))
      BY <1>10 DEF Delete
    <2>3. i \in 1 .. Len(entries)
      BY <1>0, <2>1, LenProperties
    <2>4. /\ entries' \in Seq(Calls)
          /\ \A j \in DOMAIN entries :
               j # i => \E k \in DOMAIN entries' : entries'[k] = entries[j]
      BY <1>0, <2>1, <2>3, Removed
    <2>5. task[entries[i]] = "done" /\ UNCHANGED task
      BY <1>8, <2>1, <2>2 DEF Release
    <2>6. ASSUME NEW d \in Calls, task[d] = "delayed"
          PROVE  \E k \in DOMAIN entries' : entries'[k] = d
      <3>1. PICK j \in DOMAIN entries : entries[j] = d
        BY <1>0, <2>6 DEF Entered
      <3>2. j # i
        BY <2>5, <2>6, <3>1
      <3> QED BY <2>4, <3>1, <3>2
    <2>7. Entered'
      BY <2>5, <2>6 DEF Entered
    <2> QED BY <1>8, <1>9, <2>2, <2>4, <2>7
  <1>11. ASSUME NEW c \in Calls, Raise(c) \/ Abort(c) PROVE IInv'
    <2>1. Takes(c) \/ (Quiet /\ pc[c] = "await")
      BY <1>8, <1>11 DEF Raise, Abort, Error
    <2>2. /\ UNCHANGED <<entries, task>>
          /\ \E l \in {"sleep", "over"} : Release(c, l, <<>>)
      BY <1>11 DEF Raise, Abort, Release
    <2>3. Entered' /\ entries' \in Seq(Calls) /\ <<>> \in Seq(Calls)
      BY <1>0, <2>2 DEF Entered
    <2> QED BY <1>9, <2>1, <2>2, <2>3
  <1>12. ASSUME NEW c \in Calls, EndRound(c) PROVE IInv'
    <2>1. /\ pc[c] = "run"
          /\ \E l \in {"sleep", "over"} : pc' = [pc EXCEPT ![c] = l]
          /\ UNCHANGED <<task, entries, todo, owner, waiters>>
      BY <1>12 DEF EndRound, Goto
    <2>2. Ordered'
      BY <1>0, <2>1, LockKept
    <2>3. TypeOK'
      BY <1>0, <2>1, <2>2, Types
    <2>4. Busy' /\ Entered'
      BY <1>0, <2>1 DEF Busy, Entered
    <2> QED BY <2>3, <2>4 DEF IInv
  <1>13. CASE UNCHANGED vars
    BY <1>0, <1>13, LockKept, Types DEF vars, IInv, Busy, Entered
  <1> QED BY <1>2, <1>3, <1>4, <1>5, <1>6, <1>7, <1>10, <1>11, <1>12, <1>13
          DEF Next, Delayed, Handling

-----------------------------------------------------------------------------
(* The entries as a queue *)

\* What an appended call leaves: nothing twice, nothing else new, it is last.
LEMMA Appended ==
  ASSUME NEW e \in Seq(Calls), NEW x \in Calls
  PROVE  /\ Append(e, x) # <<>>
         /\ Append(e, x)[Len(Append(e, x))] = x
         /\ IsInjective(e) /\ (\A j \in 1 .. Len(e) : e[j] # x) => IsInjective(Append(e, x))
         /\ \A d \in Calls : d # x /\ (\A j \in 1 .. Len(e) : e[j] # d)
              => \A j \in 1 .. Len(Append(e, x)) : Append(e, x)[j] # d
  <1> DEFINE f == Append(e, x)
  <1>1. /\ f \in Seq(Calls)
        /\ Len(e) \in Nat
        /\ Len(f) = Len(e) + 1
        /\ \A i \in 1 .. Len(e) : f[i] = e[i]
        /\ f[Len(e) + 1] = x
    BY AppendProperties, LenProperties
  <1>2. DOMAIN e = 1 .. Len(e) /\ DOMAIN f = 1 .. Len(f)
    BY <1>1, LenProperties
  <1>3. Len(<<>>) = 0
    BY EmptySeq
  <1> HIDE DEF f
  <1>4. f # <<>> /\ f[Len(f)] = x
    BY <1>1, <1>3
  <1>5. \A i \in 1 .. Len(f) : i \in 1 .. Len(e) \/ i = Len(e) + 1
    BY <1>1
  <1>6. ASSUME IsInjective(e), \A j \in 1 .. Len(e) : e[j] # x PROVE IsInjective(f)
    <2>1. ASSUME NEW i \in 1 .. Len(f), NEW j \in 1 .. Len(f), f[i] = f[j] PROVE i = j
      <3>1. CASE i \in 1 .. Len(e) /\ j \in 1 .. Len(e)
        BY <1>1, <1>2, <1>6, <2>1, <3>1 DEF IsInjective
      <3>2. CASE ~(i \in 1 .. Len(e) /\ j \in 1 .. Len(e))
        BY <1>1, <1>5, <1>6, <2>1, <3>2
      <3> QED BY <3>1, <3>2
    <2> QED BY <1>2, <2>1 DEF IsInjective
  <1>7. ASSUME NEW d \in Calls, d # x, \A j \in 1 .. Len(e) : e[j] # d
        PROVE  \A j \in 1 .. Len(f) : f[j] # d
    BY <1>1, <1>5, <1>7
  <1> QED BY <1>4, <1>6, <1>7 DEF f

\* What is left without the first: nothing twice, nothing new, and the last stays
\* unless it was the first.
LEMMA Remaining ==
  ASSUME NEW e \in Seq(Calls), e # <<>>
  PROVE  /\ IsInjective(e) => IsInjective(Tail(e))
         /\ \A d \in Calls : (\A j \in 1 .. Len(e) : e[j] # d)
              => \A j \in 1 .. Len(Tail(e)) : Tail(e)[j] # d
         /\ e[Len(e)] # Head(e)
              => Tail(e) # <<>> /\ Tail(e)[Len(Tail(e))] = e[Len(e)]
  <1> DEFINE f == Tail(e)
  <1>1. /\ f \in Seq(Calls)
        /\ Len(e) \in Nat \ {0}
        /\ Head(e) = e[1]
        /\ Len(f) = Len(e) - 1
        /\ \A i \in 1 .. Len(f) : f[i] = e[i + 1]
    BY HeadTailProperties, LenProperties, EmptySeq
  <1>2. DOMAIN e = 1 .. Len(e) /\ DOMAIN f = 1 .. Len(f)
    BY <1>1, LenProperties
  <1>3. Len(<<>>) = 0
    BY EmptySeq
  <1> HIDE DEF f
  <1>4. \A i \in 1 .. Len(f) : i + 1 \in 1 .. Len(e)
    BY <1>1
  <1>5. ASSUME IsInjective(e) PROVE IsInjective(f)
    <2>1. ASSUME NEW i \in 1 .. Len(f), NEW j \in 1 .. Len(f), f[i] = f[j] PROVE i = j
      <3>1. e[i + 1] = e[j + 1]
        BY <1>1, <2>1
      <3>2. i + 1 \in DOMAIN e /\ j + 1 \in DOMAIN e
        BY <1>2, <1>4
      <3>3. i + 1 = j + 1
        BY <1>5, <3>1, <3>2, Zenon DEF IsInjective
      <3> QED BY <1>1, <3>3
    <2> QED BY <1>2, <2>1 DEF IsInjective
  <1>6. ASSUME NEW d \in Calls, \A j \in 1 .. Len(e) : e[j] # d
        PROVE  \A j \in 1 .. Len(f) : f[j] # d
    BY <1>1, <1>4, <1>6
  <1>7. ASSUME e[Len(e)] # Head(e) PROVE f # <<>> /\ f[Len(f)] = e[Len(e)]
    <2>1. Len(f) \in 1 .. Len(f) /\ Len(f) + 1 = Len(e)
      BY <1>1, <1>7
    <2> QED BY <1>1, <1>3, <2>1
  <1> QED BY <1>5, <1>6, <1>7 DEF f

\* A copy just made, or an empty one, lacks nothing.
LEMMA CopyOfAll ==
  ASSUME NEW e \in Seq(Calls)
  PROVE  Behind(e, e, 0) /\ Behind(<<>>, e, 0)
  <1>1. Len(e) \in Nat /\ Len(<<>>) = 0
    BY LenProperties, EmptySeq
  <1> QED BY <1>1 DEF Behind

\* A new entry is behind every copy.
LEMMA NewEntry ==
  ASSUME NEW s \in Seq(Calls), NEW e \in Seq(Calls), NEW k, Behind(s, e, k), NEW x \in Calls,
         \A i \in 1 .. Len(s) : s[i] # x
  PROVE  Behind(s, Append(e, x), k)
  <1> DEFINE f == Append(e, x)
  <1>1. /\ Len(s) \in Nat
        /\ Len(e) \in Nat
        /\ Len(f) = Len(e) + 1
        /\ \A i \in 1 .. Len(e) : f[i] = e[i]
        /\ f[Len(e) + 1] = x
    BY AppendProperties, LenProperties
  <1> HIDE DEF f
  <1>2. k \in 0 .. Len(s) /\ Len(s) - k <= Len(e)
    BY DEF Behind
  <1>3. ASSUME NEW i \in 1 .. Len(s), i > k PROVE s[i] = f[i - k]
    <2>1. i - k \in 1 .. Len(e)
      BY <1>1, <1>2, <1>3
    <2> QED BY <1>1, <1>3, <2>1 DEF Behind
  <1>4. ASSUME NEW i \in 1 .. Len(s), i <= k, NEW j \in 1 .. Len(f) PROVE f[j] # s[i]
    <2>1. CASE j \in 1 .. Len(e)
      BY <1>1, <1>4, <2>1 DEF Behind
    <2>2. CASE j = Len(e) + 1
      BY <1>1, <1>4, <2>2
    <2> QED BY <1>1, <1>4, <2>1, <2>2
  <1>5. Behind(s, f, k)
    BY <1>1, <1>2, <1>3, <1>4 DEF Behind
  <1> QED BY <1>5 DEF f

\* The first entry goes, and a copy may be further behind.
LEMMA FirstGoes ==
  ASSUME NEW s \in Seq(Calls), NEW e \in Seq(Calls), NEW k, Behind(s, e, k), e # <<>>, IsInjective(e)
  PROVE  \E n \in Nat : Behind(s, Tail(e), n)
  <1> DEFINE f == Tail(e)
  <1>1. /\ Len(s) \in Nat
        /\ Len(e) \in Nat \ {0}
        /\ DOMAIN e = 1 .. Len(e)
        /\ Len(f) = Len(e) - 1
        /\ \A i \in 1 .. Len(f) : f[i] = e[i + 1]
    BY HeadTailProperties, LenProperties, EmptySeq
  <1> HIDE DEF f
  <1>2. k \in 0 .. Len(s) /\ Len(s) - k <= Len(e)
    BY DEF Behind
  <1>3. CASE k < Len(s)
    <2>1. k + 1 \in 0 .. Len(s) /\ Len(s) - (k + 1) <= Len(f)
      BY <1>1, <1>2, <1>3
    <2>2. ASSUME NEW i \in 1 .. Len(s), i > k + 1 PROVE s[i] = f[i - (k + 1)]
      <3>1. i - (k + 1) \in 1 .. Len(f) /\ (i - (k + 1)) + 1 = i - k /\ i > k
        BY <1>1, <1>2, <2>2
      <3>2. f[i - (k + 1)] = e[i - k]
        BY <1>1, <3>1
      <3> QED BY <3>1, <3>2 DEF Behind
    <2>3. ASSUME NEW i \in 1 .. Len(s), i <= k + 1, NEW j \in 1 .. Len(f) PROVE f[j] # s[i]
      <3>1. f[j] = e[j + 1] /\ j + 1 \in 1 .. Len(e) /\ j + 1 # 1 /\ 1 \in 1 .. Len(e)
        BY <1>1
      <3>2. CASE i <= k
        BY <3>1, <3>2 DEF Behind
      <3>3. CASE i = k + 1
        <4>1. i > k /\ i - k = 1
          BY <1>2, <3>3
        <4>2. s[i] = e[1]
          BY <4>1 DEF Behind
        <4> QED BY <1>1, <3>1, <4>2 DEF IsInjective
      <3> QED BY <1>2, <2>3, <3>2, <3>3
    <2>4. Behind(s, f, k + 1)
      BY <2>1, <2>2, <2>3 DEF Behind
    <2> QED BY <1>1, <1>2, <2>4 DEF f
  <1>4. CASE k = Len(s)
    <2>1. k \in 0 .. Len(s) /\ Len(s) - k <= Len(f)
      BY <1>1, <1>4
    <2>2. ASSUME NEW i \in 1 .. Len(s), NEW j \in 1 .. Len(f) PROVE f[j] # s[i]
      <3>1. f[j] = e[j + 1] /\ j + 1 \in 1 .. Len(e) /\ i <= k
        BY <1>1, <1>4
      <3> QED BY <3>1 DEF Behind
    <2>3. \A i \in 1 .. Len(s) : ~(i > k)
      BY <1>1, <1>4
    <2>4. Behind(s, f, k)
      BY <2>1, <2>2, <2>3 DEF Behind
    <2> QED BY <1>1, <1>2, <2>4 DEF f
  <1> QED BY <1>1, <1>2, <1>3, <1>4

\* Who finds its next entry lacks nothing, and it is the first of all.
LEMMA FoundIsFirst ==
  ASSUME NEW s \in Seq(Calls), NEW e \in Seq(Calls), NEW k, Behind(s, e, k), s # <<>>,
         NEW n \in 1 .. Len(e), e[n] = Head(s), IsInjective(e)
  PROVE  /\ Behind(s, e, 0)
         /\ n = 1
         /\ RemoveAt(e, n) = Tail(e)
         /\ Behind(Tail(s), Tail(e), 0)
  <1>1. /\ Len(s) \in Nat \ {0}
        /\ Len(e) \in Nat \ {0}
        /\ Head(s) = s[1]
        /\ DOMAIN e = 1 .. Len(e)
        /\ e # <<>>
    BY LenProperties, EmptySeq, HeadTailProperties
  <1>2. k \in 0 .. Len(s) /\ 1 \in 1 .. Len(s) /\ 1 \in 1 .. Len(e)
    BY <1>1 DEF Behind
  <1>3. k = 0
    <2>1. ~(1 <= k)
      BY <1>1, <1>2 DEF Behind
    <2> QED BY <1>1, <1>2, <2>1
  <1>4. s[1] = e[1]
    <2>1. 1 > k /\ 1 - k = 1
      BY <1>3
    <2> QED BY <1>2, <2>1 DEF Behind
  <1>5. n = 1
    BY <1>1, <1>2, <1>4 DEF IsInjective
  <1> DEFINE r == RemoveAt(e, n)
             f == Tail(e)
             t == Tail(s)
  <1>6. /\ f \in Seq(Calls)
        /\ Len(f) = Len(e) - 1
        /\ \A i \in 1 .. Len(f) : f[i] = e[i + 1]
        /\ t \in Seq(Calls)
        /\ Len(t) = Len(s) - 1
        /\ \A i \in 1 .. Len(t) : t[i] = s[i + 1]
    BY <1>1, HeadTailProperties
  <1>7. r = SubSeq(e, 2, Len(e))
    BY <1>1, <1>5 DEF RemoveAt
  <1>8. f = SubSeq(e, 2, Len(e))
    BY <1>1, TailIsSubSeq
  <1> HIDE DEF f, t, r
  <1>9. Behind(t, f, 0)
    <2>1. 0 \in 0 .. Len(t) /\ Len(t) - 0 <= Len(f)
      BY <1>1, <1>3, <1>6 DEF Behind
    <2>2. ASSUME NEW i \in 1 .. Len(t) PROVE t[i] = f[i - 0]
      <3>1. i \in 1 .. Len(f) /\ i + 1 \in 1 .. Len(s) /\ i + 1 > k /\ (i + 1) - k = i + 1 /\ i - 0 = i
        BY <1>1, <1>3, <1>6, <2>1
      <3>2. s[i + 1] = e[i + 1]
        BY <3>1 DEF Behind
      <3> QED BY <1>6, <3>1, <3>2
    <2> QED BY <1>6, <1>1, <2>1, <2>2 DEF Behind
  <1> QED BY <1>3, <1>5, <1>7, <1>8, <1>9 DEF f, t, r

\* A copy that lacks nothing has its first element in front of the entries.
LEMMA FirstIsThere ==
  ASSUME NEW s \in Seq(Calls), NEW e \in Seq(Calls), Behind(s, e, 0), s # <<>>
  PROVE  Contains(e, Head(s))
  <1>1. /\ Len(s) \in Nat \ {0}
        /\ Len(e) \in Nat
        /\ Head(s) = s[1]
    BY LenProperties, EmptySeq, HeadTailProperties
  <1>2. 1 \in 1 .. Len(s) /\ 1 > 0 /\ 1 - 0 = 1 /\ 1 \in 1 .. Len(e)
    BY <1>1 DEF Behind
  <1>3. s[1] = e[1]
    BY <1>2 DEF Behind
  <1> QED BY <1>1, <1>2, <1>3 DEF Contains

\* Every step keeps the order of the entries and the last in line complete.
LEMMA QueueStep == IInv /\ QueueInv /\ [Next]_vars => QueueInv'
  <1> SUFFICES ASSUME IInv, QueueInv, [Next]_vars PROVE QueueInv'
    OBVIOUS
  <1>0. /\ TypeOK
        /\ Busy
        /\ Entered
        /\ task \in [Calls -> {"none", "delayed", "done", "failed", "cancelled"}]
        /\ entries \in Seq(Calls)
        /\ pc \in [Calls -> {"new", "sleep", "run", "wait", "await", "over"}]
        /\ todo \in [Calls -> Seq(Calls)]
        /\ waiters \in Seq(Calls)
        /\ IsInjective(entries)
        /\ Unknown
        /\ Copies
        /\ GoesOn
        /\ DOMAIN entries = 1 .. Len(entries)
        /\ Len(entries) \in Nat
        /\ \A d \in Calls : pc[d] = "await" <=> owner = d
        /\ \A d, e \in Calls : pc[d] = "run" /\ pc[e] = "run" => d = e
        /\ Nobody \notin Calls
    BY LenProperties, SignalAssumption DEF IInv, QueueInv, TypeOK
  <1>1. ASSUME NEW c \in Calls, NEW e, task[c] = "delayed", task' = [task EXCEPT ![c] = e],
               UNCHANGED <<entries, pc, todo, owner, waiters>>
        PROVE  QueueInv'
    <2>1. Sound' => Sound
      BY <1>0, <1>1 DEF Sound
    <2>2. GoesOn'
      BY <1>0, <1>1, <2>1 DEF GoesOn
    <2> QED BY <1>0, <1>1, <2>2 DEF QueueInv, Unknown, Copies
  <1>2. ASSUME NEW c \in Calls, Run(c) \/ Fail(c) PROVE QueueInv'
    BY <1>1, <1>2 DEF Run, Fail
  <1>3. ASSUME NEW c \in Calls, TimeOut(c) PROVE QueueInv'
    <2>1. todo[c] # <<>> /\ todo[c] \in Seq(Calls)
      BY <1>0, <1>3 DEF TimeOut, Busy
    <2>2. Head(todo[c]) \in Calls
      BY <2>1, HeadTailProperties
    <2> QED BY <1>1, <1>3, <2>2 DEF TimeOut
  <1>4. ASSUME NEW c \in Calls, Schedule(c) PROVE QueueInv'
    <2>1. /\ entries' = Append(entries, c)
          /\ pc[c] = "new"
          /\ pc' = [pc EXCEPT ![c] = "sleep"]
          /\ UNCHANGED <<todo, owner, waiters>>
      BY <1>4 DEF Schedule, Goto
    <2>3. /\ \A j \in 1 .. Len(entries) : entries[j] # c
          /\ \A d \in Calls : \A i \in 1 .. Len(todo[d]) : todo[d][i] # c
      BY <1>0, <2>1 DEF Unknown
    <2>4. /\ IsInjective(Append(entries, c))
          /\ \A d \in Calls : d # c /\ (\A j \in 1 .. Len(entries) : entries[j] # d)
               => \A j \in 1 .. Len(Append(entries, c)) : Append(entries, c)[j] # d
      BY <1>0, <2>3, Appended
    <2>5. Unknown'
      <3>1. ASSUME NEW d \in Calls, pc'[d] = "new"
            PROVE  /\ \A j \in 1 .. Len(entries') : entries'[j] # d
                   /\ \A e \in Calls : \A i \in 1 .. Len(todo'[e]) : todo'[e][i] # d
        <4>1. d # c /\ pc[d] = "new"
          BY <1>0, <2>1, <3>1
        <4>2. \A j \in 1 .. Len(entries) : entries[j] # d
          BY <1>0, <4>1 DEF Unknown
        <4>3. \A j \in 1 .. Len(entries') : entries'[j] # d
          BY <2>1, <2>4, <4>1, <4>2
        <4> QED BY <1>0, <2>1, <4>1, <4>3 DEF Unknown
      <3> QED BY <3>1 DEF Unknown
    <2>6. ASSUME NEW d \in Calls, NEW k, Behind(todo[d], entries, k)
          PROVE  Behind(todo'[d], entries', k)
      <3>1. todo[d] \in Seq(Calls) /\ \A i \in 1 .. Len(todo[d]) : todo[d][i] # c
        BY <1>0, <2>3
      <3> QED BY <1>0, <2>1, <2>6, <3>1, NewEntry
    <2>7. Copies'
      <3>1. ASSUME NEW d \in Calls
            PROVE  /\ \E k \in Nat : Behind(todo'[d], entries', k)
                   /\ pc'[d] \in {"run", "await"} => Behind(todo'[d], entries', 0)
        BY <1>0, <2>1, <2>6 DEF Copies
      <3> QED BY <3>1 DEF Copies
    <2>8. GoesOn'
      BY <1>0, <2>1 DEF GoesOn
    <2> QED BY <2>1, <2>4, <2>5, <2>7, <2>8 DEF QueueInv
  <1>5. ASSUME NEW c \in Calls, Wake(c) PROVE QueueInv'
    <2>1. /\ pc[c] = "sleep"
          /\ pc' = [pc EXCEPT ![c] = "run"]
          /\ todo' = [todo EXCEPT ![c] = entries]
          /\ UNCHANGED <<task, entries, owner, waiters>>
      BY <1>5 DEF Wake, Goto
    <2>2. Behind(entries, entries, 0)
      BY <1>0, CopyOfAll
    <2>3. Copies'
      BY <1>0, <2>1, <2>2 DEF Copies
    <2>4. Unknown'
      BY <1>0, <2>1 DEF Unknown
    <2>5. GoesOn'
      BY <1>0, <2>1 DEF GoesOn
    <2> QED BY <1>0, <2>1, <2>3, <2>4, <2>5 DEF QueueInv
  <1>6. ASSUME NEW c \in Calls, Queue(c) PROVE QueueInv'
    <2>1. /\ pc[c] = "run"
          /\ pc' = [pc EXCEPT ![c] = "wait"]
          /\ waiters' = Append(waiters, c)
          /\ UNCHANGED <<task, entries, todo, owner>>
      BY <1>6 DEF Queue, Goto
    <2>2. waiters' # <<>> /\ waiters'[Len(waiters')] = c
      <3>1. Append(waiters, c) # <<>> /\ Append(waiters, c)[Len(Append(waiters, c))] = c
        BY <1>0, Appended
      <3> QED BY <2>1, <3>1
    <2>3. Behind(todo[c], entries, 0)
      BY <1>0, <2>1 DEF Copies
    <2>4. GoesOn'
      BY <2>1, <2>2, <2>3 DEF GoesOn
    <2>5. Copies'
      BY <1>0, <2>1 DEF Copies
    <2>6. Unknown'
      BY <1>0, <2>1 DEF Unknown
    <2> QED BY <1>0, <2>1, <2>4, <2>5, <2>6 DEF QueueInv
  <1>7. ASSUME NEW c \in Calls, Takes(c) \/ (Quiet /\ pc[c] = "await")
        PROVE  /\ todo[c] # <<>> /\ todo[c] \in Seq(Calls)
               /\ Head(todo[c]) \in Calls
               /\ \A d \in Calls \ {c} : pc[d] \notin {"run", "await"}
               /\ pc[c] # "new"
    <2>1. todo[c] # <<>> /\ todo[c] \in Seq(Calls)
      BY <1>0, <1>7 DEF Takes, Busy
    <2>2. \A d \in Calls \ {c} : pc[d] \notin {"run", "await"}
      BY <1>0, <1>7 DEF Takes, Quiet
    <2> QED BY <1>7, <2>1, <2>2, HeadTailProperties DEF Takes
  <1>8. ASSUME NEW c \in Calls, Await(c) PROVE QueueInv'
    <2>1. /\ Takes(c)
          /\ pc' = [pc EXCEPT ![c] = "await"]
          /\ UNCHANGED <<task, entries, todo>>
          /\ task[Head(todo[c])] = "delayed"
      BY <1>8 DEF Await, Goto
    <2>2. PICK n \in 1 .. Len(entries) : entries[n] = Head(todo[c])
      BY <1>0, <1>7, <2>1 DEF Entered
    <2>3. PICK k \in Nat : Behind(todo[c], entries, k)
      BY <1>0 DEF Copies
    <2>4. Behind(todo[c], entries, 0)
      BY <1>0, <1>7, <2>1, <2>2, <2>3, FoundIsFirst
    <2>5. Copies'
      BY <1>0, <2>1, <2>4 DEF Copies
    <2>6. GoesOn'
      BY <1>0, <2>1 DEF GoesOn
    <2>7. Unknown'
      BY <1>0, <2>1 DEF Unknown
    <2> QED BY <1>0, <2>1, <2>5, <2>6, <2>7 DEF QueueInv
  <1>9. ASSUME NEW c \in Calls, Delete(c) PROVE QueueInv'
    <2>1. PICK n \in DOMAIN entries : entries[n] = Head(todo[c]) /\ entries' = RemoveAt(entries, n)
      BY <1>9 DEF Delete
    <2>2. /\ Takes(c) \/ (Quiet /\ pc[c] = "await")
          /\ pc' = [pc EXCEPT ![c] = "run"]
          /\ todo' = [todo EXCEPT ![c] = Tail(todo[c])]
      BY <1>9 DEF Delete, Ended, Release, Goto
    <2>3. PICK k \in Nat : Behind(todo[c], entries, k)
      BY <1>0 DEF Copies
    <2>4. entries' = Tail(entries) /\ Behind(Tail(todo[c]), Tail(entries), 0)
      BY <1>0, <1>7, <2>1, <2>2, <2>3, FoundIsFirst
    <2>5. entries # <<>>
      BY <1>0, <2>1, EmptySeq
    <2>6. /\ IsInjective(Tail(entries))
          /\ \A d \in Calls : (\A j \in 1 .. Len(entries) : entries[j] # d)
               => \A j \in 1 .. Len(Tail(entries)) : Tail(entries)[j] # d
      BY <1>0, <2>5, Remaining
    <2>7. IsInjective(entries)'
      BY <2>4, <2>6
    <2>8. /\ Len(Tail(todo[c])) = Len(todo[c]) - 1
          /\ Len(todo[c]) \in Nat
          /\ \A i \in 1 .. Len(Tail(todo[c])) : Tail(todo[c])[i] = todo[c][i + 1]
      BY <1>7, <2>2, HeadTailProperties, LenProperties
    <2>9. Unknown'
      <3>1. ASSUME NEW d \in Calls, pc'[d] = "new"
            PROVE  /\ \A j \in 1 .. Len(entries') : entries'[j] # d
                   /\ \A e \in Calls : \A i \in 1 .. Len(todo'[e]) : todo'[e][i] # d
        <4>1. pc[d] = "new"
          BY <1>0, <2>2, <3>1
        <4>2. /\ \A j \in 1 .. Len(entries) : entries[j] # d
              /\ \A e \in Calls : \A i \in 1 .. Len(todo[e]) : todo[e][i] # d
          BY <4>1, <1>0 DEF Unknown
        <4>3. \A j \in 1 .. Len(entries') : entries'[j] # d
          BY <2>4, <2>6, <4>2
        <4>4. \A i \in 1 .. Len(Tail(todo[c])) : Tail(todo[c])[i] # d
          BY <2>8, <4>2
        <4> QED BY <1>0, <2>2, <4>2, <4>3, <4>4
      <3> QED BY <3>1 DEF Unknown
    <2>10. ASSUME NEW d \in Calls \ {c} PROVE \E m \in Nat : Behind(todo'[d], entries', m)
      <3>1. PICK n0 \in Nat : Behind(todo[d], entries, n0)
        BY <1>0 DEF Copies
      <3>2. todo'[d] = todo[d] /\ todo[d] \in Seq(Calls)
        BY <1>0, <2>2
      <3> QED BY <1>0, <2>4, <2>5, <3>1, <3>2, FirstGoes
    <2>11. Behind(todo'[c], entries', 0)
      BY <1>0, <2>2, <2>4
    <2>12. \A d \in Calls \ {c} : pc'[d] \notin {"run", "await"}
      BY <1>0, <1>7, <2>2
    <2>13. Copies'
      <3>1. ASSUME NEW d \in Calls
            PROVE  /\ \E m \in Nat : Behind(todo'[d], entries', m)
                   /\ pc'[d] \in {"run", "await"} => Behind(todo'[d], entries', 0)
        BY <2>10, <2>11, <2>12
      <3> QED BY <3>1 DEF Copies
    <2>14. GoesOn'
      BY <1>0, <2>2 DEF GoesOn
    <2> QED BY <2>7, <2>9, <2>13, <2>14 DEF QueueInv
  <1>10. ASSUME NEW c \in Calls, Takes(c) \/ (Quiet /\ pc[c] = "await"),
                NEW l \in {"sleep", "over"}, Release(c, l, <<>>), UNCHANGED entries, GoesOn'
         PROVE  QueueInv'
    <2>1. /\ pc' = [pc EXCEPT ![c] = l]
          /\ todo' = [todo EXCEPT ![c] = <<>>]
      BY <1>10 DEF Release, Goto
    <2>2. Behind(<<>>, entries, 0)
      BY <1>0, CopyOfAll
    <2>3. Copies'
      BY <1>0, <1>10, <2>1, <2>2 DEF Copies
    <2>4. Unknown'
      <3>1. Len(<<>>) = 0
        BY EmptySeq
      <3> QED BY <1>0, <1>10, <2>1, <3>1 DEF Unknown
    <2> QED BY <1>0, <1>10, <2>3, <2>4 DEF QueueInv
  <1>11. ASSUME NEW c \in Calls, Raise(c) PROVE QueueInv'
    <2>1. /\ Takes(c) \/ (Quiet /\ pc[c] = "await")
          /\ \E l \in {"sleep", "over"} : Release(c, l, <<>>)
          /\ UNCHANGED entries
      BY <1>11 DEF Raise, Error, Ended
    <2>2. /\ UNCHANGED task
          /\ todo' = [todo EXCEPT ![c] = <<>>]
          /\ waiters' = Without(c)
          /\ \E l \in {"sleep", "over"} : pc' = [pc EXCEPT ![c] = l]
      BY <1>11 DEF Raise, Release, Goto
    <2>3. CASE pc'[c] = "sleep"
      <3>1. GoesOn'
        BY <2>3 DEF GoesOn
      <3> QED BY <1>10, <2>1, <3>1
    <2>4. CASE ~(Sound /\ entries # <<>>)
      <3>1. GoesOn'
        BY <2>1, <2>2, <2>4 DEF GoesOn, Sound
      <3> QED BY <1>10, <2>1, <3>1
    <2>5. CASE Sound /\ entries # <<>> /\ pc'[c] # "sleep"
      <3>1. ~Contains(entries, Head(todo[c]))
        BY <1>7, <1>11, <2>1, <2>5 DEF Raise, Error, Ended, Sound
      <3>2. ~Behind(todo[c], entries, 0)
        BY <1>0, <1>7, <2>1, <3>1, FirstIsThere
      <3>3. pc[c] = "wait" /\ Head(waiters) = c
        BY <1>0, <2>1, <3>2 DEF Copies, Takes
      <3>4. PICK d \in Calls : \/ pc[d] \in {"sleep", "run", "await"}
                               \/ /\ waiters # <<>>
                                  /\ waiters[Len(waiters)] = d
                                  /\ Behind(todo[d], entries, 0)
        BY <1>0, <2>5 DEF GoesOn
      <3>5. d # c
        BY <3>2, <3>3, <3>4
      <3>6. pc'[d] = pc[d] /\ todo'[d] = todo[d]
        BY <1>0, <2>2, <3>5
      <3>7. CASE pc[d] \in {"sleep", "run", "await"}
        <4>1. GoesOn'
          BY <3>6, <3>7 DEF GoesOn
        <4> QED BY <1>10, <2>1, <4>1
      <3>8. CASE waiters # <<>> /\ waiters[Len(waiters)] = d /\ Behind(todo[d], entries, 0)
        <4>1. Tail(waiters) # <<>> /\ Tail(waiters)[Len(Tail(waiters))] = d
          BY <1>0, <3>3, <3>5, <3>8, Remaining
        <4>2. waiters' # <<>> /\ waiters'[Len(waiters')] = d
          BY <2>2, <3>3, <4>1 DEF Without
        <4>3. GoesOn'
          BY <2>1, <3>6, <3>8, <4>2 DEF GoesOn
        <4> QED BY <1>10, <2>1, <4>3
      <3> QED BY <3>4, <3>7, <3>8
    <2> QED BY <2>3, <2>4, <2>5
  <1>12. ASSUME NEW c \in Calls, Abort(c) PROVE QueueInv'
    <2>1. /\ Takes(c) \/ (Quiet /\ pc[c] = "await")
          /\ Release(c, "over", <<>>)
          /\ UNCHANGED <<entries, task>>
          /\ task[Head(todo[c])] = "cancelled"
      BY <1>12 DEF Abort, Ended, Release
    <2>2. ~Sound'
      BY <1>7, <2>1 DEF Sound
    <2>3. GoesOn'
      BY <2>2 DEF GoesOn
    <2> QED BY <1>10, <2>1, <2>3
  <1>13. ASSUME NEW c \in Calls, EndRound(c) PROVE QueueInv'
    <2>1. /\ pc[c] = "run"
          /\ pc' = [pc EXCEPT ![c] = IF entries = <<>> THEN "over" ELSE "sleep"]
          /\ UNCHANGED <<task, entries, todo, owner, waiters>>
      BY <1>13 DEF EndRound, Goto
    <2>2. GoesOn'
      BY <1>0, <2>1 DEF GoesOn
    <2>3. Copies'
      BY <1>0, <2>1 DEF Copies
    <2>4. Unknown'
      BY <1>0, <2>1 DEF Unknown
    <2> QED BY <1>0, <2>1, <2>2, <2>3, <2>4 DEF QueueInv
  <1>14. CASE UNCHANGED vars
    <2>1. UNCHANGED <<task, entries, pc, todo, owner, waiters>>
      BY <1>14 DEF vars
    <2>2. GoesOn' /\ Copies' /\ Unknown'
      BY <1>0, <2>1 DEF GoesOn, Copies, Unknown, Sound
    <2> QED BY <1>0, <2>1, <2>2 DEF QueueInv
  <1> QED BY <1>2, <1>3, <1>4, <1>5, <1>6, <1>8, <1>9, <1>11, <1>12, <1>13, <1>14
          DEF Next, Delayed, Handling

-----------------------------------------------------------------------------
(* The order of the entries, and who can go on *)

\* _tasks is a queue, though every handler works through a copy of its own: an
\* entry is added last, by its call, and the one that is deleted is the first,
\* its task done (signals.py:107-111, 169-181).
FirstInFirstOut ==
  [][\/ UNCHANGED entries
     \/ \E c \in Calls : pc[c] = "new" /\ entries' = Append(entries, c)
     \/ entries # <<>> /\ task[Head(entries)] = "done" /\ entries' = Tail(entries)]_vars

\* The task of c is due; or its handler is awake and has the entries behind it,
\* someone before it at the lock, or a task to look at; or can be woken.
Ready(c) ==
  \/ Quiet /\ task[c] = "delayed"
  \/ Quiet /\ pc[c] = "sleep"
  \/ pc[c] = "run" /\ \/ todo[c] = <<>>
                      \/ owner # Nobody
                      \/ waiters # <<>>
                      \/ task[Head(todo[c])] # "none"
  \/ /\ Quiet
     /\ pc[c] = "wait"
     /\ owner = Nobody
     /\ Head(waiters) = c
     /\ task[Head(todo[c])] # "none"
  \/ Quiet /\ pc[c] = "await" /\ task[Head(todo[c])] # "none"

\* As long as a handler has not ended, somebody is ready: the lock is never lost
\* nor left to a handler that waits for a task nobody made (signals.py:144-182).
NobodyIsStuck ==
  (\E c \in Calls : pc[c] \notin {"new", "over"}) => \E c \in Calls : Ready(c)

\* A call makes its task at once.
Started == \A c \in Calls : task[c] = "none" => pc[c] = "new"

\* No step unmakes a task or a call.
LEMMA StartedStep == IInv /\ Started /\ [Next]_vars => Started'
  <1> SUFFICES ASSUME IInv, Started, [Next]_vars PROVE Started'
    OBVIOUS
  <1>0. /\ task \in [Calls -> {"none", "delayed", "done", "failed", "cancelled"}]
        /\ pc \in [Calls -> {"new", "sleep", "run", "wait", "await", "over"}]
    BY DEF IInv, TypeOK
  <1>1. ASSUME NEW c \in Calls, Schedule(c) PROVE Started'
    BY <1>0, <1>1 DEF Schedule, Goto, Started
  <1>2. ASSUME NEW c \in Calls, Run(c) \/ Fail(c) PROVE Started'
    BY <1>0, <1>2 DEF Run, Fail, Started
  <1>3. ASSUME NEW c \in Calls, TimeOut(c) PROVE Started'
    BY <1>0, <1>3 DEF TimeOut, Started
  <1>4. ASSUME NEW c \in Calls, pc[c] # "new", NEW l, pc' = [pc EXCEPT ![c] = l], UNCHANGED task
        PROVE  Started'
    BY <1>0, <1>4 DEF Started
  <1>5. ASSUME NEW c \in Calls, Wake(c) \/ Queue(c) \/ EndRound(c) PROVE Started'
    BY <1>4, <1>5 DEF Wake, Queue, EndRound, Goto
  <1>6. ASSUME NEW c \in Calls, Await(c) PROVE Started'
    BY <1>4, <1>6 DEF Await, Takes, Goto
  <1>7. ASSUME NEW c \in Calls, NEW e, NEW l, NEW s, Ended(c, e), Release(c, l, s)
        PROVE  Started'
    BY <1>4, <1>7 DEF Ended, Takes, Release, Goto
  <1>8. ASSUME NEW c \in Calls, Delete(c) \/ Raise(c) \/ Abort(c) PROVE Started'
    BY <1>7, <1>8 DEF Delete, Raise, Error, Abort
  <1>9. CASE UNCHANGED vars
    BY <1>9 DEF vars, Started
  <1> QED BY <1>1, <1>2, <1>3, <1>5, <1>6, <1>8, <1>9 DEF Next, Delayed, Handling

\* A task a handler looks at was made: an entry of a copy is of a call made.
LEMMA LooksAtMade ==
  ASSUME IInv, QueueInv, Started, NEW c \in Calls, todo[c] # <<>>
  PROVE  task[Head(todo[c])] # "none"
  <1>1. todo[c] \in Seq(Calls)
    BY DEF IInv, TypeOK
  <1>2. Head(todo[c]) = todo[c][1] /\ Head(todo[c]) \in Calls /\ 1 \in 1 .. Len(todo[c])
    BY <1>1, HeadTailProperties, EmptySeq, LenProperties
  <1>3. pc[Head(todo[c])] # "new"
    BY <1>2 DEF QueueInv, Unknown
  <1> QED BY <1>2, <1>3 DEF Started

\* Who sleeps can be woken, who awaits has a task that ends, and the first in
\* the line of a free lock takes it.
LEMMA SomebodyIsReady == IInv /\ QueueInv /\ Started => NobodyIsStuck
  <1> SUFFICES ASSUME IInv, QueueInv, Started, NEW h \in Calls, pc[h] \notin {"new", "over"}
               PROVE  \E c \in Calls : Ready(c)
    BY DEF NobodyIsStuck
  <1>0. /\ pc \in [Calls -> {"new", "sleep", "run", "wait", "await", "over"}]
        /\ waiters \in Seq(Calls)
        /\ owner \in Calls \cup {Nobody}
        /\ ToSet(waiters) = {c \in Calls : pc[c] = "wait"}
        /\ \A c \in Calls : pc[c] = "await" <=> owner = c
        /\ Busy
    BY DEF IInv, TypeOK
  <1>1. CASE ~Quiet
    <2>1. PICK c \in Calls : pc[c] = "run"
      BY <1>1 DEF Quiet
    <2>2. Ready(c)
      BY <2>1, LooksAtMade DEF Ready
    <2> QED BY <2>2
  <1>2. CASE Quiet /\ \E c \in Calls : pc[c] \in {"sleep", "await"}
    <2>1. PICK c \in Calls : pc[c] \in {"sleep", "await"}
      BY <1>2
    <2>2. pc[c] = "await" => task[Head(todo[c])] # "none"
      BY <1>0, LooksAtMade DEF Busy
    <2>3. Ready(c)
      BY <1>2, <2>1, <2>2 DEF Ready
    <2> QED BY <2>3
  <1>3. CASE Quiet /\ \A c \in Calls : pc[c] \notin {"sleep", "await"}
    <2>1. pc[h] = "wait" /\ owner = Nobody
      BY <1>0, <1>3 DEF Quiet
    <2>2. waiters # <<>>
      BY <1>0, <2>1, EmptySeq DEF ToSet
    <2>3. Head(waiters) = waiters[1] /\ Head(waiters) \in Calls /\ 1 \in DOMAIN waiters
      BY <1>0, <2>2, HeadTailProperties, EmptySeq, LenProperties
    <2>4. pc[Head(waiters)] = "wait"
      BY <1>0, <2>3 DEF ToSet
    <2>5. task[Head(todo[Head(waiters)])] # "none"
      BY <1>0, <2>3, <2>4, LooksAtMade DEF Busy
    <2>6. Ready(Head(waiters))
      BY <1>3, <2>1, <2>4, <2>5 DEF Ready
    <2> QED BY <2>3, <2>6
  <1> QED BY <1>1, <1>2, <1>3

\* The entry a handler deletes is the first of all, by FoundIsFirst.
LEMMA EntriesStep ==
  ASSUME IInv, QueueInv, [Next]_vars
  PROVE  \/ UNCHANGED entries
         \/ \E c \in Calls : pc[c] = "new" /\ entries' = Append(entries, c)
         \/ entries # <<>> /\ task[Head(entries)] = "done" /\ entries' = Tail(entries)
  <1>0. /\ entries \in Seq(Calls)
        /\ todo \in [Calls -> Seq(Calls)]
        /\ IsInjective(entries)
        /\ Busy
        /\ DOMAIN entries = 1 .. Len(entries)
    BY LenProperties DEF IInv, QueueInv, TypeOK
  <1>1. ASSUME NEW c \in Calls, Delete(c)
        PROVE  entries # <<>> /\ task[Head(entries)] = "done" /\ entries' = Tail(entries)
    <2>1. PICK n \in 1 .. Len(entries) : entries[n] = Head(todo[c]) /\ entries' = RemoveAt(entries, n)
      BY <1>0, <1>1 DEF Delete
    <2>2. todo[c] # <<>> /\ todo[c] \in Seq(Calls) /\ task[Head(todo[c])] = "done"
      BY <1>0, <1>1 DEF Delete, Ended, Takes, Busy
    <2>3. PICK k \in Nat : Behind(todo[c], entries, k)
      BY DEF QueueInv, Copies
    <2>4. n = 1 /\ entries' = Tail(entries)
      BY <1>0, <2>1, <2>2, <2>3, FoundIsFirst
    <2>5. entries # <<>>
      BY <1>0, <2>1, EmptySeq
    <2>6. Head(entries) = entries[1]
      BY <1>0, <2>5, HeadTailProperties
    <2> QED BY <2>1, <2>2, <2>4, <2>5, <2>6
  <1>2. ASSUME NEW c \in Calls, Schedule(c)
        PROVE  pc[c] = "new" /\ entries' = Append(entries, c)
    BY <1>2 DEF Schedule
  <1>3. ASSUME NEW c \in Calls,
               \/ Run(c) \/ Fail(c) \/ TimeOut(c) \/ Wake(c) \/ Queue(c)
               \/ Await(c) \/ Raise(c) \/ Abort(c) \/ EndRound(c)
        PROVE  UNCHANGED entries
    BY <1>3 DEF Run, Fail, TimeOut, Wake, Queue, Await, Raise, Abort, EndRound
  <1> QED BY <1>1, <1>2, <1>3 DEF Next, Delayed, Handling, vars

-----------------------------------------------------------------------------
(* The theorems *)

\* The invariant holds: at first there is nothing to lose.
THEOREM InvariantHolds == Spec => [](IInv /\ QueueInv)
  <1>1. Init => IInv /\ QueueInv
    <2> SUFFICES ASSUME Init PROVE IInv /\ QueueInv
      OBVIOUS
    <2>1. <<>> \in Seq(Calls) /\ DOMAIN <<>> = {} /\ Len(<<>>) = 0
      BY EmptySeq
    <2>2. ToSet(waiters) = {} /\ IsInjective(waiters) /\ IsInjective(entries)
      BY <2>1 DEF Init, ToSet, IsInjective
    <2>3. TypeOK
      BY <2>1, <2>2, SignalAssumption DEF Init, TypeOK
    <2>4. IInv
      BY <2>3 DEF Init, IInv, Busy, Entered
    <2>5. Behind(<<>>, <<>>, 0)
      BY <2>1, CopyOfAll
    <2>6. Unknown /\ Copies /\ GoesOn
      BY <2>1, <2>5 DEF Init, Unknown, Copies, GoesOn
    <2> QED BY <2>2, <2>4, <2>6 DEF QueueInv
  <1> QED BY <1>1, Step, QueueStep, PTL DEF Spec

\* Types, and with them the lock: it belongs to the handler that awaits a task,
\* and its line has those who wait for it, once (signals.py:176-182).
THEOREM SchedulerTypes == Spec => []TypeOK
  BY InvariantHolds, PTL DEF IInv

\* Though every handler deletes the entries of all calls, the entry of a call
\* whose task has not ended is never deleted (signals.py:178-181).
THEOREM EntriesAreKept == Spec => []Entered
  BY InvariantHolds, PTL DEF IInv

\* When the last handler has ended no entry is left, and nobody loses an entry
\* whose task has not run, unless a task failed or was cancelled: the entries
\* are deleted in their order, and who deletes one queues up behind those that
\* will miss it (signals.py:149-163).
THEOREM NothingIsLeft == Spec => []NothingLeft
  <1>1. IInv /\ QueueInv => NothingLeft
    <2> SUFFICES ASSUME IInv, QueueInv, Sound PROVE
          /\ (\A c \in Calls : pc[c] \in {"new", "over"}) => entries = <<>>
          /\ \A c \in Calls : task[c] = "delayed" => Contains(entries, c)
      BY DEF NothingLeft
    <2>1. ASSUME \A c \in Calls : pc[c] \in {"new", "over"}, entries # <<>> PROVE FALSE
      <3>1. waiters # <<>>
        BY <2>1 DEF QueueInv, GoesOn
      <3>2. waiters[1] \in ToSet(waiters)
        <4>1. waiters \in Seq(Calls)
          BY DEF IInv, TypeOK
        <4>2. 1 \in DOMAIN waiters
          BY <3>1, <4>1, EmptySeq, LenProperties
        <4> QED BY <4>2 DEF ToSet
      <3> QED BY <2>1, <3>2 DEF IInv, TypeOK
    <2>2. ASSUME NEW c \in Calls, task[c] = "delayed" PROVE Contains(entries, c)
      <3>1. DOMAIN entries = 1 .. Len(entries)
        BY LenProperties DEF IInv, TypeOK
      <3> QED BY <2>2, <3>1 DEF IInv, Entered, Contains
    <2> QED BY <2>1, <2>2
  <1> QED BY <1>1, InvariantHolds, PTL

\* The entries leave in the order they came, each deleted by a handler that saw
\* its task done: no copy of a handler is ever ahead of another in what it
\* deletes (signals.py:107-111, 169-181).
THEOREM EntriesAreAQueue == Spec => FirstInFirstOut
  <1>1. IInv /\ QueueInv /\ [Next]_vars =>
          \/ UNCHANGED entries
          \/ \E c \in Calls : pc[c] = "new" /\ entries' = Append(entries, c)
          \/ entries # <<>> /\ task[Head(entries)] = "done" /\ entries' = Tail(entries)
    BY EntriesStep
  <1> QED BY <1>1, InvariantHolds, PTL DEF Spec, FirstInFirstOut

\* There is no deadlock: while a handler has not ended, somebody is ready, so
\* the lock is never lost nor held for a task that nobody made
\* (signals.py:144-182).
THEOREM NobodyStaysStuck == Spec => []NobodyIsStuck
  <1>1. Init => Started
    BY DEF Init, Started
  <1>2. Spec => []Started
    BY <1>1, StartedStep, InvariantHolds, PTL DEF Spec
  <1> QED BY <1>2, SomebodyIsReady, InvariantHolds, PTL
=============================================================================
