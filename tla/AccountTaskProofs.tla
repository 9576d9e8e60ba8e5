-------------------------- MODULE AccountTaskProofs --------------------------
(***************************************************************************)
(* The theorems about AccountTask: its types; that one worker at a time has *)
(* the lock, that a token stays with its connection and that nobody is     *)
(* forgotten, as long as no two threads meet inside the lock; and, without  *)
(* that condition, what a waiter that fell asleep does to the others.       *)
(***************************************************************************)
EXTENDS AccountTask, TLAPS

-----------------------------------------------------------------------------
(* The inductive invariant *)

\* Without a torn lock: one thread at a time is inside its code, one worker has
\* it; who tested it or opened it finds it open, and so does a waiter that was
\* woken, because nobody passes a lock somebody waits for.
LockInv ==
  /\ \A v, w \in Requests : pc[v] \in LockOps /\ pc[w] \in LockOps => v = w
  /\ \A v, w \in Requests : pc[v] \in Inside /\ pc[w] \in Inside => v = w
  /\ \A w \in Requests : /\ pc[w] \in Inside => locked
                         /\ pc[w] \in {"enter", "wake"} => ~locked
                         /\ pc[w] = "enter" => waiter = Nobody
                         /\ pc[w] = "join" => loop # Nobody
  /\ waiter # Nobody => loop # Nobody
  /\ woken => waiter # Nobody /\ ~locked

\* A person has a token only in a session of the connection it was given on.
TokenInv ==
  \A o \in Requests : token[o] # Nobody =>
    \E w \in Requests : pc[w] \in Session /\ object[w] = o /\ token[o] = job[w]

\* A query carries that token; the record read for a merge is not behind.
SessionInv ==
  \A w \in Requests : /\ pc[w] = "query" => sent[w] = job[w]
                      /\ pc[w] = "merge" => cached \subseteq seen[w]

IInv == TypeOK /\ (torn \/ (LockInv /\ TokenInv /\ SessionInv))

-----------------------------------------------------------------------------
(* Type correctness *)

\* Every variable has its type at the start.
LEMMA TypeInit == Init => TypeOK
  <1> SUFFICES ASSUME Init
               PROVE  TypeOK
    OBVIOUS
  <1>1. /\ making \in [Requests -> {"new", "look", "add", "equip", "known", "store", "done"}]
        /\ pc \in [Requests -> Outside \cup LockOps \cup Inside]
        /\ after \in [Requests -> {"check", "over"}]
    BY DEF Init, Outside
  <1>2. /\ fetched \in [Requests -> Requests \cup {Nobody}]
        /\ book \in [Persons -> Requests \cup {Nobody}]
        /\ token \in [Requests -> Requests \cup {Nobody}]
        /\ job \in [Requests -> Requests \cup {Nobody}]
        /\ object \in [Requests -> Requests \cup {Nobody}]
        /\ sent \in [Requests -> Requests \cup {Nobody}]
        /\ seen \in [Requests -> SUBSET Persons]
    BY DEF Init
  <1>3. \A r \in Requests : /\ making[r] \notin {"equip", "known", "store"}
                            /\ pc[r] = "off" /\ pc[r] \notin Busy /\ pc[r] \notin Session
    BY DEF Init, Busy, Session
  <1> QED
    BY <1>1, <1>2, <1>3 DEF Init, TypeOK

\* The history variable of the lock is a truth value.
LEMMA MixedType == \A w \in Requests : torn \in BOOLEAN => Mixed(w) \in BOOLEAN
  BY DEF Mixed

\* The first half of release() touches the lock and the place of its caller.
LEMMA ReleaseType ==
  ASSUME TypeOK, NEW w \in Requests, NEW l \in {"check", "over"}, Release(w, l)
  PROVE  /\ \E t \in {"wake", "over"} : pc' = [pc EXCEPT ![w] = t]
         /\ after' \in [Requests -> {"check", "over"}]
         /\ torn' \in BOOLEAN
         /\ locked' = FALSE
         /\ UNCHANGED <<loop, waiter, woken>>
  <1>1. CASE locked
    BY <1>1, MixedType DEF Release, Goto, TypeOK
  <1>2. CASE ~locked
    BY <1>2 DEF Release, Goto, TypeOK
  <1> QED BY <1>1, <1>2 DEF TypeOK

\* No step leaves the types; a session keeps its person object.
LEMMA TypeStep == TypeOK /\ [Next]_vars => TypeOK'
  <1> SUFFICES ASSUME TypeOK, [Next]_vars
               PROVE  TypeOK'
    OBVIOUS
  <1>0. \A w \in Requests, l \in {"check", "over"} : Release(w, l) =>
          /\ \E t \in {"wake", "over"} : pc' = [pc EXCEPT ![w] = t]
          /\ after' \in [Requests -> {"check", "over"}]
          /\ torn' \in BOOLEAN
          /\ locked' = FALSE
          /\ UNCHANGED <<loop, waiter, woken>>
    BY ReleaseType
  <1> USE AccountAssumption DEF TypeOK, LockOps, Inside, Outside, Session, Busy, personVars,
                                workVars, lockVars
  <1>1. CASE Expire
    BY <1>1 DEF Expire
  <1>2. ASSUME NEW r \in Requests, Arrive(r)
        PROVE  TypeOK'
    BY <1>2 DEF Arrive, Goto
  <1>3. ASSUME NEW w \in Requests, Look(w)
        PROVE  TypeOK'
    BY <1>3 DEF Look
  <1>4. ASSUME NEW w \in Requests, Add(w)
        PROVE  TypeOK'
    BY <1>4 DEF Add
  <1>5. ASSUME NEW w \in Requests, Equip(w)
        PROVE  TypeOK'
    BY <1>5 DEF Equip, Fetch
  <1>6. ASSUME NEW w \in Requests, Acquire(w)
        PROVE  TypeOK'
    BY <1>6, MixedType DEF Acquire, Goto
  <1>7. ASSUME NEW w \in Requests, Pass(w)
        PROVE  TypeOK'
    BY <1>7, MixedType DEF Pass, Goto
  <1>8. ASSUME NEW w \in Requests, Enter(w)
        PROVE  TypeOK'
    BY <1>8 DEF Enter, Goto
  <1>9. ASSUME NEW w \in Requests, Contend(w)
        PROVE  TypeOK'
    BY <1>9, MixedType DEF Contend, Goto
  <1>10. ASSUME NEW w \in Requests, Refused(w)
        PROVE  TypeOK'
    BY <1>10 DEF Refused, Goto
  <1>11. ASSUME NEW w \in Requests, Join(w)
        PROVE  TypeOK'
    BY <1>11 DEF Join, Goto
  <1>12. ASSUME NEW w \in Requests, Sleep(w)
        PROVE  TypeOK'
    BY <1>12 DEF Sleep, Goto
  <1>13. ASSUME NEW w \in Requests, Resume(w)
        PROVE  TypeOK'
    BY <1>13, MixedType DEF Resume, Goto
  <1>14. ASSUME NEW w \in Requests, Wake(w)
        PROVE  TypeOK'
    BY <1>14 DEF Wake, Goto
  <1>15. ASSUME NEW w \in Requests, Take(w)
        PROVE  TypeOK'
    BY <1>15 DEF Take, Goto
  <1>16. ASSUME NEW w \in Requests, Check(w)
        PROVE  TypeOK'
    BY <1>16 DEF Check, Goto
  <1>17. ASSUME NEW w \in Requests, Missing(w)
        PROVE  TypeOK'
    <2>1. Release(w, "over")
      BY <1>17 DEF Missing
    <2>2. PICK t \in {"wake", "over"} : pc' = [pc EXCEPT ![w] = t]
      BY <2>1, <1>0
    <2>3. /\ after' \in [Requests -> {"check", "over"}]
          /\ torn' \in BOOLEAN
          /\ locked' = FALSE
          /\ UNCHANGED <<loop, waiter, woken>>
      BY <2>1, <1>0
    <2> QED BY <1>17, <2>2, <2>3 DEF Missing
  <1>18. ASSUME NEW w \in Requests, Open(w)
        PROVE  TypeOK'
    BY <1>18 DEF Open, Goto, Known
  <1>19. ASSUME NEW w \in Requests, OpenFails(w)
        PROVE  TypeOK'
    <2>1. Release(w, "check")
      BY <1>19 DEF OpenFails
    <2>2. PICK t \in {"wake", "over"} : pc' = [pc EXCEPT ![w] = t]
      BY <2>1, <1>0
    <2>3. /\ after' \in [Requests -> {"check", "over"}]
          /\ torn' \in BOOLEAN
          /\ locked' = FALSE
          /\ UNCHANGED <<loop, waiter, woken>>
      BY <2>1, <1>0
    <2> QED BY <1>19, <2>2, <2>3 DEF OpenFails, Known
  <1>20. ASSUME NEW w \in Requests, Send(w)
        PROVE  TypeOK'
    BY <1>20 DEF Send, Goto
  <1>21. ASSUME NEW w \in Requests, SendFails(w)
        PROVE  TypeOK'
    BY <1>21 DEF SendFails, Goto, Leave, Finish, SetToken
  <1>22. ASSUME NEW w \in Requests, Quit(w)
        PROVE  TypeOK'
    BY <1>22 DEF Quit, Goto, Leave, Finish, SetToken
  <1>23. ASSUME NEW w \in Requests, Authenticated(w)
        PROVE  TypeOK'
    BY <1>23 DEF Authenticated, Goto, SetToken
  <1>24. ASSUME NEW w \in Requests, Again(w)
        PROVE  TypeOK'
    BY <1>24 DEF Again, Goto, SetToken
  <1>25. ASSUME NEW w \in Requests, Broken(w)
        PROVE  TypeOK'
    BY <1>25 DEF Broken, Goto, Leave, Finish, SetToken
  <1>26. ASSUME NEW w \in Requests, Answered(w)
        PROVE  TypeOK'
    BY <1>26 DEF Answered, Goto, SetToken
  <1>27. ASSUME NEW w \in Requests, Merge(w)
        PROVE  TypeOK'
    BY <1>27 DEF Merge, Goto, Leave, Finish, SetToken
  <1>28. ASSUME NEW w \in Requests, MergeFails(w)
        PROVE  TypeOK'
    BY <1>28 DEF MergeFails, Goto, Leave, Finish, SetToken
  <1>29. ASSUME NEW w \in Requests, Close(w)
        PROVE  TypeOK'
    <2>1. PICK l \in {"check", "over"} : Release(w, l)
      BY <1>29 DEF Close
    <2>2. PICK t \in {"wake", "over"} : pc' = [pc EXCEPT ![w] = t]
      BY <2>1, <1>0
    <2>3. /\ after' \in [Requests -> {"check", "over"}]
          /\ torn' \in BOOLEAN
          /\ locked' = FALSE
          /\ UNCHANGED <<loop, waiter, woken>>
      BY <2>1, <1>0
    <2> QED BY <1>29, <2>2, <2>3 DEF Close
  <1>30. CASE UNCHANGED vars
    BY <1>30 DEF vars
  <1>31. ASSUME NEW w \in Requests, Activate(w)
         PROVE  TypeOK'
    BY <1>31 DEF Activate, Fetch
  <1>32. ASSUME NEW w \in Requests, Store(w)
         PROVE  TypeOK'
    BY <1>32 DEF Store
  <1>33. ASSUME NEW w \in Requests, Hired(w)
         PROVE  TypeOK'
    BY <1>33 DEF Hired, Goto
  <1>34. ASSUME NEW w \in Requests, NotHired(w)
         PROVE  TypeOK'
    BY <1>34 DEF NotHired, Goto
  <1>35. ASSUME NEW w \in Requests, Outrun(w)
         PROVE  TypeOK'
    BY <1>35 DEF Outrun, Goto
  <1>36. ASSUME NEW w \in Requests, Hang(w)
         PROVE  TypeOK'
    BY <1>36 DEF Hang, Goto
  <1> QED
    BY <1>1, <1>2, <1>3, <1>4, <1>5, <1>6, <1>7, <1>8, <1>9, <1>10, <1>11, <1>12, <1>13, <1>14,
       <1>15, <1>16, <1>17, <1>18, <1>19, <1>20, <1>21, <1>22, <1>23, <1>24, <1>25, <1>26, <1>27,
       <1>28, <1>29, <1>30, <1>31, <1>32, <1>33, <1>34, <1>35, <1>36
    DEF Next, Making, Locking, Working

-----------------------------------------------------------------------------
(* The lock *)

\* w goes on without touching the lock.
Moves(w) ==
  /\ UNCHANGED lockVars
  /\ \E S \in {Inside, Outside} : pc[w] \in S /\ \E l \in S : pc' = [pc EXCEPT ![w] = l]

LockStep ==
  \/ UNCHANGED <<pc, lockVars>>
  \/ \E w \in Requests :
       \/ Moves(w)
       \/ Acquire(w) \/ Pass(w) \/ Enter(w) \/ Contend(w) \/ Join(w) \/ Resume(w) \/ Wake(w)
       \/ pc[w] \in Inside /\ \E l \in {"check", "over"} : Release(w, l)

\* Whatever happens, it is one of these steps for the lock.
LEMMA LockSteps ==
  ASSUME TypeOK, [Next]_vars
  PROVE  LockStep
  <1>1. CASE Expire \/ UNCHANGED vars
    BY <1>1 DEF Expire, vars, LockStep
  <1>2. ASSUME NEW r \in Requests, Making(r)
        PROVE  LockStep
    BY <1>2 DEF Making, Look, Add, Equip, Activate, Fetch, Store, LockStep
  <1>3. ASSUME NEW w \in Requests, Arrive(w)
        PROVE  LockStep
    BY <1>3 DEF Arrive, LockStep
  <1>4. ASSUME NEW w \in Requests,
               \/ Refused(w) \/ Sleep(w) \/ Hired(w) \/ NotHired(w) \/ Check(w) \/ Take(w)
               \/ Outrun(w) \/ Hang(w)
        PROVE  Moves(w)
    BY <1>4 DEF Refused, Sleep, Hired, NotHired, Check, Take, Outrun, Hang, Goto, Moves, Outside
  <1>5. ASSUME NEW w \in Requests, Open(w) \/ Send(w) \/ Authenticated(w) \/ Again(w) \/ Answered(w)
        PROVE  Moves(w)
    <2>1. CASE Open(w)
      BY <2>1 DEF Open, Goto, Moves, Inside, Session
    <2>2. CASE Send(w)
      BY <2>2 DEF Send, Goto, Moves, Inside, Session
    <2>3. CASE Authenticated(w)
      BY <2>3 DEF Authenticated, Goto, Moves, Inside, Session
    <2>4. CASE Again(w)
      BY <2>4 DEF Again, Goto, Moves, Inside, Session
    <2>5. CASE Answered(w)
      BY <2>5 DEF Answered, Goto, Moves, Inside, Session
    <2> QED BY <1>5, <2>1, <2>2, <2>3, <2>4, <2>5
  <1>6. ASSUME NEW w \in Requests,
               SendFails(w) \/ Quit(w) \/ Broken(w) \/ Merge(w) \/ MergeFails(w)
        PROVE  Moves(w)
    <2>1. pc[w] \in Session /\ \E l \in {"check", "over"} : Finish(w, l)
      BY <1>6 DEF SendFails, Quit, Broken, Merge, MergeFails, Leave, Session
    <2> QED BY <2>1 DEF Finish, Goto, Moves, Inside
  <1>7. ASSUME NEW w \in Requests, Missing(w) \/ OpenFails(w) \/ Close(w)
        PROVE  pc[w] \in Inside /\ \E l \in {"check", "over"} : Release(w, l)
    BY <1>7 DEF Missing, OpenFails, Close, TypeOK, Inside
  <1>8. ASSUME NEW w \in Requests, Locking(w)
        PROVE  LockStep
    BY <1>8, <1>4 DEF Locking, LockStep
  <1>9. ASSUME NEW w \in Requests, Working(w)
        PROVE  LockStep
    BY <1>9, <1>4, <1>5, <1>6, <1>7 DEF Working, LockStep
  <1> QED
    BY <1>1, <1>2, <1>3, <1>8, <1>9 DEF Next, LockStep

\* A torn lock stays torn.
LEMMA TornStays == TypeOK /\ LockStep /\ torn => torn'
  BY DEF LockStep, Moves, Acquire, Pass, Enter, Contend, Join, Resume, Wake, Release, Mixed,
         lockVars, TypeOK

\* Who enters the code of the lock without tearing it is alone there.
LEMMA Alone ==
  ASSUME NEW w \in Requests, torn' = Mixed(w), ~torn'
  PROVE  ~torn /\ \A v \in Requests : v # w => pc[v] \notin LockOps
  BY DEF Mixed

\* Each of the steps keeps the lock's invariant as long as it is not torn.
LEMMA LockKept ==
  ASSUME TypeOK, LockInv, LockStep, ~torn'
  PROVE  LockInv'
  <1> USE DEF LockInv, Inside, Session, Goto, TypeOK
  <1>1. CASE UNCHANGED <<pc, lockVars>>
    BY <1>1 DEF lockVars, LockOps
  <1>2. ASSUME NEW w \in Requests, Moves(w)
        PROVE  LockInv'
    <2>1. UNCHANGED <<locked, loop, waiter, woken>>
      BY <1>2 DEF Moves, lockVars
    <2>2. PICK S \in {Inside, Outside} : pc[w] \in S /\ \E l \in S : pc' = [pc EXCEPT ![w] = l]
      BY <1>2 DEF Moves
    <2> QED BY <2>1, <2>2 DEF Outside, LockOps
  <1>3. ASSUME NEW w \in Requests, Acquire(w)
        PROVE  LockInv'
    <2>1. \A v \in Requests : v # w => pc[v] \notin LockOps
      BY <1>3, Alone DEF Acquire
    <2> QED BY <1>3, <2>1 DEF Acquire, LockOps
  <1>4. ASSUME NEW w \in Requests, Pass(w)
        PROVE  LockInv'
    <2>1. \A v \in Requests : v # w => pc[v] \notin LockOps
      BY <1>4, Alone DEF Pass
    <2> QED BY <1>4, <2>1 DEF Pass, LockOps
  <1>5. ASSUME NEW w \in Requests, Enter(w)
        PROVE  LockInv'
    BY <1>5 DEF Enter, LockOps
  <1>6. ASSUME NEW w \in Requests, Contend(w)
        PROVE  LockInv'
    <2>1. \A v \in Requests : v # w => pc[v] \notin LockOps
      BY <1>6, Alone DEF Contend
    <2> QED BY <1>6, <2>1, AccountAssumption DEF Contend, LockOps
  <1>7. ASSUME NEW w \in Requests, Join(w)
        PROVE  LockInv'
    BY <1>7 DEF Join, LockOps
  <1>8. ASSUME NEW w \in Requests, Resume(w)
        PROVE  LockInv'
    <2>1. \A v \in Requests : v # w => pc[v] \notin LockOps
      BY <1>8, Alone DEF Resume
    <2> QED BY <1>8, <2>1 DEF Resume, LockOps
  <1>9. ASSUME NEW w \in Requests, Wake(w)
        PROVE  LockInv'
    BY <1>9 DEF Wake, LockOps
  <1>10. ASSUME NEW w \in Requests, pc[w] \in Inside, NEW l \in {"check", "over"}, Release(w, l)
        PROVE  LockInv'
    BY <1>10 DEF Release, Mixed, LockOps
  <1> QED
    BY <1>1, <1>2, <1>3, <1>4, <1>5, <1>6, <1>7, <1>8, <1>9, <1>10 DEF LockStep

-----------------------------------------------------------------------------
(* The sessions *)

\* No session is opened, changed or closed.
Quiet ==
  /\ \A w \in Requests : IF pc[w] \in Session THEN pc'[w] = pc[w] /\ job'[w] = job[w]
                                              ELSE pc'[w] \notin Session
  /\ UNCHANGED <<token, object, sent, seen, cached>>

\* What the steps outside the sessions do to them.
LEMMA QuietSteps ==
  ASSUME TypeOK, NEW w \in Requests,
         \/ Arrive(w) \/ Making(w) \/ Locking(w)
         \/ Hired(w) \/ NotHired(w) \/ Check(w) \/ Take(w) \/ Outrun(w) \/ Hang(w)
         \/ Missing(w) \/ OpenFails(w) \/ Close(w)
  PROVE  Quiet
  <1>1. CASE Arrive(w)
    BY <1>1 DEF Arrive, Quiet
  <1>2. CASE Making(w)
    BY <1>2 DEF Making, Look, Add, Equip, Activate, Fetch, Store, workVars, Quiet
  <1>3. CASE Locking(w)
    <2>1. \E l \in {"inside", "enter", "join", "over", "wait", "asleep", "check"} :
            pc[w] \notin Session /\ pc' = [pc EXCEPT ![w] = l]
      BY <1>3 DEF Locking, Acquire, Pass, Enter, Contend, Refused, Join, Sleep, Resume, Wake,
                  Goto, Session, TypeOK
    <2>2. UNCHANGED <<token, object, sent, seen, cached>>
      BY <1>3 DEF Locking, Acquire, Pass, Enter, Contend, Refused, Join, Sleep, Resume, Wake,
                  personVars, workVars
    <2>3. \A v \in Requests : v # w => job'[v] = job[v]
      BY <1>3 DEF Locking, Acquire, Pass, Enter, Contend, Refused, Join, Sleep, Resume, Wake,
                  workVars, TypeOK
    <2> QED BY <2>1, <2>2, <2>3 DEF Quiet, Session, TypeOK
  <1>4. CASE Hired(w) \/ NotHired(w) \/ Check(w) \/ Take(w) \/ Outrun(w) \/ Hang(w)
    <2>1. \E l \in {"check", "over", "starved", "take", "ask", "get", "hung"} :
            pc[w] \notin Session /\ pc' = [pc EXCEPT ![w] = l]
      BY <1>4 DEF Hired, NotHired, Check, Take, Outrun, Hang, Goto, Session
    <2>2. UNCHANGED <<token, object, sent, seen, cached>>
      BY <1>4 DEF Hired, NotHired, Check, Take, Outrun, Hang, personVars, workVars
    <2>3. \A v \in Requests : v # w => job'[v] = job[v]
      BY <1>4 DEF Hired, NotHired, Check, Take, Outrun, Hang, workVars, TypeOK
    <2> QED BY <2>1, <2>2, <2>3 DEF Quiet, Session, TypeOK
  <1>5. CASE Missing(w) \/ OpenFails(w) \/ Close(w)
    <2>1. PICK l \in {"check", "over"} : Release(w, l)
      BY <1>5 DEF Missing, OpenFails, Close, TypeOK
    <2>2. \E t \in {"wake", "over"} : pc' = [pc EXCEPT ![w] = t]
      BY <2>1, ReleaseType
    <2>3. pc[w] \notin Session /\ UNCHANGED <<token, object, sent, seen, cached>>
      BY <1>5 DEF Missing, OpenFails, Close, personVars, Session
    <2>4. \A v \in Requests : v # w => job'[v] = job[v]
      BY <1>5 DEF Missing, OpenFails, Close, TypeOK
    <2> QED BY <2>2, <2>3, <2>4 DEF Quiet, Session, TypeOK
  <1> QED
    BY <1>1, <1>2, <1>3, <1>4, <1>5

\* A session that ends leaves no token behind.
LEMMA NoTokenLeft ==
  ASSUME TypeOK, LockInv, TokenInv, NEW w \in Requests, NEW l, pc[w] \in Session, Leave(w, l)
  PROVE  TokenInv' /\ SessionInv'
  <1>1. \A v \in Requests : v # w => pc[v] \notin Inside
    BY DEF LockInv, Inside
  <1>2. \A v \in Requests : pc'[v] \notin Session
    BY <1>1 DEF Leave, Finish, Goto, Inside, Session, TypeOK
  <1>3. \A o \in Requests : token'[o] = Nobody
    BY <1>1 DEF Leave, SetToken, TokenInv, Inside, TypeOK
  <1> QED BY <1>2, <1>3 DEF TokenInv, SessionInv, Session

\* Every step keeps what is known of the sessions while one worker has the lock.
LEMMA SessionKept ==
  ASSUME TypeOK, LockInv, TokenInv, SessionInv, [Next]_vars
  PROVE  TokenInv' /\ SessionInv'
  <1>1. ASSUME Quiet
        PROVE  TokenInv' /\ SessionInv'
    BY <1>1 DEF Quiet, TokenInv, SessionInv, Session
  <1>2. CASE Expire
    BY <1>2 DEF Expire, personVars, TokenInv, SessionInv
  <1>3. CASE UNCHANGED vars
    BY <1>3 DEF vars, personVars, workVars, TokenInv, SessionInv
  <1>4. ASSUME NEW w \in Requests,
               SendFails(w) \/ Quit(w) \/ Broken(w) \/ Merge(w) \/ MergeFails(w)
        PROVE  TokenInv' /\ SessionInv'
    <2>1. pc[w] \in Session /\ \E l \in {"check", "over"} : Leave(w, l)
      BY <1>4 DEF SendFails, Quit, Broken, Merge, MergeFails, Session
    <2> QED BY <2>1, NoTokenLeft
  <1>5. \A w \in Requests : pc[w] \in Inside =>
          /\ \A v \in Requests : v # w => pc[v] \notin Session
          /\ \A o \in Requests : token[o] # Nobody =>
               pc[w] \in Session /\ object[w] = o /\ token[o] = job[w]
    BY DEF LockInv, TokenInv, Inside
  <1>6. ASSUME NEW w \in Requests, Open(w)
        PROVE  TokenInv' /\ SessionInv'
    <2>1. \A v \in Requests : token'[v] = Nobody /\ pc'[v] \notin {"query", "merge"}
      BY <1>5, <1>6 DEF Open, Goto, personVars, Inside, Session, TypeOK
    <2> QED BY <2>1 DEF TokenInv, SessionInv
  <1>7. ASSUME NEW w \in Requests, Send(w)
        PROVE  TokenInv' /\ SessionInv'
    <2>1. pc[w] \in Inside /\ pc'[w] \in Session
      BY <1>7 DEF Send, Goto, Inside, Session, TypeOK
    <2>2. UNCHANGED <<token, object, job, cached, seen>>
      BY <1>7 DEF Send, personVars
    <2>3. TokenInv'
      BY <1>5, <2>1, <2>2 DEF TokenInv
    <2>4. /\ \A v \in Requests : v # w => pc'[v] \notin Session
          /\ pc'[w] \in {"auth", "query"}
          /\ pc'[w] = "query" => token[object[w]] # Nobody /\ sent'[w] = token[object[w]]
      BY <1>5, <1>7, <2>1 DEF Send, Goto, TypeOK
    <2>5. object[w] \in Requests
      BY <1>7 DEF Send, TypeOK, Session
    <2>6. SessionInv'
      BY <1>5, <2>1, <2>2, <2>4, <2>5 DEF SessionInv, Session
    <2> QED BY <2>3, <2>6
  <1>8. ASSUME NEW w \in Requests, Authenticated(w) \/ Again(w) \/ Answered(w)
        PROVE  TokenInv' /\ SessionInv'
    <2>1. pc[w] \in Inside /\ object[w] \in Requests /\ UNCHANGED <<object, job, cached>>
      BY <1>8 DEF Authenticated, Again, Answered, workVars, Inside, Session, TypeOK
    <2>2. /\ pc'[w] \in {"session", "merge"}
          /\ \A v \in Requests : v # w => pc'[v] \notin Session
          /\ pc'[w] = "merge" => seen'[w] = cached
      BY <1>5, <1>8, <2>1 DEF Authenticated, Again, Answered, Goto, TypeOK
    <2>3. \E t \in {job[w], Nobody} : token' = [token EXCEPT ![object[w]] = t]
      BY <1>8 DEF Authenticated, Again, Answered, SetToken
    <2>4. TokenInv'
      BY <1>5, <2>1, <2>2, <2>3 DEF TokenInv, Session, TypeOK
    <2>5. SessionInv'
      BY <2>1, <2>2 DEF SessionInv, Session
    <2> QED BY <2>4, <2>5
  <1>9. ASSUME NEW w \in Requests,
               Arrive(w) \/ Making(w) \/ Locking(w) \/ Working(w)
        PROVE  TokenInv' /\ SessionInv'
    BY <1>1, <1>4, <1>6, <1>7, <1>8, <1>9, QuietSteps DEF Working
  <1> QED
    BY <1>2, <1>3, <1>9 DEF Next

-----------------------------------------------------------------------------
(* The waiter *)

\* One worker at a time is inside the lock, as long as no two threads met inside
\* its code (task_account_user.py:71).
LockExcludes ==
  ~torn => \A v, w \in Requests : pc[v] \in Inside /\ pc[w] \in Inside => v = w

\* A waiter that fell asleep stays so, and shuts the lock: it is in the list of
\* those that wait, and the lock belongs to its loop, so that every worker that
\* asks from then on gets a RuntimeError, also when the lock is open
\* (task_account_user.py:71).
SleeperShutsLock ==
  [][\A s \in Requests : pc[s] = "asleep" =>
       /\ pc'[s] = "asleep"
       /\ \A w \in Requests : pc[w] = "ask" => pc'[w] \in {"ask", "over"}]_vars

\* Only the worker whose loop the lock belongs to waits, torn or not.
WaiterInv ==
  \A w \in Requests : /\ pc[w] \in {"join", "wait", "asleep"} => loop = w
                      /\ pc[w] \in {"wait", "asleep"} => waiter = w

\* A lock that belongs to a loop keeps it, and its list of waiters is changed
\* by the worker of that loop only.
LEMMA WaiterStep == TypeOK /\ WaiterInv /\ [Next]_vars => WaiterInv'
  <1> SUFFICES ASSUME TypeOK, WaiterInv, [Next]_vars PROVE WaiterInv'
    OBVIOUS
  <1>0. pc \in [Requests -> Outside \cup LockOps \cup Inside]
    BY DEF TypeOK
  <1>1. ASSUME UNCHANGED <<loop, waiter>>, NEW w \in Requests, NEW l,
               pc' = [pc EXCEPT ![w] = l],
               l \in {"wait", "asleep"} => pc[w] = "wait",
               l # "join"
        PROVE  WaiterInv'
    BY <1>0, <1>1 DEF WaiterInv
  <1>2. CASE Expire \/ UNCHANGED vars \/ \E r \in Requests : Arrive(r) \/ Making(r)
    <2>1. UNCHANGED <<pc, loop, waiter>>
      BY <1>2 DEF Expire, Arrive, vars, lockVars, Making, Look, Add, Equip, Activate, Fetch, Store
    <2> QED BY <2>1 DEF WaiterInv
  <1>3. ASSUME NEW w \in Requests,
               \/ Acquire(w) \/ Pass(w) \/ Enter(w) \/ Refused(w) \/ Sleep(w) \/ Hired(w)
               \/ NotHired(w) \/ Check(w) \/ Take(w) \/ Outrun(w) \/ Hang(w)
        PROVE  WaiterInv'
    BY <1>1, <1>3 DEF Acquire, Pass, Enter, Refused, Sleep, Hired, NotHired, Check, Take, Outrun,
                      Hang, Goto, lockVars
  <1>4. ASSUME NEW w \in Requests, Wake(w) PROVE WaiterInv'
    <2>1. after[w] \in {"check", "over"}
      BY DEF TypeOK
    <2> QED BY <1>1, <1>4, <2>1 DEF Wake, Goto
  <1>5. ASSUME NEW w \in Requests, Open(w) \/ Send(w) \/ Authenticated(w) \/ Again(w) \/ Answered(w)
        PROVE  WaiterInv'
    <2>1. /\ UNCHANGED <<loop, waiter>>
          /\ \E l \in Session : pc' = [pc EXCEPT ![w] = l]
      BY <1>5 DEF Open, Send, Authenticated, Again, Answered, Goto, lockVars, Session
    <2> QED BY <1>1, <2>1 DEF Session
  <1>6. ASSUME NEW w \in Requests,
               SendFails(w) \/ Quit(w) \/ Broken(w) \/ Merge(w) \/ MergeFails(w)
        PROVE  WaiterInv'
    <2>1. UNCHANGED <<loop, waiter>> /\ pc' = [pc EXCEPT ![w] = "close"]
      BY <1>6 DEF SendFails, Quit, Broken, Merge, MergeFails, Leave, Finish, Goto, lockVars
    <2> QED BY <1>1, <2>1
  <1>7. ASSUME NEW w \in Requests, Missing(w) \/ OpenFails(w) \/ Close(w)
        PROVE  WaiterInv'
    <2>1. PICK l \in {"check", "over"} : Release(w, l)
      BY <1>7 DEF Missing, OpenFails, Close, TypeOK
    <2>2. /\ UNCHANGED <<loop, waiter>>
          /\ \E t \in {"wake", "over"} : pc' = [pc EXCEPT ![w] = t]
      BY <2>1 DEF Release, Goto
    <2> QED BY <1>1, <2>2
  <1>8. ASSUME NEW w \in Requests, Contend(w) PROVE WaiterInv'
    BY <1>0, <1>8, AccountAssumption DEF Contend, Goto, WaiterInv
  <1>9. ASSUME NEW w \in Requests, Join(w) PROVE WaiterInv'
    BY <1>0, <1>9 DEF Join, Goto, WaiterInv
  <1>10. ASSUME NEW w \in Requests, Resume(w) PROVE WaiterInv'
    BY <1>0, <1>10 DEF Resume, Goto, WaiterInv
  <1> QED BY <1>2, <1>3, <1>4, <1>5, <1>6, <1>7, <1>8, <1>9, <1>10
          DEF Next, Locking, Working

\* Nobody but the waiter itself gets past the lock it waits for.
LEMMA Shut ==
  ASSUME TypeOK, WaiterInv, [Next]_vars, NEW s \in Requests, pc[s] = "asleep"
  PROVE  /\ pc'[s] = "asleep"
         /\ \A w \in Requests : pc[w] = "ask" => pc'[w] \in {"ask", "over"}
  <1> DEFINE Goal == /\ pc'[s] = "asleep"
                     /\ \A w \in Requests : pc[w] = "ask" => pc'[w] \in {"ask", "over"}
  <1> SUFFICES Goal
    OBVIOUS
  <1>0. /\ \A w \in Requests : pc[w] \in Outside \cup LockOps \cup Inside
        /\ DOMAIN pc = Requests
        /\ waiter = s /\ loop = s
        /\ s # Nobody
    BY AccountAssumption DEF TypeOK, WaiterInv
  <1>1. ASSUME NEW w \in Requests, pc[w] \notin {"ask", "asleep"},
               NEW l, pc' = [pc EXCEPT ![w] = l]
        PROVE  Goal
    BY <1>0, <1>1
  <1>2. CASE UNCHANGED pc
    BY <1>2
  <1>3. CASE Expire \/ UNCHANGED vars \/ \E r \in Requests : Arrive(r) \/ Making(r)
    <2>1. UNCHANGED pc
      BY <1>3 DEF Expire, Arrive, vars, Making, Look, Add, Equip, Activate, Fetch, Store
    <2> QED BY <1>2, <2>1
  <1>4. ASSUME NEW w \in Requests,
               \/ Hired(w) \/ NotHired(w) \/ Check(w) \/ Take(w) \/ Outrun(w) \/ Hang(w)
        PROVE  Goal
    <2>1. /\ pc[w] \in {"off", "check", "take", "get"}
          /\ \E l \in {"check", "over", "starved", "take", "ask", "get", "hung"} :
               pc' = [pc EXCEPT ![w] = l]
      BY <1>4 DEF Hired, NotHired, Check, Take, Outrun, Hang, Goto
    <2> QED BY <1>1, <2>1
  <1>5. ASSUME NEW w \in Requests, Acquire(w) \/ Pass(w) \/ Contend(w) PROVE FALSE
    BY <1>0, <1>5 DEF Acquire, Pass, Contend, WaiterInv
  <1>6. ASSUME NEW w \in Requests, Refused(w) PROVE Goal
    BY <1>0, <1>6 DEF Refused, Goto
  <1>7. ASSUME NEW w \in Requests, Enter(w) \/ Join(w) \/ Sleep(w) \/ Resume(w) \/ Wake(w)
        PROVE  Goal
    <2>1. /\ pc[w] \in {"enter", "join", "wait", "wake"}
          /\ \E l \in {"inside", "wait", "asleep", "enter", after[w]} :
               pc' = [pc EXCEPT ![w] = l]
      BY <1>7 DEF Enter, Join, Sleep, Resume, Wake, Goto
    <2> QED BY <1>1, <2>1
  <1>8. ASSUME NEW w \in Requests, Open(w) \/ Send(w) \/ Authenticated(w) \/ Again(w) \/ Answered(w)
        PROVE  Goal
    <2>1. /\ pc[w] \in {"inside", "session", "auth", "query"}
          /\ \E l \in Session : pc' = [pc EXCEPT ![w] = l]
      BY <1>8 DEF Open, Send, Authenticated, Again, Answered, Goto, Session
    <2> QED BY <1>1, <2>1
  <1>9. ASSUME NEW w \in Requests,
               SendFails(w) \/ Quit(w) \/ Broken(w) \/ Merge(w) \/ MergeFails(w)
        PROVE  Goal
    <2>1. pc[w] \in {"session", "auth", "query", "merge"} /\ pc' = [pc EXCEPT ![w] = "close"]
      BY <1>9 DEF SendFails, Quit, Broken, Merge, MergeFails, Leave, Finish, Goto
    <2> QED BY <1>1, <2>1
  <1>10. ASSUME NEW w \in Requests, Missing(w) \/ OpenFails(w) \/ Close(w)
         PROVE  Goal
    <2>1. /\ pc[w] \in {"inside", "close"}
          /\ \E l : Release(w, l)
      BY <1>10 DEF Missing, OpenFails, Close
    <2>2. \E t \in {"wake", "over"} : pc' = [pc EXCEPT ![w] = t]
      BY <2>1 DEF Release, Goto
    <2> QED BY <1>1, <2>1, <2>2
  <1> QED BY <1>3, <1>4, <1>5, <1>6, <1>7, <1>8, <1>9, <1>10 DEF Next, Locking, Working

-----------------------------------------------------------------------------
(* The theorems *)

\* Nobody works at the start.
LEMMA InvInit == Init => IInv
  <1>1. Init => LockInv /\ TokenInv /\ SessionInv
    BY DEF Init, LockInv, TokenInv, SessionInv, LockOps, Inside, Session
  <1> QED BY <1>1, TypeInit DEF IInv

\* Every step keeps the invariant or tears the lock.
LEMMA InvStep == IInv /\ [Next]_vars => IInv'
  <1> SUFFICES ASSUME IInv, [Next]_vars
               PROVE  IInv'
    OBVIOUS
  <1>1. TypeOK /\ TypeOK' /\ LockStep
    BY TypeStep, LockSteps DEF IInv
  <1>2. CASE torn'
    BY <1>1, <1>2 DEF IInv
  <1>3. CASE ~torn'
    <2>1. ~torn
      BY <1>1, <1>3, TornStays
    <2>2. LockInv /\ TokenInv /\ SessionInv
      BY <2>1 DEF IInv
    <2>3. LockInv' /\ TokenInv' /\ SessionInv'
      BY <1>1, <1>3, <2>2, LockKept, SessionKept
    <2> QED BY <1>1, <2>3 DEF IInv
  <1> QED BY <1>2, <1>3

\* One worker at a time has the lock, and what it works on is its own, as long
\* as no two threads meet inside the lock (task_account, task_account_user.py:71).
THEOREM InvariantHolds == Spec => []IInv
  BY InvInit, InvStep, PTL DEF Spec

\* Every variable keeps its type; a session always has the object of its person.
THEOREM AccountTypes == Spec => []TypeOK
  <1>1. IInv => TypeOK
    BY DEF IInv
  <1> QED BY <1>1, InvariantHolds, PTL

\* A query carries a token of its own connection, unless two threads met inside
\* the lock: the session drops the token before the lock is given back
\* (task_account_user.py:227-229).
THEOREM TokensStay == Spec => []TokenOfOwnConnection
  <1>1. IInv => TokenOfOwnConnection
    BY DEF IInv, SessionInv, TokenOfOwnConnection
  <1> QED BY <1>1, InvariantHolds, PTL

\* "deribit:person" forgets nobody but by expiry, unless two threads met inside
\* the lock: it is read and written under it (task_account_user.py:183-213).
THEOREM NobodyIsForgotten == Spec => NobodyForgotten
  <1> DEFINE Kept == torn' \/ cached \subseteq cached' \/ cached' = {}
  <1>1. IInv /\ [Next]_vars => [Kept]_vars
    <2> SUFFICES ASSUME IInv, [Next]_vars
                 PROVE  Kept \/ UNCHANGED vars
      OBVIOUS
    <2>1. TypeOK /\ LockStep
      BY LockSteps DEF IInv
    <2>2. CASE torn
      BY <2>1, <2>2, TornStays
    <2>3. CASE ~torn
      <3>1. ASSUME NEW w \in Requests, Merge(w)
            PROVE  cached \subseteq cached'
        BY <2>3, <3>1 DEF IInv, SessionInv, Merge
      <3>2. ASSUME NEW w \in Requests, Arrive(w) \/ Making(w) \/ Locking(w)
            PROVE  UNCHANGED cached
        BY <2>1, <3>2, QuietSteps DEF Quiet
      <3>3. ASSUME NEW w \in Requests, Working(w), ~Merge(w)
            PROVE  UNCHANGED cached
        BY <3>3 DEF Working, Hired, NotHired, Check, Take, Outrun, Hang, Missing, Open, OpenFails,
                    Send, SendFails, Quit, Authenticated, Again, Broken, Answered, MergeFails,
                    Close, workVars
      <3>4. CASE Expire
        BY <3>4 DEF Expire
      <3> QED BY <3>1, <3>2, <3>3, <3>4 DEF Next
    <2> QED BY <2>2, <2>3
  <1> QED BY <1>1, InvariantHolds, PTL DEF Spec, NobodyForgotten

\* The lock excludes, unless two threads met inside its code: a waiter that was
\* woken finds it open, since nobody passes a lock somebody waits for
\* (task_account_user.py:71).
THEOREM OneIsInside == Spec => []LockExcludes
  <1>1. IInv => LockExcludes
    BY DEF IInv, LockInv, LockExcludes
  <1> QED BY <1>1, InvariantHolds, PTL

\* Once a waiter fell asleep no worker that asks for the lock ever gets it,
\* whether or not threads met inside it: only the worker of the lock's loop can
\* wait, and it stays in the list (task_account_user.py:71).
THEOREM ASleeperShutsTheLock == Spec => SleeperShutsLock
  <1> DEFINE Out == \A s \in Requests : pc[s] = "asleep" =>
                      /\ pc'[s] = "asleep"
                      /\ \A w \in Requests : pc[w] = "ask" => pc'[w] \in {"ask", "over"}
  <1>1. Init => WaiterInv
    BY DEF Init, WaiterInv
  <1>2. Spec => []WaiterInv
    BY <1>1, WaiterStep, AccountTypes, PTL DEF Spec
  <1>3. TypeOK /\ WaiterInv /\ [Next]_vars => Out
    BY Shut
  <1> QED BY <1>2, <1>3, AccountTypes, PTL DEF Spec, SleeperShutsLock
=============================================================================
