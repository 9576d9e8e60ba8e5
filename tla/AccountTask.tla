----------------------------- MODULE AccountTask -----------------------------
(***************************************************************************)
(* The workers of task_account() (tasks/queues/task_account_user.py) from  *)
(* the key of a request on, and create_person_manual() of                  *)
(* project/functions.py, which makes the persons they work for.            *)
(*                                                                         *)
(* Every request to /sse starts a thread that makes its person and a       *)
(* thread with an event loop of its own that runs task_account(); all of   *)
(* them share one asyncio.Lock, which is made for the tasks of one loop.   *)
(* Its operations are therefore cut where another thread may come in:      *)
(*  - a lock that nobody ever waited for is tested and taken at once, later *)
(*    there is a call between the test and the assignment;                 *)
(*  - the lock belongs to the loop of the first task that waits, another   *)
(*    one that has to wait gets a RuntimeError;                            *)
(*  - release() opens the lock and then completes the future of the waiter, *)
(*    but does not wake its loop: a waiter whose loop already sleeps goes  *)
(*    on sleeping.                                                         *)
(* The holder authenticates its person on a websocket of its own and merges *)
(* the answer in the record "deribit:person" of Redis.                     *)
(*                                                                         *)
(* A person object is named by the request that made it.  A connection is  *)
(* opened for a key, once: it is named by the request of the key, and a     *)
(* token by the connection it was given on.  Keys are taken in any order.   *)
(* manager.queue belongs, like the lock, to the loop of the first task that *)
(* waits for a key.  The event loops are not in debug mode.                 *)
(***************************************************************************)
EXTENDS Integers, FiniteSets

CONSTANTS
  Requests,          \* also the names of their workers and person objects
  Persons,
  UserOf,            \* the person of a request (the header X-User-id)
  Good,              \* the persons whose credentials Deribit accepts
  Crew,              \* bound: the requests whose worker gets to run
  Nobody

ASSUME AccountAssumption ==
  /\ UserOf \in [Requests -> Persons]
  /\ Good \subseteq Persons
  /\ Crew \subseteq Requests
  /\ Nobody \notin Requests

VARIABLES
  making,        \* where create_person_manual() of a request is
  fetched,       \* the object it fetched and will store again
  book,          \* person_dict: the object of a person, Nobody if there is none
  equipped,      \* the objects that have their secret
  active,        \* the objects that are active
  token,         \* access_token of an object, Nobody if it has none
  keys,          \* the keys in manager.queue
  getter,        \* _loop of manager.queue: the worker whose event loop it belongs to
  pc,            \* where the worker of a request is
  job,           \* the request whose key it took, also its connection
  object,        \* the person object it works with
  sent,          \* the token of what it sent last, Nobody for an authentication
  after,         \* what it does after the session
  seen,          \* the persons in the record it read
  cached,        \* the persons in "deribit:person"
  locked,        \* _locked of the lock
  loop,          \* _loop: the worker whose event loop the lock belongs to
  waiter,        \* _waiters: the worker that waits, Nobody if there is none
  woken,         \* is the future of the waiter completed?
  torn           \* history: were two threads inside the lock's code at once?

personVars == <<making, fetched, book, equipped, active, token>>
workVars   == <<keys, getter, job, object, sent, after, seen, cached>>
lockVars   == <<locked, loop, waiter, woken, torn>>
vars       == <<personVars, workVars, lockVars, pc>>

Session == {"session", "auth", "query", "merge"}
Inside  == Session \cup {"inside", "close"}
LockOps == {"enter", "join", "wake"}
Outside == {"off", "starved", "check", "take", "get", "hung", "ask", "wait", "asleep", "over"}
Busy    == Session \cup {"ask", "enter", "join", "wait", "asleep", "inside"}

Init ==
  /\ making = [r \in Requests |-> "new"]
  /\ fetched = [r \in Requests |-> Nobody]
  /\ book = [p \in Persons |-> Nobody]
  /\ equipped = {}
  /\ active = {}
  /\ token = [r \in Requests |-> Nobody]
  /\ keys = {}
  /\ getter = Nobody
  /\ pc = [w \in Requests |-> "off"]
  /\ job = [w \in Requests |-> Nobody]
  /\ object = [w \in Requests |-> Nobody]
  /\ sent = [w \in Requests |-> Nobody]
  /\ after = [w \in Requests |-> "over"]
  /\ seen = [w \in Requests |-> {}]
  /\ cached = {}
  /\ locked = FALSE
  /\ loop = Nobody
  /\ waiter = Nobody
  /\ woken = FALSE
  /\ torn = FALSE

Goto(w, l) == pc' = [pc EXCEPT ![w] = l]

-----------------------------------------------------------------------------
(* A request arrives and its person is made. *)

\* The handler starts the two threads of the request.  How its key gets into
\* the queue is the subject of RequestQueue; here it is there at once.
Arrive(r) ==
  /\ making[r] = "new"
  /\ making' = [making EXCEPT ![r] = "look"]
  /\ keys' = keys \cup {r}
  /\ UNCHANGED <<fetched, book, equipped, active, token, getter, job, object, sent,
                 after, seen, cached, lockVars, pc>>

\* Is the person known?
Look(r) ==
  /\ making[r] = "look"
  /\ making' = [making EXCEPT ![r] = IF book[UserOf[r]] = Nobody THEN "add" ELSE "known"]
  /\ UNCHANGED <<fetched, book, equipped, active, token, workVars, lockVars, pc>>

\* A new object, still without a secret, replaces what is in the dictionary.
Add(r) ==
  /\ making[r] = "add"
  /\ making' = [making EXCEPT ![r] = "equip"]
  /\ book' = [book EXCEPT ![UserOf[r]] = r]
  /\ active' = active \cup {r}
  /\ UNCHANGED <<fetched, equipped, token, workVars, lockVars, pc>>

\* The object in the dictionary by now is fetched and activated.  It changes
\* with the fetch: no thread can tell a later change of it from this one.
Fetch(r) ==
  /\ fetched' = [fetched EXCEPT ![r] = book[UserOf[r]]]
  /\ making' = [making EXCEPT ![r] = "store"]
  /\ active' = active \cup {book[UserOf[r]]}
  /\ UNCHANGED <<book, token, workVars, lockVars, pc>>

\* After add() it is given the secret of the request, too.
Equip(r) ==
  /\ making[r] = "equip"
  /\ Fetch(r)
  /\ equipped' = equipped \cup {book[UserOf[r]]}

Activate(r) ==
  /\ making[r] = "known"
  /\ Fetch(r)
  /\ UNCHANGED equipped

\* It is stored again, and may replace one that another request added since.
Store(r) ==
  /\ making[r] = "store"
  /\ making' = [making EXCEPT ![r] = "done"]
  /\ book' = [book EXCEPT ![UserOf[r]] = fetched[r]]
  /\ fetched' = [fetched EXCEPT ![r] = Nobody]
  /\ UNCHANGED <<equipped, active, token, workVars, lockVars, pc>>

-----------------------------------------------------------------------------
(* The lock *)

\* Another thread is inside the code of the lock.
Mixed(w) == torn \/ \E v \in Requests \ {w} : pc[v] \in LockOps

\* Mutant: the lock is not marked as taken.
AcquireForgets(w) ==
  /\ pc[w] = "ask"
  /\ ~locked
  /\ loop = Nobody
  /\ torn' = Mixed(w)
  /\ Goto(w, "inside")
  /\ UNCHANGED <<personVars, workVars, locked, loop, waiter, woken>>

\* A lock nobody ever waited for.
Acquire(w) ==
  /\ pc[w] = "ask"
  /\ ~locked
  /\ loop = Nobody
  /\ locked' = TRUE
  /\ torn' = Mixed(w)
  /\ Goto(w, "inside")
  /\ UNCHANGED <<personVars, workVars, loop, waiter, woken>>

\* The lock is open and nobody waits: tested, but not yet taken.
Pass(w) ==
  /\ pc[w] = "ask"
  /\ ~locked
  /\ loop # Nobody
  /\ waiter = Nobody
  /\ torn' = Mixed(w)
  /\ Goto(w, "enter")
  /\ UNCHANGED <<personVars, workVars, locked, loop, waiter, woken>>

Enter(w) ==
  /\ pc[w] = "enter"
  /\ locked' = TRUE
  /\ Goto(w, "inside")
  /\ UNCHANGED <<personVars, workVars, loop, waiter, woken, torn>>

\* w has to wait.
Contend(w) ==
  /\ pc[w] = "ask"
  /\ locked \/ waiter # Nobody
  /\ loop \in {Nobody, w}
  /\ loop' = w
  /\ torn' = Mixed(w)
  /\ Goto(w, "join")
  /\ UNCHANGED <<personVars, workVars, locked, waiter, woken>>

\* w would have to wait, but the lock belongs to another loop: RuntimeError.
Refused(w) ==
  /\ pc[w] = "ask"
  /\ locked \/ waiter # Nobody
  /\ loop \notin {Nobody, w}
  /\ job' = [job EXCEPT ![w] = Nobody]
  /\ Goto(w, "over")
  /\ UNCHANGED <<personVars, keys, getter, object, sent, after, seen, cached, lockVars>>

Join(w) ==
  /\ pc[w] = "join"
  /\ waiter' = w
  /\ woken' = FALSE
  /\ Goto(w, "wait")
  /\ UNCHANGED <<personVars, workVars, locked, loop, torn>>

\* The event loop of w has nothing to do; no other thread wakes it up again.
Sleep(w) ==
  /\ pc[w] = "wait"
  /\ Goto(w, "asleep")
  /\ UNCHANGED <<personVars, workVars, lockVars>>

\* The future was completed before the loop fell asleep.
Resume(w) ==
  /\ pc[w] = "wait"
  /\ woken
  /\ waiter' = Nobody
  /\ woken' = FALSE
  /\ torn' = Mixed(w)
  /\ Goto(w, "enter")
  /\ UNCHANGED <<personVars, workVars, locked, loop>>

\* First half of release() by w, which then goes on at l.
\* release() of an open lock is a RuntimeError.
Release(w, l) ==
  /\ IF locked
     THEN /\ Goto(w, "wake")
          /\ after' = [after EXCEPT ![w] = l]
          /\ torn' = Mixed(w)
     ELSE /\ Goto(w, "over")
          /\ after' = [after EXCEPT ![w] = "over"]
          /\ UNCHANGED torn
  /\ locked' = FALSE
  /\ UNCHANGED <<loop, waiter, woken>>

\* The second half completes the future of the waiter.
Wake(w) ==
  /\ pc[w] = "wake"
  /\ woken' = (waiter # Nobody)
  /\ Goto(w, after[w])
  /\ after' = [after EXCEPT ![w] = "over"]
  /\ UNCHANGED <<personVars, keys, getter, job, object, sent, seen, cached, locked,
                 loop, waiter, torn>>

-----------------------------------------------------------------------------
(* The worker *)

\* deque_coroutines.get() returned a factory of clients ...
Hired(w) ==
  /\ w \in Crew
  /\ pc[w] = "off"
  /\ making[w] # "new"
  /\ Goto(w, "check")
  /\ UNCHANGED <<personVars, workVars, lockVars>>

\* ... or has to wait: on the loop of this thread, which nobody wakes up, or with
\* a RuntimeError when another worker was there first.  Which of them can happen
\* is the subject of WorkerPool.
NotHired(w) ==
  /\ w \in Crew
  /\ pc[w] = "off"
  /\ making[w] # "new"
  /\ \/ Goto(w, "over")
     \/ (\A v \in Requests : pc[v] # "starved") /\ Goto(w, "starved")
  /\ UNCHANGED <<personVars, workVars, lockVars>>

\* Mutant: the loop goes on without a key.
CheckNever(w) ==
  /\ pc[w] = "check"
  /\ keys # {}
  /\ Goto(w, "take")
  /\ UNCHANGED <<personVars, workVars, lockVars>>

\* Is there a key?
Check(w) ==
  /\ pc[w] = "check"
  /\ Goto(w, IF keys = {} THEN "over" ELSE "take")
  /\ UNCHANGED <<personVars, workVars, lockVars>>

\* get() returned a key; Redis is asked for the record, and may fail.
Take(w) ==
  /\ pc[w] \in {"take", "get"}
  /\ \E r \in keys :
       /\ keys' = keys \ {r}
       /\ \/ job' = [job EXCEPT ![w] = r] /\ Goto(w, "ask")
          \/ UNCHANGED job /\ Goto(w, "over")
  /\ UNCHANGED <<personVars, getter, object, sent, after, seen, cached, lockVars>>

\* Another worker took the last key since the check: get() waits, or gets a
\* RuntimeError if the queue belongs to another loop.
Outrun(w) ==
  /\ pc[w] = "take"
  /\ keys = {}
  /\ \/ /\ getter \in {Nobody, w}
        /\ getter' = w
        /\ Goto(w, "get")
     \/ /\ getter \notin {Nobody, w}
        /\ UNCHANGED getter
        /\ Goto(w, "over")
  /\ UNCHANGED <<personVars, keys, job, object, sent, after, seen, cached, lockVars>>

\* Its event loop has nothing to do; no other thread wakes it up again.
Hang(w) ==
  /\ pc[w] = "get"
  /\ keys = {}
  /\ Goto(w, "hung")
  /\ UNCHANGED <<personVars, workVars, lockVars>>

Known(w) == book[UserOf[job[w]]]

\* The record is gone, or the person was not made yet: the request is given up.
Missing(w) ==
  /\ pc[w] = "inside"
  /\ job' = [job EXCEPT ![w] = Nobody]
  /\ Release(w, "over")
  /\ UNCHANGED <<personVars, keys, getter, object, sent, seen, cached>>

\* Mutant: the person is not looked for first.
OpenUnchecked(w) ==
  /\ pc[w] = "inside"
  /\ object' = [object EXCEPT ![w] = Known(w)]
  /\ Goto(w, "session")
  /\ UNCHANGED <<personVars, keys, getter, job, sent, after, seen, cached, lockVars>>

\* A connection to Deribit for the person of the request.
Open(w) ==
  /\ pc[w] = "inside"
  /\ Known(w) # Nobody
  /\ object' = [object EXCEPT ![w] = Known(w)]
  /\ Goto(w, "session")
  /\ UNCHANGED <<personVars, keys, getter, job, sent, after, seen, cached, lockVars>>

\* Deribit cannot be reached: the next key.
OpenFails(w) ==
  /\ pc[w] = "inside"
  /\ Known(w) # Nobody
  /\ active' = active \ {Known(w)}
  /\ job' = [job EXCEPT ![w] = Nobody]
  /\ Release(w, "check")
  /\ UNCHANGED <<making, fetched, book, equipped, token, keys, getter, object, sent,
                 seen, cached>>

SetToken(w, t) == token' = [token EXCEPT ![object[w]] = t]

\* The worker goes on at l once the connection is closed; its locals are gone.
Finish(w, l) ==
  /\ Goto(w, "close")
  /\ after' = [after EXCEPT ![w] = l]
  /\ job' = [job EXCEPT ![w] = Nobody]
  /\ object' = [object EXCEPT ![w] = Nobody]
  /\ sent' = [sent EXCEPT ![w] = Nobody]
  /\ seen' = [seen EXCEPT ![w] = {}]
  /\ UNCHANGED <<making, fetched, book, equipped, keys, getter, lockVars>>

\* Mutant: the token is kept for the next session of the person.
LeaveWithToken(w, l) == Finish(w, l) /\ UNCHANGED token

\* The session ends: the tokens are dropped.
Leave(w, l) == Finish(w, l) /\ SetToken(w, Nobody)

\* The next request to Deribit: authentication, or the query with the token.
Send(w) ==
  LET o == object[w]
  IN  /\ pc[w] = "session"
      /\ o \in active
      /\ o \in equipped
      /\ sent' = [sent EXCEPT ![w] = token[o]]
      /\ Goto(w, IF token[o] = Nobody THEN "auth" ELSE "query")
      /\ UNCHANGED <<personVars, keys, getter, job, object, after, seen, cached, lockVars>>

\* Without a secret there is no authentication.
SendFails(w) ==
  /\ pc[w] = "session"
  /\ object[w] \in active
  /\ object[w] \notin equipped
  /\ active' = active \ {object[w]}
  /\ Leave(w, "over")
  /\ UNCHANGED cached

\* The person is no longer active: the next key.
Quit(w) ==
  /\ pc[w] = "session"
  /\ object[w] \notin active
  /\ Leave(w, "check")
  /\ UNCHANGED <<active, cached>>

\* Deribit gives a token of this connection to a person that has none.
Authenticated(w) ==
  /\ pc[w] = "auth"
  /\ UserOf[job[w]] \in Good
  /\ token[object[w]] = Nobody
  /\ SetToken(w, job[w])
  /\ Goto(w, "session")
  /\ UNCHANGED <<making, fetched, book, equipped, active, workVars, lockVars>>

\* An error message: the token is dropped and the loop starts again.
Again(w) ==
  /\ pc[w] \in {"auth", "query"}
  /\ SetToken(w, Nobody)
  /\ Goto(w, "session")
  /\ UNCHANGED <<making, fetched, book, equipped, active, workVars, lockVars>>

\* The request cannot be sent in time, no answer is received, or the answer is
\* not the one expected after another session changed the token of the person.
Broken(w) ==
  /\ pc[w] \in {"auth", "query"}
  /\ Leave(w, "over")
  /\ UNCHANGED <<active, cached>>

\* The data of the person; the record "deribit:person" is read.
Answered(w) ==
  /\ pc[w] = "query"
  /\ sent[w] = job[w]
  /\ token[object[w]] # Nobody
  /\ SetToken(w, Nobody)
  /\ seen' = [seen EXCEPT ![w] = cached]
  /\ Goto(w, "merge")
  /\ UNCHANGED <<making, fetched, book, equipped, active, keys, getter, job, object,
                 sent, after, cached, lockVars>>

\* The record is written with this person.
Merge(w) ==
  LET p == UserOf[job[w]]
  IN  /\ pc[w] = "merge"
      /\ seen[w] = {} \/ p \in seen[w]
      /\ cached' = seen[w] \cup {p}
      /\ Leave(w, "over")
      /\ UNCHANGED active

\* Redis fails; or the record is one of other persons: the list of the places
\* of this person is empty, and the IndexError of [0] is swallowed.
MergeFails(w) ==
  /\ pc[w] = "merge"
  /\ Leave(w, "over")
  /\ UNCHANGED <<active, cached>>

\* The connection is closed and the lock given back.
Close(w) ==
  /\ pc[w] = "close"
  /\ Release(w, after[w])
  /\ UNCHANGED <<personVars, keys, getter, job, object, sent, seen, cached>>

\* "deribit:person" lives for 27 hours.
Expire ==
  /\ cached # {}
  /\ cached' = {}
  /\ UNCHANGED <<personVars, keys, getter, job, object, sent, after, seen, lockVars, pc>>

-----------------------------------------------------------------------------

Making(r) == Look(r) \/ Add(r) \/ Equip(r) \/ Activate(r) \/ Store(r)

Locking(w) ==
  \/ Acquire(w) \/ Pass(w) \/ Enter(w) \/ Contend(w) \/ Refused(w) \/ Join(w)
  \/ Sleep(w) \/ Resume(w) \/ Wake(w)

Working(w) ==
  \/ Hired(w) \/ NotHired(w) \/ Check(w) \/ Take(w) \/ Outrun(w) \/ Hang(w)
  \/ Missing(w) \/ Open(w) \/ OpenFails(w) \/ Send(w) \/ SendFails(w) \/ Quit(w)
  \/ Authenticated(w) \/ Again(w) \/ Broken(w) \/ Answered(w) \/ Merge(w)
  \/ MergeFails(w) \/ Close(w)

Next ==
  \/ Expire
  \/ \E r \in Requests : Arrive(r) \/ Making(r) \/ Locking(r) \/ Working(r)

Spec == Init /\ [][Next]_vars

\* The threads run; Deribit may answer with an error again and again, but not
\* for ever to right credentials.
Fairness == \A w \in Requests : /\ WF_vars(Locking(w))
                                /\ WF_vars(Working(w))
                                /\ SF_vars(Authenticated(w))
                                /\ SF_vars(Answered(w))

FairSpec == Spec /\ Fairness

-----------------------------------------------------------------------------
(* Properties *)

\* Types; a worker runs for requests that arrived; who fetches a person finds
\* it in the dictionary, who stores one has it; who has taken a key knows its
\* request, and in a session the object of the person.
TypeOK ==
  /\ making \in [Requests -> {"new", "look", "add", "equip", "known", "store", "done"}]
  /\ fetched \in [Requests -> Requests \cup {Nobody}]
  /\ book \in [Persons -> Requests \cup {Nobody}]
  /\ equipped \subseteq Requests
  /\ active \subseteq Requests
  /\ token \in [Requests -> Requests \cup {Nobody}]
  /\ keys \subseteq Requests
  /\ getter \in Requests \cup {Nobody}
  /\ pc \in [Requests -> Outside \cup LockOps \cup Inside]
  /\ job \in [Requests -> Requests \cup {Nobody}]
  /\ object \in [Requests -> Requests \cup {Nobody}]
  /\ sent \in [Requests -> Requests \cup {Nobody}]
  /\ after \in [Requests -> {"check", "over"}]
  /\ seen \in [Requests -> SUBSET Persons]
  /\ cached \subseteq Persons
  /\ locked \in BOOLEAN
  /\ loop \in Requests \cup {Nobody}
  /\ waiter \in Requests \cup {Nobody}
  /\ woken \in BOOLEAN
  /\ torn \in BOOLEAN
  /\ \A r \in Requests : /\ making[r] = "new" => pc[r] = "off"
                         /\ making[r] \in {"equip", "known"} => book[UserOf[r]] # Nobody
                         /\ making[r] = "store" => fetched[r] # Nobody
  /\ \A w \in Requests : /\ pc[w] \in Busy => job[w] # Nobody
                         /\ pc[w] \in Session => object[w] # Nobody

\* As long as no two threads are inside the code of the lock at once, a query
\* carries a token of the connection it is sent on (the docstring of ws_send,
\* deribit_websocket.py:116: the access token is for one connection), although
\* the token is kept in the person, which all the requests of a user share.
TokenOfOwnConnection ==
  ~torn => \A w \in Requests : pc[w] = "query" => sent[w] = job[w]

\* Under the same condition the record "deribit:person", which is read in one
\* step and written in another, forgets nobody but by expiry
\* (task_account_user.py:183-213).
NobodyForgotten == [][torn' \/ cached \subseteq cached' \/ cached' = {}]_vars

Bad(w) == job[w] # Nobody /\ UserOf[job[w]] \notin Good

\* The thread of a request (functions.py:141-148) comes to an end, but for five
\* reasons: it waits for a factory of clients (task_account_user.py:37), for a key
\* that another worker took (61) or for the lock (71) on a loop that nobody wakes;
\* it works for a person whose credentials Deribit refuses; or two threads met
\* inside the lock.
WorkersEnd ==
  \A w \in Crew :
    making[w] # "new"
      ~> pc[w] \in {"over", "starved", "hung", "asleep"} \/ Bad(w) \/ torn
=============================================================================
