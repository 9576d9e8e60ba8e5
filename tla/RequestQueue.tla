---------------------------- MODULE RequestQueue ----------------------------
(***************************************************************************)
(* How a request to /sse reaches a worker.  enqueue() of DeribitManage     *)
(* (deribit_client/deribit_clients.py) appends the request to the deque    *)
(* _deque_postman, stores in Redis the records of ALL requests of the      *)
(* deque at once, puts their keys in the bounded asyncio queue and clears  *)
(* the deque.  The handler also starts a worker, in a thread of its own:   *)
(* task_account() (tasks/queues/task_account_user.py) takes keys from the  *)
(* queue and reads their records.                                          *)
(*                                                                         *)
(* enqueue() is cut at its awaits: the writes of one gather() travel on    *)
(* connections of their own and are executed in any order.  A worker runs  *)
(* concurrently with everything else; it gives up between two of its       *)
(* operations.  A request stands for its key and its record; "mapped_key"  *)
(* is taken to be different for every request.                             *)
(***************************************************************************)
EXTENDS Integers, SequencesExt

CONSTANTS
  Requests,
  NoRequest,
  QueueSize      \* DERIBIT_QUEUE_SIZE, of the queue of keys

ASSUME QueueAssumption ==
  /\ NoRequest \notin Requests
  /\ QueueSize \in Nat \ {0}

VARIABLES
  postman,       \* _deque_postman
  queue,         \* the keys for the workers
  pc,            \* where the enqueue() of a request is
  writing,       \* the records whose write a request issued and awaits
  left,          \* the keys it has still to put in the queue
  stored,        \* the requests whose record was written to Redis
  worker,        \* where the worker of a request is
  key,           \* the key it took from the queue
  called,        \* history: the requests, in the order of their calls
  taken,         \* history: the keys the workers took, in order
  jammed         \* history: has an enqueue() awaited a full queue?

sendVars == <<postman, pc, writing, left, stored, called, jammed>>
workVars == <<worker, key, taken>>
vars     == <<sendVars, queue, workVars>>

Init ==
  /\ postman = <<>>
  /\ queue = <<>>
  /\ pc = [r \in Requests |-> "new"]
  /\ writing = [r \in Requests |-> {}]
  /\ left = [r \in Requests |-> <<>>]
  /\ stored = {}
  /\ worker = [r \in Requests |-> "off"]
  /\ key = [r \in Requests |-> NoRequest]
  /\ called = <<>>
  /\ taken = <<>>
  /\ jammed = FALSE

-----------------------------------------------------------------------------
(* enqueue() *)

\* The request joins the deque and a write is issued for each of its entries.
Enqueue(r) ==
  /\ pc[r] = "new"
  /\ postman' = Append(postman, r)
  /\ writing' = [writing EXCEPT ![r] = ToSet(postman')]
  /\ pc' = [pc EXCEPT ![r] = "gather"]
  /\ called' = Append(called, r)
  /\ UNCHANGED <<left, stored, jammed, queue, workVars>>

\* Redis executes one of the writes issued by r.
Written(r, k) ==
  /\ k \in writing[r]
  /\ writing' = [writing EXCEPT ![r] = @ \ {k}]
  /\ stored' = stored \cup {k}
  /\ UNCHANGED <<postman, pc, left, called, jammed, queue, workVars>>

\* A write fails: the error is logged and enqueue() returns; the deque keeps
\* its entries for the next caller, the other writes may be executed or not.
GatherFails(r) ==
  /\ pc[r] = "gather"
  /\ \E S \in SUBSET writing[r] : S # {} /\ writing' = [writing EXCEPT ![r] = @ \ S]
  /\ pc' = [pc EXCEPT ![r] = "failed"]
  /\ UNCHANGED <<postman, left, stored, called, jammed, queue, workVars>>

Min2(a, b) == IF a < b THEN a ELSE b

\* Mutant: a full queue is not awaited.
PutAllForgets(r, s) ==
  LET n == Min2(Len(s), QueueSize - Len(queue))
  IN  /\ queue' = queue \o SubSeq(s, 1, n)
      /\ left' = [left EXCEPT ![r] = SubSeq(s, n + 1, Len(s))]
      /\ postman' = <<>>
      /\ pc' = [pc EXCEPT ![r] = "done"]
      /\ UNCHANGED jammed

\* r puts the keys of s up to the size of the queue; if all fit it clears the
\* deque and returns, otherwise it awaits put() of the next one.
PutAll(r, s) ==
  LET n == Min2(Len(s), QueueSize - Len(queue))
  IN  /\ queue' = queue \o SubSeq(s, 1, n)
      /\ left' = [left EXCEPT ![r] = SubSeq(s, n + 1, Len(s))]
      /\ IF n = Len(s)
         THEN /\ postman' = <<>>
              /\ pc' = [pc EXCEPT ![r] = "done"]
              /\ UNCHANGED jammed
         ELSE /\ UNCHANGED postman
              /\ pc' = [pc EXCEPT ![r] = "put"]
              /\ jammed' = TRUE

\* Mutant: the keys are those of the records that r wrote itself.
GatheredOwn(r) ==
  /\ pc[r] = "gather"
  /\ writing[r] = {}
  /\ PutAll(r, <<r>>)
  /\ UNCHANGED <<writing, stored, called, workVars>>

\* Mutant: the writes are issued, but not awaited.
GatheredEarly(r) ==
  /\ pc[r] = "gather"
  /\ PutAll(r, postman)
  /\ UNCHANGED <<writing, stored, called, workVars>>

\* All the writes of r were executed.  The keys are those in the deque by now.
Gathered(r) ==
  /\ pc[r] = "gather"
  /\ writing[r] = {}
  /\ PutAll(r, postman)
  /\ UNCHANGED <<writing, stored, called, workVars>>

\* The queue has room again.
PutMore(r) ==
  /\ pc[r] = "put"
  /\ Len(queue) < QueueSize
  /\ PutAll(r, left[r])
  /\ UNCHANGED <<writing, stored, called, workVars>>

-----------------------------------------------------------------------------
(* task_account(), up to the record of the key *)

\* The signal of the request starts its worker, which leaves if there is no key.
Start(w) ==
  /\ pc[w] # "new"
  /\ worker[w] = "off"
  /\ worker' = [worker EXCEPT ![w] = IF queue = <<>> THEN "over" ELSE "check"]
  /\ UNCHANGED <<sendVars, queue, key, taken>>

\* The condition of the loop.
Check(w) ==
  /\ worker[w] = "check"
  /\ worker' = [worker EXCEPT ![w] = IF queue = <<>> THEN "over" ELSE "take"]
  /\ UNCHANGED <<sendVars, queue, key, taken>>

Take(w) ==
  /\ worker[w] = "take"
  /\ queue # <<>>
  /\ key' = [key EXCEPT ![w] = Head(queue)]
  /\ taken' = Append(taken, Head(queue))
  /\ queue' = Tail(queue)
  /\ worker' = [worker EXCEPT ![w] = "read"]
  /\ UNCHANGED sendVars

\* Another worker was faster: get() waits on the loop of this thread, which
\* nobody wakes up, or gets a RuntimeError, because another one waited before.
Hang(w) ==
  /\ worker[w] = "take"
  /\ queue = <<>>
  /\ \E end \in {"hung", "over"} : worker' = [worker EXCEPT ![w] = end]
  /\ UNCHANGED <<sendVars, queue, key, taken>>

\* The record is read and used.  The worker goes on with the next key only
\* after an error in its session; without the record it fails at once.
Use(w) ==
  /\ worker[w] = "read"
  /\ \E next \in {"over", "check"} :
       /\ key[w] \notin stored => next = "over"
       /\ worker' = [worker EXCEPT ![w] = next]
  /\ key' = [key EXCEPT ![w] = NoRequest]
  /\ UNCHANGED <<sendVars, queue, taken>>

-----------------------------------------------------------------------------

Sender(r) == Enqueue(r) \/ GatherFails(r) \/ Gathered(r) \/ PutMore(r)

Worker(w) == Start(w) \/ Check(w) \/ Take(w) \/ Hang(w) \/ Use(w)

Next ==
  \E r \in Requests :
    \/ Sender(r)
    \/ \E k \in Requests : Written(r, k)
    \/ Worker(r)

Spec == Init /\ [][Next]_vars

-----------------------------------------------------------------------------
(* Properties *)

\* Types; who has keys left to put awaits a full queue, who has a key reads it.
TypeOK ==
  /\ postman \in Seq(Requests)
  /\ queue \in Seq(Requests)
  /\ pc \in [Requests -> {"new", "gather", "put", "done", "failed"}]
  /\ writing \in [Requests -> SUBSET Requests]
  /\ left \in [Requests -> Seq(Requests)]
  /\ stored \subseteq Requests
  /\ worker \in [Requests -> {"off", "check", "take", "read", "over", "hung"}]
  /\ key \in [Requests -> Requests \cup {NoRequest}]
  /\ called \in Seq(Requests)
  /\ taken \in Seq(Requests)
  /\ jammed \in BOOLEAN
  /\ Len(queue) <= QueueSize
  /\ \A r \in Requests : /\ left[r] # <<>> => pc[r] = "put"
                         /\ pc[r] = "put" => jammed
  /\ \A w \in Requests : key[w] # NoRequest <=> worker[w] = "read"

\* As long as no enqueue() had to await a full queue, the keys the workers
\* took, those in the queue and those in the deque are, in this order, the
\* requests in the order of their calls: none is lost, none is given to two
\* workers, none overtakes another, although every caller handles the entries
\* of the others and clears the deque (deribit_clients.py:95-124).
NoneLost == ~jammed => taken \o queue \o postman = called

\* An enqueue() that returned without an error has its record in Redis and,
\* as long as none had to await a full queue, its key in the queue or with a
\* worker, whoever put it there and whoever cleared the deque meanwhile
\* (deribit_clients.py:104-125).
ReturnedIsQueued ==
  \A r \in Requests :
    pc[r] = "done" => /\ r \in stored
                      /\ ~jammed => r \in ToSet(taken) \cup ToSet(queue)
=============================================================================
