----------------------------- MODULE WorkerPool -----------------------------
(***************************************************************************)
(* What a worker needs before it can serve a request.  start_worker()      *)
(* (deribit_client/deribit_clients.py), in a thread with a loop of its     *)
(* own, keeps the queue deque_coroutines filled with coroutine factories;  *)
(* every task_account() (tasks/queues/task_account_user.py), again in a    *)
(* thread with a loop of its own, takes one, looks up the person of its    *)
(* request (PersonDictionary) and takes a client from the pool             *)
(* (deribit_client/deribit_websocket.py).                                  *)
(*                                                                         *)
(* The queue is an asyncio.Queue, made for one event loop.  The first      *)
(* worker that has to wait binds it to its loop.  A put() completes its    *)
(* future from another thread, which does not wake a loop that sleeps.     *)
(***************************************************************************)
EXTENDS PersonDictionary

CONSTANTS
  limitations,   \* DERIBIT_MAX_QUANTITY_WORKERS; lifespan() passes 10
  MaxClients,    \* DERIBIT_MAX_CONCURRENT: clients made at a time
  NoRequest

ASSUME PoolAssumption ==
  /\ limitations \in Nat \ {0}
  /\ MaxClients \in Nat \ {0}
  /\ NoRequest \notin Requests

VARIABLES
  pool,      \* the number of factories in deque_coroutines
  filler,    \* where start_worker() is
  slot,      \* its loop variable i
  worker,    \* where the worker of a request is
  loop,      \* the request to whose loop the queue is bound
  getter,    \* the request whose future is in the queue
  clients    \* the number of clients in DeribitWebsocketPool._clients

poolVars == <<pool, filler, slot, worker, loop, getter, clients>>
vars     == <<dictVars, poolVars>>

Places == {"away", "test", "take", "wait", "asleep", "refused", "served",
           "found", "unknown", "equipped", "failed"}

Init ==
  /\ DictInit
  /\ pool = 0
  /\ filler = "top"
  /\ slot = 0
  /\ worker = [r \in Requests |-> "away"]
  /\ loop = NoRequest
  /\ getter = NoRequest
  /\ clients = MaxClients

-----------------------------------------------------------------------------
(* start_worker() *)

\* A full queue is left alone; else "sleeptime" is read, or Redis fails, which
\* its context manager hides.
Begins ==
  /\ filler = "top"
  /\ pool # limitations
  /\ filler' = "put"
  /\ slot' = 0
  /\ UNCHANGED <<dictVars, pool, worker, loop, getter, clients>>

\* Mutant: the loop over i is all there is.
NextSlotOrOver ==
  /\ slot' = (slot + 1) % limitations
  /\ filler' = IF slot + 1 = limitations THEN "over" ELSE "put"

\* The next i; after the last one the loop starts again.
NextSlot ==
  /\ slot' = (slot + 1) % limitations
  /\ filler' = IF slot + 1 = limitations THEN "top" ELSE "put"

\* Mutant: one factory too many.
RoomForOneMore == pool <= limitations

Room == pool < limitations

\* No room: it sleeps, then goes on with the next i.
Skips ==
  /\ filler = "put"
  /\ ~Room
  /\ NextSlot
  /\ UNCHANGED <<dictVars, pool, worker, loop, getter, clients>>

\* put_nowait() completes the future of the getter, if there is one: the
\* getter tests again if its loop is still awake.
Puts ==
  /\ filler = "put"
  /\ Room
  /\ pool' = pool + 1
  /\ filler' = "incr"
  /\ getter' = NoRequest
  /\ worker' = [r \in Requests |->
                  IF r = getter /\ worker[r] = "wait" THEN "test" ELSE worker[r]]
  /\ UNCHANGED <<dictVars, slot, loop, clients>>

\* "sleeptime" is incremented ...
Counts ==
  /\ filler = "incr"
  /\ NextSlot
  /\ UNCHANGED <<dictVars, pool, worker, loop, getter, clients>>

\* ... or Redis fails, outside of its context manager: start_worker() is over.
Dies ==
  /\ filler = "incr"
  /\ filler' = "dead"
  /\ UNCHANGED <<dictVars, pool, slot, worker, loop, getter, clients>>

-----------------------------------------------------------------------------
(* The first steps of task_account() *)

Moves(r, from, to) == worker[r] = from /\ worker' = [worker EXCEPT ![r] = to]

Arrives(r) ==
  /\ Moves(r, "away", "test")
  /\ UNCHANGED <<dictVars, pool, filler, slot, loop, getter, clients>>

\* get() finds a factory.
Finds(r) ==
  /\ pool > 0
  /\ Moves(r, "test", "take")
  /\ UNCHANGED <<dictVars, pool, filler, slot, loop, getter, clients>>

\* Mutant: a queue for threads: everybody may wait.
WaitsAnyway(r) ==
  /\ pool = 0
  /\ Moves(r, "test", "wait")
  /\ loop' = r
  /\ getter' = r
  /\ UNCHANGED <<dictVars, pool, filler, slot, clients>>

\* The queue is empty: it is bound to the loop, and a future is left in it ...
Waits(r) ==
  /\ pool = 0
  /\ loop \in {r, NoRequest}
  /\ Moves(r, "test", "wait")
  /\ loop' = r
  /\ getter' = r
  /\ UNCHANGED <<dictVars, pool, filler, slot, clients>>

\* ... which nobody completes before the loop falls asleep.
Sleeps(r) ==
  /\ Moves(r, "wait", "asleep")
  /\ UNCHANGED <<dictVars, pool, filler, slot, loop, getter, clients>>

\* The queue is bound to another loop: a RuntimeError.
Refused(r) ==
  /\ pool = 0
  /\ loop \notin {r, NoRequest}
  /\ Moves(r, "test", "refused")
  /\ UNCHANGED <<dictVars, pool, filler, slot, loop, getter, clients>>

\* get_nowait(): another thread may have been faster (QueueEmpty).
Takes(r) ==
  /\ Moves(r, "take", IF pool > 0 THEN "served" ELSE "refused")
  /\ pool' = IF pool > 0 THEN pool - 1 ELSE pool
  /\ UNCHANGED <<dictVars, filler, slot, loop, getter, clients>>

\* "person_dict.__has__(user_id)"
Searches(r) ==
  /\ Moves(r, "served", IF Has(person[r]) THEN "found" ELSE "unknown")
  /\ UNCHANGED <<dictVars, pool, filler, slot, loop, getter, clients>>

\* get_clients(): an empty pool is filled first.
ClientLeft == (IF clients = 0 THEN MaxClients ELSE clients) - 1

\* The person is fetched, and a client: both with the lock of task_account().
Equips(r) ==
  /\ Moves(r, "found", IF Has(person[r]) THEN "equipped" ELSE "failed")
  /\ clients' = IF Has(person[r]) THEN ClientLeft ELSE clients
  /\ UNCHANGED <<dictVars, pool, filler, slot, loop, getter>>

-----------------------------------------------------------------------------

Fills == Begins \/ Skips \/ Puts \/ Counts

Works(r) ==
  \/ Finds(r) \/ Waits(r) \/ Sleeps(r) \/ Refused(r) \/ Takes(r)
  \/ Searches(r) \/ Equips(r)

Next ==
  \/ Fills \/ Dies
  \/ \E r \in Requests : \/ Arrives(r) \/ Works(r)
                         \/ Makes(r) /\ UNCHANGED poolVars

Spec == Init /\ [][Next]_vars

\* Threads run.  Nothing is assumed of Redis, nor of arrivals.
Fairness == WF_vars(Fills) /\ \A r \in Requests : WF_vars(Works(r))

FairSpec == Spec /\ Fairness

-----------------------------------------------------------------------------
(* Properties *)

\* Types; the queue, whose own bound is 40, never holds more factories than
\* lifespan() asked for (deribit_clients.py:185, 197).
TypeOK ==
  /\ DictTypeOK
  /\ pool \in 0 .. limitations
  /\ filler \in {"top", "put", "incr", "dead"}
  /\ slot \in 0 .. limitations - 1
  /\ worker \in [Requests -> Places]
  /\ loop \in Requests \cup {NoRequest}
  /\ getter \in Requests \cup {NoRequest}
  /\ clients \in 0 .. MaxClients

\* The workers that wait for a factory.
Waiting == {r \in Requests : worker[r] \in {"wait", "asleep"}}

\* At most one worker ever waits for a factory, though the queue serves all
\* threads (task_account_user.py:37): all others are served or end.
OneWaits == \A q, r \in Waiting : q = r

\* Unless Redis fails inside the loop of start_worker(), the queue is filled
\* again and again, however the workers empty it (deribit_clients.py:183).
PoolRefilled == <>(filler = "dead") \/ []<>(pool = limitations)
=============================================================================
