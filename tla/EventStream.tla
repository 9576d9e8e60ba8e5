----------------------------- MODULE EventStream -----------------------------
(***************************************************************************)
(* The event stream of a user, from the request to the closed connection:  *)
(* sse_monitoring_child() (api/v2/api_sse_monitoring.py) stores a record   *)
(* of the connection in Redis and starts event_generator()                 *)
(* (project/functions.py), which subscribes a queue to ServerSSEManager    *)
(* and then loops: when its timer is due it scans Redis for the records of *)
(* ALL connections and broadcasts the last one; then it takes a message    *)
(* from its own queue or times out after 7 seconds.  The Celery postman    *)
(* (tasks/celery/task_send_every_60_seconds.py) writes the prices into     *)
(* the records.                                                            *)
(*                                                                         *)
(* A generator is cut at its awaits; the record it asks Redis for is read  *)
(* before the answer reaches it.  A record is the price it carries: 0      *)
(* while enqueue() wrote it and no postman did, NoRecord when Redis has    *)
(* none.  A price is the number of its row in the database.  The manager   *)
(* is the one of SSEManager, without its history; its queues are bounded.  *)
(***************************************************************************)
EXTENDS Integers, SequencesExt

CONSTANTS
  Readers,      \* connections to /sse, each with a generator of its own
  Leavers,      \* bound: the readers whose client may disconnect
  Keys,         \* values of "mapped_key": user and second of the connection
  Slow,         \* bound: the keys whose DEL may be executed late
  mapped_key,   \* the key of each reader
  Persons,
  person,       \* the person of each key
  Booked,       \* the persons in the "deribit_currency" book of subscriptions
  ScanOrder,    \* the keys in the order in which SCAN returns them
  NoReader, NoKey,
  NoRecord,     \* -1
  QueueSize,    \* DERIBIT_QUEUE_SIZE
  MaxPrice      \* bound: prices in the database

ASSUME StreamAssumption ==
  /\ Leavers \subseteq Readers
  /\ Slow \subseteq Keys
  /\ mapped_key \in [Readers -> Keys]
  /\ person \in [Keys -> Persons]
  /\ Booked \subseteq Persons
  /\ ScanOrder \in Seq(Keys)
  /\ ToSet(ScanOrder) = Keys
  /\ NoReader \notin Readers
  /\ NoKey \notin Keys
  /\ NoRecord = -1
  /\ QueueSize \in Nat \ {0}
  /\ MaxPrice \in Nat

VARIABLES
  record,       \* Redis: the price in the record of each key
  price,        \* the latest row of the database
  posting,      \* what the postman read and is about to write
  late,         \* the keys with a DEL on its way that nobody awaits any more
  alive,        \* is the client of a reader still connected?
  pc,           \* the await a generator is at
  due,          \* has its timer expired?
  data,         \* the record it reads, then broadcasts
  subscribed,   \* the readers whose queue is in _connections
  queue,        \* their queues
  owner,        \* the generator that holds the lock of the manager
  waiters,      \* those that wait for it, first come first served
  todo,         \* queues the running broadcast has not reached
  stuck,        \* the full queue it awaits
  received      \* history: the price a reader was sent last

storeVars  == <<record, price, posting, late>>
loopVars   == <<alive, pc, due, data>>
lockVars   == <<owner, waiters, todo, stuck>>
vars       == <<storeVars, loopVars, lockVars, subscribed, queue, received>>

Phases   == {"away", "accepted", "subscribe", "loop", "fetch", "answer",
             "broadcast", "put", "delete", "deleted", "receive", "closed"}
Records  == NoRecord .. MaxPrice
Messages == [key : Keys \cup {NoKey}, price : 0 .. MaxPrice]
Nothing  == [key |-> NoKey, price |-> 0]

\* Redis may hold records of earlier runs of the application.
Init ==
  /\ price \in 0 .. MaxPrice
  /\ record \in [Keys -> NoRecord .. price]
  /\ posting = Nothing
  /\ late = {}
  /\ alive = [r \in Readers |-> TRUE]
  /\ pc = [r \in Readers |-> "away"]
  /\ due = [r \in Readers |-> FALSE]
  /\ data = [r \in Readers |-> Nothing]
  /\ subscribed = {}
  /\ queue = [r \in Readers |-> <<>>]
  /\ owner = NoReader
  /\ waiters = <<>>
  /\ todo = {}
  /\ stuck = NoReader
  /\ received = [r \in Readers |-> 0]

Step(r, from, to) == pc[r] = from /\ pc' = [pc EXCEPT ![r] = to]

\* The part of the loop that broadcasts is over.
EndRound(r) ==
  /\ pc' = [pc EXCEPT ![r] = "receive"]
  /\ data' = [data EXCEPT ![r] = Nothing]

Stored(K) == {k \in K : record[k] # NoRecord}

\* Of the keys that have a record and are in the set K, SCAN returns k last.
LastOf(k, K) ==
  /\ k \in Stored(K)
  /\ \E i \in DOMAIN ScanOrder :
       /\ ScanOrder[i] = k
       /\ \A j \in i + 1 .. Len(ScanOrder) : ScanOrder[j] \notin Stored(K) \ {k}

\* The coroutine of r no longer waits for the lock.
LeavesLine(r) ==
  \/ r \notin ToSet(waiters) /\ UNCHANGED waiters
  \/ \E i \in DOMAIN waiters : waiters[i] = r /\ waiters' = RemoveAt(waiters, i)

-----------------------------------------------------------------------------
(* The request and the subscription *)

\* The handler runs enqueue(), which stores an empty record.
Connect(r) ==
  /\ Step(r, "away", "accepted")
  /\ record' = [record EXCEPT ![mapped_key[r]] = 0]
  /\ UNCHANGED <<price, posting, late, alive, due, data, lockVars, subscribed,
                 queue, received>>

\* The response starts: "connected" is sent, then subscribe() is called.
Start(r) ==
  /\ Step(r, "accepted", "subscribe")
  /\ waiters' = Append(waiters, r)
  /\ UNCHANGED <<storeVars, alive, due, data, owner, todo, stuck, subscribed,
                 queue, received>>

Admitted(r, phase) ==
  /\ pc[r] = phase
  /\ owner = NoReader
  /\ waiters # <<>>
  /\ Head(waiters) = r

Subscribe(r) ==
  /\ Admitted(r, "subscribe")
  /\ Step(r, "subscribe", "loop")
  /\ subscribed' = subscribed \cup {r}
  /\ waiters' = Tail(waiters)
  /\ UNCHANGED <<storeVars, alive, due, data, owner, todo, stuck, queue, received>>

-----------------------------------------------------------------------------
(* The top of the loop: disconnection, timer and scan *)

\* Leaving the loop is all a generator does when its client is gone.
Disconnected(r) ==
  /\ ~alive[r]
  /\ Step(r, "loop", "closed")
  /\ UNCHANGED <<storeVars, alive, due, data, lockVars, subscribed, queue, received>>

\* The timer runs, or the scan failed: nothing is broadcast in this round.
SkipRound(r) ==
  /\ alive[r]
  /\ Step(r, "loop", "receive")
  /\ UNCHANGED <<storeVars, alive, due, data, lockVars, subscribed, queue, received>>

\* The timer is due and starts again, whatever comes of the round.
Scan(r) ==
  /\ alive[r]
  /\ pc[r] = "loop"
  /\ due[r]
  /\ due' = [due EXCEPT ![r] = FALSE]
  /\ \/ Stored(Keys) = {} /\ EndRound(r)
     \/ \E k \in Keys :
          /\ LastOf(k, Keys)
          /\ Step(r, "loop", "fetch")
          /\ data' = [data EXCEPT ![r] = [key |-> k, price |-> 0]]
  /\ UNCHANGED <<storeVars, alive, lockVars, subscribed, queue, received>>

\* Mutant: a record that is gone is answered all the same.
FetchUnchecked(r) ==
  /\ pc[r] = "fetch"
  /\ record[data[r].key] # 0
  /\ Step(r, "fetch", "answer")
  /\ data' = [data EXCEPT ![r].price = record[data[r].key]]
  /\ UNCHANGED <<storeVars, alive, due, lockVars, subscribed, queue, received>>

\* Every record found is read ...
Fetch(r) ==
  /\ pc[r] = "fetch"
  /\ record[data[r].key] > 0
  /\ Step(r, "fetch", "answer")
  /\ data' = [data EXCEPT ![r].price = record[data[r].key]]
  /\ UNCHANGED <<storeVars, alive, due, lockVars, subscribed, queue, received>>

\* ... and the last one, once the answer is there, is handed to broadcast() ...
HandOver(r) ==
  /\ Step(r, "answer", "broadcast")
  /\ waiters' = Append(waiters, r)
  /\ UNCHANGED <<storeVars, alive, due, data, owner, todo, stuck, subscribed,
                 queue, received>>

\* ... which returns at once if it has no price; or a record found is gone by
\* now, or Redis fails: whether it had read the record makes no difference.
FetchFails(r) ==
  /\ pc[r] = "fetch"
  /\ EndRound(r)
  /\ UNCHANGED <<storeVars, alive, due, lockVars, subscribed, queue, received>>

-----------------------------------------------------------------------------
(* broadcast() *)

\* Mutant: a message goes to every subscriber.
AudienceOfAll(k) == subscribed

Audience(k) == {c \in subscribed : mapped_key[c] = k}

Full(c) == Len(queue[c]) >= QueueSize

\* The message of r goes to the queues D of S, up to a full one if there is one.
Sweep(r, S, D) ==
  /\ D \subseteq S
  /\ \A c \in D : ~Full(c)
  /\ queue' = [c \in Readers |-> IF c \in D THEN Append(queue[c], data[r]) ELSE queue[c]]
  /\ todo' = S \ D
  /\ \/ /\ D = S
        /\ owner' = NoReader
        /\ stuck' = NoReader
        /\ EndRound(r)
     \/ \E c \in S \ D : /\ Full(c)
                         /\ owner' = r
                         /\ stuck' = c
                         /\ pc' = [pc EXCEPT ![r] = "put"]
                         /\ UNCHANGED data

Broadcast(r) ==
  LET S == Audience(data[r].key)
  IN  /\ Admitted(r, "broadcast")
      /\ S # {}
      /\ \E D \in SUBSET S : Sweep(r, S, D)
      /\ waiters' = Tail(waiters)
      /\ UNCHANGED <<storeVars, alive, due, subscribed, received>>

\* The awaited queue has room.
Resume(r) ==
  /\ pc[r] = "put"
  /\ \E D \in SUBSET todo : stuck \in D /\ Sweep(r, todo, D)
  /\ UNCHANGED <<storeVars, alive, due, waiters, subscribed, received>>

\* Nobody reads the key: its record is deleted with the lock held.
Miss(r) ==
  /\ Admitted(r, "broadcast")
  /\ Audience(data[r].key) = {}
  /\ Step(r, "broadcast", "delete")
  /\ owner' = r
  /\ waiters' = Tail(waiters)
  /\ UNCHANGED <<storeVars, alive, due, data, todo, stuck, subscribed, queue, received>>

\* Mutant: the record of a key that nobody reads is kept.
RedisDeletesNothing(r) ==
  /\ Step(r, "delete", "deleted")
  /\ UNCHANGED <<storeVars, alive, due, data, lockVars, subscribed, queue, received>>

\* Redis executes the DEL that r awaits.
RedisDeletes(r) ==
  /\ Step(r, "delete", "deleted")
  /\ record' = [record EXCEPT ![data[r].key] = NoRecord]
  /\ UNCHANGED <<price, posting, late, alive, due, data, lockVars, subscribed,
                 queue, received>>

\* The generators of S no longer await their DEL, which may be on its way.
GiveUp(S) ==
  late' \in {late,
            late \cup (Slow \cap {data[r].key : r \in {x \in S : pc[x] = "delete"}})}

\* Mutant: the lock is kept after the deletion.
DeleteEndsLocked(r) ==
  /\ pc[r] \in {"delete", "deleted"}
  /\ EndRound(r)
  /\ GiveUp({r})
  /\ UNCHANGED <<record, price, posting, alive, due, lockVars, subscribed, queue, received>>

\* delete_key() returned, failed before Redis had the DEL, or timed out.
DeleteEnds(r) ==
  /\ pc[r] \in {"delete", "deleted"}
  /\ EndRound(r)
  /\ GiveUp({r})
  /\ owner' = NoReader
  /\ UNCHANGED <<record, price, posting, alive, due, waiters, todo, stuck, subscribed,
                 queue, received>>

-----------------------------------------------------------------------------
(* The end of the loop *)

\* A message is sent to the client; the generator sleeps and starts again.
Receive(r) ==
  /\ Step(r, "receive", "loop")
  /\ queue[r] # <<>>
  /\ queue' = [queue EXCEPT ![r] = Tail(@)]
  /\ received' = [received EXCEPT ![r] = Head(queue[r]).price]
  /\ UNCHANGED <<storeVars, alive, due, data, lockVars, subscribed>>

\* No message for 7 seconds: "keep_alive" is sent.
KeepAlive(r) ==
  /\ Step(r, "receive", "loop")
  /\ queue[r] = <<>>
  /\ UNCHANGED <<storeVars, alive, due, data, lockVars, subscribed, queue, received>>

\* Mutant: a cancelled generator leaves the queue of the lock, not the lock.
CancelledLocked(r) ==
  /\ ~alive[r]
  /\ pc[r] \notin {"away", "closed"}
  /\ pc' = [pc EXCEPT ![r] = "closed"]
  /\ data' = [data EXCEPT ![r] = Nothing]
  /\ LeavesLine(r)
  /\ UNCHANGED <<storeVars, alive, due, owner, todo, stuck, subscribed, queue, received>>

\* The server cancels the generator of a client that is gone at any await;
\* "async with" releases the lock, or leaves its queue.
Cancelled(r) ==
  /\ ~alive[r]
  /\ pc[r] \notin {"away", "closed"}
  /\ pc' = [pc EXCEPT ![r] = "closed"]
  /\ data' = [data EXCEPT ![r] = Nothing]
  /\ LeavesLine(r)
  /\ IF owner = r
     THEN owner' = NoReader /\ todo' = {} /\ stuck' = NoReader
     ELSE UNCHANGED <<owner, todo, stuck>>
  /\ GiveUp({r})
  /\ UNCHANGED <<record, price, posting, alive, due, subscribed, queue, received>>

-----------------------------------------------------------------------------
(* The clients, the clock, the database, the postman and the server *)

Leave(r) ==
  /\ r \in Leavers
  /\ alive[r]
  /\ pc[r] \notin {"away", "closed"}
  /\ alive' = [alive EXCEPT ![r] = FALSE]
  /\ UNCHANGED <<storeVars, pc, due, data, lockVars, subscribed, queue, received>>

TimerFires(r) ==
  /\ ~due[r]
  /\ pc[r] \notin {"away", "closed"}
  /\ due' = [due EXCEPT ![r] = TRUE]
  /\ UNCHANGED <<storeVars, alive, pc, data, lockVars, subscribed, queue, received>>

\* The time to live of a record is over.
Expire(k) ==
  /\ record[k] # NoRecord
  /\ record' = [record EXCEPT ![k] = NoRecord]
  /\ UNCHANGED <<price, posting, late, loopVars, lockVars, subscribed, queue, received>>

\* Redis executes a DEL that nobody awaits, or never gets it.
LateDelete(k) ==
  /\ k \in late
  /\ late' = late \ {k}
  /\ record' \in {record, [record EXCEPT ![k] = NoRecord]}
  /\ UNCHANGED <<price, posting, loopVars, lockVars, subscribed, queue, received>>

PriceArrives ==
  /\ price < MaxPrice
  /\ price' = price + 1
  /\ UNCHANGED <<record, posting, late, loopVars, lockVars, subscribed, queue, received>>

\* Mutant: the rows are not ordered, so any price may be read.
PostmanReadsAnyRow(p) ==
  /\ posting = Nothing
  /\ \E k \in Keys, row \in 1 .. price :
       LastOf(k, {m \in Keys : person[m] = p}) /\ posting' = [key |-> k, price |-> row]
  /\ UNCHANGED <<record, price, late, loopVars, lockVars, subscribed, queue, received>>

\* The postman reads the latest price, then the last record of a booked person.
PostmanReads(p) ==
  /\ posting = Nothing
  /\ price > 0
  /\ \E k \in Keys :
       LastOf(k, {m \in Keys : person[m] = p}) /\ posting' = [key |-> k, price |-> price]
  /\ UNCHANGED <<record, price, late, loopVars, lockVars, subscribed, queue, received>>

\* Mutant: the price is written into every record.
PostmanWritesAll ==
  /\ posting # Nothing
  /\ posting' = Nothing
  /\ record' = [k \in Keys |-> posting.price]
  /\ UNCHANGED <<price, late, loopVars, lockVars, subscribed, queue, received>>

\* It writes the record back with the price, or fails.
PostmanWrites ==
  /\ posting # Nothing
  /\ posting' = Nothing
  /\ record' \in {record, [record EXCEPT ![posting.key] = posting.price]}
  /\ UNCHANGED <<price, late, loopVars, lockVars, subscribed, queue, received>>

\* The API process restarts: connections and queues are lost, Redis is not.
Restart ==
  /\ pc' = [r \in Readers |-> IF pc[r] = "away" THEN "away" ELSE "closed"]
  /\ data' = [r \in Readers |-> Nothing]
  /\ subscribed' = {}
  /\ queue' = [r \in Readers |-> <<>>]
  /\ owner' = NoReader
  /\ waiters' = <<>>
  /\ todo' = {}
  /\ stuck' = NoReader
  /\ GiveUp(Readers)
  /\ UNCHANGED <<record, price, posting, alive, due, received>>

-----------------------------------------------------------------------------

\* What a generator does by itself when Redis answers.
Generator(r) ==
  \/ Start(r) \/ Subscribe(r) \/ Disconnected(r) \/ SkipRound(r) \/ FetchFails(r)
  \/ HandOver(r) \/ Broadcast(r) \/ Resume(r) \/ Miss(r) \/ DeleteEnds(r)
  \/ Receive(r) \/ KeepAlive(r)

Next ==
  \/ \E r \in Readers : \/ Connect(r) \/ Generator(r) \/ Scan(r) \/ Fetch(r)
                        \/ RedisDeletes(r) \/ Cancelled(r) \/ Leave(r) \/ TimerFires(r)
  \/ \E k \in Keys : Expire(k)
  \/ \E k \in Slow : LateDelete(k)
  \/ \E p \in Booked : PostmanReads(p)
  \/ PriceArrives
  \/ PostmanWrites
  \/ Restart

Spec == Init /\ [][Next]_vars

Unfilled(k) == Expire(k) /\ record[k] = 0

\* The event loop runs what can run and time passes; Redis fails again and
\* again, but not for ever; a record nobody fills lives for an hour.
Fairness ==
  /\ \A r \in Readers : /\ WF_vars(Generator(r))
                        /\ WF_vars(TimerFires(r))
                        /\ SF_vars(Scan(r))
                        /\ SF_vars(Fetch(r))
                        /\ SF_vars(RedisDeletes(r))
  /\ \A k \in Keys : WF_vars(Unfilled(k))

FairSpec == Spec /\ Fairness

-----------------------------------------------------------------------------
(* Properties *)

\* Types.
TypeOK ==
  /\ record \in [Keys -> Records]
  /\ price \in 0 .. MaxPrice
  /\ posting \in Messages
  /\ late \subseteq Slow
  /\ alive \in [Readers -> BOOLEAN]
  /\ pc \in [Readers -> Phases]
  /\ due \in [Readers -> BOOLEAN]
  /\ data \in [Readers -> Messages]
  /\ subscribed \subseteq Readers
  /\ queue \in [Readers -> Seq(Messages)]
  /\ owner \in Readers \cup {NoReader}
  /\ waiters \in Seq(Readers)
  /\ todo \subseteq Readers
  /\ stuck \in Readers \cup {NoReader}
  /\ received \in [Readers -> 0 .. MaxPrice]

\* However a generator ends, the lock is held by a generator that is running
\* a broadcast, and only running ones wait for it (functions.py:356,
\* sse_manager.py:79): a client that goes away never takes the lock with it.
LockNotAbandoned ==
  /\ owner # NoReader => pc[owner] \in {"put", "delete", "deleted"}
  /\ \A i \in DOMAIN waiters : pc[waiters[i]] \in {"subscribe", "broadcast"}

\* A reader is given the messages of its own connection only, although every
\* generator broadcasts the records of all the others (functions.py:316-320).
OwnMessages ==
  \A r \in Readers : \A i \in DOMAIN queue[r] : queue[r][i].key = mapped_key[r]

\* No queue grows beyond DERIBIT_QUEUE_SIZE, however many generators feed it.
QueueBound == \A r \in Readers : Len(queue[r]) <= QueueSize

\* What lets a generator go on: nobody, the lock, or room in a queue.
CanMove(r) ==
  \/ pc[r] \in {"accepted", "loop", "fetch", "answer", "delete", "deleted", "receive"}
  \/ pc[r] \in {"subscribe", "broadcast"} /\ owner = NoReader /\ Head(waiters) = r
  \/ pc[r] = "put" /\ ~Full(stuck)

\* The running generators never all wait for each other, but for one reason: a
\* broadcast awaits, with the lock, the full queue of a reader that is gone, or
\* that itself broadcasts or waits to (sse_manager.py:79, 99).
OnlyFullQueuesBlock ==
  (\E r \in Readers : pc[r] \notin {"away", "closed"})
    => \/ \E r \in Readers : CanMove(r)
       \/ /\ owner # NoReader
          /\ pc[owner] = "put"
          /\ Full(stuck)
          /\ pc[stuck] \in {"closed", "broadcast", "put"}

Watching(r) == alive[r] /\ r \in subscribed

\* A client that stays connected is sent the price the postman put in its
\* record, unless the record changes first or a broadcast is blocked, which is
\* the subject of BroadcastReturns (the docstring of create_order,
\* api/v1/api_users.py:50: the user must get data every minute).
EveryReaderServed ==
  \A r \in Readers, p \in 1 .. MaxPrice :
    (Watching(r) /\ record[mapped_key[r]] = p)
      ~> \/ received[r] = p
         \/ ~Watching(r) \/ record[mapped_key[r]] # p
         \/ \E g \in Readers : pc[g] = "put"

\* A broadcast reaches all the subscribers and returns (the docstring of
\* broadcast, sse_manager.py:62), as long as its own client is connected.
BroadcastReturns ==
  \A r \in Readers :
    pc[r] \in {"broadcast", "put", "delete", "deleted"}
      ~> pc[r] \notin {"broadcast", "put", "delete", "deleted"} \/ ~alive[r]

\* A client is never sent an older price after a newer one.
Fresh == [][\A r \in Readers : received'[r] >= received[r]]_vars

\* To the postman and to each other the streams are users of a mailbox: what
\* they do to the records is to put, drop and fill one at a time.  There is one
\* ticker.
Box == INSTANCE Mailbox WITH
         Tickers <- {"ticker"},
         Gone <- [ticker |-> "none", row |-> NoRecord],
         Blank <- [ticker |-> "none", row |-> 0],
         record <- [k \in Keys |-> [ticker |-> IF record[k] > 0 THEN "ticker" ELSE "none",
                                    row |-> record[k]]],
         rows <- [t \in {"ticker"} |-> price]

Mailed == Box!Spec
=============================================================================
