# Verification of krypto_market

TLA+ models of the concurrent core of *krypto_market*, their TLC instances, and
proofs checked by TLAPS.  Paths in this file and in the modules are relative to
`src/cryptomarket/`; a module cites the file and the line it is about.

## 1. The system

A FastAPI process serves the browsers; a Celery beat and worker run two periodic
tasks; Redis is the only memory they share; a SQL database keeps persons and
prices; Deribit is reached over websockets.

```
 browser --GET /sse--> sse_monitoring_child --create_person--> PersonDictionary
                             |  enqueue()                          ^
                             |     Redis record, key -> queue      |
                             |  signal -> schedule_with_delay --> task_account (thread) --ws--> Deribit
                             v                                     |
                       event_generator <--- queue per reader       v  "deribit:person"
                             |  ^                                Redis <---- add_every_60 (prices from Deribit)
              SCAN/GET every |  | broadcast / put                  ^
                    timer    v  |                                  |
                       ServerSSEManager (one class-wide lock)      postman: send_every_60
                             ^                                     (prices into the records)
       price endpoint -------'              api_users: the book of subscriptions -> "address" record
```

### Components

| component | state | operations | hard about it | what makes it correct |
|---|---|---|---|---|
| SSE manager, `project/sse_manager.py` | `_connections`: key → set of queues; one class-wide `asyncio.Lock`, shared with `api_get_index_price.py` | `subscribe`, `unsubscribe`, `broadcast` | awaits inside the critical section (`put()` on a full queue, `delete_key()`), cancellation at any await | every addressed queue gets a message once, in call order; the table does not change under a broadcast; the record of a watched key is not deleted |
| Event stream, `project/functions.py:265`, `api/v2/api_sse_monitoring.py` | per connection: a bounded queue, a timer, the record in Redis | `event_generator`, `get_record`, `delete_key`, SCAN | every generator reads and broadcasts everybody's records; client disconnects; Redis fails; restart | a connected reader is sent its own prices, in order, and a client that leaves takes nothing with it |
| Subscription book, `deribit_client/deribit_currency.py`, `api/v1/api_users.py` | `CurrencyDictionary`: ticker → persons; copy in Redis | the four routes create, get, cancel, cancel all | the `Response` object is shared; the copies are written without order and without being checked | an accepted person is in the list and in the copy; a cancelled one is in neither |
| Request queue, `deribit_client/deribit_clients.py:63`, `tasks/queues/task_account_user.py:24-83` | `_deque_postman`, the bounded `asyncio.Queue` of keys, the records in Redis | `enqueue()`, the worker's `get()` | every caller handles and clears the entries of all others around awaits; the workers live in other threads | no request is lost or doubled; a key in the queue has its record |
| Account task, `tasks/queues/task_account_user.py`, `task_user_data_to_cache.py` | module lock, person, websocket, "deribit:person" in Redis | the authentication loop | one asyncio lock for loops of several threads; read-modify-write in Redis; endless retry with the lock held | a token is used on the connection it was given on; the cached persons include everyone authenticated |
| Persons, `deribit_client/deribit_person.py`, `project/functions.py:378` | `PersonDictionary`, `PersonManager` | add, get, store again, `ws_json`, tokens | one dictionary of bounded size, changed by all worker threads without a lock: test, pop and store are separate | the size stays bounded; nobody is lost before the dictionary was full; a request uses the token of its own person |
| Client pool and workers, `deribit_websocket.py`, `deribit_clients.py:149-219` | pool of `DeribitClient`s, queue of coroutine factories | `start_worker`, the first steps of `task_account()`, `get_clients` | an `asyncio.Queue` used by several loops, filled by a loop in another thread that Redis may end | the queue holds no more than was asked for and is refilled; at most one worker waits for it |
| Signal scheduler, `project/signals.py` | `_tasks`: user → deque | `schedule_with_delay`, `handler_tasks` | timeouts, retries, deletion while iterating | a scheduled task runs once per period and stops when told |
| Price feed and postman, `tasks/celery/*.py` | Redis records, price rows, the address and the price a round carries | the two periodic tasks | a round broken off by one address; a price carried from one address to the next; read in one step, write four awaits later | a person is sent the price of its own ticker, not older than the round; when the calls succeed everybody is served |
| Rate limiter, `deribit_limites.py` | a Redis counter | `acquire` (not called) | check-then-act in Redis | the rate |
| Database, `database/connection.py` | engine, sessions | `init_engine`, session scopes, `create_table` | commit, rollback and close on every path | no session is left open |
| Encryption, registry, settings, models, migrations, logging, deployment | – | – | no protocol | – |

`PROJECT.json` lists the same components with their status, and under `hazards`
each place where the code is hard to test, with the properties that watch it.

### Interactions that the models keep

* `EventStream` contains the parts of `SSEManager` a generator runs through
  (lock, subscribe, broadcast, deletion) *and* Redis, the postman, the timer and
  the browser.  `SSEManager` is the manager for arbitrary callers; `EventStream`
  is the manager with the callers it has.
* The price endpoint takes the manager's lock while it awaits the database: it is
  an operation (`CallPrice`, `PriceEnters`, `PriceEnds`) of `SSEManager`.
* The record of a connection is written by `enqueue()` (`RequestQueue!Written`);
  in the other modules that write is one action (`EventStream!Connect`, `PriceRounds!Connects`).
* The records are what the streams and the periodic tasks share.  Each side has the other one
  as an environment; `Mailbox` states what they may rely on, and both implement it.
* The copy of the book is written by the API process (`SubscriptionBook!RedisWrites`) and read by
  the periodic tasks (`PriceRounds!Copied`).
* `WorkerPool` contains `PersonDictionary`: a worker looks up the person that another thread is
  storing.  `AccountTask` begins where `WorkerPool` ends, with the key, the person and a client.

## 2. The modules

| module | models | state ↔ code |
|---|---|---|
| `PubSub` | the abstract service of the manager: who is in the audience of a key, what is owed to whom | – |
| `SSEManager` | `ServerSSEManager`, its lock, the price endpoint, cancellation | `connections` is `_connections`; `owner`, `waiters` the lock and its FIFO; `op`, `stage`, `todo`, `stuck` where the running operation is; `stream`, `taken` a queue together with what was taken from it; `sent`, `ticket`, `message` the history of calls; `cached` the records in Redis, `late` the `DEL`s on their way that nobody awaits any more, `gone` the readers whose generator is over while their queue stays in the table |
| `Mailbox` | the abstract record in Redis: nothing, or one price the database has | – |
| `EventStream` | `event_generator` of every connection, Redis, the postman it sees, timer, disconnects, restarts | `record` the Redis records, `pc` the await a generator is at, `due` the timer, `data` `result_dict`, `queue` the reader's queue, `posting` the record the postman is about to write back, `late` the keys with a `DEL` on its way that was given up |
| `SubscriptionBook` | the routes of `api_users.py` | `book` the `CurrencyDictionary`, `cache` its copy, `writes` the copies on their way, `status` the shared `Response`, `log` the history the properties speak of |
| `RequestQueue` | `enqueue()` and the taking of keys | `postman` is `_deque_postman`, `queue` the queue of keys, `writing` the SETEX calls of one `gather()`, `left` what the `put()` loop has still to do, `worker`, `key` the workers |
| `AccountTask` | `task_account()` from a key on, and `create_person_manual()` | `book` is `person_dict`, `equipped`, `active` and `token` the state of a person object (named by the request that made it), `making` and `pc` the two threads of a request, `fetched` the object `create_person_manual()` holds between `get()` and the second store, `getter` the loop the queue of keys is bound to, `job`, `object`, `sent`, `after`, `seen` the locals of a worker, `cached` the persons in "deribit:person", `locked`, `loop`, `waiter`, `woken` the fields of the module's `asyncio.Lock` |
| `SignalScheduler` | `Signal` and the delayed tasks | `entries` the keys of `_tasks` in their order, `task` the one task of each entry, `pc` and `todo` the handler each call becomes and the rest of its copy, `owner` and `waiters` the lock |
| `PriceRounds` | the rounds of `task_add_every_60_seconds.py` and `task_send_every_60_seconds.py`, with the session scope that stores a row | `copy` is "deribit_currency" in Redis, `record` the records, `rows` the number of rows of a ticker; of a process `pc` what it awaits, `todo` the part of the copy it has still to handle, `carried` `serialize_json`, `key` the key it found, `base` the rows when its round began |
| `PersonDictionary` | the dictionary of bounded size under the threads of `create_person_manual()` | `persons` the keys of `person_dict` in their order, `making` where a thread is in `add()` or `__setitem__()`, `victim` the key it is about to pop, `crowded` whether the dictionary was ever full |
| `WorkerPool` | `start_worker()`, the first steps of `task_account()`, `get_clients()` | `pool` the length of `deque_coroutines`, `filler`, `slot` where `start_worker()` is, `worker` where a worker is, `loop`, `getter` the fields of the `asyncio.Queue`, `clients` the length of the list of clients |
| `…Proofs` | the theorems of `SSEManager`, `EventStream`, `SubscriptionBook`, `RequestQueue`, `AccountTask`, `SignalScheduler`, `PriceRounds` and `WorkerPool` | – |
| `MC…` | instances for TLC | – |

Modelling decisions that hold everywhere:

* **Atomicity.** asyncio runs a coroutine without interruption from one await that
  suspends to the next; an action is such a stretch.  Taking a free lock and
  `put()` on a queue with room do not suspend.  Taking a contended lock is two
  actions (the call, which joins the FIFO of the lock, and the entry).  Reading a record from Redis
  is two as well where somebody may fill it in between (`EventStream!Fetch`, `HandOver`).
  Between threads (`RequestQueue`, `PersonDictionary`, `WorkerPool`) an action is one operation on
  the shared queue or dictionary.
  In `AccountTask` the operations of the lock themselves are cut where another thread may
  come in between (CPython 3.13's `locks.py`, event loops not in debug mode, which is the
  default of the settings): test and assignment, release and completion of the waiter's
  future.  The rest of a worker's steps are cut at its awaits.
* **Cancellation.** Starlette cancels the generator of a client that goes away.
  It is delivered at an await: to a waiter of the lock (`CancelWaiter`), to the owner
  (`CancelOwner`), or to a generator anywhere (`EventStream!Cancelled`).
  `async with` releases the lock.  A reader that is cancelled, or whose generator finds the client disconnected
  (`Depart`), never reads its queue again, and nothing takes the queue out of the table.
* **Redis failures.** `set_record`, `get_record` and `delete_key` catch
  every exception, so a failure looks to the caller like a missing key or like
  nothing; `WriteLost`, `FetchFails`, `SkipRound`, `DeleteEnds` have those outcomes.
  A `DEL` whose wait timed out or was cancelled (`functions.py:535`, `sse_manager.py:81`) has been sent all the
  same: the lock is free and Redis executes it later, when others may have subscribed, or never
  (`GivesUp`, `GiveUp`, `LateDelete`).
  A `gather()` with a failing write ends `enqueue()` (`GatherFails`).
* **Data.** A message is the number of its call or a key with a price, a price is the
  round it was fetched in (in `PriceRounds` the number of its row), a request is its key.
* **History.** `crowded`, `jammed`, `torn`, `base`, `log`, `received` and the tickets record what
  happened; the only guards they are in are bounds (`MaxEvents`, `MaxBroadcasts`).
* **Bounds.** Besides those two: `keysOf`, the keys that a reader may have in a run of `SSEManager`;
  `Slow`, the keys whose given-up `DEL` may be executed late in one of `EventStream`; `Crew`, the requests whose worker gets to run in one of `AccountTask`; `MaxPrice`, `MaxRows`,
  `QueueSize`, `Feeders` and `Postmen`.  The proofs hold for all their values.

In `PriceRounds` the copies have no ticker with an empty list (both tasks pass over them), the rows
of a ticker are told apart up to `MaxRows` (a later one counts as that), and "failed" is
the place of a process whose round was broken off by an error, as opposed to one that reached its end; both
begin the next round in the same way.  `WorkerPool` leaves out the `_sleep` of the loop, the number in
"sleeptime" (only whether Redis answers matters) and the semaphores; `Equips` is atomic,
because fetching the person and taking a client happen with the lock of `task_account()` held.
`loop` is the loop a queue is bound to by its first *waiting* `get()`, as in CPython's `asyncio.mixins`.

Not visible in the modules but worth knowing: the branch of `broadcast` that removes
dead queues (`sse_manager.py:101-117`) cannot be reached, because
`await put()` never raises `QueueFull`; an empty message returns before the lock; the
semaphore of 40 in front of the lock in the price endpoint is left out.  In
`RequestQueue`, `mapped_key` is taken to be different for every request, `stored` means
*was written once* (expiry is left out) and the length of the deque (5000) is not reached.
`wrapper_delayed_task` joins its thread for up to 5 s on the main loop, which only removes
interleavings from those the models have.  `SignalScheduler` leaves out the semaphore of 10 in
front of the lock (it lets the handlers through in the same order), timers
may fire in any order, and `controller` is no variable: each read of it follows an assignment by
the same coroutine without an await.

## 3. What TLC checks

| run | instance | question, and answer |
|---|---|---|
| `sse` | 2 readers (one broadcasts too and may unsubscribe; both may go away), 1 publisher which also runs the price endpoint, 2 keys, queues of 1, 2 broadcasts, cancellation everywhere (368,700 states) | the inductive invariant `IInv`; `ExactlyOnce`, `CallOrder`, `TableStable`, `QueueBound`, `OnlyUnwatchedDeleted`; refinement of `PubSub`; `OperationsEnd`: every operation gets the lock and returns, unless a broadcast awaits the full queue of a reader that is gone or is itself in an operation: all hold |
| `stream_lone` | 1 connection, the left-over record of an earlier run, queue of 2, 2 prices, restart, expiry, late `DEL`s (5,385 states) | `EveryReaderServed`, `BroadcastReturns`, `Fresh` hold for a lone reader |
| `stream_two` | 2 connections, both broadcasting, each may vanish at any await (1,053,831 states) | `LockNotAbandoned`, `OwnMessages`, the refinement `Mailed` of `Mailbox`, and `OnlyFullQueuesBlock` (the running generators never all wait for each other, but for one broadcast and a queue that is full): all hold |
| `stream_starved` | 2 connections that stay | `EveryReaderServed` fails: see below |
| `stream_jammed` | 2 connections of one user in the same second, one closes | `BroadcastReturns` fails |
| `book_safety` | all routes, 2 concurrent requests, 2 persons, 2 tickers, restarts, lost writes, histories of 4 | `FirstStaysBooked`, `CopiesNotAhead`, `CancelAllRemoves` hold |
| `queue_safety` | 3 requests with their workers, queue of 2 (1,109,742 states) | `NoneLost`, and `ReturnedIsQueued`: an `enqueue()` that returned has its record stored and its key queued: hold while no caller had to await a full queue |
| `account_safety` | 3 requests, two of one person and one of another, with 2 workers (3,013,044 states) | `TokenOfOwnConnection` and `NobodyForgotten` hold as long as no two threads meet inside the lock's code |
| `account_live` | 2 requests of two persons, one with credentials that Deribit refuses (23,296 states) | `WorkersEnd` holds: a worker ends but for five reasons it names |
| `signal_calls` | 3 concurrent calls, tasks that run, fail or are cancelled (38,774 states) | `NothingLeft` and `CallsEnd` hold: the handlers get in each other's way without harm, unless a task failed |
| `price_rounds` | one feed, one postman, 2 tickers with 2 prices each and one that the feed does not support, 2 persons with a connection each, copies that change (236,424 states) | `OnlyUnpricedBorrow`, `NoOlderThanRound`, `CatchesUp` and the refinement `Mailed` hold |
| `worker_pool` | 2 requests with their two threads, a dictionary of 2 that may hold persons of earlier requests, a queue of 2 factories (784,432 states) | `OneWaits`, `SizeBound`, `LostOnlyWhenFull`, `PoolRefilled` hold |

Every property of a passing run has a mutant in `PROJECT.json`: a definition with a
plausible mistake, written next to the original, with which the run fails.

**Why the bounds are enough to be interesting.**  In `sse` a queue of one
message and two broadcasts make `put()` block and let the second call wait behind the
first; two keys let one table entry vanish while the other is served (the first reader
may have one of them and the second one both: every other choice is one of these with other names); one reader that
broadcasts gives the interleaving of a generator with itself.  In the stream runs two
prices are needed for `Fresh`, the second key for the record of somebody else.  In the book
two requests suffice for one to overwrite the other's answer or overtake its write; an event
is a successful change of the book or a restart, and four of them contain "a creates, b
creates, a cancels, b creates".  In the queue three requests with a queue of two reach
the full queue, the caller who finds the deque already emptied, and the newcomer between
the two reads of the deque.  In `account_safety` the two requests of one person share its
object, or make two objects of which one replaces the other, also by the second store of an object that was
fetched before; the second worker meets the lock when it is open, taken, or bound to the loop of a worker that
waited for it, and the key of the third request lets one worker go on while the other one waits.  Three workers
at one lock are covered by the proofs only.  In `signal_calls` two handlers suffice for the `KeyError`; the third one waits
meanwhile or needs what they leave.  In `price_rounds` two tickers and two prices are what it takes to
carry the price of one ticker to an address of the other and to have an older and a newer one; the
third ticker is accepted by `create_order()` and not supported by the feed, and stands
between two others or behind a list of two (where it is the first, `CatchesUp` promises nothing, and no copy of the instance has it there);
a person without a connection breaks every round that reaches it;
feed and postman interleave at every await.  In `worker_pool` a dictionary of two
with two threads is full, drops a person in use, and lets both threads pop the same key; two workers empty the
queue between the test and the take of each other, and one of them is refused because the
other waits.  Request names in
`RequestQueue`, and the two requests of one person in `account_safety`, are interchangeable
and no liveness is checked there, so symmetry reduction is sound.  `CHECK_DEADLOCK FALSE` is
used where each request is served once or each history is bounded, so that the instance
really ends.

**The hypothesis `torn`.**  The lock of `task_account()` is made for one event loop and used
by several threads.  Between its test and its assignment, and between a release and the
completion of the waiter's future, another thread may enter the same code; then two workers
may both hold it.  `torn` records that this happened.  The model has those behaviours, and the
two safety properties do not speak of them; they say that nothing *else* breaks them: not the
refused tasks, not the sleeping waiter, not the person object replaced under a session,
not an error in the middle of a session.

**Fairness.**
* `SSEManager`: weak fairness of each task's next step (asyncio's ready queue is first in,
  first out; Redis and the database answer or time out) and of each reader's `Take`
  as long as it is not gone.
  Nothing is assumed of the calls themselves.  `OperationsEnd` excepts what `Jam` names: a broadcast
  that awaits the full queue of a reader which is gone, or is itself in an operation and so does not read.
  `event_generator` can be both; that is what the `EventStream` runs are about.
* `EventStream`: weak fairness of generators and timers, of the expiry of records nobody
  fills (they have a TTL of an hour); strong fairness of successful `Scan`, `Fetch`
  and `RedisDeletes`, because Redis may fail again and again but not for ever.  The postman,
  the feed, the browsers, failures and restarts have no fairness.
* `SignalScheduler`: weak fairness of each handler and of each delayed task (timers fire, the event loop
  runs what is ready in order of arrival).  A task may fail or succeed, and no call
  is assumed to be made or to time out.
* `PriceRounds`: weak fairness of each process (it goes on with its round: every await has a timeout or
  ends in an error) and strong fairness of the two starts, whichever process takes them (beat sends
  both tasks every minute; the queue of Celery is first come, first served).  `CatchesUp` has
  the hypothesis `Calm`, from some time on: no call fails and the subscriptions stay; and that
  everybody in them stays connected.  Nothing is assumed of connections, of the API process or of failures.
* `WorkerPool`: weak fairness of the thread of `start_worker()` while Redis answers, and of each
  worker.  Whether Redis fails is not restricted: `PoolRefilled` says that the queue is filled again and
  again or the filler is dead.
* `AccountTask`: weak fairness of each worker's lock operations and of its other steps (a thread
  runs until it ends; sends and receives have timeouts); strong fairness of
  `Authenticated` and `Answered`: to right credentials Deribit may answer with an error
  again and again, but not for ever.  Nothing is assumed for wrong credentials, of
  arrivals, of the threads that make the persons, or of expiry.  `WorkersEnd` names what remains:
  a worker of a person whose credentials are refused (the loop at
  `task_account_user.py:98` starts again without a limit), a worker that waits for a factory of clients (l. 37), for a
  key that another one took since its test (l. 58, 61) or for the lock (l. 71) on a loop that nobody wakes, a torn lock.

**Disagreements between the code and what is written about it** (findings):
1. `stream_starved` – `event_generator` overwrites `result_dict` in its loop over the
   scanned keys and broadcasts only the last record (`functions.py:316-329`); a
   reader whose key is not last is never sent its price.
2. `stream_jammed` – no way out of `event_generator` unsubscribes; the queue of a reader that is
   gone fills up and `broadcast` awaits `put()` for ever with the lock.

Met while reading and modelled, but without a run:
* In the book: each `set_cache()` sends its snapshot on a connection of its own, so an older one may
  arrive last and the ticker added last is not among the addresses the postman reads
  (`SubscriptionBook!RedisWrites`); for a ticker already in it `create_order` appends the request id, not the
  person (`deribit_currency.py:111`), and answers 201, where `api_users.py:50` promises the
  user data every minute; one `Response` object serves all requests, so the client of an
  added ticker may be answered 404 (`deribit_currency.py:73`); the route of `cancel_order`
  is a literal and its parameter does not fill `user_id`, so a cancellation is always
  refused with 401 (`SubscriptionBook!Cancel` has only that outcome); `cancel_all_orders`
  changes the lists, then answers 500 and leaves the copy in Redis as it was; `create_order`'s
  last branch (l. 100) is dead; the header name it looks for (`'"X-Request-ID"'`, with the
  quotes) never matches, so the id is a fresh uuid (`Uuid`).
* In the manager: a `DEL` that timed out or was cancelled is out of the lock's reach, and may remove the record of a
  connection that subscribed meanwhile (`LateDelete`; `OnlyUnwatchedDeleted` says that nothing else does).  And the record
  of a new connection is stored before its generator subscribes (`api_sse_monitoring.py:103-106`): a broadcast in between deletes it with
  the lock held, as the code means it for a key without a subscriber; no property speaks of that window.
* In the request queue: `enqueue()` computes the keys from the whole deque after its await, so the key of a
  newcomer may be queued before its record is written (`Gathered`, `Written`); a worker that is fast enough reads nothing
  and its task fails.  `ReturnedIsQueued` is what remains true: once the newcomer's own call
  returned, the record is there.
* In the price rounds: a person whose ticker has no row yet is sent the price of the address before it,
  because `serialize_json` is made once for a round (`task_send_every_60_seconds.py:52, 187`;
  `SelectsNothing`).  `OnlyUnpricedBorrow` says that this happens in no other case; `README.md:97` of the repository
  («Отправляем ticker в качестве подписки для получения свежих данных», the ticker is sent as the subscription for
  fresh data) says otherwise.  The first address without a record ends the round for
  all behind it (`FindsNoKey`), so a request id in a list (see the book) stops the postman there in every
  round.  The feed supports BTC, ETH and DOT (`deribit_person.py:80`) and skips any other ticker without an error
  (`task_add_every_60_seconds.py:64`, `FeedTakes`), while `create_order()` accepts e.g. `sol_usdc`: its person is never sent its own
  price, only that of the address before; and if it is the first in the copy, every round of the postman ends there
  (`HasNoPrice`).  `Priced` in `CatchesUp` is this exception.  The feed looks for the error under the misspelt key "errror" (`task_add_every_60_seconds.py:89, 106`): an
  error answer ends the round (`Fails`).
* In the dictionary of persons: a full dictionary drops its first person also when the key to be stored is already in it,
  and `create_person_manual()` stores every person twice, so that one new request may drop two others
  (`Measures`); two threads that pop the same key give one of them a `KeyError` and its request no person
  (`Pops`; `LostOnlyWhenFull`).
* In the pool: the first worker that finds the queue of factories empty binds it to its own loop and falls asleep, because
  the `put()` comes from another thread; every later one that finds it empty gets a `RuntimeError` (`Sleeps`, `Refused`, `OneWaits`).
  One failure of Redis at `deribit_clients.py:212` ends the filling for good (`Dies`).
* In the account task: a worker that saw a key by `qsize()` (`task_account_user.py:58`) may find it taken at `get()`: it waits
  on its own loop, which the `put()` of the main loop does not wake, or gets a `RuntimeError` when another worker waited before
  (`Outrun`, `Hang`).  `create_person_manual()` stores again the object it fetched, which may be older than the one in the
  dictionary by then (`Store`).  Only the first person enters "deribit:person", because for every other one
  the list at `task_account_user.py:200` is empty and the `IndexError` of `[0]` is swallowed
  by the Redis context manager (`MergeFails`; `deribit_person.py:76-77` expects the
  person there).  A waiter whose loop fell asleep keeps its future in the lock, and every
  later worker that has to wait gets a `RuntimeError` (`Sleep`, `Refused`).  With wrong credentials the worker authenticates
  for ever and keeps the lock.  The deadline of 5 s of which `functions.py:133-136` speaks
  ends the `join()`, not the thread.
* In the scheduler: two calls at once (two tabs) find the same entry in their copies, and the
  second one to delete it gets the `KeyError` whose argument is the id: this, and not two
  loops, is the error quoted in the TODO at `signals.py:158-163`, and it does no harm
  (`Raise`, `NothingLeft`).  A task whose thread cannot be started leaves an entry that is never
  deleted; with a second entry every handler goes round for ever, although
  `signals.py:207` promises at most five tries (`CallsEnd` excepts it).  A task that is
  cancelled by the timeout leaves an entry that ends every later call with a
  `CancelledError` (`Abort`), the retry of `signals.py:197` included.  A call may end
  before its own task has run, when the error finds one entry left; the handler that deleted
  the other entry then serves it, because the lock is first in, first out (`NothingLeft`;
  checked once with four calls as well).

## 4. What is proved

TLAPS checks, for every value of the constants allowed by the named assumptions, every invariant and
every safety or action property that the passing runs check, and the refinements of `PubSub` and of
`Mailbox` (twice).  Two theorems have a hypothesis about how many there are: `Fresh` is proved for one reader and
`NeverBack` for one postman, and with two of them TLC finds a counterexample to each.  Where the
provers cannot reach liveness they prove its safety core, that in every reachable state somebody can go on, or else who cannot and
why: `OnlyJamsBlock`, `OnlyFullQueuesBlock`, `NobodyIsStuck`, `SleeperShutsLock`.  `PROJECT.json` lists the theorems; the argument of each module is this.

`SSEManagerProofs` (from `SSEAssumption`: the names of nobody and of no key are none, the
clients are tasks, queues have a positive size): `IInv`, `ExactlyOnce`, `CallOrder`, `QueueBound`,
`TableStable`, `OnlyUnwatchedDeleted`, and `ManagerImplementsPubSub`.  `OnlyUnwatchedDeleted` is about the sending of a `DEL`
as much as about its effect: while a broadcast awaits `delete_key()` nobody subscribes to its key, which is the lock's doing, so a `DEL`
that is executed in time hits no watched record, and one that is given up was sent for an unwatched key; a watched record
goes only by one of those.
`ExactlyOnce` is not inductive.  What makes it so is the account of a call in progress:
while the owner is blocked in `put()`, those in `sent[message].to` outside `todo` already
have the message and those inside do not (`LedgerInv`, `StreamInv`).  That in turn needs that
only one operation runs (`LockInv`, with a task waiting at most once), that only a blocked
broadcast has queues to serve (`SweepInv`), that every queue to be served is still
in the table (`TableStable`: only the first waiter of a *free* lock changes it), and for
`CallOrder` that waiting broadcasts stand in the order of their tickets, all later than
the message being served (`TicketInv`).  The proof follows these parts: types, then lock
(`LockSteps` says what any step may do to it), tickets, table, then streams and the account,
each a lemma with one step per action; the last steps combine them with `PTL`.
`OnlyJamsBlock`: as long as a task is in an operation, a task is `Ready` (it has an answer coming, room in the queue, the free lock,
or a message to read), unless the owner of the lock awaits the full queue of a reader that is gone or is in an operation
itself.  It needs that the tasks in an operation are the owner and those in the line (`InLine`), and that
the lock is nobody's only when its first waiter may take it.

`EventStreamProofs` (from the assumption of `EventStream`): `TypeOK`, `LockNotAbandoned`, `OwnMessages`, `QueueBound`,
`OnlyFullQueuesBlock`, `Fresh` and `Mailed`.  The inductive invariant adds what the generators rely on: one between its scan and the end of
its broadcast has a key (`Chosen`), nobody stands in the line twice, so that a cancelled one leaves it
altogether (`OnceInLine`), who is blocked in `put()` or deletes has the lock (`Holding`), and the queues a
broadcast has still to serve are those of its own key (`Aimed`).  `OnlyFullQueuesBlock` needs where those stand
who cannot go on: who wants the lock is in its line, the queue a broadcast awaits is one it has not reached, and its
reader has subscribed (`WaitInv`).  `Fresh` has the hypothesis that all readers are the same one.  An older price could only arrive
later from its queue, from what its generator carries, from its record or from the postman, and `FreshInv` orders them:
what was sent last is not newer than the queue, nor that than what is carried, nor that than the record, the
postman's price and the database.  With two readers that share a
key the property is false: the generator that read the older price may be the later one to broadcast it.
For the refinement, the postman carries a price the
database has (`Postable`); each step is a step of the mailbox on one record or leaves all of them alone.

`SubscriptionBookProofs` (from the assumption of `SubscriptionBook`): `TypeOK`, `FirstStaysBooked`, `CancelAllRemoves` and `CopiesNotAhead`.
They are inductive together with `Once`: a person stands in a list once, since `cancel_all_orders()` removes one
occurrence only.  The properties speak of the last event of some kind in `log`; `SinceThen` says how that changes
when an event is appended.  `RemoveFirst` of the community modules chooses the least index, which exists by `Least`.

`RequestQueueProofs` (from `QueueAssumption`: a positive queue size and a name for no request): `TypeOK`, `NoneLost`
and `ReturnedIsQueued`.  `NoneLost` is inductive with `TypeOK`, which says that who has keys left to put awaits a
full queue and has set `jammed`; so as long as it is unset, `PutAll` moves the whole deque behind the
queue and the concatenation does not change (`PutAllCases`, `Cut`, `Shift`).  `ReturnedIsQueued` needs where a request
is before its call returns: its record is being written or is stored, its key is in the deque or was queued by
somebody else (`Underway`).  `ServedOnceInOrder`: the keys the workers took, with those in the queue, are different, and
are the front of the calls in their order.  It follows from `NoneLost` and that a request calls once (`CalledOnce`,
`FrontOf`), for any number of workers.  After `jammed` it is false: TLC shows a key with two workers.

`AccountTaskProofs` (from `AccountAssumption`: every request has a person, some persons have
right credentials, a name for no request): `TypeOK`, `TokenOfOwnConnection` and `NobodyForgotten`.
`IInv` is the types and, unless the lock is torn, three parts.  `LockInv`: one thread is in the
lock's code, one worker is inside, whoever tested the lock or opened it finds it open.  `TokenInv`:
a person has a token only during the session of the connection it was given on.
`SessionInv`: a query carries that token, and the record read for a merge is not behind the one in
Redis.  `TokenOfOwnConnection` alone is not inductive: that `Send` finds no token of an earlier
session is `TokenInv`, and that no other worker is in a session of the same person is
`LockInv`.  The proof shows which lock steps are possible (`LockSteps`) and that they keep
`LockInv` (`LockKept`), that steps outside a session disturb neither of the other parts
(`QuietSteps`), and then the steps of a session one by one (`SessionKept`).
`LockExcludes`, the mutual exclusion on which all this rests, is a theorem of its own.  `SleeperShutsLock` needs no
`torn`: only the worker whose loop the lock belongs to ever waits for it (`WaiterInv`), so once that loop sleeps its waiter stays, and every
worker that asks ends with a `RuntimeError`.  This is one of the exceptions of `WorkersEnd`, and nothing ends it.

`SignalSchedulerProofs` (from `SignalAssumption`: a name for nobody): `TypeOK`, `NothingLeft`, and that an entry whose task has
still to run is never lost, failures and timeouts included (`EntriesAreKept`).  `NothingLeft` is the one that needs an idea: `_tasks`
is a *queue*.  New entries go behind it, and only its first is ever deleted, because every handler works from the
front and a copy that still finds its first entry has lost nothing in front of it (`FoundIsFirst`).  So what is left of a copy is
a part that is gone and the front of the queue as it is (`Behind`).  A handler ends on a `KeyError` only from behind;
whoever made it so deleted an entry with the lock, and its own copy lacks nothing when it queues up again, as the last in
line (`GoesOn`).  Hence as long as an entry is left somebody sleeps, runs, has the lock, or stands last with
a complete copy.  That `_tasks` is a queue is the action property `FirstInFirstOut`.  `NobodyIsStuck`: while a handler has not ended,
somebody is `Ready` (its task due, its sleep over, the lock its own, the task it looks at made).  A handler
could be stuck only on an entry whose task nobody made, and a call makes its task at once (`Started`); what `CallsEnd` excepts is
therefore handlers that go round, not a deadlock.

`PriceRoundsProofs` (from `RoundsAssumption`: copies are lists of tickers with owners, one of them empty; the names of nothing
are no values): `TypeOK`, `OnlyUnpricedBorrow`, `NoOlderThanRound` and `Mailed`.  `Carrying` is the strengthening: the price a round carries
is one the database has, not older than `base`, and of another ticker only if its own had no row when the round
began.  `TypeSplit` takes the types apart for the steps of one process, and `EndsOrAsks` says that the feed, whatever it
skips, leaves what is carried alone.
`NeverBack`: a record that holds a price of a ticker is never given an older one of it.  For one postman it is proved (`BackInv`:
only postmen carry a price, and no record is newer than the rows of its ticker or than the price of it that a postman carries); two postmen
select, wait and write in any order, and TLC finds the older price written last.

`WorkerPoolProofs` (from `DictionaryAssumption` and `PoolAssumption`: finitely many requests, positive sizes): `TypeOK`, `SizeBound`, `LostOnlyWhenFull` and
`OneWaits`.  `SizeBound` counts the threads that have still to store, and is inductive: who passes the test found less than
`MaxSize` persons, and all others store at most one each.  `LostOnlyWhenFull` is not: `Roomy` adds that nobody is about to pop a key.  `OneWaits` is that only the one to whose loop the queue is bound waits (`Bound`).

Only model-checked: `OperationsEnd`, `EveryReaderServed`, `BroadcastReturns`, `WorkersEnd`, `CallsEnd`, `CatchesUp` and
`PoolRefilled` (liveness under fairness, and `ENABLED`, are out of the provers' reach).  No module has a `RECURSIVE` operator and no theorem
needs induction over data.

## 5. What is not modelled, and what is left to do

* **Rate limiter.** `acquire()` is never called: `DeribitManage` makes the limiter and nothing asks it.  There is no
  behaviour of the program in which it takes part.  Its Redis context manager, which hides every exception, is in
  every module as the outcome "nothing came back".
* **Database.** `asyncsession_scope()` is `PriceRounds!Commit` and `Fails`.  The start-up (`app.py:48-65`) makes the database and its
  tables in a thread that nobody joins, so that the application may serve before they exist: a statement that comes
  too early fails, which is `Fails`.  Its own steps, executed once with up to three tries, have no other actor to meet.  The
  synchronous session is tried by the postman, raises because the engine is asynchronous, and is left out.
* **Account task.** The heartbeat and reconnection inside aiohttp are left out: a session ends with an error or
  with an answer.  `task_caching_user_data` is one call of `set_record`.
* **Payloads.** What a price or an account consists of, how headers are parsed, and encryption.
* Encryption, task registry, Celery set-up, settings, models, migrations, logging and deployment have no state
  that several actors share; the HTTP, SQL and websocket libraries are modelled only by what the code sees of them.
* `_extract_ticker_from_message` of the manager and the calls of `Signal` with a `user_id` have no caller.

Left to do: compose `EventStream` with `PriceRounds` over one set of records (today each has the other as an
environment and `Mailbox` between them); the two threads of a request with `SignalScheduler` in front, so that a worker
starts when its call's delay is over; the streams with three connections, of which two share a key.
