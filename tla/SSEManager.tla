----------------------------- MODULE SSEManager -----------------------------
(***************************************************************************)
(* ServerSSEManager of cryptomarket/project/sse_manager.py: the table      *)
(* _connections of bounded asyncio queues, one per reader of the event     *)
(* stream, and the class-wide asyncio.Lock that subscribe, unsubscribe,    *)
(* broadcast and the price endpoint (api/v1/api_get_index_price.py) share. *)
(*                                                                         *)
(* Everything runs on one event loop, so tasks interleave only at awaits.  *)
(* An operation is a call, which joins the FIFO of the lock, the entry,    *)
(* made by the first waiter when the lock is free, and one further step    *)
(* per await made while the lock is held.  asyncio takes a free lock       *)
(* without suspending; here the call and the entry are two steps in that   *)
(* case too, which only adds interleavings.                                *)
(*                                                                         *)
(* A message is the number of the broadcast call it was handed to.  A      *)
(* queue is the sequence of all the messages ever put in it and the count  *)
(* of those taken out.  put_nowait() raises nothing but QueueFull, so the  *)
(* "dead queue" branch (lines 101-117) is never taken and has no action;   *)
(* a broadcast of an empty message returns before the lock (line 69) and   *)
(* changes nothing.                                                        *)
(***************************************************************************)
EXTENDS Integers, SequencesExt

CONSTANTS
  Tasks,          \* the asyncio tasks of the API process
  Clients,        \* those that read a queue of their own: event_generator()
  Leavers,        \* those of them that may call unsubscribe()
  Publishers,     \* those that may call broadcast()
  Pricers,        \* those that may run get_index_price_child()
  Keys,           \* values of "mapped_key"
  keysOf,         \* bound: those that a reader may have
  NoTask, NoKey,
  QueueSize,      \* DERIBIT_QUEUE_SIZE
  MaxBroadcasts   \* bound: broadcast() calls in a behaviour

ASSUME SSEAssumption ==
  /\ Clients \subseteq Tasks
  /\ Leavers \subseteq Clients
  /\ Publishers \subseteq Tasks
  /\ Pricers \subseteq Tasks
  /\ NoTask \notin Tasks
  /\ NoKey \notin Keys
  /\ QueueSize \in Nat \ {0}
  /\ MaxBroadcasts \in Nat

ASSUME KeysOfAssumption == keysOf \in [Clients -> SUBSET Keys]

VARIABLES
  connections,    \* _connections: key -> nonempty set of queues (their clients)
  home,           \* the key a client subscribed to, NoKey before it does
  stream,         \* messages put in the queue of a client, oldest first
  taken,          \* how many of them the client took out
  owner,          \* the task that holds the lock
  waiters,        \* the tasks waiting for the lock, first come first served
  op,             \* the operation a task is in, "none" outside
  stage,          \* what the owner awaits: "put", "delete" or the answer to it
                  \* ("deleted"), or "price"; "free" without an owner
  todo,           \* queues the running broadcast has not reached
  stuck,          \* the full queue it awaits in put()
  message,        \* the message of the latest broadcast that found its key
  sent,           \* history: the broadcast calls, in call order
  ticket,         \* the call (index in sent) a task's broadcast belongs to
  gone,           \* the clients whose generator is over
  cached,         \* the "sse_connection" keys present in Redis
  late            \* the DELs of a key on their way that nobody awaits any more

readerVars == <<connections, home, stream, taken>>
lockVars   == <<owner, waiters, op, stage>>
castVars   == <<todo, stuck, message, sent, ticket>>
redisVars  == <<cached, late>>
vars       == <<readerVars, lockVars, castVars, gone, redisVars>>

Operations == {"none", "subscribe", "unsubscribe", "broadcast", "price"}
Outcomes   == {"called", "serving", "done", "unknown key", "cancelled"}
Calls      == [key : Keys, to : SUBSET Clients, state : Outcomes]

Init ==
  /\ connections = [k \in {} |-> {}]
  /\ home = [c \in Clients |-> NoKey]
  /\ stream = [c \in Clients |-> <<>>]
  /\ taken = [c \in Clients |-> 0]
  /\ owner = NoTask
  /\ waiters = <<>>
  /\ op = [t \in Tasks |-> "none"]
  /\ stage = "free"
  /\ todo = {}
  /\ stuck = NoTask
  /\ message = 0
  /\ sent = <<>>
  /\ ticket = [t \in Tasks |-> 0]
  /\ gone = {}
  /\ cached = {}
  /\ late = [k \in Keys |-> 0]

-----------------------------------------------------------------------------
(* The lock. *)

\* Mutant: the latest caller goes first.
RequestInFront(t, o) ==
  /\ op[t] = "none"
  /\ t \notin gone
  /\ op' = [op EXCEPT ![t] = o]
  /\ waiters' = <<t>> \o waiters
  /\ UNCHANGED <<owner, stage>>

\* Task t, doing nothing, starts operation o and queues for the lock.
Request(t, o) ==
  /\ op[t] = "none"
  /\ t \notin gone
  /\ op' = [op EXCEPT ![t] = o]
  /\ waiters' = Append(waiters, t)
  /\ UNCHANGED <<owner, stage>>

\* Mutant: the lock is not looked at.
AdmittedAnyway(t, o) ==
  /\ waiters # <<>>
  /\ Head(waiters) = t
  /\ op[t] = o

\* The lock is free and t, first in the queue, is in operation o.
Admitted(t, o) ==
  /\ owner = NoTask
  /\ waiters # <<>>
  /\ Head(waiters) = t
  /\ op[t] = o

\* t enters and leaves the critical section without awaiting in between.
PassThrough(t) ==
  /\ waiters' = Tail(waiters)
  /\ op' = [op EXCEPT ![t] = "none"]
  /\ UNCHANGED <<owner, stage>>

\* t enters the critical section and awaits s in it.
Hold(t, s) ==
  /\ waiters' = Tail(waiters)
  /\ owner' = t
  /\ stage' = s
  /\ UNCHANGED op

\* Mutant: the critical section is left without releasing the lock.
ReleaseForgotten(t) ==
  /\ stage' = "free"
  /\ op' = [op EXCEPT ![t] = "none"]
  /\ UNCHANGED <<owner, waiters>>

Release(t) ==
  /\ owner' = NoTask
  /\ stage' = "free"
  /\ op' = [op EXCEPT ![t] = "none"]
  /\ UNCHANGED waiters

-----------------------------------------------------------------------------
(* subscribe() and unsubscribe() *)

Members(k) == IF k \in DOMAIN connections THEN connections[k] ELSE {}

\* Mutant: the last unsubscription leaves its key with an empty set.
RebindWithoutDel(k, S) ==
  [x \in DOMAIN connections \cup {k} |-> IF x = k THEN S ELSE connections[x]]

\* The dictionary connections with the set S under key k, or without k.
Rebind(k, S) ==
  [x \in IF S = {} THEN DOMAIN connections \ {k} ELSE DOMAIN connections \cup {k}
     |-> IF x = k THEN S ELSE connections[x]]

\* event_generator() subscribes once, with a queue made by the call.
CallSubscribe(c, k) ==
  /\ home[c] = NoKey
  /\ k \in keysOf[c]
  /\ Request(c, "subscribe")
  /\ home' = [home EXCEPT ![c] = k]
  /\ UNCHANGED <<connections, stream, taken, castVars, gone, redisVars>>

Subscribe(c) ==
  /\ Admitted(c, "subscribe")
  /\ connections' = Rebind(home[c], Members(home[c]) \cup {c})
  /\ PassThrough(c)
  /\ UNCHANGED <<home, stream, taken, castVars, gone, redisVars>>

CallUnsubscribe(c) ==
  /\ c \in Leavers
  /\ home[c] # NoKey
  /\ Request(c, "unsubscribe")
  /\ UNCHANGED <<readerVars, castVars, gone, redisVars>>

Unsubscribe(c) ==
  /\ Admitted(c, "unsubscribe")
  /\ connections' = Rebind(home[c], Members(home[c]) \ {c})
  /\ PassThrough(c)
  /\ UNCHANGED <<home, stream, taken, castVars, gone, redisVars>>

-----------------------------------------------------------------------------
(* broadcast() *)

\* Mutant: one message too many fits.
FullTooLate(c) == Len(stream[c]) - taken[c] > QueueSize

Full(c) == Len(stream[c]) - taken[c] >= QueueSize

Give(S, m) ==
  stream' = [c \in Clients |-> IF c \in S THEN Append(stream[c], m) ELSE stream[c]]

CallBroadcast(t, k) ==
  /\ Len(sent) < MaxBroadcasts
  /\ Request(t, "broadcast")
  /\ sent' = Append(sent, [key |-> k, to |-> {}, state |-> "called"])
  /\ ticket' = [ticket EXCEPT ![t] = Len(sent) + 1]
  /\ UNCHANGED <<readerVars, todo, stuck, message, gone, redisVars>>

\* The queues of S, visited in the order of the set, take the message of
\* call m up to the end or up to a queue that is full: D is what they reach.
Reaches(S, D) == D \subseteq S /\ \A c \in D : ~Full(c)

\* Broadcast m meets no full queue: it is delivered and the call returns.
Finish(m, S, audience) ==
  /\ Give(S, m)
  /\ sent' = [sent EXCEPT ![m] = [@ EXCEPT !.to = audience, !.state = "done"]]
  /\ todo' = {}
  /\ stuck' = NoTask

\* Mutant: after the wait the queue that was full is skipped.
BlockAndSkip(m, S, D, c, audience) ==
  /\ c \in S \ D
  /\ Full(c)
  /\ Give(D, m)
  /\ sent' = [sent EXCEPT ![m] = [@ EXCEPT !.to = audience, !.state = "serving"]]
  /\ todo' = S \ (D \cup {c})
  /\ stuck' = c

\* It is delivered to D, then awaits room in the queue of c.
Block(m, S, D, c, audience) ==
  /\ c \in S \ D
  /\ Full(c)
  /\ Give(D, m)
  /\ sent' = [sent EXCEPT ![m] = [@ EXCEPT !.to = audience, !.state = "serving"]]
  /\ todo' = S \ D
  /\ stuck' = c

Audience(t) == Members(sent[ticket[t]].key)

BroadcastToAll(t) ==
  /\ Admitted(t, "broadcast")
  /\ sent[ticket[t]].key \in DOMAIN connections
  /\ Reaches(Audience(t), Audience(t))
  /\ Finish(ticket[t], Audience(t), Audience(t))
  /\ message' = ticket[t]
  /\ PassThrough(t)
  /\ UNCHANGED <<connections, home, taken, ticket, gone, redisVars>>

BroadcastBlocks(t) ==
  /\ Admitted(t, "broadcast")
  /\ sent[ticket[t]].key \in DOMAIN connections
  /\ \E D \in SUBSET Audience(t), c \in Audience(t) :
       /\ Reaches(Audience(t), D)
       /\ Block(ticket[t], Audience(t), D, c, Audience(t))
  /\ message' = ticket[t]
  /\ Hold(t, "put")
  /\ UNCHANGED <<connections, home, taken, ticket, gone, redisVars>>

\* Mutant: the sweep starts again from the first queue.
ResumeFromStart(t) ==
  /\ owner = t
  /\ stage = "put"
  /\ Reaches(sent[ticket[t]].to, sent[ticket[t]].to)
  /\ Finish(ticket[t], sent[ticket[t]].to, sent[ticket[t]].to)
  /\ Release(t)
  /\ UNCHANGED <<connections, home, taken, message, ticket, gone, redisVars>>

\* The awaited queue has room again: put() returns and the sweep goes on.
ResumeToAll(t) ==
  /\ owner = t
  /\ stage = "put"
  /\ Reaches(todo, todo)
  /\ Finish(ticket[t], todo, sent[ticket[t]].to)
  /\ Release(t)
  /\ UNCHANGED <<connections, home, taken, message, ticket, gone, redisVars>>

ResumeBlocks(t) ==
  /\ owner = t
  /\ stage = "put"
  /\ \E D \in SUBSET todo, c \in todo :
       /\ stuck \in D
       /\ Reaches(todo, D)
       /\ Block(ticket[t], todo, D, c, sent[ticket[t]].to)
  /\ UNCHANGED <<connections, home, taken, lockVars, message, ticket, gone, redisVars>>

\* Mutant: the record is deleted without looking for subscribers.
BroadcastDeletes(t) ==
  /\ Admitted(t, "broadcast")
  /\ sent' = [sent EXCEPT ![ticket[t]].state = "unknown key"]
  /\ Hold(t, "delete")
  /\ UNCHANGED <<readerVars, todo, stuck, message, ticket, gone, redisVars>>

\* Nobody is subscribed to the key: its record is deleted from Redis, with
\* the lock held, for at most 7 seconds.
BroadcastMisses(t) ==
  /\ Admitted(t, "broadcast")
  /\ sent[ticket[t]].key \notin DOMAIN connections
  /\ sent' = [sent EXCEPT ![ticket[t]].state = "unknown key"]
  /\ Hold(t, "delete")
  /\ UNCHANGED <<readerVars, todo, stuck, message, ticket, gone, redisVars>>

Key(t) == sent[ticket[t]].key

\* Redis executes the DEL that is awaited.
RedisDeletes ==
  /\ stage = "delete"
  /\ stage' = "deleted"
  /\ cached' = cached \ {Key(owner)}
  /\ UNCHANGED <<readerVars, owner, waiters, op, castVars, gone, late>>

\* The owner no longer awaits its DEL, which may be on its way to Redis.
GivesUp(t) ==
  \/ UNCHANGED late
  \/ stage = "delete" /\ late' = [late EXCEPT ![Key(t)] = @ + 1]

\* delete_key() returned, failed before Redis had the DEL, or timed out.
DeleteEnds(t) ==
  /\ owner = t
  /\ stage \in {"delete", "deleted"}
  /\ GivesUp(t)
  /\ Release(t)
  /\ UNCHANGED <<readerVars, castVars, gone, cached>>

-----------------------------------------------------------------------------
(* The other users of the lock and of the queues *)

\* get_index_price_child(): the database is read with the lock held.
CallPrice(t) ==
  /\ Request(t, "price")
  /\ UNCHANGED <<readerVars, castVars, gone, redisVars>>

PriceEnters(t) ==
  /\ Admitted(t, "price")
  /\ Hold(t, "price")
  /\ UNCHANGED <<readerVars, castVars, gone, redisVars>>

PriceEnds(t) ==
  /\ owner = t
  /\ stage = "price"
  /\ Release(t)
  /\ UNCHANGED <<readerVars, castVars, gone, redisVars>>

\* A reader, in none of the operations above, takes a message.
Take(c) ==
  /\ op[c] = "none"
  /\ c \notin gone
  /\ taken[c] < Len(stream[c])
  /\ taken' = [taken EXCEPT ![c] = @ + 1]
  /\ UNCHANGED <<connections, home, stream, lockVars, castVars, gone, redisVars>>

\* The generator of a client that is gone, or an error in it, ends outside of the
\* manager: its queue stays in the table and is never read again.
Depart(c) ==
  /\ op[c] = "none"
  /\ home[c] # NoKey
  /\ c \notin gone
  /\ gone' = gone \cup {c}
  /\ UNCHANGED <<readerVars, lockVars, castVars, redisVars>>

\* The web server cancels a task whose client went away: while it waits ...
CancelWaiter(t) ==
  /\ \E i \in 1 .. Len(waiters) : /\ waiters[i] = t
                                  /\ waiters' = RemoveAt(waiters, i)
  /\ op' = [op EXCEPT ![t] = "none"]
  /\ sent' = IF op[t] = "broadcast"
             THEN [sent EXCEPT ![ticket[t]].state = "cancelled"] ELSE sent
  /\ gone' = gone \cup ({t} \cap Clients)
  /\ UNCHANGED <<readerVars, owner, stage, todo, stuck, message, ticket, redisVars>>

\* ... or inside the critical section, which "async with" leaves.
CancelOwner(t) ==
  /\ owner = t
  /\ Release(t)
  /\ GivesUp(t)
  /\ todo' = {}
  /\ stuck' = NoTask
  /\ sent' = IF stage = "put"
             THEN [sent EXCEPT ![ticket[t]].state = "cancelled"] ELSE sent
  /\ gone' = gone \cup ({t} \cap Clients)
  /\ UNCHANGED <<readerVars, message, ticket, cached>>

\* enqueue() and the postman write the record of a connection in Redis.
Store(k) ==
  /\ k \notin cached
  /\ cached' = cached \cup {k}
  /\ UNCHANGED <<readerVars, lockVars, castVars, gone, late>>

\* Redis executes a DEL that nobody awaits, or never gets it.
LateDelete(k) ==
  /\ late[k] > 0
  /\ late' = [late EXCEPT ![k] = @ - 1]
  /\ cached' \in {cached, cached \ {k}}
  /\ UNCHANGED <<readerVars, lockVars, castVars, gone>>

-----------------------------------------------------------------------------

\* What the owner of the lock, or the next one, does by itself.
Progress(t) ==
  \/ t \in Clients /\ (Subscribe(t) \/ Unsubscribe(t))
  \/ BroadcastToAll(t) \/ BroadcastBlocks(t) \/ ResumeToAll(t) \/ ResumeBlocks(t)
  \/ BroadcastMisses(t) \/ DeleteEnds(t)
  \/ PriceEnters(t) \/ PriceEnds(t)

Next ==
  \/ \E c \in Clients :
       (\E k \in Keys : CallSubscribe(c, k)) \/ CallUnsubscribe(c) \/ Take(c) \/ Depart(c)
  \/ \E t \in Publishers, k \in Keys : CallBroadcast(t, k)
  \/ \E t \in Pricers : CallPrice(t)
  \/ \E t \in Tasks : Progress(t) \/ CancelWaiter(t) \/ CancelOwner(t)
  \/ RedisDeletes
  \/ \E k \in Keys : Store(k) \/ LateDelete(k)

Spec == Init /\ [][Next]_vars

\* The event loop runs every task that can run, Redis and the database
\* answer or time out, and a reader goes on reading its queue until it is over.
Fairness == /\ \A t \in Tasks : WF_vars(Progress(t))
            /\ \A c \in Clients : WF_vars(Take(c))

FairSpec == Spec /\ Fairness

-----------------------------------------------------------------------------
(* Properties *)

\* Types, and the shape of the table: no key of _connections has an empty set.
TypeOK ==
  /\ DOMAIN connections \subseteq Keys
  /\ connections \in [DOMAIN connections -> (SUBSET Clients) \ {{}}]
  /\ home \in [Clients -> Keys \cup {NoKey}]
  /\ stream \in [Clients -> Seq(Nat)]
  /\ taken \in [Clients -> Nat]
  /\ owner \in Tasks \cup {NoTask}
  /\ waiters \in Seq(Tasks)
  /\ op \in [Tasks -> Operations]
  /\ stage \in {"free", "put", "delete", "deleted", "price"}
  /\ todo \subseteq Clients
  /\ stuck \in Clients \cup {NoTask}
  /\ message \in 0 .. Len(sent)
  /\ sent \in Seq(Calls)
  /\ ticket \in [Tasks -> 0 .. Len(sent)]
  /\ gone \subseteq Clients
  /\ cached \subseteq Keys
  /\ late \in [Keys -> Nat]

\* Inside a critical section the table the owner works on does not change:
\* the set a broadcast iterates over keeps all the queues still to be served
\* (broadcast, sse_manager.py:95) and a key found missing stays missing until
\* its record is deleted (line 80).
TableStable ==
  /\ stage = "put" => todo \subseteq Members(sent[ticket[owner]].key)
  /\ stage \in {"delete", "deleted"} => Key(owner) \notin DOMAIN connections

Holds(c, m) == \E n \in DOMAIN stream[c] : stream[c][n] = m

Delivered ==
  \A i \in DOMAIN sent : sent[i].state = "done" => \A c \in sent[i].to : Holds(c, i)

Addressed ==
  \A c \in Clients : \A n \in DOMAIN stream[c] :
    stream[c][n] \in DOMAIN sent /\ c \in sent[stream[c][n]].to

\* A broadcast call that returned gave its message, once, to every queue that
\* was under its key, and no queue holds a message of a call that was not
\* addressed to it (broadcast, sse_manager.py:95-99).
ExactlyOnce ==
  /\ Delivered
  /\ Addressed
  /\ \A c \in Clients : \A i, j \in DOMAIN stream[c] : stream[c][i] = stream[c][j] => i = j

\* A reader gets its messages in the order in which broadcast was called,
\* whoever called it: the lock is first come first served and a call that
\* awaits a full queue keeps it (sse_manager.py:79, 99).
CallOrder ==
  \A c \in Clients : \A i, j \in DOMAIN stream[c] :
    i < j => stream[c][i] < stream[c][j]

\* No queue ever holds more than DERIBIT_QUEUE_SIZE messages.
QueueBound == \A c \in Clients : Len(stream[c]) - taken[c] \in 0 .. QueueSize

\* The record of a key that has a subscriber is deleted only by a DEL that was
\* sent when it had none and that its broadcast gave up, after 7 seconds or
\* cancelled; each such DEL costs one record at most.  As long as a broadcast
\* awaits its DEL, the lock spans the check and the deletion
\* (sse_manager.py:80-81, functions.py:535).
OnlyUnwatchedDeleted ==
  [][\A k \in Keys :
       /\ k \in cached \ cached' => k \notin DOMAIN connections \/ late'[k] < late[k]
       /\ late'[k] > late[k] => k \notin DOMAIN connections]_vars

\* A broadcast awaits the full queue of a reader that does not read: it is over,
\* and nothing took its queue from the table (functions.py:356-371); or it is
\* itself in an operation, and each waits for the other, as event_generator()
\* may, which both reads and broadcasts.
Jam ==
  /\ stage = "put"
  /\ stuck \in gone \/ op[stuck] # "none"

\* Every operation gets the lock and returns, also behind full queues and
\* cancelled calls, unless there is a jam (sse_manager.py:34, 49, 79).
OperationsEnd == \A t \in Tasks : op[t] # "none" ~> op[t] = "none" \/ Jam

\* The manager implements the abstract publish/subscribe service.
Abstract == INSTANCE PubSub WITH
              audience <- [k \in Keys |-> Members(k)],
              owed <- todo,
              current <- message

Implements == Abstract!Spec

-----------------------------------------------------------------------------
(* The inductive invariant behind the safety properties above. *)

\* A client that waits in subscribe or unsubscribe named its key.
KeyNamed == \A c \in Clients : op[c] \in {"subscribe", "unsubscribe"} => home[c] # NoKey

\* Who holds the lock is in one operation and does not wait; a task waits once.
LockInv ==
  /\ owner = NoTask <=> stage = "free"
  /\ owner # NoTask => op[owner] = IF stage = "price" THEN "price" ELSE "broadcast"
  /\ \A i \in DOMAIN waiters : waiters[i] # owner /\ op[waiters[i]] # "none"
  /\ \A i, j \in DOMAIN waiters : waiters[i] = waiters[j] => i = j

\* Only a broadcast blocked in put() has queues left to serve.
SweepInv ==
  /\ stage # "put" => todo = {}
  /\ stage = "put" => stuck \in todo /\ message = ticket[owner]

\* A task in broadcast has a call of its own.
TicketKnown == \A t \in Tasks : op[t] = "broadcast" => ticket[t] \in DOMAIN sent

\* The broadcasts that wait are in call order, after the latest one served.
TicketInv ==
  /\ \A i \in DOMAIN waiters : op[waiters[i]] = "broadcast" => message < ticket[waiters[i]]
  /\ \A i, j \in DOMAIN waiters :
       i < j /\ op[waiters[i]] = "broadcast" /\ op[waiters[j]] = "broadcast"
         => ticket[waiters[i]] < ticket[waiters[j]]

\* The latest message served is the largest in any queue, and is in no queue
\* that has still to get it.
StreamInv ==
  \A c \in Clients : \A n \in DOMAIN stream[c] :
    stream[c][n] <= message /\ (c \in todo => stream[c][n] < message)

Waiting == {waiters[i] : i \in DOMAIN waiters}

\* What the record of a call says while its task is in broadcast, and who
\* has the message of the call being served.
LedgerInv ==
  /\ \A t \in Waiting : op[t] = "broadcast" => sent[ticket[t]].state = "called"
  /\ stage \in {"put", "delete", "deleted"} => sent[ticket[owner]].state # "done"
  /\ stage = "put" => /\ todo \subseteq sent[message].to
                      /\ \A c \in sent[message].to \ todo : Holds(c, message)

IInv == /\ TypeOK
        /\ KeyNamed
        /\ LockInv
        /\ SweepInv
        /\ TicketKnown
        /\ TicketInv
        /\ StreamInv
        /\ LedgerInv
=============================================================================
