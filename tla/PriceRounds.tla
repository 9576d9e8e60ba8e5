----------------------------- MODULE PriceRounds -----------------------------
(***************************************************************************)
(* The rounds of the two periodic Celery tasks over the subscriptions.     *)
(* The feed (tasks/celery/task_add_every_60_seconds.py) asks Deribit for   *)
(* the price of every ticker it supports and stores a row in the database,  *)
(* the last ticker first.  The postman (task_send_every_60_seconds.py) goes through *)
(* the addresses, the pairs of a ticker and a person: it selects the       *)
(* latest row of the ticker, looks for the record of a connection of the   *)
(* person, reads it and writes it back with the price.  Both catch every   *)
(* exception and end the round.                                            *)
(*                                                                         *)
(* A round is cut at its awaits.  Every worker process runs one round at a *)
(* time; beat sends the tasks every minute, whatever became of the last    *)
(* round.  The copy of the subscriptions in Redis ("deribit_currency",     *)
(* the variable cache of SubscriptionBook) is replaced by the API process. *)
(***************************************************************************)
EXTENDS Integers, SequencesExt

CONSTANTS
  Processes,   \* worker processes (worker_concurrency)
  Feeders,     \* bound: the processes that take the feed
  Postmen,     \* bound: the processes that take the postman
  Keys,        \* values of "mapped_key", one for each connection
  Owners,      \* what the lists contain: persons, and ids of requests
  person,      \* the person of each key
  Tickers,
  Supported,   \* those whose header is in SUPPORTED_CURRENCIES
  Copies,      \* the copies that Redis may have, in dictionary order
  Gone,        \* no record of a key
  Blank,       \* the record enqueue() wrote
  NoPrice, NoKey,
  MaxRows      \* bound: prices of a ticker that are told apart

\* A ticker with an empty list is passed over by both tasks (add_every l. 42,
\* send_every l. 44): the copies do without it.
Entries == [ticker : Tickers, to : Seq(Owners) \ {<<>>}]
Prices  == [ticker : Tickers, row : 1 .. MaxRows]

ASSUME RoundsAssumption ==
  /\ Feeders \subseteq Processes
  /\ Postmen \subseteq Processes
  /\ person \in [Keys -> Owners]
  /\ Supported \subseteq Tickers
  /\ Copies \subseteq Seq(Entries)
  /\ <<>> \in Copies
  /\ Gone # Blank
  /\ Gone \notin Prices
  /\ Blank \notin Prices
  /\ NoPrice \notin Prices
  /\ NoKey \notin Keys
  /\ MaxRows \in Nat \ {0}

VARIABLES
  copy,      \* Redis: the copy of the subscriptions
  record,    \* Redis: the record of each key
  rows,      \* the number of rows of each ticker in the database
  pc,        \* what a process awaits
  todo,      \* the part of the copy its round has still to handle
  carried,   \* serialize_json: the price the postman carries
  key,       \* the key it found
  base       \* history: the rows when its round started

roundVars == <<pc, todo, carried, key, base>>
vars      == <<copy, record, rows, roundVars>>

Phases == {"idle", "failed", "ask", "insert", "select", "scan", "get", "set"}

\* Between two rounds; "failed" if the last one was broken off.
Between == {"idle", "failed"}

NoRows == [t \in Tickers |-> 0]

Init ==
  /\ copy = <<>>
  /\ record = [k \in Keys |-> Gone]
  /\ rows = NoRows
  /\ pc = [p \in Processes |-> "idle"]
  /\ todo = [p \in Processes |-> <<>>]
  /\ carried = [p \in Processes |-> NoPrice]
  /\ key = [p \in Processes |-> NoKey]
  /\ base = [p \in Processes |-> NoRows]

Step(p, from, to) == pc[p] = from /\ pc' = [pc EXCEPT ![p] = to]

\* The round ends, whether it is complete or not.
Leaves(p, phase) ==
  /\ pc' = [pc EXCEPT ![p] = phase]
  /\ todo' = [todo EXCEPT ![p] = <<>>]
  /\ carried' = [carried EXCEPT ![p] = NoPrice]
  /\ key' = [key EXCEPT ![p] = NoKey]
  /\ base' = [base EXCEPT ![p] = NoRows]

End(p) == Leaves(p, "idle")

-----------------------------------------------------------------------------
(* The feed *)

\* Of the part s of its copy the feed handles the last ticker; an unsupported
\* one is skipped without a call.
FeedTakes(p, s) ==
  \/ /\ \A i \in DOMAIN s : s[i].ticker \notin Supported
     /\ End(p)
  \/ \E n \in DOMAIN s :
       /\ s[n].ticker \in Supported
       /\ \A i \in n + 1 .. Len(s) : s[i].ticker \notin Supported
       /\ pc' = [pc EXCEPT ![p] = "ask"]
       /\ todo' = [todo EXCEPT ![p] = SubSeq(s, 1, n)]
       /\ UNCHANGED <<carried, key, base>>

FeedStarts(p) ==
  /\ p \in Feeders
  /\ copy # <<>>
  /\ pc[p] \in Between
  /\ FeedTakes(p, copy)
  /\ UNCHANGED <<copy, record, rows>>

\* popitem() takes the last ticker.
Asked(p) == Last(todo[p]).ticker

FeedGoesOn(p) == FeedTakes(p, Front(todo[p]))

Answered(p) ==
  /\ Step(p, "ask", "insert")
  /\ UNCHANGED <<copy, record, rows, todo, carried, key, base>>

\* The answer is empty (a receive that failed): the ticker is left out.
Unanswered(p) ==
  /\ pc[p] = "ask"
  /\ FeedGoesOn(p)
  /\ UNCHANGED <<copy, record, rows>>

\* The session scope commits.
Commit(t) == rows' = [rows EXCEPT ![t] = IF @ < MaxRows THEN @ + 1 ELSE @]

Inserts(p) ==
  /\ pc[p] = "insert"
  /\ Commit(Asked(p))
  /\ FeedGoesOn(p)
  /\ UNCHANGED <<copy, record>>

-----------------------------------------------------------------------------
(* The postman *)

PostStarts(p) ==
  /\ p \in Postmen
  /\ copy # <<>>
  /\ pc[p] \in Between
  /\ pc' = [pc EXCEPT ![p] = "select"]
  /\ todo' = [todo EXCEPT ![p] = copy]
  /\ carried' = [carried EXCEPT ![p] = NoPrice]
  /\ base' = [base EXCEPT ![p] = rows]
  /\ UNCHANGED <<copy, record, rows, key>>

\* The address it handles.
Ticker(p) == Head(todo[p]).ticker
Owner(p)  == Head(Head(todo[p]).to)

\* What is left of the copy after its first address.
Rest(s) ==
  IF Len(s[1].to) = 1
  THEN Tail(s)
  ELSE [s EXCEPT ![1] = [ticker |-> s[1].ticker, to |-> Tail(s[1].to)]]

\* Mutant: the round ends after the first address.
PostGoesOnOnce(p) == End(p)

PostGoesOn(p) ==
  IF Len(todo[p]) = 1 /\ Len(todo[p][1].to) = 1
  THEN End(p)
  ELSE /\ pc' = [pc EXCEPT ![p] = "select"]
       /\ todo' = [todo EXCEPT ![p] = Rest(@)]
       /\ key' = [key EXCEPT ![p] = NoKey]
       /\ UNCHANGED <<carried, base>>

\* Mutant: the rows are not ordered, so any of them may be the first.
SelectsAnyRow(p) ==
  /\ Step(p, "select", "scan")
  /\ \E n \in 1 .. rows[Ticker(p)] :
       carried' = [carried EXCEPT ![p] = [ticker |-> Ticker(p), row |-> n]]
  /\ UNCHANGED <<copy, record, rows, todo, key, base>>

\* The latest row of the ticker.
SelectsRow(p) ==
  /\ Step(p, "select", "scan")
  /\ rows[Ticker(p)] > 0
  /\ carried' = [carried EXCEPT ![p] = [ticker |-> Ticker(p), row |-> rows[Ticker(p)]]]
  /\ UNCHANGED <<copy, record, rows, todo, key, base>>

\* Mutant: the price the round carries already is used for all its addresses.
SelectsOnce(p) ==
  /\ Step(p, "select", "scan")
  /\ carried[p] # NoPrice
  /\ UNCHANGED <<copy, record, rows, todo, carried, key, base>>

\* The ticker has no row: a warning, and the price of the previous address is
\* carried on.
SelectsNothing(p) ==
  /\ Step(p, "select", "scan")
  /\ rows[Ticker(p)] = 0
  /\ carried[p] # NoPrice
  /\ UNCHANGED <<copy, record, rows, todo, carried, key, base>>

\* Nor has an address before it: serialize_json["ticker"] is a KeyError.
HasNoPrice(p) ==
  /\ pc[p] = "select"
  /\ rows[Ticker(p)] = 0
  /\ carried[p] = NoPrice
  /\ End(p)
  /\ UNCHANGED <<copy, record, rows>>

\* The keys of an owner that have a record.
KeysOf(u) == {k \in Keys : person[k] = u /\ record[k] # Gone}

\* Mutant: the pattern of the scan has no person in it.
ScansAll(p) ==
  /\ Step(p, "scan", "get")
  /\ \E k \in Keys : record[k] # Gone /\ key' = [key EXCEPT ![p] = k]
  /\ UNCHANGED <<copy, record, rows, todo, carried, base>>

\* The last key that SCAN returns, in whatever order.
Scans(p) ==
  /\ Step(p, "scan", "get")
  /\ \E k \in KeysOf(Owner(p)) : key' = [key EXCEPT ![p] = k]
  /\ UNCHANGED <<copy, record, rows, todo, carried, base>>

\* No key: an empty Lua table is encoded as {} and [-1] of it is an error.
FindsNoKey(p) ==
  /\ pc[p] = "scan"
  /\ KeysOf(Owner(p)) = {}
  /\ End(p)
  /\ UNCHANGED <<copy, record, rows>>

Gets(p) ==
  /\ Step(p, "get", "set")
  /\ record[key[p]] # Gone
  /\ UNCHANGED <<copy, record, rows, todo, carried, key, base>>

\* The record went since the scan.
GetsNothing(p) ==
  /\ pc[p] = "get"
  /\ record[key[p]] = Gone
  /\ End(p)
  /\ UNCHANGED <<copy, record, rows>>

\* Mutant: the number of the next row is written.
FillNext(p) == record' = [record EXCEPT ![key[p]] = [carried[p] EXCEPT !.row = @ + 1]]

Fill(p) == record' = [record EXCEPT ![key[p]] = carried[p]]

\* setex() writes, whether the record is still there or not.
Sets(p) ==
  /\ pc[p] = "set"
  /\ Fill(p)
  /\ PostGoesOn(p)
  /\ UNCHANGED <<copy, rows>>

-----------------------------------------------------------------------------
(* Failures and the API process *)

\* An await raises or times out, Deribit answers with an error (which l. 89 of
\* the feed misspells, so that l. 106 raises), or the worker is killed: the
\* round is over.  A write that was awaited may have been done.
Fails(p) ==
  /\ pc[p] \notin Between
  /\ \/ UNCHANGED <<record, rows>>
     \/ pc[p] = "insert" /\ Commit(Asked(p)) /\ UNCHANGED record
     \/ pc[p] = "set" /\ Fill(p) /\ UNCHANGED rows
  /\ Leaves(p, "failed")
  /\ UNCHANGED copy

\* enqueue() writes the record of a connection.
Connects(k) ==
  /\ record' = [record EXCEPT ![k] = Blank]
  /\ UNCHANGED <<copy, rows, roundVars>>

\* The record is deleted by a broadcast without readers, or expires.
Disconnects(k) ==
  /\ record' = [record EXCEPT ![k] = Gone]
  /\ UNCHANGED <<copy, rows, roundVars>>

\* A write of the API process reaches Redis, or the copy expires.
Copied ==
  /\ copy' \in Copies \ {copy}
  /\ UNCHANGED <<record, rows, roundVars>>

-----------------------------------------------------------------------------

Feed(p) == FeedStarts(p) \/ Answered(p) \/ Unanswered(p) \/ Inserts(p)

Postman(p) ==
  \/ PostStarts(p) \/ SelectsRow(p) \/ SelectsNothing(p) \/ HasNoPrice(p)
  \/ Scans(p) \/ FindsNoKey(p) \/ Gets(p) \/ GetsNothing(p) \/ Sets(p)

Environment == Copied \/ \E k \in Keys : Connects(k) \/ Disconnects(k)

Next ==
  \/ \E p \in Processes : Feed(p) \/ Postman(p) \/ Fails(p)
  \/ Environment

Spec == Init /\ [][Next]_vars

\* A process goes on with its round, and the queue of the tasks is first come
\* first served.
Fairness ==
  /\ SF_vars(\E p \in Processes : FeedStarts(p))
  /\ SF_vars(\E p \in Processes : PostStarts(p))
  /\ \A p \in Processes : WF_vars(pc[p] \notin Between /\ (Feed(p) \/ Postman(p)))

FairSpec == Spec /\ Fairness

-----------------------------------------------------------------------------
(* Properties *)

\* Types; a postman that looks for a key has a price, one that reads a record
\* has a key, and both are of the address it handles.
TypeOK ==
  /\ copy \in Copies
  /\ record \in [Keys -> {Gone, Blank} \cup Prices]
  /\ rows \in [Tickers -> 0 .. MaxRows]
  /\ pc \in [Processes -> Phases]
  /\ todo \in [Processes -> Seq(Entries)]
  /\ carried \in [Processes -> Prices \cup {NoPrice}]
  /\ key \in [Processes -> Keys \cup {NoKey}]
  /\ base \in [Processes -> [Tickers -> 0 .. MaxRows]]
  /\ \A p \in Processes :
       /\ pc[p] \notin Between => todo[p] # <<>>
       /\ pc[p] \in {"scan", "get", "set"} => carried[p] # NoPrice
       /\ pc[p] \in {"get", "set"} => key[p] \in Keys /\ person[key[p]] = Owner(p)

\* A round never fills a record with a price that was out of date when the
\* round started, although the price is carried from one address to the next
\* and over four awaits (send_every l. 52, 90, 224).
NoOlderThanRound ==
  [][\A k \in Keys :
       record'[k] # record[k] /\ record'[k] \in Prices
         => \E p \in Processes : /\ pc[p] = "set" /\ key[p] = k
                                 /\ record'[k].row >= base[p][record'[k].ticker]]_vars

\* A person is sent the price of another address's ticker only while its own
\* ticker had no row when the round started, as an unsupported one never has
\* (send_every l. 84, 187).
OnlyUnpricedBorrow ==
  \A p \in Processes :
    pc[p] \in {"scan", "get", "set"}
      => carried[p].ticker = Ticker(p) \/ base[p][Ticker(p)] = 0

\* All owners in the copy have a record.
AllConnected ==
  \A i \in DOMAIN copy : \A j \in DOMAIN copy[i].to : KeysOf(copy[i].to[j]) # {}

Listed(k, i) == person[k] \in ToSet(copy[i].to)

\* k is the only record of its person, which is in the list of one ticker.
Sole(k) ==
  /\ KeysOf(person[k]) = {k}
  /\ \E i \in DOMAIN copy : \A j \in DOMAIN copy : Listed(k, j) <=> j = i

\* Its ticker is one the feed asks for, and so is the first of the copy: without
\* a row of that one every round of the postman is over at once.
Priced(k) ==
  \A i \in DOMAIN copy : i = 1 \/ Listed(k, i) => copy[i].ticker \in Supported

Newest(k) ==
  \E i \in DOMAIN copy :
    Listed(k, i) /\ record[k] = [ticker |-> copy[i].ticker, row |-> MaxRows]

\* The subscriptions stay as they are, and no call fails.
Calm ==
  [][/\ UNCHANGED copy
     /\ \A p \in Processes : /\ ~Unanswered(p)
                             /\ pc'[p] = "failed" => pc[p] = "failed"]_vars

\* When the calls succeed, the subscriptions stay and everybody in them stays
\* connected, then every person with one record and one supported ticker is
\* again and again sent the newest price of it, also behind a ticker without a
\* price, unless that is the first of all (add_every l. 59, 64, send_every l. 53).
CatchesUp ==
  \A k \in Keys :
    <>Calm /\ <>[](AllConnected /\ Sole(k) /\ Priced(k)) => []<>Newest(k)

\* The records are a mailbox.
Box == INSTANCE Mailbox

Mailed == Box!Spec
=============================================================================
