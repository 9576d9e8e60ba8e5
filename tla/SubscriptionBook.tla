-------------------------- MODULE SubscriptionBook --------------------------
(***************************************************************************)
(* CryptoCurrency of cryptomarket/deribit_client/deribit_currency.py: the  *)
(* book currency_dict of who receives which ticker, kept in the memory of  *)
(* the API process, its copy in Redis, written by set_cache() and read by  *)
(* the postman, and the ONE Response object that all requests share.       *)
(*                                                                         *)
(* The handlers of the routes in api/v1/api_users.py run on one event      *)
(* loop; only create_order() awaits between a change and its answer, while *)
(* the copy travels to Redis.  The snapshot is taken when the write is     *)
(* issued, on a connection of its own, so writes may arrive in any order,  *)
(* also after set_record() gave up on them.  A request is answered with    *)
(* the status the shared response has when its handler returns.            *)
(*                                                                         *)
(* Whether __check_received_data() accepts a person and a ticker depends   *)
(* on other components, so a request may always be rejected.  The book     *)
(* never reaches its maxsize (5000): there are fewer tickers.              *)
(***************************************************************************)
EXTENDS Integers, SequencesExt

CONSTANTS
  Requests,     \* HTTP connections, each making one request after another
  Operations,   \* the routes they call, a subset of Routes
  Faults,       \* what may happen to the process and to Redis
  Persons,
  Tickers,
  Uuid,         \* the request id that create_order() appends to a list
  MaxEvents     \* bound: the events in the history

Routes == {"create", "get", "cancel", "cancel all"}

ASSUME BookAssumption ==
  /\ Operations \subseteq Routes
  /\ Faults \subseteq {"restart", "lost write"}
  /\ Uuid \notin Persons
  /\ MaxEvents \in Nat

VARIABLES
  book,       \* currency_dict: ticker -> list
  cache,      \* its copy in Redis
  writes,     \* the copies on their way: request -> snapshot of the book
  status,     \* status_code of the shared response
  caching,    \* the requests that await set_cache()
  log         \* history: who was added, who cancelled, and the restarts

vars == <<book, cache, writes, status, caching, log>>

Entries == Persons \cup {Uuid}
Codes   == {200, 201, 400, 401, 404, 500}
Empty   == [t \in {} |-> <<>>]
Events  == {<<"first", p, t>> : p \in Persons, t \in Tickers}
           \cup {<<"other", p, t>> : p \in Persons, t \in Tickers}
           \cup {<<"cancel", p, t>> : p \in Persons, t \in Tickers}
           \cup {<<"cancel all", p>> : p \in Persons}
           \cup {<<"restart">>}

Init ==
  /\ book = Empty
  /\ cache = Empty
  /\ writes = [r \in {} |-> Empty]
  /\ status = 200
  /\ caching = {}
  /\ log = <<>>

Listed(b, t) == IF t \in DOMAIN b THEN ToSet(b[t]) ELSE {}

Happens(event) == Len(log) < MaxEvents /\ log' = Append(log, event)

-----------------------------------------------------------------------------
(* The requests.  Those without an await are served in one step. *)

Answer(r, code) ==
  /\ r \notin caching
  /\ status' = code
  /\ UNCHANGED caching

\* __check_received_data() fails.
Reject(r) ==
  /\ \E code \in {400, 401, 404} : Answer(r, code)
  /\ UNCHANGED <<book, cache, writes, log>>

\* Mutant: the ticker is not looked up first.
CreateFirstReplaces(r, p, t) ==
  /\ r \notin caching \cup DOMAIN writes
  /\ book' = [x \in DOMAIN book \cup {t} |-> IF x = t THEN <<p>> ELSE book[x]]
  /\ writes' = [x \in DOMAIN writes \cup {r} |-> IF x = r THEN book' ELSE writes[x]]
  /\ status' = 201
  /\ caching' = caching \cup {r}
  /\ Happens(<<"first", p, t>>)
  /\ UNCHANGED cache

\* Mutant: the dictionary has room for one ticker and evicts the oldest.
CreateFirstEvicts(r, p, t) ==
  /\ r \notin caching \cup DOMAIN writes
  /\ t \notin DOMAIN book
  /\ book' = [x \in {t} |-> <<p>>]
  /\ writes' = [x \in DOMAIN writes \cup {r} |-> IF x = r THEN book' ELSE writes[x]]
  /\ status' = 201
  /\ caching' = caching \cup {r}
  /\ Happens(<<"first", p, t>>)
  /\ UNCHANGED cache

\* create_order() for a ticker that is not in the book: the copy is issued.
\* Bound: a connection has one copy on its way.
CreateFirst(r, p, t) ==
  /\ r \notin caching \cup DOMAIN writes
  /\ t \notin DOMAIN book
  /\ book' = [x \in DOMAIN book \cup {t} |-> IF x = t THEN <<p>> ELSE book[x]]
  /\ writes' = [x \in DOMAIN writes \cup {r} |-> IF x = r THEN book' ELSE writes[x]]
  /\ status' = 201
  /\ caching' = caching \cup {r}
  /\ Happens(<<"first", p, t>>)
  /\ UNCHANGED cache

\* The person is in the list already.
CreateAgain(r, p, t) ==
  /\ p \in Listed(book, t)
  /\ Answer(r, 200)
  /\ UNCHANGED <<book, cache, writes, log>>

\* Mutant: what is appended is the ticker.
CreateOtherSwapped(r, p, t) ==
  /\ t \in DOMAIN book
  /\ p \notin Listed(book, t)
  /\ book' = [book EXCEPT ![t] = Append(@, t)]
  /\ Answer(r, 201)
  /\ Happens(<<"other", p, t>>)
  /\ UNCHANGED <<cache, writes>>

\* Another person, or a list emptied by cancel_all_orders(): what is appended
\* is the request id, and no copy is issued.
CreateOther(r, p, t) ==
  /\ t \in DOMAIN book
  /\ p \notin Listed(book, t)
  /\ book' = [book EXCEPT ![t] = Append(@, Uuid)]
  /\ Answer(r, 201)
  /\ Happens(<<"other", p, t>>)
  /\ UNCHANGED <<cache, writes>>

\* set_cache() returned, whatever became of the write.
CreateEnds(r) ==
  /\ r \in caching
  /\ caching' = caching \ {r}
  /\ UNCHANGED <<book, cache, writes, status, log>>

\* get_order() looks the ticker up; the price endpoint then answers with a
\* response of its own.
Get(r, t) ==
  /\ Answer(r, IF Listed(book, t) = {} THEN 404 ELSE 200)
  /\ UNCHANGED <<book, cache, writes, log>>

\* The route of cancel_order() names its parameter x_user_id, the handler reads
\* user_id: the person is None and the request is refused.
Cancel(r, p, t) ==
  /\ Answer(r, 401)
  /\ Happens(<<"cancel", p, t>>)
  /\ UNCHANGED <<book, cache, writes>>

\* Mutant: only one of the lists is cleaned.
CancelAllStops(r, p) ==
  \E u \in DOMAIN book :
    /\ p \in Listed(book, u)
    /\ Answer(r, 500)
    /\ book' = [book EXCEPT ![u] = RemoveFirst(@, p)]
    /\ Happens(<<"cancel all", p>>)
    /\ UNCHANGED <<cache, writes>>

\* cancel_all_orders() takes the person out of every list in place, then fails
\* on the pairs it builds; no copy is issued.
CancelAll(r, p) ==
  /\ \E t \in DOMAIN book : p \in Listed(book, t)
  /\ Answer(r, 500)
  /\ book' = [t \in DOMAIN book |-> RemoveFirst(book[t], p)]
  /\ Happens(<<"cancel all", p>>)
  /\ UNCHANGED <<cache, writes>>

CancelAllFindsNone(r, p) ==
  /\ \A t \in DOMAIN book : p \notin Listed(book, t)
  /\ Answer(r, 404)
  /\ UNCHANGED <<book, cache, writes, log>>

-----------------------------------------------------------------------------
(* Redis and the process *)

WithoutWrite(r) == writes' = [x \in DOMAIN writes \ {r} |-> writes[x]]

\* Redis executes the write of request r ...
RedisWrites(r) ==
  /\ r \in DOMAIN writes
  /\ cache' = writes[r]
  /\ WithoutWrite(r)
  /\ UNCHANGED <<book, status, caching, log>>

\* ... or never gets it: set_record() swallows the error.
WriteLost(r) ==
  /\ "lost write" \in Faults
  /\ r \in DOMAIN writes
  /\ WithoutWrite(r)
  /\ UNCHANGED <<book, cache, status, caching, log>>

\* The process restarts: the book and the running requests are lost.
Restart ==
  /\ "restart" \in Faults
  /\ Happens(<<"restart">>)
  /\ book' = Empty
  /\ caching' = {}
  /\ status' = 200
  /\ UNCHANGED <<cache, writes>>

-----------------------------------------------------------------------------

Serve(r) ==
  \/ "create" \in Operations /\ \E p \in Persons, t \in Tickers :
       CreateFirst(r, p, t) \/ CreateAgain(r, p, t) \/ CreateOther(r, p, t)
  \/ "get" \in Operations /\ \E t \in Tickers : Get(r, t)
  \/ "cancel" \in Operations /\ \E p \in Persons, t \in Tickers : Cancel(r, p, t)
  \/ "cancel all" \in Operations /\ \E p \in Persons :
       CancelAll(r, p) \/ CancelAllFindsNone(r, p)
  \/ Reject(r)

Next ==
  \/ \E r \in Requests : Serve(r) \/ CreateEnds(r) \/ RedisWrites(r) \/ WriteLost(r)
  \/ Restart

Spec == Init /\ [][Next]_vars

-----------------------------------------------------------------------------
(* Properties *)

IsBook(b) == /\ DOMAIN b \subseteq Tickers
             /\ \A t \in DOMAIN b : b[t] \in Seq(Entries)

\* Types.
TypeOK ==
  /\ IsBook(book)
  /\ IsBook(cache)
  /\ DOMAIN writes \subseteq Requests
  /\ \A r \in DOMAIN writes : IsBook(writes[r])
  /\ status \in Codes
  /\ caching \subseteq Requests
  /\ log \in Seq(Events)

\* An event of E happened, and none of F after it.
Since(E, F) ==
  \E i \in DOMAIN log : log[i] \in E /\ \A j \in i + 1 .. Len(log) : log[j] \notin F

Created(p, t)  == {<<"first", p, t>>, <<"other", p, t>>}
Canceled(p, t) == {<<"cancel", p, t>>, <<"cancel all", p>>}

\* The person who put a ticker in the book stays under it, whatever the other
\* persons do, until it cancels or the process restarts (create_order,
\* deribit_currency.py:95-102; cancel_all_orders, line 197).
FirstStaysBooked ==
  \A p \in Persons, t \in Tickers :
    Since({<<"first", p, t>>}, Canceled(p, t) \cup {<<"restart">>}) => p \in Listed(book, t)

\* The copy in Redis and the copies on their way are never ahead of the book:
\* a person they send a ticker to is still in the book, or cancelled, or the
\* process restarted (set_cache, deribit_currency.py:236).
CopiesNotAhead ==
  \A p \in Persons, t \in Tickers :
    \A b \in {cache} \cup {writes[r] : r \in DOMAIN writes} :
      p \in Listed(b, t) =>
        p \in Listed(book, t) \/ Since(Canceled(p, t) \cup {<<"restart">>}, {})

\* A person who cancelled all its subscriptions and did not ask again is in no
\* list of the book (README.md:523: "Remove all subscriptions").
CancelAllRemoves ==
  \A p \in Persons, t \in Tickers :
    Since({<<"cancel all", p>>}, Created(p, t)) => p \notin Listed(book, t)
=============================================================================
