-------------------------- MODULE PriceRoundsProofs --------------------------
(***************************************************************************)
(* Proofs about PriceRounds: the types, what a round carries from one      *)
(* address to the next (Carrying), what it may therefore write into a      *)
(* record (OnlyUnpricedBorrow, NoOlderThanRound), that a lone postman never*)
(* goes back to an older price, and that the two tasks implement the       *)
(* mailbox.                                                                *)
(***************************************************************************)
EXTENDS PriceRounds, SequenceTheorems, TLAPS

\* A prefix of a sequence.
LEMMA PrefixTyped ==
  ASSUME NEW S, NEW s \in Seq(S), NEW n \in 0 .. Len(s)
  PROVE  SubSeq(s, 1, n) \in Seq(S) /\ Len(SubSeq(s, 1, n)) = n
  OBVIOUS

\* All but the last of a sequence.
LEMMA FrontTyped ==
  ASSUME NEW S, NEW s \in Seq(S), s # <<>>
  PROVE  /\ Last(s) \in S
         /\ Front(s) \in Seq(S)
  <1>1. Len(s) \in Nat \ {0}
    BY LenProperties, EmptySeq
  <1>2. Last(s) \in S
    BY <1>1, ElementOfSeq DEF Last
  <1>3. Front(s) \in Seq(S)
    <2>1. Len(s) - 1 \in 0 .. Len(s)
      BY <1>1
    <2> QED BY <2>1, PrefixTyped DEF Front
  <1> QED BY <1>2, <1>3

\* The rest of a sequence of entries after its first address.
LEMMA RestTyped ==
  ASSUME NEW s \in Seq(Entries), s # <<>>, ~(Len(s) = 1 /\ Len(s[1].to) = 1)
  PROVE  Rest(s) \in Seq(Entries) /\ Rest(s) # <<>>
  <1>1. /\ Len(s) \in Nat \ {0}
        /\ DOMAIN s = 1 .. Len(s)
        /\ Len(<<>>) = 0
    BY LenProperties, EmptySeq
  <1>2. s[1] \in Entries
    BY <1>1, ElementOfSeq
  <1>3. /\ s[1].ticker \in Tickers
        /\ s[1].to \in Seq(Owners)
        /\ s[1].to # <<>>
    BY <1>2 DEF Entries
  <1>4. CASE Len(s[1].to) = 1
    <2>1. Tail(s) \in Seq(Entries) /\ Len(Tail(s)) = Len(s) - 1
      BY HeadTailProperties
    <2>2. Len(Tail(s)) # 0
      BY <1>1, <1>4, <2>1
    <2>3. Tail(s) # <<>>
      BY <1>1, <2>2
    <2> QED BY <1>4, <2>1, <2>3 DEF Rest
  <1>5. CASE Len(s[1].to) # 1
    <2> DEFINE t == Tail(s[1].to)
               e == [ticker |-> s[1].ticker, to |-> t]
               r == [s EXCEPT ![1] = e]
    <2>1. /\ t \in Seq(Owners)
          /\ Len(t) = Len(s[1].to) - 1
          /\ Len(s[1].to) \in Nat \ {0}
      BY <1>3, HeadTailProperties, LenProperties, EmptySeq
    <2>2. t # <<>>
      <3>1. Len(t) # 0
        BY <1>5, <2>1
      <3> HIDE DEF t
      <3> QED BY <1>1, <3>1
    <2> HIDE DEF t
    <2>3. e \in Entries
      BY <1>3, <2>1, <2>2 DEF Entries
    <2> HIDE DEF e
    <2>4. r \in Seq(Entries) /\ Len(r) = Len(s)
      BY <1>1, <2>3, ExceptSeq
    <2>5. Rest(s) = r
      BY <1>5 DEF Rest, r, e, t
    <2>6. r # <<>>
      BY <1>1, <2>4
    <2> QED BY <2>4, <2>5, <2>6
  <1> QED BY <1>4, <1>5

-----------------------------------------------------------------------------
(* Types *)

\* The conjuncts of TypeOK about Redis and the database ...
DataOK ==
  /\ copy \in Copies
  /\ record \in [Keys -> {Gone, Blank} \cup Prices]
  /\ rows \in [Tickers -> 0 .. MaxRows]

\* ... and about the rounds.
RoundsOK ==
  /\ pc \in [Processes -> Phases]
  /\ todo \in [Processes -> Seq(Entries)]
  /\ carried \in [Processes -> Prices \cup {NoPrice}]
  /\ key \in [Processes -> Keys \cup {NoKey}]
  /\ base \in [Processes -> [Tickers -> 0 .. MaxRows]]
  /\ \A p \in Processes :
       /\ pc[p] \notin Between => todo[p] # <<>>
       /\ pc[p] \in {"scan", "get", "set"} => carried[p] # NoPrice
       /\ pc[p] \in {"get", "set"} => key[p] \in Keys /\ person[key[p]] = Owner(p)

\* Together they are TypeOK.
LEMMA TypeSplit == TypeOK <=> DataOK /\ RoundsOK
  BY DEF TypeOK, DataOK, RoundsOK

\* No row of any ticker is a possible base of a round.
LEMMA NoRowsTyped == NoRows \in [Tickers -> 0 .. MaxRows]
  BY RoundsAssumption DEF NoRows

\* A round may end at any time.
LEMMA EndTyped ==
  ASSUME RoundsOK, NEW p \in Processes, NEW phase \in Between, Leaves(p, phase)
  PROVE  RoundsOK'
  <1>1. <<>> \in Seq(Entries)
    BY EmptySeq
  <1>2. /\ pc' \in [Processes -> Phases]
        /\ todo' \in [Processes -> Seq(Entries)]
        /\ carried' \in [Processes -> Prices \cup {NoPrice}]
        /\ key' \in [Processes -> Keys \cup {NoKey}]
        /\ base' \in [Processes -> [Tickers -> 0 .. MaxRows]]
    BY <1>1, NoRowsTyped DEF RoundsOK, Leaves, Phases, Between
  <1>3. ASSUME NEW q \in Processes, q # p
        PROVE  /\ pc'[q] = pc[q]
               /\ todo'[q] = todo[q]
               /\ carried'[q] = carried[q]
               /\ key'[q] = key[q]
    BY <1>3 DEF RoundsOK, Leaves
  <1>4. pc'[p] = phase
    BY DEF RoundsOK, Leaves
  <1> QED BY <1>2, <1>3, <1>4 DEF RoundsOK, Owner, Between

\* A process goes to another phase of its round, with other values of the
\* price or the key.
LEMMA PhaseTyped ==
  ASSUME RoundsOK, NEW p \in Processes, NEW to \in Phases,
         pc' = [pc EXCEPT ![p] = to],
         carried' \in [Processes -> Prices \cup {NoPrice}],
         key' \in [Processes -> Keys \cup {NoKey}],
         base' \in [Processes -> [Tickers -> 0 .. MaxRows]],
         todo' \in [Processes -> Seq(Entries)],
         todo'[p] # <<>>,
         to \in {"scan", "get", "set"} => carried'[p] # NoPrice,
         to \in {"get", "set"} => key'[p] \in Keys /\ person[key'[p]] = Owner(p)',
         \A q \in Processes \ {p} : /\ todo'[q] = todo[q]
                                    /\ carried'[q] = carried[q]
                                    /\ key'[q] = key[q]
  PROVE  RoundsOK'
  <1>1. pc' \in [Processes -> Phases]
    BY DEF RoundsOK
  <1>2. ASSUME NEW q \in Processes
        PROVE  /\ pc'[q] \notin Between => todo'[q] # <<>>
               /\ pc'[q] \in {"scan", "get", "set"} => carried'[q] # NoPrice
               /\ pc'[q] \in {"get", "set"} => key'[q] \in Keys /\ person[key'[q]] = Owner(q)'
    <2>1. CASE q = p
      BY <2>1 DEF RoundsOK
    <2>2. CASE q # p
      BY <2>2 DEF RoundsOK, Owner, Between
    <2> QED BY <2>1, <2>2
  <1> QED BY <1>1, <1>2 DEF RoundsOK

\* The feed asks for the price of a ticker; what it carries stays as it is.
FeedAsks(p) ==
  /\ pc' = [pc EXCEPT ![p] = "ask"]
  /\ \E part : todo' = [todo EXCEPT ![p] = part]
  /\ UNCHANGED <<carried, key, base>>

\* The feed ends its round or asks for a price.
LEMMA EndsOrAsks ==
  ASSUME NEW p, NEW s, FeedTakes(p, s)
  PROVE  End(p) \/ FeedAsks(p)
  BY DEF FeedTakes, FeedAsks

\* The feed takes a ticker of a part of its copy, or its round is over.
LEMMA FeedTakesTyped ==
  ASSUME RoundsOK, NEW p \in Processes, NEW s \in Seq(Entries), FeedTakes(p, s)
  PROVE  RoundsOK'
  <1>1. CASE End(p)
    BY <1>1, EndTyped DEF End, Between
  <1>2. ASSUME NEW n \in DOMAIN s,
               pc' = [pc EXCEPT ![p] = "ask"],
               todo' = [todo EXCEPT ![p] = SubSeq(s, 1, n)],
               UNCHANGED <<carried, key, base>>
        PROVE  RoundsOK'
    <2>1. /\ Len(s) \in Nat
          /\ n \in 1 .. Len(s)
          /\ Len(<<>>) = 0
      BY LenProperties, EmptySeq
    <2>2. SubSeq(s, 1, n) \in Seq(Entries) /\ Len(SubSeq(s, 1, n)) = n
      BY <2>1, PrefixTyped
    <2>3. SubSeq(s, 1, n) # <<>>
      BY <2>1, <2>2
    <2>4. /\ todo' \in [Processes -> Seq(Entries)]
          /\ todo'[p] # <<>>
          /\ \A q \in Processes \ {p} : todo'[q] = todo[q]
      BY <1>2, <2>2, <2>3 DEF RoundsOK
    <2>5. "ask" \in Phases
      BY DEF Phases
    <2> HIDE DEF Phases
    <2>6. /\ carried' \in [Processes -> Prices \cup {NoPrice}]
          /\ key' \in [Processes -> Keys \cup {NoKey}]
          /\ base' \in [Processes -> [Tickers -> 0 .. MaxRows]]
      BY <1>2 DEF RoundsOK
    <2> QED BY <1>2, <2>4, <2>5, <2>6, PhaseTyped
  <1> QED BY <1>1, <1>2 DEF FeedTakes

\* The feed goes on with the next ticker.
LEMMA FeedGoesOnTyped ==
  ASSUME RoundsOK, NEW p \in Processes, pc[p] \notin Between, FeedGoesOn(p)
  PROVE  RoundsOK'
  <1>1. todo[p] \in Seq(Entries) /\ todo[p] # <<>>
    BY DEF RoundsOK
  <1>2. Front(todo[p]) \in Seq(Entries)
    BY <1>1, FrontTyped
  <1> QED BY <1>2, FeedTakesTyped DEF FeedGoesOn

\* The postman goes on with the next address.
LEMMA PostGoesOnTyped ==
  ASSUME RoundsOK, NEW p \in Processes, pc[p] \notin Between, PostGoesOn(p)
  PROVE  RoundsOK'
  <1>1. CASE Len(todo[p]) = 1 /\ Len(todo[p][1].to) = 1
    BY <1>1, EndTyped DEF PostGoesOn, End, Between
  <1>2. CASE ~(Len(todo[p]) = 1 /\ Len(todo[p][1].to) = 1)
    <2>1. /\ pc' = [pc EXCEPT ![p] = "select"]
          /\ todo' = [todo EXCEPT ![p] = Rest(@)]
          /\ key' = [key EXCEPT ![p] = NoKey]
          /\ UNCHANGED <<carried, base>>
      BY <1>2 DEF PostGoesOn
    <2>2. todo[p] \in Seq(Entries) /\ todo[p] # <<>>
      BY DEF RoundsOK
    <2>3. Rest(todo[p]) \in Seq(Entries) /\ Rest(todo[p]) # <<>>
      BY <1>2, <2>2, RestTyped
    <2>4. /\ todo' \in [Processes -> Seq(Entries)]
          /\ todo'[p] # <<>>
          /\ \A q \in Processes \ {p} : todo'[q] = todo[q] /\ key'[q] = key[q]
      BY <2>1, <2>3 DEF RoundsOK
    <2>5. "select" \in Phases
      BY DEF Phases
    <2>6. /\ carried' \in [Processes -> Prices \cup {NoPrice}]
          /\ key' \in [Processes -> Keys \cup {NoKey}]
          /\ base' \in [Processes -> [Tickers -> 0 .. MaxRows]]
      BY <2>1 DEF RoundsOK
    <2> QED BY <2>1, <2>4, <2>5, <2>6, PhaseTyped
  <1> QED BY <1>1, <1>2

\* The ticker and the owner of the address a process handles.
LEMMA AddressTyped ==
  ASSUME RoundsOK, NEW p \in Processes, pc[p] \notin Between
  PROVE  Ticker(p) \in Tickers /\ Asked(p) \in Tickers
  <1>1. todo[p] \in Seq(Entries) /\ todo[p] # <<>>
    BY DEF RoundsOK
  <1>2. Head(todo[p]) \in Entries
    BY <1>1, HeadTailProperties
  <1>3. Last(todo[p]) \in Entries
    BY <1>1, FrontTyped
  <1> QED BY <1>2, <1>3 DEF Entries, Ticker, Asked

\* The types are kept by every step.
LEMMA TypeStep == TypeOK /\ [Next]_vars => TypeOK'
  <1> SUFFICES ASSUME DataOK, RoundsOK, [Next]_vars PROVE DataOK' /\ RoundsOK'
    BY TypeSplit DEF TypeOK, DataOK, RoundsOK
  <1>0. /\ pc \in [Processes -> Phases]
        /\ todo \in [Processes -> Seq(Entries)]
        /\ carried \in [Processes -> Prices \cup {NoPrice}]
        /\ key \in [Processes -> Keys \cup {NoKey}]
        /\ base \in [Processes -> [Tickers -> 0 .. MaxRows]]
        /\ rows \in [Tickers -> 0 .. MaxRows]
    BY DEF DataOK, RoundsOK
  <1>1. ASSUME NEW t \in Tickers, Commit(t), UNCHANGED <<copy, record>> PROVE DataOK'
    BY <1>1, RoundsAssumption DEF DataOK, Commit
  <1>2. ASSUME NEW p \in Processes, Fill(p), pc[p] = "set", UNCHANGED <<copy, rows>>
        PROVE  DataOK'
    <2>1. carried[p] \in Prices
      BY <1>0, <1>2 DEF RoundsOK
    <2> QED BY <1>2, <2>1 DEF DataOK, Fill
  <1>3. ASSUME UNCHANGED <<copy, record, rows>> PROVE DataOK'
    BY <1>3 DEF DataOK
  <1>4. ASSUME UNCHANGED roundVars PROVE RoundsOK'
    BY <1>4 DEF RoundsOK, roundVars, Owner
  <1>5. ASSUME NEW p \in Processes, NEW from \in Phases, NEW to \in Phases, Step(p, from, to),
               from \notin Between, UNCHANGED <<todo, base>>,
               carried' \in [Processes -> Prices \cup {NoPrice}],
               key' \in [Processes -> Keys \cup {NoKey}],
               to \in {"scan", "get", "set"} => carried'[p] # NoPrice,
               to \in {"get", "set"} => key'[p] \in Keys /\ person[key'[p]] = Owner(p),
               \A q \in Processes \ {p} : carried'[q] = carried[q] /\ key'[q] = key[q]
        PROVE  RoundsOK'
    <2>1. todo'[p] # <<>>
      BY <1>5 DEF RoundsOK, Step
    <2>2. Owner(p)' = Owner(p)
      BY <1>5 DEF Owner
    <2> HIDE DEF Phases
    <2> QED BY <1>0, <1>5, <2>1, <2>2, PhaseTyped DEF Step
  <1>6. ASSUME NEW p \in Processes, NEW to \in {"ask", "select"}, pc' = [pc EXCEPT ![p] = to],
               copy # <<>>, todo' = [todo EXCEPT ![p] = copy], UNCHANGED key,
               carried' \in [Processes -> Prices \cup {NoPrice}],
               \A q \in Processes \ {p} : carried'[q] = carried[q],
               base' \in [Processes -> [Tickers -> 0 .. MaxRows]]
        PROVE  RoundsOK'
    <2>1. copy \in Seq(Entries)
      BY RoundsAssumption DEF DataOK
    <2>2. /\ todo' \in [Processes -> Seq(Entries)]
          /\ todo'[p] # <<>>
          /\ \A q \in Processes \ {p} : todo'[q] = todo[q]
      BY <1>0, <1>6, <2>1
    <2>3. to \in Phases /\ to \notin {"scan", "get", "set"}
      BY DEF Phases
    <2>4. key' \in [Processes -> Keys \cup {NoKey}]
      BY <1>0, <1>6
    <2> HIDE DEF Phases
    <2> QED BY <1>6, <2>2, <2>3, <2>4, PhaseTyped DEF Step
  <1>7. ASSUME NEW p \in Processes, Feed(p) PROVE DataOK' /\ RoundsOK'
    <2>1. CASE FeedStarts(p)
      <3>1. copy \in Seq(Entries)
        BY RoundsAssumption DEF DataOK
      <3> QED BY <1>3, <2>1, <3>1, FeedTakesTyped DEF FeedStarts
    <2>2. CASE Answered(p)
      <3>1. "ask" \in Phases /\ "insert" \in Phases
        BY DEF Phases
      <3> QED BY <1>0, <1>3, <1>5, <2>2, <3>1 DEF Answered, Between
    <2>3. CASE Unanswered(p)
      BY <1>3, <2>3, FeedGoesOnTyped DEF Unanswered, Between
    <2>4. CASE Inserts(p)
      <3>1. Asked(p) \in Tickers
        BY <2>4, AddressTyped DEF Inserts, Between
      <3>2. UNCHANGED <<copy, record>> /\ Commit(Asked(p))
        BY <2>4 DEF Inserts
      <3>3. RoundsOK'
        BY <2>4, FeedGoesOnTyped DEF Inserts, Between
      <3> QED BY <1>1, <3>1, <3>2, <3>3
    <2> QED BY <1>7, <2>1, <2>2, <2>3, <2>4 DEF Feed
  <1>8. ASSUME NEW p \in Processes, Postman(p) PROVE DataOK' /\ RoundsOK'
    <2>0. "select" \in Phases /\ "scan" \in Phases /\ "get" \in Phases /\ "set" \in Phases
      BY DEF Phases
    <2>1. CASE PostStarts(p)
      BY <1>0, <1>3, <1>6, <2>1 DEF PostStarts
    <2>2. CASE SelectsRow(p)
      <3>1. Ticker(p) \in Tickers
        BY <2>2, AddressTyped DEF SelectsRow, Step, Between
      <3>2. rows[Ticker(p)] \in 1 .. MaxRows
        BY <1>0, <2>2, <3>1, RoundsAssumption DEF SelectsRow
      <3>3. [ticker |-> Ticker(p), row |-> rows[Ticker(p)]] \in Prices
        BY <3>1, <3>2 DEF Prices
      <3>4. /\ carried' \in [Processes -> Prices \cup {NoPrice}]
            /\ carried'[p] # NoPrice
            /\ \A q \in Processes \ {p} : carried'[q] = carried[q]
        BY <1>0, <2>2, <3>3, RoundsAssumption DEF SelectsRow
      <3> QED BY <1>0, <1>3, <1>5, <2>0, <2>2, <3>4 DEF SelectsRow, Between
    <2>3. CASE SelectsNothing(p)
      BY <1>0, <1>3, <1>5, <2>0, <2>3 DEF SelectsNothing, Between
    <2>4. CASE HasNoPrice(p) \/ FindsNoKey(p) \/ GetsNothing(p)
      BY <1>3, <2>4, EndTyped DEF HasNoPrice, FindsNoKey, GetsNothing, End, Between
    <2>5. CASE Scans(p)
      <3>1. PICK k \in KeysOf(Owner(p)) : key' = [key EXCEPT ![p] = k]
        BY <2>5 DEF Scans
      <3>2. k \in Keys /\ person[k] = Owner(p)
        BY DEF KeysOf
      <3>3. pc[p] = "scan" /\ carried[p] # NoPrice
        BY <2>5 DEF Scans, Step, RoundsOK
      <3>4. /\ key' \in [Processes -> Keys \cup {NoKey}]
            /\ key'[p] = k
            /\ \A q \in Processes \ {p} : key'[q] = key[q]
        BY <1>0, <3>1, <3>2
      <3> QED BY <1>0, <1>3, <1>5, <2>0, <2>5, <3>2, <3>3, <3>4 DEF Scans, Between
    <2>6. CASE Gets(p)
      <3>1. /\ carried[p] # NoPrice
            /\ key[p] \in Keys
            /\ person[key[p]] = Owner(p)
        BY <2>6 DEF Gets, Step, RoundsOK
      <3> QED BY <1>0, <1>3, <1>5, <2>0, <2>6, <3>1 DEF Gets, Between
    <2>7. CASE Sets(p)
      <3>1. pc[p] = "set" /\ Fill(p) /\ PostGoesOn(p) /\ UNCHANGED <<copy, rows>>
        BY <2>7 DEF Sets
      <3>2. DataOK'
        BY <1>2, <3>1
      <3>3. RoundsOK'
        BY <3>1, PostGoesOnTyped DEF Between
      <3> QED BY <3>2, <3>3
    <2> QED BY <1>8, <2>1, <2>2, <2>3, <2>4, <2>5, <2>6, <2>7 DEF Postman
  <1>9. ASSUME NEW p \in Processes, Fails(p) PROVE DataOK' /\ RoundsOK'
    <2>1. pc[p] \notin Between /\ Leaves(p, "failed") /\ UNCHANGED copy
      BY <1>9 DEF Fails
    <2>2. RoundsOK'
      BY <2>1, EndTyped DEF Between
    <2>3. Asked(p) \in Tickers
      BY <2>1, AddressTyped
    <2>4. DataOK'
      BY <1>1, <1>2, <1>3, <1>9, <2>1, <2>3 DEF Fails
    <2> QED BY <2>2, <2>4
  <1>10. ASSUME Environment PROVE DataOK' /\ RoundsOK'
    <2>1. UNCHANGED roundVars
      BY <1>10 DEF Environment, Copied, Connects, Disconnects
    <2>2. DataOK'
      BY <1>10 DEF Environment, Copied, Connects, Disconnects, DataOK
    <2> QED BY <1>4, <2>1, <2>2
  <1>11. ASSUME UNCHANGED vars PROVE DataOK' /\ RoundsOK'
    BY <1>3, <1>4, <1>11 DEF vars
  <1> QED BY <1>7, <1>8, <1>9, <1>10, <1>11 DEF Next

\* Every variable keeps its type; a postman that has found a key found it for
\* the address it handles, and holds a price (send_every l. 195-229).
THEOREM RoundTypes == Spec => []TypeOK
  <1>1. Init => TypeOK
    <2> SUFFICES ASSUME Init PROVE TypeOK
      OBVIOUS
    <2>1. <<>> \in Seq(Entries)
      BY EmptySeq
    <2>2. "idle" \in Phases /\ "idle" \in Between
      BY DEF Phases, Between
    <2> QED BY <2>1, <2>2, NoRowsTyped, RoundsAssumption DEF Init, TypeOK
  <1> QED BY <1>1, TypeStep, PTL DEF Spec

-----------------------------------------------------------------------------
(* What a round carries *)

\* The rows when the round of p started are still there; the price it carries
\* is one of the rows and not older than its round; and while it looks for the
\* record of an address, the price is of the ticker of this address unless
\* that had no row when the round started.
CarriedFrom(p) ==
  carried[p] # NoPrice
    => carried[p].row \in base[p][carried[p].ticker] .. rows[carried[p].ticker]

Borrows(p) ==
  pc[p] \in {"scan", "get", "set"}
    => carried[p].ticker = Ticker(p) \/ base[p][Ticker(p)] = 0

Carrying ==
  \A p \in Processes :
    /\ \A t \in Tickers : base[p][t] <= rows[t]
    /\ CarriedFrom(p)
    /\ Borrows(p)

\* What a process of which nothing changes carries stays right while the rows
\* grow.
LEMMA OtherCarries ==
  ASSUME TypeOK, TypeOK', Carrying, NEW p \in Processes,
         \A t \in Tickers : rows[t] <= rows'[t],
         pc'[p] = pc[p], todo'[p] = todo[p], carried'[p] = carried[p], base'[p] = base[p]
  PROVE  /\ \A t \in Tickers : base'[p][t] <= rows'[t]
         /\ CarriedFrom(p)'
         /\ Borrows(p)'
  <1>1. /\ \A t \in Tickers : rows[t] \in Int /\ rows'[t] \in Int /\ base[p][t] \in Int
        /\ carried[p] \in Prices \cup {NoPrice}
    BY RoundsAssumption DEF TypeOK
  <1>2. carried[p] # NoPrice => carried[p].ticker \in Tickers /\ carried[p].row \in Int
    BY <1>1 DEF Prices
  <1>3. \A t \in Tickers : base'[p][t] <= rows'[t]
    BY <1>1 DEF Carrying
  <1>4. CarriedFrom(p)'
    BY <1>1, <1>2 DEF Carrying, CarriedFrom
  <1>5. Borrows(p)'
    BY DEF Carrying, Borrows, Ticker
  <1> QED BY <1>3, <1>4, <1>5

\* A round that ended carries nothing.
LEMMA EndCarries ==
  ASSUME TypeOK, TypeOK', NEW p \in Processes, NEW phase \in Between, Leaves(p, phase)
  PROVE  /\ \A t \in Tickers : base'[p][t] <= rows'[t]
         /\ CarriedFrom(p)'
         /\ Borrows(p)'
         /\ \A q \in Processes \ {p} : /\ pc'[q] = pc[q]
                                       /\ todo'[q] = todo[q]
                                       /\ carried'[q] = carried[q]
                                       /\ base'[q] = base[q]
  <1>1. /\ pc'[p] \in Between
        /\ carried'[p] = NoPrice
        /\ base'[p] = NoRows
        /\ \A q \in Processes \ {p} : /\ pc'[q] = pc[q]
                                      /\ todo'[q] = todo[q]
                                      /\ carried'[q] = carried[q]
                                      /\ base'[q] = base[q]
    BY DEF Leaves, TypeOK
  <1>2. \A t \in Tickers : NoRows[t] <= rows'[t]
    BY RoundsAssumption DEF NoRows, TypeOK
  <1>3. CarriedFrom(p)' /\ Borrows(p)'
    BY <1>1 DEF CarriedFrom, Borrows, Between
  <1> QED BY <1>1, <1>2, <1>3

\* Every step of one process, in which the rows may grow, keeps Carrying when
\* it does for this process.
LEMMA CarryingStep == TypeOK /\ TypeOK' /\ Carrying /\ [Next]_vars => Carrying'
  <1> SUFFICES ASSUME TypeOK, TypeOK', Carrying, [Next]_vars PROVE Carrying'
    OBVIOUS
  <1>0. /\ pc \in [Processes -> Phases]
        /\ todo \in [Processes -> Seq(Entries)]
        /\ carried \in [Processes -> Prices \cup {NoPrice}]
        /\ base \in [Processes -> [Tickers -> 0 .. MaxRows]]
        /\ rows \in [Tickers -> 0 .. MaxRows]
        /\ \A t \in Tickers : rows[t] \in Int
    BY RoundsAssumption DEF TypeOK
  <1>1. \A t \in Tickers : rows[t] <= rows[t]
    BY <1>0
  <1>2. ASSUME NEW p \in Processes,
               \A t \in Tickers : rows[t] <= rows'[t],
               \A t \in Tickers : base'[p][t] <= rows'[t],
               CarriedFrom(p)', Borrows(p)',
               \A q \in Processes \ {p} : /\ pc'[q] = pc[q]
                                          /\ todo'[q] = todo[q]
                                          /\ carried'[q] = carried[q]
                                          /\ base'[q] = base[q]
        PROVE  Carrying'
    <2>1. ASSUME NEW q \in Processes
          PROVE  /\ \A t \in Tickers : base'[q][t] <= rows'[t]
                 /\ CarriedFrom(q)'
                 /\ Borrows(q)'
      <3>1. CASE q = p
        BY <1>2, <3>1
      <3>2. CASE q # p
        BY <1>2, <3>2, OtherCarries
      <3> QED BY <3>1, <3>2
    <2> QED BY <2>1 DEF Carrying
  <1>3. ASSUME NEW p \in Processes, NEW phase \in Between, Leaves(p, phase), \A t \in Tickers : rows[t] <= rows'[t] PROVE Carrying'
    <2>1. /\ \A t \in Tickers : base'[p][t] <= rows'[t]
          /\ CarriedFrom(p)'
          /\ Borrows(p)'
          /\ \A q \in Processes \ {p} : /\ pc'[q] = pc[q]
                                        /\ todo'[q] = todo[q]
                                        /\ carried'[q] = carried[q]
                                        /\ base'[q] = base[q]
      BY <1>3, EndCarries
    <2> QED BY <1>2, <1>3, <2>1
  <1>4. ASSUME NEW p \in Processes, \A t \in Tickers : rows[t] <= rows'[t],
               UNCHANGED <<carried, base>>, pc'[p] \notin {"scan", "get", "set"},
               \A q \in Processes \ {p} : pc'[q] = pc[q] /\ todo'[q] = todo[q]
        PROVE  Carrying'
    <2>1. \A t \in Tickers : base'[p][t] <= rows'[t]
      <3> TAKE t \in Tickers
      <3>1. base[p][t] \in Int /\ rows[t] \in Int /\ rows'[t] \in Int
        BY <1>0, RoundsAssumption DEF TypeOK
      <3> QED BY <1>4, <3>1 DEF Carrying
    <2>2. Borrows(p)'
      BY <1>4 DEF Borrows
    <2>3. CarriedFrom(p)'
      <3> SUFFICES ASSUME carried[p] # NoPrice
                   PROVE  carried[p].row \in base[p][carried[p].ticker] .. rows'[carried[p].ticker]
        BY <1>4 DEF CarriedFrom
      <3>1. carried[p].ticker \in Tickers
        BY <1>0 DEF Prices
      <3>2. carried[p].row \in base[p][carried[p].ticker] .. rows[carried[p].ticker]
        BY DEF Carrying, CarriedFrom
      <3>3. rows[carried[p].ticker] \in Int /\ rows'[carried[p].ticker] \in Int
        BY <1>0, <3>1, RoundsAssumption DEF TypeOK
      <3>4. base[p][carried[p].ticker] \in Int
        BY <1>0, <3>1, RoundsAssumption
      <3> QED BY <1>4, <3>1, <3>2, <3>3, <3>4
    <2> QED BY <1>2, <1>4, <2>1, <2>2, <2>3
  <1>5. ASSUME NEW t \in Tickers, Commit(t) PROVE \A u \in Tickers : rows[u] <= rows'[u]
    BY <1>0, <1>5 DEF Commit
  <1>6. ASSUME NEW p \in Processes, NEW s, FeedTakes(p, s), \A t \in Tickers : rows[t] <= rows'[t]
        PROVE  Carrying'
    <2>1. CASE End(p)
      BY <1>3, <1>6, <2>1 DEF End, Between
    <2>2. CASE FeedAsks(p)
      <3>1. /\ UNCHANGED <<carried, base>>
            /\ pc'[p] = "ask"
            /\ \A q \in Processes \ {p} : pc'[q] = pc[q] /\ todo'[q] = todo[q]
        BY <1>0, <2>2 DEF FeedAsks
      <3> QED BY <1>4, <1>6, <3>1
    <2> QED BY <1>6, <2>1, <2>2, EndsOrAsks
  <1>7. ASSUME NEW p \in Processes, Feed(p) PROVE Carrying'
    <2>1. CASE FeedStarts(p)
      BY <1>1, <1>6, <2>1 DEF FeedStarts
    <2>2. CASE Answered(p)
      BY <1>0, <1>1, <1>4, <2>2 DEF Answered, Step
    <2>3. CASE Unanswered(p)
      BY <1>1, <1>6, <2>3 DEF Unanswered, FeedGoesOn
    <2>4. CASE Inserts(p)
      <3>1. Asked(p) \in Tickers
        BY <2>4, AddressTyped, TypeSplit DEF Inserts, Between
      <3> QED BY <1>5, <1>6, <2>4, <3>1 DEF Inserts, FeedGoesOn
    <2> QED BY <1>7, <2>1, <2>2, <2>3, <2>4 DEF Feed
  <1>8. ASSUME NEW p \in Processes, Postman(p) PROVE Carrying'
    <2>1. CASE PostStarts(p)
      <3>1. /\ base'[p] = rows
            /\ rows' = rows
            /\ carried'[p] = NoPrice
            /\ pc'[p] = "select"
            /\ \A q \in Processes \ {p} : /\ pc'[q] = pc[q]
                                          /\ todo'[q] = todo[q]
                                          /\ carried'[q] = carried[q]
                                          /\ base'[q] = base[q]
        BY <1>0, <2>1 DEF PostStarts
      <3>2. CarriedFrom(p)' /\ Borrows(p)'
        BY <3>1 DEF CarriedFrom, Borrows
      <3> QED BY <1>1, <1>2, <3>1, <3>2
    <2>2. CASE SelectsRow(p)
      <3> DEFINE t == Ticker(p)
      <3>1. t \in Tickers
        BY <2>2, AddressTyped, TypeSplit DEF SelectsRow, Step, Between
      <3> HIDE DEF t
      <3>2. /\ carried'[p] = [ticker |-> t, row |-> rows[t]]
            /\ UNCHANGED <<rows, base, todo>>
            /\ \A q \in Processes \ {p} : pc'[q] = pc[q] /\ carried'[q] = carried[q]
        BY <1>0, <2>2 DEF SelectsRow, Step, t
      <3>3. base[p][t] <= rows[t] /\ base[p][t] \in Int /\ rows[t] \in Int
        BY <1>0, <3>1 DEF Carrying
      <3>4. CarriedFrom(p)'
        BY <3>2, <3>3 DEF CarriedFrom
      <3>5. Ticker(p)' = t
        BY <3>2 DEF Ticker, t
      <3>6. Borrows(p)'
        BY <3>2, <3>5 DEF Borrows
      <3> QED BY <1>1, <1>2, <3>2, <3>4, <3>6 DEF Carrying
    <2>3. CASE SelectsNothing(p)
      <3> DEFINE t == Ticker(p)
      <3>1. t \in Tickers
        BY <2>3, AddressTyped, TypeSplit DEF SelectsNothing, Step, Between
      <3>2. /\ UNCHANGED <<rows, base, todo, carried>>
            /\ \A q \in Processes \ {p} : pc'[q] = pc[q]
            /\ rows[t] = 0
        BY <1>0, <2>3 DEF SelectsNothing, Step
      <3>3. base[p][t] = 0
        BY <1>0, <3>1, <3>2 DEF Carrying
      <3>4. CarriedFrom(p)'
        BY <3>2 DEF CarriedFrom, Carrying
      <3>5. Borrows(p)'
        BY <3>2, <3>3 DEF Borrows, Ticker
      <3> QED BY <1>1, <1>2, <3>2, <3>4, <3>5 DEF Carrying
    <2>4. CASE HasNoPrice(p) \/ FindsNoKey(p) \/ GetsNothing(p)
      BY <1>1, <1>3, <2>4 DEF HasNoPrice, FindsNoKey, GetsNothing, End, Between
    <2>5. CASE Scans(p) \/ Gets(p)
      <3>1. /\ UNCHANGED <<rows, base, todo, carried>>
            /\ \A q \in Processes \ {p} : pc'[q] = pc[q]
            /\ pc[p] \in {"scan", "get"}
        BY <1>0, <2>5 DEF Scans, Gets, Step
      <3>2. CarriedFrom(p)'
        BY <3>1 DEF CarriedFrom, Carrying
      <3>3. Borrows(p)'
        BY <3>1 DEF Borrows, Ticker, Carrying
      <3> QED BY <1>1, <1>2, <3>1, <3>2, <3>3 DEF Carrying
    <2>6. CASE Sets(p)
      <3>1. PostGoesOn(p) /\ rows' = rows
        BY <2>6 DEF Sets
      <3>2. CASE Len(todo[p]) = 1 /\ Len(todo[p][1].to) = 1
        BY <1>1, <1>3, <3>1, <3>2 DEF PostGoesOn, End, Between
      <3>3. CASE ~(Len(todo[p]) = 1 /\ Len(todo[p][1].to) = 1)
        BY <1>0, <1>1, <1>4, <3>1, <3>3 DEF PostGoesOn
      <3> QED BY <3>2, <3>3
    <2> QED BY <1>8, <2>1, <2>2, <2>3, <2>4, <2>5, <2>6 DEF Postman
  <1>9. ASSUME NEW p \in Processes, Fails(p) PROVE Carrying'
    <2>1. Asked(p) \in Tickers
      BY <1>9, AddressTyped, TypeSplit DEF Fails
    <2>2. \A t \in Tickers : rows[t] <= rows'[t]
      BY <1>1, <1>5, <1>9, <2>1 DEF Fails
    <2> QED BY <1>3, <1>9, <2>2 DEF Fails, Between
  <1>10. ASSUME UNCHANGED <<rows, roundVars>> PROVE Carrying'
    <2>1. ASSUME NEW p \in Processes
          PROVE  /\ \A t \in Tickers : base'[p][t] <= rows'[t]
                 /\ CarriedFrom(p)'
                 /\ Borrows(p)'
      BY <1>1, <1>10, OtherCarries DEF roundVars
    <2> QED BY <2>1 DEF Carrying
  <1> QED
    BY <1>7, <1>8, <1>9, <1>10
    DEF Next, Environment, Copied, Connects, Disconnects, vars

\* Whatever a round carries was in the database, and was not out of date when
\* the round started.
LEMMA CarryingHolds == Spec => []Carrying
  <1>1. Init => Carrying
    <2> SUFFICES ASSUME Init PROVE Carrying
      OBVIOUS
    <2>1. ASSUME NEW p \in Processes
          PROVE  /\ pc[p] = "idle"
                 /\ carried[p] = NoPrice
                 /\ base[p] = NoRows
      BY DEF Init
    <2>2. \A t \in Tickers : NoRows[t] = 0 /\ rows[t] = 0
      BY DEF Init, NoRows
    <2> QED BY <2>1, <2>2 DEF Carrying, CarriedFrom, Borrows
  <1> QED BY <1>1, CarryingStep, RoundTypes, PTL DEF Spec

\* A person is sent the price of another address's ticker only while its own
\* ticker had no row when the round started (send_every l. 84, 187).
THEOREM BorrowsOnlyUnpriced == Spec => []OnlyUnpricedBorrow
  <1>1. Carrying => OnlyUnpricedBorrow
    BY DEF Carrying, Borrows, OnlyUnpricedBorrow
  <1> QED BY <1>1, CarryingHolds, PTL

-----------------------------------------------------------------------------
(* What is written *)

\* What a step does to the records and the rows.
LEMMA Writes ==
  ASSUME TypeOK, [Next]_vars
  PROVE  \/ UNCHANGED <<record, rows>>
         \/ \E t \in Tickers : Commit(t) /\ UNCHANGED record
         \/ \E p \in Processes : pc[p] = "set" /\ Fill(p) /\ UNCHANGED rows
         \/ \E k \in Keys : /\ \/ record' = [record EXCEPT ![k] = Blank]
                               \/ record' = [record EXCEPT ![k] = Gone]
                           /\ UNCHANGED rows
  <1>1. ASSUME NEW p \in Processes, pc[p] \notin Between PROVE Asked(p) \in Tickers
    BY <1>1, AddressTyped, TypeSplit
  <1>2. ASSUME NEW p \in Processes, Inserts(p) PROVE Commit(Asked(p)) /\ UNCHANGED record
    BY <1>2 DEF Inserts
  <1>3. ASSUME NEW p \in Processes, Inserts(p) PROVE Asked(p) \in Tickers
    BY <1>1, <1>3 DEF Inserts, Between
  <1>4. ASSUME NEW p \in Processes, Sets(p) PROVE pc[p] = "set" /\ Fill(p) /\ UNCHANGED rows
    BY <1>4 DEF Sets
  <1>5. ASSUME NEW p \in Processes, Feed(p) \/ Postman(p), ~Inserts(p), ~Sets(p)
        PROVE  UNCHANGED <<record, rows>>
    BY <1>5 DEF Feed, FeedStarts, Answered, Unanswered, Postman, PostStarts, SelectsRow,
                SelectsNothing, HasNoPrice, Scans, FindsNoKey, Gets, GetsNothing
  <1>6. ASSUME NEW p \in Processes, Fails(p)
        PROVE  \/ UNCHANGED <<record, rows>>
               \/ Commit(Asked(p)) /\ UNCHANGED record
               \/ pc[p] = "set" /\ Fill(p) /\ UNCHANGED rows
    BY <1>6 DEF Fails
  <1>7. ASSUME NEW p \in Processes, Fails(p) PROVE Asked(p) \in Tickers
    BY <1>1, <1>7 DEF Fails
  <1>8. ASSUME NEW k \in Keys, Connects(k) \/ Disconnects(k)
        PROVE  /\ \/ record' = [record EXCEPT ![k] = Blank]
                  \/ record' = [record EXCEPT ![k] = Gone]
               /\ UNCHANGED rows
    BY <1>8 DEF Connects, Disconnects
  <1>9. ASSUME Copied \/ UNCHANGED vars PROVE UNCHANGED <<record, rows>>
    BY <1>9 DEF Copied, vars
  <1> QED BY <1>2, <1>3, <1>4, <1>5, <1>6, <1>7, <1>8, <1>9 DEF Next, Environment

\* A round never fills a record with a price that was out of date when the
\* round started, although the price is carried from one address to the next
\* and over four awaits (send_every l. 52, 90, 224).
THEOREM NeverOlderThanRound == Spec => NoOlderThanRound
  <1> DEFINE Fresh(k) == record'[k] # record[k] /\ record'[k] \in Prices
                           => \E p \in Processes :
                                /\ pc[p] = "set" /\ key[p] = k
                                /\ record'[k].row >= base[p][record'[k].ticker]
  <1>1. TypeOK /\ Carrying /\ [Next]_vars => \A k \in Keys : Fresh(k)
    <2> SUFFICES ASSUME TypeOK, Carrying, [Next]_vars, NEW k \in Keys,
                        record'[k] # record[k], record'[k] \in Prices
                 PROVE  \E p \in Processes :
                          /\ pc[p] = "set" /\ key[p] = k
                          /\ record'[k].row >= base[p][record'[k].ticker]
      OBVIOUS
    <2>1. record \in [Keys -> {Gone, Blank} \cup Prices]
      BY DEF TypeOK
    <2>2. PICK p \in Processes : pc[p] = "set" /\ Fill(p)
      BY <2>1, Writes, RoundsAssumption
    <2>3. key[p] = k /\ record'[k] = carried[p]
      BY <2>1, <2>2 DEF Fill
    <2>4. carried[p] # NoPrice /\ carried[p] \in Prices
      BY <2>2 DEF TypeOK
    <2>5. carried[p].row \in base[p][carried[p].ticker] .. rows[carried[p].ticker]
      BY <2>4 DEF Carrying, CarriedFrom
    <2>6. /\ carried[p].ticker \in Tickers
          /\ base[p][carried[p].ticker] \in Int
      BY <2>4, RoundsAssumption DEF TypeOK, Prices
    <2>7. record'[k].row >= base[p][record'[k].ticker]
      BY <2>3, <2>5, <2>6
    <2> QED BY <2>2, <2>3, <2>7
  <1>2. TypeOK /\ Carrying /\ [Next]_vars
          => [\A k \in Keys : Fresh(k)]_vars
    BY <1>1
  <1> QED BY <1>2, RoundTypes, CarryingHolds, PTL DEF Spec, NoOlderThanRound

-----------------------------------------------------------------------------
(* The order of the prices in a record *)

\* Between two states, a record does not go back to an older price of a ticker.
NeverBack ==
  [][\A k \in Keys :
       record[k] \in Prices /\ record'[k] \in Prices /\ record'[k].ticker = record[k].ticker
         => record'[k].row >= record[k].row]_vars

\* Postmen carry the prices, the feed does not.
OnlyPostmenCarry ==
  \A p \in Processes :
    pc[p] \in {"select", "scan", "get", "set"} \/ carried[p] # NoPrice => p \in Postmen

\* A record has a price of the database ...
RecordsKnown ==
  \A k \in Keys : record[k] \in Prices => record[k].row <= rows[record[k].ticker]

\* ... and none that is newer than the one a postman carries.
RecordsBehind ==
  \A p \in Processes, k \in Keys :
    carried[p] # NoPrice /\ record[k] \in Prices /\ record[k].ticker = carried[p].ticker
      => record[k].row <= carried[p].row

BackInv == OnlyPostmenCarry /\ RecordsKnown /\ RecordsBehind

\* What a step does to the price that a process carries.
LEMMA Carries ==
  ASSUME TypeOK, [Next]_vars, NEW p \in Processes
  PROVE  /\ \/ carried'[p] = carried[p]
            \/ carried'[p] = NoPrice
            \/ /\ pc[p] = "select"
               /\ carried'[p] = [ticker |-> Ticker(p), row |-> rows[Ticker(p)]]
               /\ UNCHANGED <<record, rows>>
         /\ \/ pc'[p] \notin {"select", "scan", "get", "set"}
            \/ pc[p] \in {"select", "scan", "get", "set"}
            \/ p \in Postmen
  <1> DEFINE Goal == /\ \/ carried'[p] = carried[p]
                        \/ carried'[p] = NoPrice
                        \/ /\ pc[p] = "select"
                           /\ carried'[p] = [ticker |-> Ticker(p), row |-> rows[Ticker(p)]]
                           /\ UNCHANGED <<record, rows>>
                     /\ \/ pc'[p] \notin {"select", "scan", "get", "set"}
                        \/ pc[p] \in {"select", "scan", "get", "set"}
                        \/ p \in Postmen
  <1> SUFFICES Goal
    OBVIOUS
  <1>0. pc \in [Processes -> Phases] /\ carried \in [Processes -> Prices \cup {NoPrice}]
    BY DEF TypeOK
  <1> HIDE DEF Phases, Prices
  <1>1. ASSUME NEW q \in Processes, NEW phase \in Between, Leaves(q, phase) PROVE Goal
    BY <1>0, <1>1 DEF Leaves, Between
  <1>2. ASSUME NEW q \in Processes, Feed(q) PROVE Goal
    <2>1. CASE Answered(q)
      BY <1>0, <2>1 DEF Answered, Step
    <2>2. ASSUME NEW s, FeedTakes(q, s) PROVE Goal
      <3>1. CASE End(q)
        BY <1>1, <3>1 DEF End, Between
      <3>2. CASE FeedAsks(q)
        BY <1>0, <3>2 DEF FeedAsks
      <3> QED BY <2>2, <3>1, <3>2, EndsOrAsks
    <2>3. FeedStarts(q) \/ Unanswered(q) \/ Inserts(q) => \E s : FeedTakes(q, s)
      BY DEF FeedStarts, Unanswered, Inserts, FeedGoesOn
    <2> QED BY <1>2, <2>1, <2>2, <2>3 DEF Feed
  <1>3. ASSUME NEW q \in Processes, Postman(q) PROVE Goal
    <2>1. CASE PostStarts(q)
      BY <1>0, <2>1 DEF PostStarts
    <2>2. CASE SelectsRow(q)
      BY <1>0, <2>2 DEF SelectsRow, Step
    <2>3. CASE SelectsNothing(q) \/ Scans(q) \/ Gets(q)
      BY <1>0, <2>3 DEF SelectsNothing, Scans, Gets, Step
    <2>4. CASE HasNoPrice(q) \/ FindsNoKey(q) \/ GetsNothing(q)
      BY <1>1, <2>4 DEF HasNoPrice, FindsNoKey, GetsNothing, End, Between
    <2>5. CASE Sets(q)
      <3>1. pc[q] = "set" /\ PostGoesOn(q)
        BY <2>5 DEF Sets
      <3>2. CASE Len(todo[q]) = 1 /\ Len(todo[q][1].to) = 1
        BY <1>1, <3>1, <3>2 DEF PostGoesOn, End, Between
      <3>3. CASE ~(Len(todo[q]) = 1 /\ Len(todo[q][1].to) = 1)
        BY <1>0, <3>1, <3>3 DEF PostGoesOn
      <3> QED BY <3>2, <3>3
    <2> QED BY <1>3, <2>1, <2>2, <2>3, <2>4, <2>5 DEF Postman
  <1>4. ASSUME NEW q \in Processes, Fails(q) PROVE Goal
    BY <1>1, <1>4 DEF Fails, Between
  <1>5. CASE Environment \/ UNCHANGED vars
    BY <1>5 DEF Environment, Copied, Connects, Disconnects, vars, roundVars
  <1> HIDE DEF Goal
  <1> QED BY <1>2, <1>3, <1>4, <1>5 DEF Next

\* What a step may make of a record: a price only with a price that is carried.
LEMMA RecordSteps ==
  ASSUME TypeOK, [Next]_vars, NEW k \in Keys, record'[k] \in Prices
  PROVE  \/ record'[k] = record[k]
         \/ \E p \in Processes : /\ pc[p] = "set"
                                 /\ carried[p] # NoPrice
                                 /\ record'[k] = carried[p]
                                 /\ UNCHANGED rows
  <1>1. /\ record \in [Keys -> {Gone, Blank} \cup Prices]
        /\ Gone \notin Prices /\ Blank \notin Prices
        /\ \A p \in Processes : pc[p] = "set" => carried[p] # NoPrice
    BY RoundsAssumption DEF TypeOK
  <1> HIDE DEF Prices
  <1>2. ASSUME NEW p \in Processes, pc[p] = "set", Fill(p), UNCHANGED rows
        PROVE  record'[k] = record[k] \/ record'[k] = carried[p]
    BY <1>1, <1>2 DEF Fill
  <1>3. ASSUME NEW j \in Keys, \/ record' = [record EXCEPT ![j] = Blank]
                               \/ record' = [record EXCEPT ![j] = Gone]
        PROVE  record'[k] = record[k]
    BY <1>1, <1>3
  <1> QED BY <1>1, <1>2, <1>3, Writes

\* With one postman the records stay behind what is carried.
LEMMA BackStep ==
  ASSUME \A p, q \in Postmen : p = q
  PROVE  TypeOK /\ TypeOK' /\ Carrying /\ BackInv /\ [Next]_vars => BackInv'
  <1> SUFFICES ASSUME TypeOK, TypeOK', Carrying, BackInv, [Next]_vars PROVE BackInv'
    OBVIOUS
  <1>0. /\ OnlyPostmenCarry /\ RecordsKnown /\ RecordsBehind
        /\ \A t \in Tickers : rows[t] \in Int /\ rows'[t] \in Int
        /\ \A x \in Prices : x.ticker \in Tickers /\ x.row \in Int
        /\ carried \in [Processes -> Prices \cup {NoPrice}]
    BY RoundsAssumption DEF BackInv, TypeOK, Prices
  <1> HIDE DEF Prices
  <1>1. OnlyPostmenCarry'
    BY <1>0, Carries DEF OnlyPostmenCarry
  <1>2. \A t \in Tickers : rows[t] <= rows'[t]
    <2>1. ASSUME NEW u \in Tickers, Commit(u) PROVE \A t \in Tickers : rows[t] <= rows'[t]
      BY <1>0, <2>1 DEF Commit, TypeOK
    <2>2. UNCHANGED rows => \A t \in Tickers : rows[t] <= rows'[t]
      BY <1>0
    <2> QED BY <2>1, <2>2, Writes
  <1>3. ASSUME NEW k \in Keys, record'[k] \in Prices
        PROVE  record'[k].row <= rows'[record'[k].ticker]
    <2>0. ASSUME NEW p \in Processes, carried[p] # NoPrice
          PROVE  carried[p].row <= rows[carried[p].ticker]
      <3>1. carried[p].row \in base[p][carried[p].ticker] .. rows[carried[p].ticker]
        BY <2>0 DEF Carrying, CarriedFrom
      <3> QED BY <3>1
    <2>1. CASE record'[k] = record[k]
      BY <1>0, <1>2, <1>3, <2>1 DEF RecordsKnown
    <2>2. ASSUME NEW p \in Processes, carried[p] # NoPrice, record'[k] = carried[p], UNCHANGED rows
          PROVE  record'[k].row <= rows'[record'[k].ticker]
      BY <2>0, <2>2
    <2> QED BY <1>3, <2>1, <2>2, RecordSteps
  <1>4. ASSUME NEW p \in Processes, NEW k \in Keys, carried'[p] # NoPrice,
               record'[k] \in Prices, record'[k].ticker = carried'[p].ticker
        PROVE  record'[k].row <= carried'[p].row
    <2>1. CASE carried'[p] = carried[p]
      <3>1. CASE record'[k] = record[k]
        BY <1>0, <1>4, <2>1, <3>1 DEF RecordsBehind
      <3>2. ASSUME NEW q \in Processes, pc[q] = "set", record'[k] = carried[q]
            PROVE  record'[k].row <= carried'[p].row
        <4>1. p = q
          BY <1>0, <1>4, <2>1, <3>2 DEF OnlyPostmenCarry
        <4> QED BY <1>0, <1>4, <2>1, <3>2, <4>1
      <3> QED BY <1>4, <3>1, <3>2, RecordSteps
    <2>2. CASE /\ carried'[p] = [ticker |-> Ticker(p), row |-> rows[Ticker(p)]]
               /\ UNCHANGED <<record, rows>>
      BY <1>0, <1>4, <2>2 DEF RecordsKnown
    <2> QED BY <1>4, <2>1, <2>2, Carries
  <1> QED BY <1>1, <1>3, <1>4 DEF BackInv, RecordsKnown, RecordsBehind

\* While the rounds of the postman do not overlap, the price in a record is only
\* replaced by one that is as new, for any copy of the subscriptions and any
\* failures (send_every l. 90, 224); with two postmen at once TLC finds a
\* counterexample.
THEOREM LonePostmanNeverGoesBack ==
  ASSUME \A p, q \in Postmen : p = q
  PROVE  Spec => NeverBack
  <1>1. Init => BackInv
    <2> SUFFICES ASSUME Init PROVE BackInv
      OBVIOUS
    <2>1. /\ \A k \in Keys : record[k] \notin Prices
          /\ \A p \in Processes : pc[p] = "idle" /\ carried[p] = NoPrice
      BY RoundsAssumption DEF Init
    <2> QED BY <2>1 DEF BackInv, OnlyPostmenCarry, RecordsKnown, RecordsBehind
  <1>2. Spec => []BackInv
    BY <1>1, BackStep, RoundTypes, CarryingHolds, PTL DEF Spec
  <1> DEFINE Back(k) == record[k] \in Prices /\ record'[k] \in Prices /\ record'[k].ticker = record[k].ticker
                          => record'[k].row >= record[k].row
  <1>3. TypeOK /\ BackInv /\ [Next]_vars => [\A k \in Keys : Back(k)]_vars
    <2> SUFFICES ASSUME TypeOK, BackInv, [Next]_vars, NEW k \in Keys,
                        record[k] \in Prices, record'[k] \in Prices,
                        record'[k].ticker = record[k].ticker
                 PROVE  record'[k].row >= record[k].row
      OBVIOUS
    <2>1. record[k].row \in Int /\ record'[k].row \in Int
      BY DEF Prices
    <2> HIDE DEF Prices
    <2>2. CASE record'[k] = record[k]
      BY <2>1, <2>2
    <2>3. ASSUME NEW p \in Processes, carried[p] # NoPrice, record'[k] = carried[p]
          PROVE  record'[k].row >= record[k].row
      BY <2>1, <2>3 DEF BackInv, RecordsBehind
    <2> QED BY <2>2, <2>3, RecordSteps
  <1> QED BY <1>2, <1>3, RoundTypes, PTL DEF Spec, NeverBack

-----------------------------------------------------------------------------
(* The mailbox *)

\* A step of the two tasks or of their environment is a step of the mailbox or
\* leaves it alone.
LEMMA MailboxStep == TypeOK /\ Carrying /\ [Next]_vars => [Box!Next]_(Box!vars)
  <1> SUFFICES ASSUME TypeOK, Carrying, [Next]_vars PROVE Box!Next \/ UNCHANGED Box!vars
    OBVIOUS
  <1>0. rows \in [Tickers -> 0 .. MaxRows]
    BY DEF TypeOK
  <1>1. ASSUME NEW t \in Tickers, Commit(t), UNCHANGED record
        PROVE  Box!Next \/ UNCHANGED Box!vars
    <2>1. CASE rows[t] < MaxRows
      <3>1. Box!NewRow(t)
        BY <1>1, <2>1 DEF Commit, Box!NewRow
      <3> QED BY <3>1 DEF Box!Next
    <2>2. CASE ~(rows[t] < MaxRows)
      <3>1. rows' = rows
        BY <1>0, <1>1, <2>2 DEF Commit
      <3> QED BY <1>1, <3>1 DEF Box!vars
    <2> QED BY <2>1, <2>2
  <1>2. ASSUME NEW p \in Processes, pc[p] = "set", Fill(p), UNCHANGED rows
        PROVE  Box!Next
    <2>1. /\ carried[p] # NoPrice
          /\ carried[p] \in Prices
          /\ key[p] \in Keys
      BY <1>2 DEF TypeOK
    <2> DEFINE t == carried[p].ticker
               n == carried[p].row
    <2>2. /\ t \in Tickers
          /\ n \in 1 .. MaxRows
          /\ carried[p] = [ticker |-> t, row |-> n]
      BY <2>1 DEF Prices
    <2>3. n \in base[p][t] .. rows[t]
      BY <2>1 DEF Carrying, CarriedFrom
    <2>4. rows[t] \in Int /\ base[p][t] \in Int
      BY <1>0, <2>2, RoundsAssumption DEF TypeOK
    <2> HIDE DEF t, n
    <2>5. n \in 1 .. rows[t]
      BY <2>2, <2>3, <2>4, RoundsAssumption
    <2>6. Box!Fill(key[p], t, n)
      BY <1>2, <2>2, <2>5 DEF Fill, Box!Fill
    <2> QED BY <2>1, <2>2, <2>5, <2>6 DEF Box!Next
  <1>3. ASSUME NEW k \in Keys, UNCHANGED rows,
               \/ record' = [record EXCEPT ![k] = Blank]
               \/ record' = [record EXCEPT ![k] = Gone]
        PROVE  Box!Next
    BY <1>3 DEF Box!Next, Box!Put, Box!Drop
  <1>4. ASSUME UNCHANGED <<record, rows>> PROVE UNCHANGED Box!vars
    BY <1>4 DEF Box!vars
  <1> QED BY <1>1, <1>2, <1>3, <1>4, Writes

\* The records the two tasks keep are a mailbox: whatever fails, a record holds
\* a price that the database has (add_every l. 97-168, send_every l. 224).
THEOREM RoundsImplementMailbox == Spec => Mailed
  <1>1. Init => Box!Init
    <2> SUFFICES ASSUME Init PROVE Box!Init
      OBVIOUS
    <2>1. /\ rows = [t \in Tickers |-> 0]
          /\ record = [k \in Keys |-> Gone]
      BY DEF Init, NoRows
    <2> QED BY <2>1 DEF Box!Init
  <1> QED BY <1>1, MailboxStep, RoundTypes, CarryingHolds, PTL DEF Spec, Mailed, Box!Spec
=============================================================================
