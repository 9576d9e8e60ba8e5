------------------------ MODULE SubscriptionBookProofs ------------------------
(***************************************************************************)
(* Proofs about SubscriptionBook: the types, who stays under a ticker, who *)
(* is gone after cancelling everything, and what the copies may know.      *)
(***************************************************************************)
EXTENDS SubscriptionBook, SequenceTheorems, FiniteSetTheorems, TLAPS

-----------------------------------------------------------------------------
(* The inductive invariant *)

\* A person is in a list once: cancel_all_orders() removes one occurrence.
Once ==
  \A t \in DOMAIN book : \A i, j \in DOMAIN book[t] :
    book[t][i] = book[t][j] /\ book[t][i] \in Persons => i = j

IInv == TypeOK /\ Once /\ FirstStaysBooked /\ CancelAllRemoves /\ CopiesNotAhead

-----------------------------------------------------------------------------
(* Sequences *)

\* A set of natural numbers has a least element: the intervals 1 .. x are
\* ordered by inclusion, which is well-founded on finite sets.
LEMMA Least ==
  ASSUME NEW T \in SUBSET Nat, T # {}
  PROVE  \E x \in T : \A y \in T : x <= y
  <1> DEFINE F == {1 .. x : x \in T}
             R == StrictSubsetOrdering(Nat)
  <1>1. IsWellFoundedOn(R, FiniteSubsetsOf(Nat))
    BY FS_StrictSubsetOrderingWellFounded
  <1>2. ASSUME NEW x \in T PROVE 1 .. x \in FiniteSubsetsOf(Nat)
    <2>1. IsFiniteSet(1 .. x)
      BY FS_Interval
    <2> QED BY <2>1 DEF FiniteSubsetsOf
  <1>3. F \subseteq FiniteSubsetsOf(Nat) /\ F # {}
    BY <1>2
  <1>4. \A x, y \in T : y < x => <<1 .. y, 1 .. x>> \in R
    <2>1. ASSUME NEW x \in T, NEW y \in T, y < x PROVE <<1 .. y, 1 .. x>> \in R
      <3>1. 1 .. y \in SUBSET Nat /\ 1 .. x \in SUBSET Nat /\ 1 .. y \subseteq 1 .. x
        BY <2>1
      <3>2. x \in 1 .. x /\ x \notin 1 .. y
        BY <2>1
      <3> QED BY <3>1, <3>2 DEF StrictSubsetOrdering
    <2> QED BY <2>1
  <1> HIDE DEF R
  <1>5. PICK m \in F : \A y \in F : ~(<<y, m>> \in R)
    <2> HIDE DEF F
    <2> QED BY <1>1, <1>3, WFMin
  <1>6. PICK x \in T : m = 1 .. x
    OBVIOUS
  <1>7. \A y \in T : ~(y < x)
    BY <1>4, <1>5, <1>6
  <1> QED BY <1>7

\* A sequence without one of its elements: the others stay in their order.
LEMMA Removed ==
  ASSUME NEW S, NEW s \in Seq(S), NEW i \in 1 .. Len(s)
  PROVE  /\ RemoveAt(s, i) \in Seq(S)
         /\ Len(RemoveAt(s, i)) = Len(s) - 1
         /\ \A j \in 1 .. Len(s) - 1 : RemoveAt(s, i)[j] = s[IF j < i THEN j ELSE j + 1]
  <1> DEFINE a == SubSeq(s, 1, i - 1)
             b == SubSeq(s, i + 1, Len(s))
  <1>1. Len(s) \in Nat /\ i \in Int
    BY LenProperties
  <1>2. /\ a \in Seq(S) /\ Len(a) = i - 1
        /\ \A j \in 1 .. i - 1 : a[j] = s[j]
    BY <1>1
  <1>3. /\ b \in Seq(S) /\ Len(b) = Len(s) - i
        /\ \A j \in 1 .. Len(s) - i : b[j] = s[i + j]
    BY <1>1
  <1>4. RemoveAt(s, i) = a \o b
    BY DEF RemoveAt
  <1> HIDE DEF a, b
  <1>5. /\ a \o b \in Seq(S)
        /\ Len(a \o b) = Len(a) + Len(b)
        /\ \A j \in 1 .. Len(a) + Len(b) : (a \o b)[j] = IF j <= Len(a) THEN a[j] ELSE b[j - Len(a)]
    BY <1>2, <1>3, ConcatProperties
  <1>6. ASSUME NEW j \in 1 .. Len(s) - 1
        PROVE  (a \o b)[j] = s[IF j < i THEN j ELSE j + 1]
    <2>1. CASE j < i
      BY <1>1, <1>2, <1>3, <1>5, <2>1
    <2>2. CASE ~(j < i)
      <3>1. j - Len(a) \in 1 .. Len(s) - i /\ i + (j - Len(a)) = j + 1
        BY <1>1, <1>2, <2>2
      <3>2. b[j - Len(a)] = s[j + 1]
        BY <1>3, <3>1
      <3> QED BY <1>1, <1>2, <1>3, <1>5, <2>2, <3>2
    <2> QED BY <2>1, <2>2
  <1> QED BY <1>1, <1>2, <1>3, <1>4, <1>5, <1>6

\* RemoveFirst() removes one occurrence, if there is one.
LEMMA FirstRemoved ==
  ASSUME NEW S, NEW s \in Seq(S), NEW e
  PROVE  \/ e \notin ToSet(s) /\ RemoveFirst(s, e) = s
         \/ \E i \in 1 .. Len(s) : s[i] = e /\ RemoveFirst(s, e) = RemoveAt(s, i)
  <1> DEFINE I == {i \in 1 .. Len(s) : s[i] = e}
  <1>1. CASE I = {}
    <2>1. DOMAIN s = 1 .. Len(s)
      BY LenProperties
    <2>2. \A i \in 1 .. Len(s) : s[i] # e
      BY <1>1
    <2> QED BY <2>1, <2>2 DEF RemoveFirst, ToSet
  <1>2. CASE I # {}
    <2>1. I \in SUBSET Nat
      OBVIOUS
    <2>2. SelectInSeq(s, LAMBDA v : v = e) = Min(I)
      BY <1>2 DEF SelectInSeq
    <2>3. RemoveFirst(s, e) = RemoveAt(s, Min(I))
      BY <1>2, <2>2 DEF RemoveFirst
    <2>4. \E x \in I : \A y \in I : x <= y
      BY <1>2, <2>1, Least
    <2>5. Min(I) \in I
      BY <2>4 DEF Min
    <2> QED BY <2>3, <2>5
  <1> QED BY <1>1, <1>2

\* Who is in a list after e was removed from it: e only if it was there twice.
LEMMA Remaining ==
  ASSUME NEW S, NEW s \in Seq(S), NEW e
  PROVE  /\ RemoveFirst(s, e) \in Seq(S)
         /\ ToSet(RemoveFirst(s, e)) \subseteq ToSet(s)
         /\ \A x \in ToSet(s) : x # e => x \in ToSet(RemoveFirst(s, e))
         /\ \A P : (\A i, j \in DOMAIN s : s[i] = s[j] /\ s[i] \in P => i = j)
              => \A i, j \in DOMAIN RemoveFirst(s, e) :
                   RemoveFirst(s, e)[i] = RemoveFirst(s, e)[j] /\ RemoveFirst(s, e)[i] \in P => i = j
         /\ (\A i, j \in DOMAIN s : s[i] = e /\ s[j] = e => i = j) => e \notin ToSet(RemoveFirst(s, e))
  <1> DEFINE r == RemoveFirst(s, e)
  <1>1. CASE e \notin ToSet(s) /\ r = s
    BY <1>1
  <1>2. ASSUME NEW i \in 1 .. Len(s), s[i] = e, r = RemoveAt(s, i)
        PROVE  /\ r \in Seq(S)
               /\ ToSet(r) \subseteq ToSet(s)
               /\ \A x \in ToSet(s) : x # e => x \in ToSet(r)
               /\ \A P : (\A k, j \in DOMAIN s : s[k] = s[j] /\ s[k] \in P => k = j)
                    => \A k, j \in DOMAIN r : r[k] = r[j] /\ r[k] \in P => k = j
               /\ (\A k, j \in DOMAIN s : s[k] = e /\ s[j] = e => k = j) => e \notin ToSet(r)
    <2> HIDE DEF r
    <2> DEFINE at(j) == IF j < i THEN j ELSE j + 1
    <2>1. /\ r \in Seq(S)
          /\ Len(r) = Len(s) - 1
          /\ \A j \in 1 .. Len(s) - 1 : r[j] = s[at(j)]
      BY <1>2, Removed
    <2>2. /\ Len(s) \in Nat
          /\ DOMAIN s = 1 .. Len(s)
          /\ DOMAIN r = 1 .. Len(s) - 1
      BY <2>1, LenProperties
    <2>3. \A j \in DOMAIN r : at(j) \in DOMAIN s /\ at(j) # i
      BY <2>2
    <2>4. \A j, k \in DOMAIN r : at(j) = at(k) => j = k
      BY <2>2
    <2>5. ASSUME NEW x \in ToSet(s), x # e PROVE x \in ToSet(r)
      <3>1. PICK k \in 1 .. Len(s) : s[k] = x
        BY <2>2 DEF ToSet
      <3>2. k < i \/ k > i
        BY <1>2, <2>2, <2>5, <3>1
      <3>3. CASE k < i
        <4>1. k \in DOMAIN r /\ at(k) = k
          BY <2>2, <3>3
        <4>2. r[k] = x
          BY <2>1, <2>2, <3>1, <4>1
        <4> QED BY <4>1, <4>2 DEF ToSet
      <3>4. CASE k > i
        <4>1. k - 1 \in DOMAIN r /\ at(k - 1) = k
          BY <2>2, <3>4
        <4>2. r[k - 1] = x
          BY <2>1, <2>2, <3>1, <4>1
        <4> QED BY <4>1, <4>2 DEF ToSet
      <3> QED BY <3>2, <3>3, <3>4
    <2> HIDE DEF at
    <2>6. \A j \in DOMAIN r : r[j] = s[at(j)]
      BY <2>1, <2>2
    <2>7. ToSet(r) \subseteq ToSet(s)
      BY <2>3, <2>6 DEF ToSet
    <2>8. ASSUME NEW P, \A k, j \in DOMAIN s : s[k] = s[j] /\ s[k] \in P => k = j,
                 NEW k \in DOMAIN r, NEW j \in DOMAIN r, r[k] = r[j], r[k] \in P
          PROVE  k = j
      BY <2>3, <2>4, <2>6, <2>8
    <2>9. ASSUME \A k, j \in DOMAIN s : s[k] = e /\ s[j] = e => k = j, e \in ToSet(r)
          PROVE  FALSE
      <3>1. PICK j \in DOMAIN r : r[j] = e
        BY <2>9 DEF ToSet
      <3> QED BY <1>2, <2>2, <2>3, <2>6, <2>9, <3>1
    <2> QED BY <2>1, <2>5, <2>7, <2>8, <2>9
  <1> HIDE DEF r
  <1>3. \/ e \notin ToSet(s) /\ r = s
        \/ \E i \in 1 .. Len(s) : s[i] = e /\ r = RemoveAt(s, i)
    BY FirstRemoved DEF r
  <1>4. CASE \E i \in 1 .. Len(s) : s[i] = e /\ r = RemoveAt(s, i)
    BY <1>2, <1>4 DEF r
  <1> QED BY <1>1, <1>3, <1>4 DEF r

-----------------------------------------------------------------------------
(* The history *)

\* The events are told apart by what they are, by whom and about which ticker.
LEMMA EventsDiffer ==
  ASSUME NEW p, NEW t, NEW q, NEW u
  PROVE  /\ <<"first", p, t>> = <<"first", q, u>> <=> p = q /\ t = u
         /\ <<"other", p, t>> = <<"other", q, u>> <=> p = q /\ t = u
         /\ <<"cancel", p, t>> = <<"cancel", q, u>> <=> p = q /\ t = u
         /\ <<"cancel all", p>> = <<"cancel all", q>> <=> p = q
         /\ <<"first", p, t>> # <<"other", q, u>>
         /\ <<"first", p, t>> # <<"cancel", q, u>>
         /\ <<"first", p, t>> # <<"cancel all", q>>
         /\ <<"first", p, t>> # <<"restart">>
         /\ <<"other", p, t>> # <<"cancel", q, u>>
         /\ <<"other", p, t>> # <<"cancel all", q>>
         /\ <<"other", p, t>> # <<"restart">>
         /\ <<"cancel", p, t>> # <<"cancel all", q>>
         /\ <<"cancel", p, t>> # <<"restart">>
         /\ <<"cancel all", p>> # <<"restart">>
  OBVIOUS

\* An event is added to the history.
LEMMA SinceThen ==
  ASSUME log \in Seq(Events), NEW ev, log' = Append(log, ev), NEW E, NEW F
  PROVE  Since(E, F)' <=> ev \in E \/ (Since(E, F) /\ ev \notin F)
  <1>1. /\ Len(log) \in Nat
        /\ DOMAIN log = 1 .. Len(log)
        /\ Len(log') = Len(log) + 1
        /\ DOMAIN log' = 1 .. Len(log) + 1
        /\ \A i \in 1 .. Len(log) : log'[i] = log[i]
        /\ log'[Len(log) + 1] = ev
    BY AppendProperties, LenProperties
  <1>2. ASSUME Since(E, F)', ev \notin E PROVE Since(E, F) /\ ev \notin F
    <2>1. PICK i \in DOMAIN log' :
            log'[i] \in E /\ \A j \in i + 1 .. Len(log') : log'[j] \notin F
      BY <1>2 DEF Since
    <2>2. i \in 1 .. Len(log)
      BY <1>1, <1>2, <2>1
    <2>3. ev \notin F
      BY <1>1, <2>1, <2>2
    <2>4. log[i] \in E /\ \A j \in i + 1 .. Len(log) : log[j] \notin F
      BY <1>1, <2>1, <2>2
    <2> QED BY <1>1, <2>2, <2>3, <2>4 DEF Since
  <1>3. ASSUME ev \in E PROVE Since(E, F)'
    <2>1. /\ Len(log) + 1 \in DOMAIN log'
          /\ log'[Len(log) + 1] \in E
          /\ \A j \in Len(log) + 2 .. Len(log') : FALSE
      BY <1>1, <1>3
    <2>2. \A j \in (Len(log) + 1) + 1 .. Len(log') : log'[j] \notin F
      BY <1>1, <2>1
    <2> QED BY <2>1, <2>2 DEF Since
  <1>4. ASSUME Since(E, F), ev \notin F PROVE Since(E, F)'
    <2>1. PICK i \in 1 .. Len(log) :
            log[i] \in E /\ \A j \in i + 1 .. Len(log) : log[j] \notin F
      BY <1>1, <1>4 DEF Since
    <2>2. \A j \in i + 1 .. Len(log') : log'[j] \notin F
      <3>1. ASSUME NEW j \in i + 1 .. Len(log') PROVE log'[j] \notin F
        <4>1. CASE j = Len(log) + 1
          BY <1>1, <1>4, <4>1
        <4>2. CASE j # Len(log) + 1
          <5>1. j \in i + 1 .. Len(log) /\ j \in 1 .. Len(log)
            BY <1>1, <3>1, <4>2
          <5> QED BY <1>1, <2>1, <5>1
        <4> QED BY <4>1, <4>2
      <3> QED BY <3>1
    <2>3. i \in DOMAIN log' /\ log'[i] \in E
      BY <1>1, <2>1
    <2> QED BY <2>2, <2>3 DEF Since
  <1> QED BY <1>2, <1>3, <1>4

\* Nothing is added to it.
LEMMA SinceStays ==
  ASSUME UNCHANGED log, NEW E, NEW F
  PROVE  Since(E, F)' <=> Since(E, F)
  BY DEF Since

-----------------------------------------------------------------------------
(* What the steps do to the book *)

\* A book is a list of persons and ids for some of the tickers.
LEMMA Lists ==
  ASSUME NEW b, IsBook(b), NEW t \in DOMAIN b
  PROVE  /\ t \in Tickers
         /\ b[t] \in Seq(Entries)
         /\ Listed(b, t) = ToSet(b[t])
  BY DEF IsBook, Listed

\* The first person of a ticker is entered, and nobody else is touched.
LEMMA FirstEnters ==
  ASSUME TypeOK, Once, NEW r \in Requests, NEW p \in Persons, NEW t \in Tickers, CreateFirst(r, p, t)
  PROVE  /\ IsBook(book')
         /\ Once'
         /\ \A q, u : q \in Listed(book', u) <=> q \in Listed(book, u) \/ (q = p /\ u = t)
  <1>1. /\ t \notin DOMAIN book
        /\ book' = [x \in DOMAIN book \cup {t} |-> IF x = t THEN <<p>> ELSE book[x]]
    BY DEF CreateFirst
  <1>2. /\ DOMAIN book' = DOMAIN book \cup {t}
        /\ book'[t] = <<p>>
        /\ \A x \in DOMAIN book : x # t /\ book'[x] = book[x]
    BY <1>1
  <1>3. IsBook(book)
    BY DEF TypeOK
  <1> HIDE DEF CreateFirst
  <1>4. <<p>> \in Seq(Entries) /\ DOMAIN <<p>> = {1} /\ ToSet(<<p>>) = {p}
    <2>1. <<p>> \in Seq(Entries)
      BY DEF Entries
    <2>2. DOMAIN <<p>> = {1} /\ <<p>>[1] = p
      OBVIOUS
    <2> QED BY <2>1, <2>2 DEF ToSet
  <1>5. IsBook(book')
    BY <1>2, <1>3, <1>4 DEF IsBook
  <1>6. Once'
    <2>1. ASSUME NEW x \in DOMAIN book', NEW i \in DOMAIN book'[x], NEW j \in DOMAIN book'[x],
                 book'[x][i] = book'[x][j], book'[x][i] \in Persons
          PROVE  i = j
      <3>1. CASE x = t
        <4>1. i \in {1} /\ j \in {1}
          BY <1>2, <1>4, <2>1, <3>1
        <4> QED BY <4>1
      <3>2. CASE x # t
        <4>1. x \in DOMAIN book /\ book'[x] = book[x]
          BY <1>2, <3>2
        <4> QED BY <2>1, <4>1 DEF Once
      <3> QED BY <3>1, <3>2
    <2> QED BY <2>1 DEF Once
  <1>7. ASSUME NEW q, NEW u
        PROVE  q \in Listed(book', u) <=> q \in Listed(book, u) \/ (q = p /\ u = t)
    <2>1. CASE u = t
      <3>1. Listed(book', u) = {p} /\ Listed(book, u) = {}
        BY <1>1, <1>2, <1>4, <2>1 DEF Listed
      <3> QED BY <2>1, <3>1
    <2>2. CASE u # t
      <3>1. Listed(book', u) = Listed(book, u)
        BY <1>2, <2>2 DEF Listed
      <3> QED BY <2>2, <3>1
    <2> QED BY <2>1, <2>2
  <1> QED BY <1>5, <1>6, <1>7

\* The next one is not: what enters the list is the request id.
LEMMA OtherDoesNotEnter ==
  ASSUME TypeOK, Once, NEW r \in Requests, NEW p \in Persons, NEW t \in Tickers, CreateOther(r, p, t)
  PROVE  /\ IsBook(book')
         /\ Once'
         /\ \A q \in Persons : \A u : q \in Listed(book', u) <=> q \in Listed(book, u)
  <1>1. /\ t \in DOMAIN book
        /\ book' = [book EXCEPT ![t] = Append(book[t], Uuid)]
    BY DEF CreateOther
  <1>2. IsBook(book) /\ book[t] \in Seq(Entries) /\ Uuid \in Entries /\ Uuid \notin Persons
    BY <1>1, Lists, BookAssumption DEF TypeOK, Entries
  <1> DEFINE a == Append(book[t], Uuid)
  <1>3. /\ a \in Seq(Entries)
        /\ Len(book[t]) \in Nat
        /\ DOMAIN book[t] = 1 .. Len(book[t])
        /\ DOMAIN a = 1 .. Len(book[t]) + 1
        /\ \A i \in 1 .. Len(book[t]) : a[i] = book[t][i]
        /\ a[Len(book[t]) + 1] = Uuid
    BY <1>2, AppendProperties, LenProperties
  <1> HIDE DEF a
  <1>4. /\ DOMAIN book' = DOMAIN book
        /\ book'[t] = a
        /\ \A x \in DOMAIN book \ {t} : book'[x] = book[x]
    BY <1>1 DEF a
  <1>5. IsBook(book')
    BY <1>2, <1>3, <1>4 DEF IsBook
  <1>6. Once'
    <2>1. ASSUME NEW x \in DOMAIN book', NEW i \in DOMAIN book'[x], NEW j \in DOMAIN book'[x],
                 book'[x][i] = book'[x][j], book'[x][i] \in Persons
          PROVE  i = j
      <3>1. CASE x = t
        <4>1. i \in 1 .. Len(book[t]) /\ j \in 1 .. Len(book[t])
          BY <1>2, <1>3, <1>4, <2>1, <3>1
        <4>2. book[t][i] = book[t][j] /\ book[t][i] \in Persons
          BY <1>3, <1>4, <2>1, <3>1, <4>1
        <4> QED BY <1>1, <1>3, <4>1, <4>2 DEF Once
      <3>2. CASE x # t
        <4>1. x \in DOMAIN book /\ book'[x] = book[x]
          BY <1>4, <3>2
        <4> QED BY <2>1, <4>1 DEF Once
      <3> QED BY <3>1, <3>2
    <2> QED BY <2>1 DEF Once
  <1>7. ASSUME NEW q \in Persons, NEW u PROVE q \in Listed(book', u) <=> q \in Listed(book, u)
    <2>1. CASE u = t
      <3>1. q \in ToSet(a) <=> q \in ToSet(book[t])
        BY <1>2, <1>3 DEF ToSet
      <3> QED BY <1>1, <1>4, <2>1, <3>1 DEF Listed
    <2>2. CASE u # t
      BY <1>4, <2>2 DEF Listed
    <2> QED BY <2>1, <2>2
  <1> QED BY <1>5, <1>6, <1>7

\* A person that cancels everything is in no list, and nobody else is touched.
LEMMA CancellerLeaves ==
  ASSUME TypeOK, Once, NEW r \in Requests, NEW p \in Persons, CancelAll(r, p)
  PROVE  /\ IsBook(book')
         /\ Once'
         /\ \A q, u : q \in Listed(book', u) <=> q \in Listed(book, u) /\ q # p
  <1>1. /\ DOMAIN book' = DOMAIN book
        /\ \A t \in DOMAIN book : book'[t] = RemoveFirst(book[t], p)
    BY DEF CancelAll
  <1>2. IsBook(book)
    BY DEF TypeOK
  <1>3. ASSUME NEW t \in DOMAIN book
        PROVE  /\ book'[t] \in Seq(Entries)
               /\ \A q : q \in ToSet(book'[t]) <=> q \in ToSet(book[t]) /\ q # p
               /\ \A i, j \in DOMAIN book'[t] :
                    book'[t][i] = book'[t][j] /\ book'[t][i] \in Persons => i = j
    <2> DEFINE l == book[t]
               m == book'[t]
    <2>1. m = RemoveFirst(l, p) /\ l \in Seq(Entries)
      BY <1>1, <1>2, Lists
    <2>2. \A i, j \in DOMAIN l : l[i] = l[j] /\ l[i] \in Persons => i = j
      BY DEF Once
    <2> HIDE DEF l, m
    <2>3. \A i, j \in DOMAIN l : l[i] = p /\ l[j] = p => i = j
      BY <2>2
    <2>4. /\ m \in Seq(Entries)
          /\ ToSet(m) \subseteq ToSet(l)
          /\ \A x \in ToSet(l) : x # p => x \in ToSet(m)
          /\ p \notin ToSet(m)
          /\ \A i, j \in DOMAIN m : m[i] = m[j] /\ m[i] \in Persons => i = j
      BY <2>1, <2>2, <2>3, Remaining
    <2> QED BY <2>4 DEF l, m
  <1>4. IsBook(book')
    BY <1>1, <1>2, <1>3 DEF IsBook
  <1>5. Once'
    BY <1>1, <1>3 DEF Once
  <1>6. ASSUME NEW q, NEW u
        PROVE  q \in Listed(book', u) <=> q \in Listed(book, u) /\ q # p
    BY <1>1, <1>3 DEF Listed
  <1> QED BY <1>4, <1>5, <1>6

-----------------------------------------------------------------------------
(* The steps *)

\* What serves a request without touching the book, and what happens to the
\* copies: no copy appears.
Unnoticed(r) ==
  \/ Reject(r)
  \/ \E p \in Persons, t \in Tickers : CreateAgain(r, p, t)
  \/ \E t \in Tickers : Get(r, t)
  \/ \E p \in Persons : CancelAllFindsNone(r, p)
  \/ CreateEnds(r) \/ RedisWrites(r) \/ WriteLost(r)

\* Copies of the book are what they were, or one of them.
LEMMA NoNewCopy ==
  ASSUME TypeOK, NEW r \in Requests, Unnoticed(r)
  PROVE  /\ UNCHANGED <<book, log>>
         /\ {cache'} \cup {writes'[x] : x \in DOMAIN writes'}
              \subseteq {cache} \cup {writes[x] : x \in DOMAIN writes}
         /\ DOMAIN writes' \subseteq DOMAIN writes
         /\ status' \in Codes
         /\ caching' \subseteq Requests
  <1>1. status \in Codes /\ caching \subseteq Requests
    BY DEF TypeOK
  <1>2. CASE Reject(r) \/ (\E p \in Persons, t \in Tickers : CreateAgain(r, p, t))
             \/ (\E t \in Tickers : Get(r, t)) \/ (\E p \in Persons : CancelAllFindsNone(r, p))
    <2>1. UNCHANGED <<book, log, cache, writes, caching>>
      BY <1>2 DEF Reject, CreateAgain, Get, CancelAllFindsNone, Answer
    <2>2. status' \in Codes
      BY <1>2 DEF Reject, CreateAgain, Get, CancelAllFindsNone, Answer, Codes
    <2> QED BY <1>1, <2>1, <2>2
  <1>3. CASE CreateEnds(r)
    BY <1>1, <1>3 DEF CreateEnds
  <1>4. CASE RedisWrites(r) \/ WriteLost(r)
    <2>1. /\ UNCHANGED <<book, log, status, caching>>
          /\ r \in DOMAIN writes
          /\ cache' = cache \/ cache' = writes[r]
          /\ writes' = [x \in DOMAIN writes \ {r} |-> writes[x]]
      BY <1>4 DEF RedisWrites, WriteLost, WithoutWrite
    <2>2. DOMAIN writes' = DOMAIN writes \ {r} /\ \A x \in DOMAIN writes' : writes'[x] = writes[x]
      BY <2>1
    <2> QED BY <1>1, <2>1, <2>2
  <1> QED BY <1>2, <1>3, <1>4 DEF Unnoticed

\* The steps of a process by what they do to the book.
LEMMA Kinds ==
  ASSUME [Next]_vars
  PROVE  \/ \E r \in Requests : Unnoticed(r)
         \/ \E r \in Requests, p \in Persons, t \in Tickers :
              CreateFirst(r, p, t) \/ CreateOther(r, p, t) \/ Cancel(r, p, t)
         \/ \E r \in Requests, p \in Persons : CancelAll(r, p)
         \/ Restart
         \/ UNCHANGED vars
  BY DEF Next, Serve, Unnoticed

\* Every step keeps the types, and each person in a list once.
LEMMA TypeStep == TypeOK /\ Once /\ [Next]_vars => TypeOK' /\ Once'
  <1> SUFFICES ASSUME TypeOK, Once, [Next]_vars PROVE TypeOK' /\ Once'
    OBVIOUS
  <1>0. /\ IsBook(book)
        /\ IsBook(cache)
        /\ DOMAIN writes \subseteq Requests
        /\ \A x \in DOMAIN writes : IsBook(writes[x])
        /\ status \in Codes
        /\ caching \subseteq Requests
        /\ log \in Seq(Events)
    BY DEF TypeOK
  <1>1. ASSUME NEW ev \in Events, log' = Append(log, ev) PROVE log' \in Seq(Events)
    BY <1>0, <1>1, AppendProperties
  <1>2. ASSUME NEW r \in Requests, Unnoticed(r) PROVE TypeOK' /\ Once'
    <2>1. /\ UNCHANGED <<book, log>>
          /\ {cache'} \cup {writes'[x] : x \in DOMAIN writes'}
               \subseteq {cache} \cup {writes[x] : x \in DOMAIN writes}
          /\ DOMAIN writes' \subseteq DOMAIN writes
          /\ status' \in Codes
          /\ caching' \subseteq Requests
      BY <1>2, NoNewCopy
    <2>2. \A b \in {cache} \cup {writes[x] : x \in DOMAIN writes} : IsBook(b)
      BY <1>0
    <2>3. IsBook(cache') /\ \A x \in DOMAIN writes' : IsBook(writes'[x])
      BY <2>1, <2>2
    <2> QED BY <1>0, <2>1, <2>3 DEF TypeOK, IsBook, Once
  <1>3. ASSUME NEW r \in Requests, NEW p \in Persons, NEW t \in Tickers, CreateFirst(r, p, t)
        PROVE  TypeOK' /\ Once'
    <2>1. IsBook(book') /\ Once'
      BY <1>3, FirstEnters
    <2>2. /\ cache' = cache
          /\ status' = 201
          /\ caching' = caching \cup {r}
          /\ log' = Append(log, <<"first", p, t>>)
          /\ DOMAIN writes' = DOMAIN writes \cup {r}
          /\ \A x \in DOMAIN writes' : writes'[x] = IF x = r THEN book' ELSE writes[x]
      BY <1>3 DEF CreateFirst, Happens
    <2>3. log' \in Seq(Events)
      <3>1. <<"first", p, t>> \in Events
        BY DEF Events
      <3> QED BY <1>1, <2>2, <3>1
    <2>4. \A x \in DOMAIN writes' : IsBook(writes'[x])
      BY <1>0, <2>1, <2>2
    <2> QED BY <1>0, <2>1, <2>2, <2>3, <2>4 DEF TypeOK, Codes
  <1>4. ASSUME NEW ev \in Events, log' = Append(log, ev), IsBook(book'), Once',
               UNCHANGED <<cache, writes>>, status' \in Codes, caching' \subseteq Requests
        PROVE  TypeOK' /\ Once'
    BY <1>0, <1>1, <1>4 DEF TypeOK, IsBook
  <1>5. ASSUME NEW r \in Requests, NEW p \in Persons, NEW t \in Tickers, CreateOther(r, p, t)
        PROVE  TypeOK' /\ Once'
    <2>1. IsBook(book') /\ Once'
      BY <1>5, OtherDoesNotEnter
    <2>2. <<"other", p, t>> \in Events
      BY DEF Events
    <2>3. /\ log' = Append(log, <<"other", p, t>>)
          /\ UNCHANGED <<cache, writes, caching>>
          /\ status' \in Codes
      BY <1>5 DEF CreateOther, Happens, Answer, Codes
    <2> QED BY <1>0, <1>4, <2>1, <2>2, <2>3
  <1>6. ASSUME NEW r \in Requests, NEW p \in Persons, NEW t \in Tickers, Cancel(r, p, t)
        PROVE  TypeOK' /\ Once'
    <2>1. <<"cancel", p, t>> \in Events
      BY DEF Events
    <2>2. /\ log' = Append(log, <<"cancel", p, t>>)
          /\ UNCHANGED <<book, cache, writes, caching>>
          /\ status' \in Codes
      BY <1>6 DEF Cancel, Happens, Answer, Codes
    <2>3. IsBook(book') /\ Once'
      BY <1>0, <2>2 DEF IsBook, Once
    <2> QED BY <1>0, <1>4, <2>1, <2>2, <2>3
  <1>7. ASSUME NEW r \in Requests, NEW p \in Persons, CancelAll(r, p) PROVE TypeOK' /\ Once'
    <2>1. IsBook(book') /\ Once'
      BY <1>7, CancellerLeaves
    <2>2. <<"cancel all", p>> \in Events
      BY DEF Events
    <2>3. /\ log' = Append(log, <<"cancel all", p>>)
          /\ UNCHANGED <<cache, writes, caching>>
          /\ status' \in Codes
      BY <1>7 DEF CancelAll, Happens, Answer, Codes
    <2> QED BY <1>0, <1>4, <2>1, <2>2, <2>3
  <1>8. CASE Restart
    <2>1. /\ log' = Append(log, <<"restart">>)
          /\ UNCHANGED <<cache, writes>>
          /\ book' = Empty
          /\ caching' = {}
          /\ status' \in Codes
      BY <1>8 DEF Restart, Happens, Codes
    <2>2. <<"restart">> \in Events
      BY DEF Events
    <2>3. IsBook(book') /\ Once'
      BY <2>1 DEF Empty, IsBook, Once
    <2> QED BY <1>4, <2>1, <2>2, <2>3
  <1>9. CASE UNCHANGED vars
    BY <1>0, <1>9 DEF vars, TypeOK, IsBook, Once
  <1> QED BY <1>2, <1>3, <1>5, <1>6, <1>7, <1>8, <1>9, Kinds

-----------------------------------------------------------------------------
(* The history and the lists *)

\* The claims about the lists, for one person and one ticker.
Stays(q, u) ==
  Since({<<"first", q, u>>}, Canceled(q, u) \cup {<<"restart">>}) => q \in Listed(book, u)
IsGone(q, u) ==
  Since({<<"cancel all", q>>}, Created(q, u)) => q \notin Listed(book, u)
Copied(b, q, u) ==
  q \in Listed(b, u) =>
    q \in Listed(book, u) \/ Since(Canceled(q, u) \cup {<<"restart">>}, {})

\* A step keeps them for those whom it does not concern.
LEMMA HistoryStep ==
  ASSUME TypeOK, Once, [Next]_vars, NEW q \in Persons, NEW u \in Tickers, Stays(q, u), IsGone(q, u)
  PROVE  Stays(q, u)' /\ IsGone(q, u)'
  <1> DEFINE Came == Since({<<"first", q, u>>}, Canceled(q, u) \cup {<<"restart">>})
             Went == Since({<<"cancel all", q>>}, Created(q, u))
  <1>0. log \in Seq(Events)
    BY DEF TypeOK
  <1>a. ASSUME NEW ev, log' = Append(log, ev)
        PROVE  /\ Came' <=> \/ ev \in {<<"first", q, u>>}
                            \/ Came /\ ev \notin Canceled(q, u) \cup {<<"restart">>}
               /\ Went' <=> \/ ev \in {<<"cancel all", q>>}
                            \/ Went /\ ev \notin Created(q, u)
    <2>1. Came' <=> \/ ev \in {<<"first", q, u>>}
                    \/ Came /\ ev \notin Canceled(q, u) \cup {<<"restart">>}
      BY <1>0, <1>a, SinceThen
    <2>2. Went' <=> \/ ev \in {<<"cancel all", q>>}
                    \/ Went /\ ev \notin Created(q, u)
      BY <1>0, <1>a, SinceThen
    <2> QED BY <2>1, <2>2
  <1>b. /\ Came => q \in Listed(book, u)
        /\ Went => q \notin Listed(book, u)
    BY DEF Stays, IsGone
  <1>c. /\ Came' => q \in Listed(book', u)
        /\ Went' => q \notin Listed(book', u)
        => Stays(q, u)' /\ IsGone(q, u)'
    BY DEF Stays, IsGone
  <1>1. CASE UNCHANGED <<book, log>>
    BY <1>1, SinceStays DEF Stays, IsGone
  <1> HIDE DEF Came, Went
  <1>2. ASSUME NEW r \in Requests, Unnoticed(r) PROVE UNCHANGED <<book, log>>
    BY <1>2, NoNewCopy
  <1>3. ASSUME NEW r \in Requests, NEW p \in Persons, NEW t \in Tickers, CreateFirst(r, p, t)
        PROVE  Stays(q, u)' /\ IsGone(q, u)'
    <2> DEFINE ev == <<"first", p, t>>
    <2>1. log' = Append(log, ev) /\ (q \in Listed(book', u) <=> q \in Listed(book, u) \/ (q = p /\ u = t))
      BY <1>3, FirstEnters DEF CreateFirst, Happens
    <2>2. /\ ev \in {<<"first", q, u>>} <=> p = q /\ t = u
          /\ ev \in Created(q, u) <=> p = q /\ t = u
          /\ ev \notin {<<"cancel all", q>>}
      BY EventsDiffer DEF Created
    <2> HIDE DEF ev
    <2> QED BY <1>a, <1>b, <1>c, <2>1, <2>2
  <1>4. ASSUME NEW r \in Requests, NEW p \in Persons, NEW t \in Tickers, CreateOther(r, p, t)
        PROVE  Stays(q, u)' /\ IsGone(q, u)'
    <2> DEFINE ev == <<"other", p, t>>
    <2>1. log' = Append(log, ev) /\ (q \in Listed(book', u) <=> q \in Listed(book, u))
      BY <1>4, OtherDoesNotEnter DEF CreateOther, Happens
    <2>2. ev \notin {<<"first", q, u>>} /\ ev \notin {<<"cancel all", q>>}
      BY EventsDiffer
    <2> HIDE DEF ev
    <2> QED BY <1>a, <1>b, <1>c, <2>1, <2>2
  <1>5. ASSUME NEW r \in Requests, NEW p \in Persons, NEW t \in Tickers, Cancel(r, p, t)
        PROVE  Stays(q, u)' /\ IsGone(q, u)'
    <2> DEFINE ev == <<"cancel", p, t>>
    <2>1. log' = Append(log, ev) /\ UNCHANGED book
      BY <1>5 DEF Cancel, Happens
    <2>2. ev \notin {<<"first", q, u>>} /\ ev \notin {<<"cancel all", q>>}
      BY EventsDiffer
    <2> HIDE DEF ev
    <2> QED BY <1>a, <1>b, <1>c, <2>1, <2>2
  <1>6. ASSUME NEW r \in Requests, NEW p \in Persons, CancelAll(r, p)
        PROVE  Stays(q, u)' /\ IsGone(q, u)'
    <2> DEFINE ev == <<"cancel all", p>>
    <2>1. log' = Append(log, ev) /\ (q \in Listed(book', u) <=> q \in Listed(book, u) /\ q # p)
      BY <1>6, CancellerLeaves DEF CancelAll, Happens
    <2>2. /\ ev \in {<<"cancel all", q>>} <=> p = q
          /\ p = q => ev \in Canceled(q, u)
          /\ ev \notin {<<"first", q, u>>}
      BY EventsDiffer DEF Canceled
    <2> HIDE DEF ev
    <2> QED BY <1>a, <1>b, <1>c, <2>1, <2>2
  <1>7. CASE Restart
    <2>1. log' = Append(log, <<"restart">>) /\ book' = Empty
      BY <1>7 DEF Restart, Happens
    <2>2. q \notin Listed(book', u)
      BY <2>1 DEF Empty, Listed
    <2>3. <<"restart">> \notin {<<"first", q, u>>}
      BY EventsDiffer
    <2> QED BY <1>a, <1>b, <1>c, <2>1, <2>2, <2>3
  <1> QED BY <1>1, <1>2, <1>3, <1>4, <1>5, <1>6, <1>7, Kinds DEF vars

\* What a copy knows the book knows, or the person went.
LEMMA CopyStep ==
  ASSUME TypeOK, Once, [Next]_vars, NEW q \in Persons, NEW u \in Tickers,
         \A b \in {cache} \cup {writes[x] : x \in DOMAIN writes} : Copied(b, q, u)
  PROVE  \A b \in {cache'} \cup {writes'[x] : x \in DOMAIN writes'} :
           q \in Listed(b, u) =>
             q \in Listed(book', u) \/ Since(Canceled(q, u) \cup {<<"restart">>}, {})'
  <1> DEFINE Left   == Since(Canceled(q, u) \cup {<<"restart">>}, {})
             Copies == {cache} \cup {writes[x] : x \in DOMAIN writes}
  <1>0. log \in Seq(Events) /\ \A b \in Copies : q \in Listed(b, u) => q \in Listed(book, u) \/ Left
    BY DEF TypeOK, Copied
  <1>1. ASSUME NEW ev, log' = Append(log, ev)
        PROVE  Left' <=> Left \/ ev \in Canceled(q, u) \cup {<<"restart">>}
    BY <1>0, <1>1, SinceThen
  <1>2. ASSUME UNCHANGED log PROVE Left' <=> Left
    BY <1>2, SinceStays
  <1> HIDE DEF Left
  <1>3. ASSUME NEW r \in Requests, Unnoticed(r)
        PROVE  \A b \in Copies' : q \in Listed(b, u) => q \in Listed(book', u) \/ Left'
    <2>1. UNCHANGED <<book, log>> /\ Copies' \subseteq Copies
      BY <1>3, NoNewCopy
    <2> HIDE DEF Copies
    <2> QED BY <1>0, <1>2, <2>1
  <1>4. ASSUME NEW r \in Requests, NEW p \in Persons, NEW t \in Tickers, CreateFirst(r, p, t)
        PROVE  \A b \in Copies' : q \in Listed(b, u) => q \in Listed(book', u) \/ Left'
    <2>1. /\ log' = Append(log, <<"first", p, t>>)
          /\ q \in Listed(book, u) => q \in Listed(book', u)
      BY <1>4, FirstEnters DEF CreateFirst, Happens
    <2>2. /\ cache' = cache
          /\ DOMAIN writes' = DOMAIN writes \cup {r}
          /\ \A x \in DOMAIN writes' : writes'[x] = IF x = r THEN book' ELSE writes[x]
      BY <1>4 DEF CreateFirst
    <2>3. Copies' \subseteq Copies \cup {book'}
      BY <2>2
    <2> HIDE DEF Copies
    <2>4. Left => Left'
      BY <1>1, <2>1
    <2> QED BY <1>0, <2>1, <2>3, <2>4
  <1>5. ASSUME NEW r \in Requests, NEW p \in Persons, NEW t \in Tickers,
               CreateOther(r, p, t) \/ Cancel(r, p, t)
        PROVE  \A b \in Copies' : q \in Listed(b, u) => q \in Listed(book', u) \/ Left'
    <2>1. /\ \E ev : log' = Append(log, ev)
          /\ q \in Listed(book, u) => q \in Listed(book', u)
          /\ Copies' = Copies
      BY <1>5, OtherDoesNotEnter DEF CreateOther, Cancel, Happens
    <2> HIDE DEF Copies
    <2>2. Left => Left'
      BY <1>1, <2>1
    <2> QED BY <1>0, <2>1, <2>2
  <1>6. ASSUME NEW r \in Requests, NEW p \in Persons, CancelAll(r, p)
        PROVE  \A b \in Copies' : q \in Listed(b, u) => q \in Listed(book', u) \/ Left'
    <2>1. /\ log' = Append(log, <<"cancel all", p>>)
          /\ UNCHANGED <<cache, writes>>
      BY <1>6 DEF CancelAll, Happens
    <2>2. q \in Listed(book, u) /\ q # p => q \in Listed(book', u)
      BY <1>6, CancellerLeaves
    <2>3. Copies' = Copies
      BY <2>1
    <2> HIDE DEF Copies
    <2>4. (Left => Left') /\ (p = q => Left')
      BY <1>1, <2>1 DEF Canceled
    <2> QED BY <1>0, <2>2, <2>3, <2>4
  <1>7. CASE Restart
    <2>1. log' = Append(log, <<"restart">>)
      BY <1>7 DEF Restart, Happens
    <2>2. Left'
      BY <1>1, <2>1
    <2> QED BY <2>2 DEF Left
  <1>8. CASE UNCHANGED vars
    <2>1. UNCHANGED <<book, log>> /\ Copies' = Copies
      BY <1>8 DEF vars
    <2> HIDE DEF Copies
    <2>2. \A b \in Copies' : q \in Listed(b, u) => q \in Listed(book', u) \/ Left'
      BY <1>0, <1>2, <2>1
    <2> QED BY <2>2 DEF Left, Copies
  <1> QED BY <1>3, <1>4, <1>5, <1>6, <1>7, <1>8, Kinds DEF Left

-----------------------------------------------------------------------------
(* The theorems *)

\* The invariant holds: the first book is empty, and so is its copy.
THEOREM InvariantHolds == Spec => []IInv
  <1>1. Init => IInv
    <2> SUFFICES ASSUME Init PROVE IInv
      OBVIOUS
    <2>1. /\ book = Empty /\ cache = Empty /\ DOMAIN writes = {} /\ log = <<>>
          /\ DOMAIN Empty = {} /\ DOMAIN <<>> = {} /\ <<>> \in Seq(Events)
      BY EmptySeq DEF Init, Empty
    <2>2. TypeOK
      BY <2>1 DEF Init, TypeOK, IsBook, Codes
    <2>3. Once
      BY <2>1 DEF Once
    <2>4. \A E, F : ~Since(E, F)
      BY <2>1 DEF Since
    <2>5. FirstStaysBooked /\ CancelAllRemoves
      BY <2>4 DEF FirstStaysBooked, CancelAllRemoves
    <2>6. \A b \in {cache} \cup {writes[r] : r \in DOMAIN writes} : b = Empty
      BY <2>1
    <2>7. CopiesNotAhead
      BY <2>1, <2>6 DEF CopiesNotAhead, Listed
    <2> QED BY <2>2, <2>3, <2>5, <2>7 DEF IInv
  <1>2. IInv /\ [Next]_vars => IInv'
    <2> SUFFICES ASSUME IInv, [Next]_vars PROVE IInv'
      OBVIOUS
    <2>1. /\ TypeOK
          /\ Once
          /\ \A q \in Persons, u \in Tickers : Stays(q, u) /\ IsGone(q, u)
          /\ \A q \in Persons, u \in Tickers :
               \A b \in {cache} \cup {writes[x] : x \in DOMAIN writes} : Copied(b, q, u)
      BY DEF IInv, FirstStaysBooked, CancelAllRemoves, CopiesNotAhead, Stays, IsGone, Copied
    <2>2. TypeOK' /\ Once'
      BY <2>1, TypeStep
    <2>3. ASSUME NEW q \in Persons, NEW u \in Tickers PROVE Stays(q, u)' /\ IsGone(q, u)'
      BY <2>1, HistoryStep
    <2>4. FirstStaysBooked' /\ CancelAllRemoves'
      BY <2>3 DEF FirstStaysBooked, CancelAllRemoves, Stays, IsGone
    <2>5. ASSUME NEW q \in Persons, NEW u \in Tickers
          PROVE  \A b \in {cache'} \cup {writes'[x] : x \in DOMAIN writes'} :
                   q \in Listed(b, u) =>
                     q \in Listed(book', u) \/ Since(Canceled(q, u) \cup {<<"restart">>}, {})'
      BY <2>1, CopyStep
    <2>6. CopiesNotAhead'
      BY <2>5 DEF CopiesNotAhead
    <2> QED BY <2>2, <2>4, <2>6 DEF IInv
  <1> QED BY <1>1, <1>2, PTL DEF Spec

\* Types of the book, its copies and the shared response.
THEOREM BookTypes == Spec => []TypeOK
  BY InvariantHolds, PTL DEF IInv

\* The person who put a ticker in the book stays under it until it cancels or
\* the process restarts, for any number of persons and tickers
\* (deribit_currency.py:95-102).
THEOREM FirstPersonStays == Spec => []FirstStaysBooked
  BY InvariantHolds, PTL DEF IInv

\* A person who cancelled everything is in no list (deribit_currency.py:197).
THEOREM CancelledAreGone == Spec => []CancelAllRemoves
  BY InvariantHolds, PTL DEF IInv

\* No copy, whatever order the writes arrive in, sends a ticker to a person who
\* is neither in the book nor gone from it (deribit_currency.py:236).
THEOREM CopiesAreNotAhead == Spec => []CopiesNotAhead
  BY InvariantHolds, PTL DEF IInv
=============================================================================
