------------------------------ MODULE Mailbox ------------------------------
(***************************************************************************)
(* What the readers of the records in Redis may rely on: a record holds    *)
(* nothing, or one price that the database has; prices are added one by    *)
(* one and never taken away; one record changes at a time.  The two        *)
(* periodic tasks (PriceRounds) and the event streams with the postman     *)
(* they see (EventStream) both implement it.                               *)
(***************************************************************************)
EXTENDS Integers

CONSTANTS
  Keys,      \* the connections, each with a record
  Tickers,
  Gone,      \* there is no record
  Blank      \* a record without a price

VARIABLES
  record,    \* what Redis has of each key
  rows       \* how many prices of each ticker the database has

vars == <<record, rows>>

\* The prices in the database.
Prices == [ticker : Tickers, row : Nat \ {0}]

Init ==
  /\ rows \in [Tickers -> Nat]
  /\ record \in [Keys -> {Gone, Blank} \cup Prices]
  /\ \A k \in Keys : record[k] \in {Gone, Blank} \/ record[k].row <= rows[record[k].ticker]

\* A price is stored (task_add_every_60_seconds.py).
NewRow(t) ==
  /\ rows' = [rows EXCEPT ![t] = @ + 1]
  /\ UNCHANGED record

\* A connection stores its record (enqueue()).
Put(k) ==
  /\ record' = [record EXCEPT ![k] = Blank]
  /\ UNCHANGED rows

\* A record is deleted, or expires.
Drop(k) ==
  /\ record' = [record EXCEPT ![k] = Gone]
  /\ UNCHANGED rows

\* A price of the database is put into a record, which is there or was a
\* moment ago (task_send_every_60_seconds.py).
Fill(k, t, n) ==
  /\ n <= rows[t]
  /\ record' = [record EXCEPT ![k] = [ticker |-> t, row |-> n]]
  /\ UNCHANGED rows

Next ==
  \/ \E t \in Tickers : NewRow(t)
  \/ \E k \in Keys : Put(k) \/ Drop(k)
  \/ \E k \in Keys, t \in Tickers : \E n \in 1 .. rows[t] : Fill(k, t, n)

Spec == Init /\ [][Next]_vars
=============================================================================
