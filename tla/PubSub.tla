------------------------------- MODULE PubSub -------------------------------
(***************************************************************************)
(* What ServerSSEManager (project/sse_manager.py) promises to the code     *)
(* that uses it: keyed topics whose messages are published one at a time.  *)
(* A message is owed to everybody who was in the topic when it was         *)
(* published; nobody joins or leaves a topic, and no other message is      *)
(* published, until the current message was delivered to all of them or    *)
(* was abandoned.  Neither the asyncio lock nor the bounded queues appear  *)
(* here.                                                                   *)
(***************************************************************************)
EXTENDS Naturals, Sequences

CONSTANTS Clients,   \* the readers, one queue each
          Keys       \* the topics: values of "mapped_key"

VARIABLES audience,  \* audience[k]: the clients subscribed to topic k
          stream,    \* stream[c]: every message c was given, oldest first
          taken,     \* taken[c]: how many of them c has consumed
          owed,      \* the clients the current message is still owed to
          current    \* the number of the current (latest) message

vars == <<audience, stream, taken, owed, current>>

Init == /\ audience = [k \in Keys |-> {}]
        /\ stream = [c \in Clients |-> <<>>]
        /\ taken = [c \in Clients |-> 0]
        /\ owed = {}
        /\ current = 0

Give(S, m) ==
  stream' = [c \in Clients |-> IF c \in S THEN Append(stream[c], m) ELSE stream[c]]

Join(c, k) == /\ owed = {}
              /\ audience' = [audience EXCEPT ![k] = @ \cup {c}]
              /\ UNCHANGED <<stream, taken, owed, current>>

Leave(c, k) == /\ owed = {}
               /\ audience' = [audience EXCEPT ![k] = @ \ {c}]
               /\ UNCHANGED <<stream, taken, owed, current>>

\* A later message never has a smaller number: messages are published in the
\* order in which they were handed in.
Publish(k) == /\ owed = {}
              /\ current' \in Nat
              /\ current' > current
              /\ \E D \in SUBSET audience[k] : /\ Give(D, current')
                                               /\ owed' = audience[k] \ D
              /\ UNCHANGED <<audience, taken>>

Deliver == /\ \E D \in SUBSET owed : /\ D # {}
                                     /\ Give(D, current)
                                     /\ owed' = owed \ D
           /\ UNCHANGED <<audience, taken, current>>

Abandon == /\ owed' = {}
           /\ UNCHANGED <<audience, stream, taken, current>>

Consume(c) == /\ taken[c] < Len(stream[c])
              /\ taken' = [taken EXCEPT ![c] = @ + 1]
              /\ UNCHANGED <<audience, stream, owed, current>>

Next == \/ \E c \in Clients, k \in Keys : Join(c, k) \/ Leave(c, k)
        \/ \E k \in Keys : Publish(k)
        \/ Deliver
        \/ Abandon
        \/ \E c \in Clients : Consume(c)

Spec == Init /\ [][Next]_vars
=============================================================================
