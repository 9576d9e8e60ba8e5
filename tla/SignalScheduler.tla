--------------------------- MODULE SignalScheduler ---------------------------
(***************************************************************************)
(* Signal of project/signals.py and the tasks it schedules                 *)
(* (wrapper_delayed_task() of project/functions.py).                       *)
(*                                                                         *)
(* A call of schedule_with_delay() makes a task, enters it in _tasks and   *)
(* becomes a handler: until no entry is left it sleeps and then works      *)
(* through a copy of _tasks, awaiting the task of each entry with the lock *)
(* held and deleting the entry.  Every call does so, for the entries of    *)
(* all calls.                                                              *)
(*                                                                         *)
(* The only caller gives no user_id: each entry is new and has one task,   *)
(* both named by the call.  A handler reads the attribute controller only   *)
(* right after it assigned it, without an await between; it is therefore   *)
(* no state.  The semaphore of ten in front of the lock lets the handlers  *)
(* through in the order they came, as the lock does, and is left out.      *)
(*                                                                         *)
(* All this runs in one event loop.  "run" is the place of the coroutine   *)
(* that runs; nobody else does anything until it awaits.                   *)
(***************************************************************************)
EXTENDS Integers, SequencesExt

CONSTANTS
  Calls,             \* the calls of schedule_with_delay()
  Nobody

ASSUME SignalAssumption == Nobody \notin Calls

VARIABLES
  task,              \* the task of a call
  entries,           \* the keys of _tasks in the order of insertion
  pc,                \* where the handler of a call is
  todo,              \* what is left of its copy of _tasks
  owner,             \* who has the lock
  waiters            \* who waits for it, the first one first

vars == <<task, entries, pc, todo, owner, waiters>>

Init ==
  /\ task = [c \in Calls |-> "none"]
  /\ entries = <<>>
  /\ pc = [c \in Calls |-> "new"]
  /\ todo = [c \in Calls |-> <<>>]
  /\ owner = Nobody
  /\ waiters = <<>>

\* The event loop has control.
Quiet == \A c \in Calls : pc[c] # "run"

Goto(c, l) == pc' = [pc EXCEPT ![c] = l]

-----------------------------------------------------------------------------
(* The delayed tasks *)

\* After its delay the task starts its thread and joins it, for five seconds
\* at most, without giving up control.
Run(c) ==
  /\ Quiet
  /\ task[c] = "delayed"
  /\ task' = [task EXCEPT ![c] = "done"]
  /\ UNCHANGED <<entries, pc, todo, owner, waiters>>

\* The thread cannot be started.
Fail(c) ==
  /\ Quiet
  /\ task[c] = "delayed"
  /\ task' = [task EXCEPT ![c] = "failed"]
  /\ UNCHANGED <<entries, pc, todo, owner, waiters>>

-----------------------------------------------------------------------------
(* The handlers *)

\* A new user with one task; then handler_tasks() goes to sleep.
Schedule(c) ==
  /\ Quiet
  /\ pc[c] = "new"
  /\ task' = [task EXCEPT ![c] = "delayed"]
  /\ entries' = Append(entries, c)
  /\ Goto(c, "sleep")
  /\ UNCHANGED <<todo, owner, waiters>>

\* The copy of _tasks.
Wake(c) ==
  /\ Quiet
  /\ pc[c] = "sleep"
  /\ todo' = [todo EXCEPT ![c] = entries]
  /\ Goto(c, "run")
  /\ UNCHANGED <<task, entries, owner, waiters>>

\* The lock is taken, or others wait for it.
Queue(c) ==
  /\ pc[c] = "run"
  /\ todo[c] # <<>>
  /\ owner # Nobody \/ waiters # <<>>
  /\ waiters' = Append(waiters, c)
  /\ Goto(c, "wait")
  /\ UNCHANGED <<task, entries, todo, owner>>

\* c takes the lock: it is free, and c comes to it first or waited longest.
Takes(c) ==
  /\ owner = Nobody
  /\ \/ pc[c] = "run" /\ todo[c] # <<>> /\ waiters = <<>>
     \/ Quiet /\ pc[c] = "wait" /\ Head(waiters) = c

\* The line after c took the lock: c was its head or never in it.
Without(c) == IF pc[c] = "wait" THEN Tail(waiters) ELSE waiters

\* The task of the entry c has come to, not yet finished, is awaited.
Await(c) ==
  /\ Takes(c)
  /\ task[Head(todo[c])] = "delayed"
  /\ owner' = c
  /\ waiters' = Without(c)
  /\ Goto(c, "await")
  /\ UNCHANGED <<task, entries, todo>>

\* Seven seconds are over: the task is cancelled; to await it again, which
\* backoff does next, raises its CancelledError.
TimeOut(c) ==
  /\ Quiet
  /\ pc[c] = "await"
  /\ task[Head(todo[c])] = "delayed"
  /\ task' = [task EXCEPT ![Head(todo[c])] = "cancelled"]
  /\ UNCHANGED <<entries, pc, todo, owner, waiters>>

\* c has the lock and the task ended as e, before or while it was awaited.
Ended(c, e) ==
  /\ Takes(c) \/ (Quiet /\ pc[c] = "await")
  /\ task[Head(todo[c])] = e

\* The lock is given back, and c goes on at l with s left of the copy.
Release(c, l, s) ==
  /\ owner' = Nobody
  /\ waiters' = Without(c)
  /\ todo' = [todo EXCEPT ![c] = s]
  /\ Goto(c, l)
  /\ UNCHANGED task

\* Mutant: the entry is not deleted.
DeleteForgets(c) ==
  /\ Ended(c, "done")
  /\ Contains(entries, Head(todo[c]))
  /\ Release(c, "run", Tail(todo[c]))
  /\ UNCHANGED entries

\* The entry is deleted.
Delete(c) ==
  /\ Ended(c, "done")
  /\ \E i \in DOMAIN entries :
       entries[i] = Head(todo[c]) /\ entries' = RemoveAt(entries, i)
  /\ Release(c, "run", Tail(todo[c]))

\* The task failed, or another handler deleted the entry since the copy was
\* made (KeyError).
Error(c) ==
  \/ Ended(c, "failed")
  \/ Ended(c, "done") /\ ~Contains(entries, Head(todo[c]))

\* Mutant: the lock is not given back.
RaiseKeepsLock(c) ==
  /\ Error(c)
  /\ owner' = c
  /\ waiters' = Without(c)
  /\ todo' = [todo EXCEPT ![c] = <<>>]
  /\ Goto(c, IF Len(entries) <= 1 THEN "over" ELSE "sleep")
  /\ UNCHANGED <<task, entries>>

\* The entry, if there is one, stays; the rest of the copy is given up, and with
\* one entry left the handler ends.
Raise(c) ==
  /\ Error(c)
  /\ Release(c, IF Len(entries) <= 1 THEN "over" ELSE "sleep", <<>>)
  /\ UNCHANGED entries

\* A CancelledError is no Exception: it ends the call.
Abort(c) ==
  /\ Ended(c, "cancelled")
  /\ Release(c, "over", <<>>)
  /\ UNCHANGED entries

\* Mutant: one round is enough, whatever came in meanwhile.
EndRoundLeaves(c) ==
  /\ pc[c] = "run"
  /\ todo[c] = <<>>
  /\ Goto(c, "over")
  /\ UNCHANGED <<task, entries, todo, owner, waiters>>

\* The copy is worked through.
EndRound(c) ==
  /\ pc[c] = "run"
  /\ todo[c] = <<>>
  /\ Goto(c, IF entries = <<>> THEN "over" ELSE "sleep")
  /\ UNCHANGED <<task, entries, todo, owner, waiters>>

-----------------------------------------------------------------------------

Delayed(c) == Run(c) \/ Fail(c)

Handling(c) ==
  \/ Wake(c) \/ Queue(c) \/ Await(c) \/ Delete(c) \/ Raise(c) \/ Abort(c)
  \/ EndRound(c)

Next == \E c \in Calls : Schedule(c) \/ Delayed(c) \/ Handling(c) \/ TimeOut(c)

Spec == Init /\ [][Next]_vars

\* Timers fire and the event loop runs what is ready in order of arrival.
Fairness == \A c \in Calls : WF_vars(Delayed(c)) /\ WF_vars(Handling(c))

FairSpec == Spec /\ Fairness

-----------------------------------------------------------------------------
(* Properties *)

\* Types; one coroutine runs at most; the lock belongs to the one that awaits a
\* task, and those and only those who wait for it are in its line, once.
TypeOK ==
  /\ task \in [Calls -> {"none", "delayed", "done", "failed", "cancelled"}]
  /\ entries \in Seq(Calls)
  /\ pc \in [Calls -> {"new", "sleep", "run", "wait", "await", "over"}]
  /\ todo \in [Calls -> Seq(Calls)]
  /\ owner \in Calls \cup {Nobody}
  /\ waiters \in Seq(Calls)
  /\ \A c, d \in Calls : pc[c] = "run" /\ pc[d] = "run" => c = d
  /\ \A c \in Calls : pc[c] = "await" <=> owner = c
  /\ ToSet(waiters) = {c \in Calls : pc[c] = "wait"}
  /\ IsInjective(waiters)

\* No task failed or was cancelled.
Sound == \A c \in Calls : task[c] \notin {"failed", "cancelled"}

\* The handlers delete each other's entries, and on the errors this gives them
\* they end with an entry left (signals.py:149-154; the TODO in lines 158-163
\* fears a loss of data).  Yet when the last of them has ended no entry is left,
\* because who deleted an entry stays in line behind those that will miss it;
\* and nobody loses an entry whose task has not run.
NothingLeft ==
  Sound => /\ (\A c \in Calls : pc[c] \in {"new", "over"}) => entries = <<>>
           /\ \A c \in Calls : task[c] = "delayed" => Contains(entries, c)

\* Every call, and with it the request that awaits it (api_sse_monitoring.py:
\* 103), comes to an end, unless a task failed: its entry is never deleted, so
\* that with a second one all handlers go round for ever.
CallsEnd ==
  \A c \in Calls :
    pc[c] = "sleep" ~> pc[c] = "over" \/ \E d \in Calls : task[d] = "failed"
=============================================================================
