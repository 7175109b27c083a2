---------------------------- MODULE TaskService ----------------------------
(***************************************************************************)
(* What a message loop promises to the threads that post to it, whatever   *)
(* wakes it and however it sleeps: a task is accepted once, tasks leave    *)
(* the queue in the order they entered it, an immediate task runs when it  *)
(* leaves, a delayed or idle task is parked and runs (from the park) later.*)
(* EventLoop refines this module; it has no code of its own.               *)
(***************************************************************************)
EXTENDS Naturals, Sequences

CONSTANT Tasks        \* the tasks that can be posted

VARIABLES
  queue,              \* accepted and not yet looked at, oldest first
  parked,             \* delayed or idle, looked at and not yet run
  done                \* have run at least once

serviceVars == <<queue, parked, done>>

Immediate(t) == t.due = 0 /\ ~t.idle

Init ==
  /\ queue = <<>>
  /\ parked = {}
  /\ done = {}

Accept(t) == queue' = Append(queue, t)

\* A post from another thread.
Post(t) ==
  /\ Accept(t)
  /\ UNCHANGED <<parked, done>>

\* What running a task may do to the queue: nothing, or one more post.
RunEffect(q) == queue' = q \/ \E u \in Tasks : queue' = Append(q, u)

RunHead ==
  /\ queue # <<>>
  /\ Immediate(Head(queue))
  /\ done' = done \union {Head(queue)}
  /\ RunEffect(Tail(queue))
  /\ UNCHANGED parked

ParkHead ==
  /\ queue # <<>>
  /\ ~Immediate(Head(queue))
  /\ parked' = parked \union {Head(queue)}
  /\ queue' = Tail(queue)
  /\ UNCHANGED done

\* A delayed task leaves the park when it runs, an idle one stays.
RunParked(t) ==
  /\ t \in parked
  /\ done' = done \union {t}
  /\ parked' = IF t.idle THEN parked ELSE parked \ {t}
  /\ RunEffect(queue)

\* An event handler of the loop may post as well.
HandlerPost ==
  /\ \E u \in Tasks : Accept(u)
  /\ UNCHANGED <<parked, done>>

Next ==
  \/ \E t \in Tasks : Post(t)
  \/ RunHead
  \/ ParkHead
  \/ \E t \in Tasks : RunParked(t)
  \/ HandlerPost

Spec == Init /\ [][Next]_serviceVars
=============================================================================
