---------------------------- MODULE WaitableEvent ----------------------------
(***************************************************************************)
(* base::WaitableEvent: a flag, a count of waiting threads and a condition *)
(* variable, all under one mutex. An event is a record; asleep counts the  *)
(* threads inside cond_, so that waitingNum - asleep have been woken and   *)
(* are yet to take the mutex again. Neither Wait nor WaitTime loops.       *)
(***************************************************************************)
EXTENDS Naturals

NewEvent == [isSigned |-> FALSE, waitingNum |-> 0, asleep |-> 0]

\* Mutant of Unheard: a signal that finds nobody waiting is forgotten.
UnheardForgotten(event) == event

Unheard(event) == [event EXCEPT !.isSigned = TRUE]

Signal(event) ==
  IF event.waitingNum = 0 THEN Unheard(event)
  ELSE [event EXCEPT !.asleep = IF @ = 0 THEN 0 ELSE @ - 1]

\* Wait and WaitTime, first half: pass, with the signal consumed, or fall asleep.
Pass(event) == [event EXCEPT !.isSigned = FALSE]
Sleep(event) == [event EXCEPT !.waitingNum = @ + 1, !.asleep = @ + 1]

\* A time-out, or a wake-up for no reason.
WakeUp(event) == [event EXCEPT !.asleep = @ - 1]

\* Second half: a thread that has been woken goes on.
Woken(event) == event.waitingNum > event.asleep
Leave(event) == [event EXCEPT !.waitingNum = @ - 1]
=============================================================================
