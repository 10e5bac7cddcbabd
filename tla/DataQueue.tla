------------------------------ MODULE DataQueue ------------------------------
(***************************************************************************)
(* What cad_event_queue.h promises to the user of an event queue, without  *)
(* threads, mutexes or pipes: a queue that is started at most once and     *)
(* stopped for good, that queues the provider's results only while it is   *)
(* running ("each time this function is called, its result will be         *)
(* queued"), and that hands them out in that order, each exactly once,     *)
(* even after it was stopped.                                              *)
(*                                                                         *)
(* The items are numbered 1, 2, 3... in the order the provider made them.  *)
(***************************************************************************)
EXTENDS Naturals, Sequences

VARIABLES
    phase,  \* "INIT", "RUN" or "STOP"
    queue,  \* the items that are queued, oldest first
    taken   \* the number of the last item that was pulled, 0 before

vars == <<phase, queue, taken>>

Init ==
    /\ phase = "INIT"
    /\ queue = <<>>
    /\ taken = 0

\* The queue starts once.
Start ==
    /\ phase = "INIT"
    /\ phase' = "RUN"
    /\ UNCHANGED <<queue, taken>>

\* The queue stops for good, started or not.
Stop ==
    /\ phase' = "STOP"
    /\ UNCHANGED <<queue, taken>>

\* The provider makes the next item, and the item is queued.
Provide ==
    /\ phase = "RUN"
    /\ queue' = Append(queue, taken + Len(queue) + 1)
    /\ UNCHANGED <<phase, taken>>

\* The user pulls the oldest item.
Take ==
    /\ queue # <<>>
    /\ taken' = Head(queue)
    /\ queue' = Tail(queue)
    /\ UNCHANGED phase

Next == Start \/ Stop \/ Provide \/ Take

Spec == Init /\ [][Next]_vars
==============================================================================
