------------------------------ MODULE EventLoop ------------------------------
(***************************************************************************)
(* What an event loop of cad_events.h does for its user.  Descriptors are  *)
(* registered for kinds of events; wait asks the system which of them      *)
(* occurred and calls one action for each, once.  Actions may register     *)
(* descriptors.  What stays registered when wait returns is left open:     *)
(* cad_events.h:145 says that all of it does, and both implementations     *)
(* forget all of it.                                                       *)
(***************************************************************************)
EXTENDS Naturals

CONSTANTS
    Kinds,     \* the kinds of events on a descriptor
    Fds,       \* the descriptors
    Unasked    \* the kinds that a registered descriptor reports unasked

VARIABLES
    phase,       \* "idle", or "wait" while wait is running
    registered,  \* the pairs <<kind, fd>> that are registered
    due,         \* the events whose action wait still has to call
    running      \* the event whose action is running, or Nothing

vars == <<phase, registered, due, running>>

Timeout == <<"timeout", 0>>
Nothing == <<"nothing", 0>>

\* What the system may report about a set of registrations.
Reportable(set) ==
    set \cup {event \in Unasked \X Fds : \E k \in Kinds : <<k, event[2]>> \in set}

Init ==
    /\ phase = "idle"
    /\ registered = {}
    /\ due = {}
    /\ running = Nothing

\* By the user, outside wait or in an action.
Register(k, fd) ==
    /\ registered' = registered \cup {<<k, fd>>}
    /\ phase = "idle" \/ running # Nothing
    /\ UNCHANGED <<phase, due, running>>

\* The system reports events, or that the time is out, or an error.
Wait ==
    /\ phase = "idle"
    /\ phase' = "wait"
    /\ due' \in (SUBSET Reportable(registered)) \cup {{Timeout}}
    /\ UNCHANGED <<registered, running>>

\* One action at a time, and each of them runs.
Call(event) ==
    /\ event \in due
    /\ running = Nothing
    /\ due' = due \ {event}
    /\ running' = event
    /\ UNCHANGED <<phase, registered>>

ActionReturns ==
    /\ running # Nothing
    /\ running' = Nothing
    /\ UNCHANGED <<phase, registered, due>>

\* wait registers nothing by itself; it may forget.
Return ==
    /\ phase = "wait"
    /\ due = {}
    /\ running = Nothing
    /\ phase' = "idle"
    /\ registered' \in SUBSET registered
    /\ UNCHANGED <<due, running>>

Next ==
    \/ \E k \in Kinds, fd \in Fds : Register(k, fd)
    \/ Wait
    \/ \E event \in due : Call(event)
    \/ ActionReturns
    \/ Return

Spec == Init /\ [][Next]_vars
==============================================================================
