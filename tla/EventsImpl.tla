----------------------------- MODULE EventsImpl ------------------------------
(***************************************************************************)
(* What the two event loops of src/src/cad_events.c share: the time-out    *)
(* and the four actions, which the constructors leave uninitialised.       *)
(***************************************************************************)
EXTENDS Naturals

CONSTANTS
    Fds,       \* the descriptors the user registers
    Kinds,     \* the kinds of events the user registers them for
    Timeouts,  \* the time-outs the user sets, in microseconds
    NULL,
    WILD,      \* the value of a pointer that was never set
    Careful    \* TRUE: the user sets every action before it waits

ASSUME EventsAssumption ==
    /\ Fds \subseteq Nat
    /\ Kinds \subseteq {"read", "write", "exception"}
    /\ Timeouts \subseteq Nat
    /\ Careful \in BOOLEAN
    /\ "action" \notin {NULL, WILD}

\* The order in which wait looks at the kinds of one descriptor's events.
KindOrder == <<"read", "write", "exception">>
Actions == Kinds \cup {"timeout"}

VARIABLES
    timeout,  \* this->timeout, a timespec
    on        \* this->on_timeout, on_read, on_write and on_exception

ImplTypeOK ==
    /\ timeout \in [tv_sec : Nat, tv_nsec : Nat]
    /\ timeout.tv_nsec < 1000000000
    /\ on \in [Actions -> {"action", NULL, WILD}]

\* The constructors set no action: malloc leaves what was there.
ImplInit ==
    /\ timeout = [tv_sec |-> 0, tv_nsec |-> 0]
    /\ on \in [Actions -> {NULL, WILD}]

\* Mutant: the whole seconds are not taken out of the nanoseconds.
set_timeout_whole(us) ==
    /\ timeout' = [tv_sec |-> us \div 1000000, tv_nsec |-> us * 1000]
    /\ UNCHANGED on

set_timeout(us) ==
    /\ timeout' = [tv_sec |-> us \div 1000000,
                   tv_nsec |-> (us % 1000000) * 1000]
    /\ UNCHANGED on

\* on_timeout, on_read, on_write and on_exception.
on_event(k, action) ==
    /\ on' = [on EXCEPT ![k] = action]
    /\ UNCHANGED timeout
==============================================================================
