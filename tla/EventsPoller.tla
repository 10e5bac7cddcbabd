---------------------------- MODULE EventsPoller -----------------------------
(***************************************************************************)
(* The event loop on ppoll(2) of src/src/cad_events.c.  Its descriptors    *)
(* are the elements of a cad_array, which grows as Array.tla says: full    *)
(* blocks are reallocated.  wait walks the block with a pointer, p, that   *)
(* it took before it called the user's actions, and up to the n-th slot    *)
(* included.                                                               *)
(*                                                                         *)
(* The actions may register descriptors; they are assumed not to call      *)
(* wait, free or on_... on the same loop.                                  *)
(***************************************************************************)
EXTENDS EventsImpl, Sequences

CONSTANTS
    FirstCapacity,  \* the slots of the first block: 4 in the code
    Reentrant       \* TRUE: actions register descriptors

ASSUME PollerAssumption == FirstCapacity \in Nat \ {0} /\ Reentrant \in BOOLEAN

VARIABLES
    poller,    \* the elements of this->fd.poller
    capacity,  \* the slots of its block
    n,         \* the local n of wait
    i,         \* the loop variable of wait
    k,         \* the kind whose test comes next, an index of KindOrder
    dangling,  \* TRUE when p points into a block that was reallocated
    pc         \* where wait is

vars == <<timeout, on, poller, capacity, n, i, k, dangling, pc>>
loopVars == <<n, i, k, dangling>>

PollFds == [fd : Fds, events : SUBSET Kinds, revents : SUBSET Kinds]

TypeOK ==
    /\ ImplTypeOK
    /\ poller \in Seq(PollFds)
    /\ capacity \in Nat
    /\ Len(poller) <= capacity
    /\ n \in Nat
    /\ i \in Nat
    /\ k \in 1 .. 3
    /\ dangling \in BOOLEAN
    /\ pc \in {"idle", "timeout", "expired", "test", "action", "clear",
              "crashed"}

Init ==
    /\ ImplInit
    /\ poller = <<>>
    /\ capacity = 0
    /\ n = 0
    /\ i = 0
    /\ k = 1
    /\ dangling = FALSE
    /\ pc = "idle"

------------------------------------------------------------------------------

\* Mutant: the last element is not compared.
find_pollfd_short(fd) == {j \in 1 .. Len(poller) - 1 : poller[j].fd = fd}

\* The elements find_pollfd stops at.
find_pollfd(fd) == {j \in 1 .. Len(poller) : poller[j].fd = fd}

\* set_read, set_write and set_exception, from outside wait or in an action:
\* the descriptor's element, inserted if need be, gets the kind's flags.
set(kind, fd) ==
    /\ pc = "idle" \/ (pc \in {"expired", "action"} /\ Reentrant)
    /\ \/ /\ \E j \in find_pollfd(fd) :
                poller' = [poller EXCEPT ![j].events = @ \cup {kind}]
          /\ UNCHANGED <<capacity, dangling>>
       \/ /\ find_pollfd(fd) = {}
          /\ poller' = Append(poller, [fd |-> fd, events |-> {kind},
                                       revents |-> {}])
          /\ IF Len(poller) < capacity
             THEN UNCHANGED <<capacity, dangling>>
             ELSE /\ capacity' = IF capacity = 0 THEN FirstCapacity
                                                 ELSE 2 * capacity
                  /\ dangling' = (dangling \/ pc = "action")
    /\ UNCHANGED <<timeout, on, n, i, k, pc>>

Configure ==
    /\ pc = "idle"
    /\ \/ \E us \in Timeouts : set_timeout(us)
       \/ \E a \in Actions, action \in {"action", NULL} : on_event(a, action)
    /\ UNCHANGED <<poller, capacity, loopVars, pc>>

\* What ppoll may report of an element: what was asked for, and exceptions.
Reports(p) == p.events \cup (Kinds \cap {"exception"})

\* wait up to the return of ppoll.  The careful user sets each action that
\* ppoll may call for, to an action: unlike wait_selector, wait_poller calls
\* them without comparing them with NULL.
wait ==
    /\ pc = "idle"
    /\ Careful => /\ \A a \in Kinds : on[a] = "action"
                  /\ on["timeout"] # WILD
    /\ \/ pc' = "timeout" /\ UNCHANGED poller
       \/ /\ pc' = "test"
          /\ poller # <<>>
          /\ \E r \in [1 .. Len(poller) -> SUBSET Kinds] :
                /\ \A j \in 1 .. Len(poller) : r[j] \subseteq Reports(poller[j])
                /\ poller' = [j \in 1 .. Len(poller) |->
                                [poller[j] EXCEPT !.revents = r[j]]]
       \/ pc' = "clear" /\ UNCHANGED poller
    /\ n' = Len(poller)
    /\ i' = 0
    /\ k' = 1
    /\ UNCHANGED <<timeout, on, capacity, dangling>>

\* Calling an action that is NULL or was never set crashes.
Calls(a, label) == pc' = IF on[a] \in {NULL, WILD} THEN "crashed" ELSE label

wait_timeout ==
    /\ pc = "timeout"
    /\ IF on["timeout"] # NULL THEN Calls("timeout", "expired") ELSE pc' = "clear"
    /\ UNCHANGED <<timeout, on, poller, capacity, loopVars>>

\* p points at an element, at a slot clear left zeroed, or at memory that is
\* not, or no longer, the block's.
AtElement == ~dangling /\ i < Len(poller)
AtZero == ~dangling /\ i >= Len(poller) /\ i < capacity
AtGarbage == dangling \/ i >= capacity

\* On to the next test: of the same element, or of the next one.
Advance ==
    /\ k' = IF k = 3 THEN 1 ELSE k + 1
    /\ i' = IF k = 3 THEN i + 1 ELSE i

\* Mutant: the first element is not looked at.
Fires_from_1 ==
    /\ AtElement
    /\ i > 0
    /\ KindOrder[k] \in poller[i + 1].revents

\* The test of revents for the kind finds its flag in an element.
Fires ==
    /\ AtElement
    /\ KindOrder[k] \in poller[i + 1].revents

wait_test ==
    /\ pc = "test"
    /\ i <= n
    /\ \/ Fires /\ Calls(KindOrder[k], "action") /\ UNCHANGED <<i, k>>
       \/ (AtElement \/ AtZero) /\ ~Fires /\ Advance /\ UNCHANGED pc
    /\ UNCHANGED <<timeout, on, poller, capacity, n, dangling>>

\* In memory that is not the block's, revents and fd are whatever is there.
wait_test_garbage ==
    /\ pc = "test"
    /\ i <= n
    /\ AtGarbage
    /\ \/ KindOrder[k] \in Kinds /\ Calls(KindOrder[k], "action") /\ UNCHANGED <<i, k>>
       \/ Advance /\ UNCHANGED pc
    /\ UNCHANGED <<timeout, on, poller, capacity, n, dangling>>

\* The action returns into wait: after the loop if it was on_timeout.
wait_action_returns ==
    /\ \/ pc = "expired" /\ pc' = "clear" /\ UNCHANGED <<i, k>>
       \/ pc = "action" /\ pc' = "test" /\ Advance
    /\ UNCHANGED <<timeout, on, poller, capacity, n, dangling>>

wait_loop_ends ==
    /\ pc = "test"
    /\ i > n
    /\ pc' = "clear"
    /\ UNCHANGED <<timeout, on, poller, capacity, loopVars>>

\* The array is cleared, however wait came here, then it returns.
wait_clear ==
    /\ pc = "clear"
    /\ poller' = <<>>
    /\ n' = 0
    /\ i' = 0
    /\ k' = 1
    /\ dangling' = FALSE
    /\ pc' = "idle"
    /\ UNCHANGED <<timeout, on, capacity>>

Next ==
    \/ \E kind \in Kinds, fd \in Fds : set(kind, fd)
    \/ Configure
    \/ wait
    \/ wait_timeout
    \/ wait_test
    \/ wait_test_garbage
    \/ wait_action_returns
    \/ wait_loop_ends
    \/ wait_clear

Spec == Init /\ [][Next]_vars

------------------------------------------------------------------------------

\* The events whose test the loop has still to do.
Due ==
    CASE pc = "timeout" -> IF on["timeout"] = NULL THEN {} ELSE {<<"timeout", 0>>}
      [] pc \in {"test", "action"} ->
            {event \in Kinds \X Fds :
                \E j \in 1 .. Len(poller), m \in 1 .. 3 :
                    /\ poller[j].fd = event[2]
                    /\ event[1] \in poller[j].revents
                    /\ KindOrder[m] = event[1]
                    /\ \/ j > i + 1
                       \/ j = i + 1 /\ m > k
                       \/ j = i + 1 /\ m = k /\ pc = "test"}
      [] OTHER -> {}

\* The event whose action is running: of what was no element, none of ours.
Running ==
    CASE pc = "expired" -> <<"timeout", 0>>
      [] pc = "action"  -> IF i < n THEN <<KindOrder[k], poller[i + 1].fd>>
                                    ELSE <<"garbage", 0>>
      [] OTHER          -> <<"nothing", 0>>

Loop == INSTANCE EventLoop
            WITH phase <- IF pc = "idle" THEN "idle" ELSE "wait",
                 registered <- {event \in Kinds \X Fds :
                                   \E j \in 1 .. Len(poller) :
                                       /\ poller[j].fd = event[2]
                                       /\ event[1] \in poller[j].events},
                 due <- Due,
                 running <- Running,
                 Unasked <- Kinds \cap {"exception"}

\* wait reads only slots of the block, and of the one the array has now.
ReadsItsBlock == pc = "test" /\ i <= n => ~AtGarbage

\* "Waits for file descriptors or time-out, and calls actions if relevant": wait
\* calls an action for an event that ppoll reported of an element it was given.
ActionsReported == pc = "action" => i < n /\ KindOrder[k] \in poller[i + 1].revents

\* wait calls the action of each event that ppoll reported, once, and of no
\* other event, even when actions register descriptors meanwhile: but for the
\* reads outside the block, every step is one of the event loop's.
ImplementsEventLoop ==
    /\ Loop!Init
    /\ [][ReadsItsBlock => Loop!Next \/ UNCHANGED Loop!vars]_vars

\* All the kinds a descriptor is registered for are in one element: ppoll
\* reports each event once.
OneElementPerFd ==
    \A j, m \in 1 .. Len(poller) : poller[j].fd = poller[m].fd => j = m
==============================================================================
