--------------------------- MODULE EventsSelector ----------------------------
(***************************************************************************)
(* The event loop on pselect(2) of src/src/cad_events.c.  wait is cut at   *)
(* its calls of the user's actions, which may register descriptors.  They  *)
(* are assumed not to call wait, free or on_... on the same loop.          *)
(***************************************************************************)
EXTENDS EventsImpl, Sequences

VARIABLES
    fds,    \* this->fd.selector.read, .write and .exception, by kind
    max,    \* this->fd.selector.max
    ready,  \* the local r, w and x of wait, by kind
    i,      \* the loop variable of wait
    k,      \* the kind whose test comes next, an index of KindOrder
    pc      \* where wait is

vars == <<timeout, on, fds, max, ready, i, k, pc>>

None == [kind \in Kinds |-> {}]

TypeOK ==
    /\ ImplTypeOK
    /\ fds \in [Kinds -> SUBSET Fds]
    /\ max \in Nat
    /\ ready \in [Kinds -> SUBSET Fds]
    /\ i \in Nat
    /\ k \in 1 .. 3
    /\ pc \in {"idle", "timeout", "expired", "test", "action", "zero",
              "crashed"}

Init ==
    /\ ImplInit
    /\ fds = None
    /\ max = 0
    /\ ready = None
    /\ i = 0
    /\ k = 1
    /\ pc = "idle"

------------------------------------------------------------------------------

\* Mutant: max follows the last descriptor, not the largest.
set_last(kind, fd) ==
    /\ pc \in {"idle", "expired", "action"}
    /\ fds' = [fds EXCEPT ![kind] = @ \cup {fd}]
    /\ max' = fd
    /\ UNCHANGED <<timeout, on, ready, i, k, pc>>

\* set_read, set_write and set_exception, from outside wait or in an action.
set(kind, fd) ==
    /\ pc \in {"idle", "expired", "action"}
    /\ fds' = [fds EXCEPT ![kind] = @ \cup {fd}]
    /\ max' = IF max < fd THEN fd ELSE max
    /\ UNCHANGED <<timeout, on, ready, i, k, pc>>

Configure ==
    /\ pc = "idle"
    /\ \/ \E us \in Timeouts : set_timeout(us)
       \/ \E a \in Actions, action \in {"action", NULL} : on_event(a, action)
    /\ UNCHANGED <<fds, max, ready, i, k, pc>>

\* wait up to the return of pselect.
wait ==
    /\ pc = "idle"
    /\ Careful => \A a \in Actions : on[a] # WILD
    /\ \/ /\ pc' = "timeout"
          /\ UNCHANGED ready
       \/ /\ ready' \in {r \in [Kinds -> SUBSET (0 .. max)] :
                /\ \A kind \in Kinds : r[kind] \subseteq fds[kind]
                /\ r # None}
          /\ pc' = "test"
       \/ /\ pc' = "zero"
          /\ UNCHANGED ready
    /\ i' = 0
    /\ k' = 1
    /\ UNCHANGED <<timeout, on, fds, max>>

\* An action that was never set is a wild pointer: the call crashes.
Calls(a, label) == pc' = IF on[a] = WILD THEN "crashed" ELSE label

\* pselect returned 0.
wait_timeout ==
    /\ pc = "timeout"
    /\ IF on["timeout"] # NULL THEN Calls("timeout", "expired") ELSE pc' = "zero"
    /\ UNCHANGED <<timeout, on, fds, max, ready, i, k>>

\* Mutant: FD_ISSET is asked of the sets that were registered only.
Fires_registered ==
    /\ KindOrder[k] \in Kinds
    /\ on[KindOrder[k]] # NULL
    /\ i \in fds[KindOrder[k]]

\* One of the three tests of the loop's body calls its action.
Fires ==
    /\ KindOrder[k] \in Kinds
    /\ on[KindOrder[k]] # NULL
    /\ i \in fds[KindOrder[k]]
    /\ i \in ready[KindOrder[k]]

\* Mutant: the loop does not go on to the next descriptor.
AdvanceStuck ==
    /\ k' = IF k = 3 THEN 1 ELSE k + 1
    /\ i' = i

\* On to the next test: of the same descriptor, or of the next one.
Advance ==
    /\ k' = IF k = 3 THEN 1 ELSE k + 1
    /\ i' = IF k = 3 THEN i + 1 ELSE i

wait_test ==
    /\ pc = "test"
    /\ i <= max
    /\ \/ Fires /\ Calls(KindOrder[k], "action") /\ UNCHANGED <<i, k>>
       \/ ~Fires /\ Advance /\ UNCHANGED pc
    /\ UNCHANGED <<timeout, on, fds, max, ready>>

\* The action returns into wait: after the loop if it was on_timeout.
wait_action_returns ==
    /\ \/ pc = "expired" /\ pc' = "zero" /\ UNCHANGED <<i, k>>
       \/ pc = "action" /\ pc' = "test" /\ Advance
    /\ UNCHANGED <<timeout, on, fds, max, ready>>

wait_loop_ends ==
    /\ pc = "test"
    /\ i > max
    /\ pc' = "zero"
    /\ UNCHANGED <<timeout, on, fds, max, ready, i, k>>

\* The three FD_ZERO, however wait came here, then it returns.  (max stays.)
wait_zero ==
    /\ pc = "zero"
    /\ fds' = None
    /\ ready' = None
    /\ i' = 0
    /\ k' = 1
    /\ pc' = "idle"
    /\ UNCHANGED <<timeout, on, max>>

Next ==
    \/ \E kind \in Kinds, fd \in Fds : set(kind, fd)
    \/ Configure
    \/ wait
    \/ wait_timeout
    \/ wait_test
    \/ wait_action_returns
    \/ wait_loop_ends
    \/ wait_zero

Spec == Init /\ [][Next]_vars

\* The program runs, and the user's actions return.
FairSpec == Spec /\ WF_vars(wait_timeout \/ wait_test \/ wait_action_returns
                            \/ wait_loop_ends \/ wait_zero)

------------------------------------------------------------------------------

\* The events whose test the loop has still to do, and whose action is set.
Due ==
    CASE pc = "timeout" -> IF on["timeout"] = NULL THEN {} ELSE {<<"timeout", 0>>}
      [] pc \in {"test", "action"} ->
            {event \in Kinds \X Fds :
                LET kind == event[1]
                    fd == event[2]
                IN  /\ fd \in ready[kind]
                    /\ on[kind] # NULL
                    /\ \E j \in 1 .. 3 :
                          /\ KindOrder[j] = kind
                          /\ \/ fd > i
                             \/ fd = i /\ j > k
                             \/ fd = i /\ j = k /\ pc = "test"}
      [] OTHER -> {}

\* The event whose action is running.
Running ==
    CASE pc = "expired" -> <<"timeout", 0>>
      [] pc = "action"  -> <<KindOrder[k], i>>
      [] OTHER          -> <<"nothing", 0>>

\* wait calls the action of each event that pselect reported, once, and of no
\* other event, even when actions register descriptors meanwhile.
Loop == INSTANCE EventLoop
            WITH phase <- IF pc = "idle" THEN "idle" ELSE "wait",
                 registered <- {event \in Kinds \X Fds : event[2] \in fds[event[1]]},
                 due <- Due,
                 running <- Running,
                 Unasked <- {}
ImplementsEventLoop == Loop!Spec

\* Every descriptor pselect must look at is below the count it is given.
MaxCovers == \A kind \in Kinds : \A fd \in fds[kind] : fd <= max

\* wait returns, although the actions it calls may raise the loop's bound.
WaitReturns == pc # "idle" ~> pc = "idle"

\* "File descriptors and time-out stay set, one may keep calling wait() in a
\* loop."
StaySet ==
    [][pc # "idle" /\ pc' = "idle" => fds' = fds /\ timeout' = timeout]_vars

\* "The user may supply an action": wait works for a user who supplies none.
ActionsOptional == pc # "crashed"
==============================================================================
