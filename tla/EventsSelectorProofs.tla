------------------------ MODULE EventsSelectorProofs -------------------------
(***************************************************************************)
(* Theorems about the event loop on pselect(2), for any descriptors, kinds *)
(* of events and time-outs.                                                *)
(***************************************************************************)
EXTENDS EventsSelector, TLAPS

------------------------------------------------------------------------------
(* What EventsImpl does                                                      *)

\* A pair is made of its elements.
LEMMA PairOf ==
    ASSUME NEW A, NEW B, NEW pair \in A \X B
    PROVE  pair = <<pair[1], pair[2]>>
<1> PICK a \in A, b \in B : pair = <<a, b>>
  BY SMT
<1> QED
  OBVIOUS

USE EventsAssumption

\* An event is a kind and a descriptor.
LEMMA Pair ==
    ASSUME NEW event \in Kinds \X Fds
    PROVE  /\ event = <<event[1], event[2]>>
           /\ event[1] \in Kinds
           /\ event[2] \in Fds
           /\ event[2] \in Nat
<1>1. event = <<event[1], event[2]>>
  BY PairOf
<1>2. event[1] \in Kinds /\ event[2] \in Fds
  OBVIOUS
<1> QED
  BY <1>1, <1>2

\* The time-out of cad_events.c is a normal timespec, whatever the microseconds.
LEMMA SetTimeoutType ==
    ASSUME ImplTypeOK, NEW us \in Timeouts, set_timeout(us)
    PROVE  ImplTypeOK'
<1>1. us \in Nat
  OBVIOUS
<1>2. us \div 1000000 \in Nat /\ us % 1000000 \in Nat /\ us % 1000000 < 1000000
  BY <1>1, SMT
<1>3. (us % 1000000) * 1000 \in Nat /\ (us % 1000000) * 1000 < 1000000000
  BY <1>2, SMT
<1> QED
  BY <1>2, <1>3, SMT DEF ImplTypeOK, set_timeout

\* Setting an action, which may be NULL, keeps the types.
LEMMA OnEventType ==
    ASSUME ImplTypeOK, NEW a \in Actions, NEW action \in {"action", NULL},
           on_event(a, action)
    PROVE  ImplTypeOK'
  BY SMT DEF ImplTypeOK, on_event

\* The steps of wait leave the time-out and the actions alone.
LEMMA StillImplType == ImplTypeOK /\ UNCHANGED <<timeout, on>> => ImplTypeOK'
  BY SMT DEF ImplTypeOK

------------------------------------------------------------------------------
(* Type correctness                                                          *)

\* Whatever the user does between two waits keeps the types.
LEMMA ConfigureType ==
    ASSUME TypeOK, Configure
    PROVE  TypeOK'
<1>1. ImplTypeOK'
  <2>1. CASE \E us \in Timeouts : set_timeout(us)
    BY <2>1, SetTimeoutType DEF TypeOK
  <2>2. CASE \E a \in Actions, action \in {"action", NULL} : on_event(a, action)
    BY <2>2, OnEventType DEF TypeOK
  <2> QED
    BY <2>1, <2>2 DEF Configure
<1> QED
  BY <1>1 DEF TypeOK, Configure

\* Each step of the user and of wait keeps the types.
LEMMA NextType == TypeOK /\ [Next]_vars => TypeOK'
<1> SUFFICES ASSUME TypeOK, [Next]_vars
             PROVE  TypeOK'
  OBVIOUS
<1> USE DEF TypeOK
<1>1. CASE \E kind \in Kinds, fd \in Fds : set(kind, fd)
  <2> PICK kind \in Kinds, fd \in Fds : set(kind, fd)
    BY <1>1
  <2>1. fds' \in [Kinds -> SUBSET Fds] /\ max' \in Nat
    BY DEF set
  <2> QED
    BY <2>1, StillImplType DEF set
<1>2. CASE Configure
  BY <1>2, ConfigureType
<1>3. CASE wait
  <2>1. ready' \in [Kinds -> SUBSET Fds]
    BY <1>3 DEF wait
  <2> QED
    BY <1>3, <2>1, StillImplType DEF wait
<1>4. CASE wait_timeout
  BY <1>4, StillImplType DEF wait_timeout, Calls
<1>5. CASE wait_test
  BY <1>5, StillImplType DEF wait_test, Calls, Advance
<1>6. CASE wait_action_returns
  BY <1>6, StillImplType DEF wait_action_returns, Advance
<1>7. CASE wait_loop_ends
  BY <1>7, StillImplType DEF wait_loop_ends
<1>8. CASE wait_zero
  BY <1>8, StillImplType DEF wait_zero, None
<1>9. CASE UNCHANGED vars
  BY <1>9, StillImplType DEF vars
<1> QED
  BY <1>1, <1>2, <1>3, <1>4, <1>5, <1>6, <1>7, <1>8, <1>9 DEF Next

\* The constructor gives every field but the actions a value of its type.
LEMMA InitType == Init => TypeOK
  BY SMT DEF Init, ImplInit, TypeOK, ImplTypeOK, None

\* The state of the loop of cad_events.c keeps its types.
THEOREM TypeCorrect == Spec => []TypeOK
  BY InitType, NextType, PTL DEF Spec

------------------------------------------------------------------------------
(* The count that pselect is given                                           *)

\* The bound only grows, and a descriptor is only added with it.
LEMMA NextMaxCovers == TypeOK /\ MaxCovers /\ [Next]_vars => MaxCovers'
<1> SUFFICES ASSUME TypeOK, MaxCovers, [Next]_vars,
                    NEW kind \in Kinds, NEW fd \in fds'[kind]
             PROVE  fd <= max'
  BY DEF MaxCovers
<1>1. CASE \E k_ \in Kinds, f \in Fds : set(k_, f)
  <2> PICK k_ \in Kinds, f \in Fds : set(k_, f)
    BY <1>1
  <2>1. max <= max' /\ f <= max' /\ max \in Nat /\ max' \in Nat /\ f \in Nat
    BY DEF set, TypeOK
  <2>2. fd \in fds[kind] \/ fd = f
    BY DEF set, TypeOK
  <2>3. CASE fd \in fds[kind]
    <3>1. fd <= max /\ fd \in Nat
      BY <2>3 DEF MaxCovers, TypeOK
    <3> QED
      BY <2>1, <3>1
  <2> QED
    BY <2>1, <2>2, <2>3
<1>2. CASE wait_zero
  BY <1>2 DEF wait_zero, None
<1>3. CASE UNCHANGED <<fds, max>>
  BY <1>3 DEF MaxCovers
<1> QED
  BY <1>1, <1>2, <1>3 DEF Next, vars, Configure, wait, wait_timeout, wait_test,
     wait_action_returns, wait_loop_ends

\* Every descriptor is below the count that wait gives to pselect, whatever the
\* actions register.
THEOREM MaxCoversAlways == Spec => []MaxCovers
<1>1. Init => MaxCovers
  BY DEF Init, None, MaxCovers
<1> QED
  BY <1>1, NextMaxCovers, TypeCorrect, PTL DEF Spec
------------------------------------------------------------------------------
(* The selector implements the event loop                                    *)

\* During wait what pselect reported is still registered, and no action of a careful
\* user is an uninitialised pointer.
WaitInv ==
    /\ \A kind \in Kinds : ready[kind] \subseteq fds[kind]
    /\ pc # "idle" => \A a \in Actions : on[a] # WILD

\* Descriptors are only forgotten when nothing is reported, and actions set between waits.
LEMMA NextWaitInv ==
    ASSUME Careful, TypeOK, WaitInv, [Next]_vars
    PROVE  WaitInv'
<1> USE DEF WaitInv, TypeOK, ImplTypeOK
<1>1. CASE \E kind \in Kinds, fd \in Fds : set(kind, fd)
  BY <1>1 DEF set
<1>2. CASE Configure
  <2>1. UNCHANGED <<ready, fds, pc>> /\ pc = "idle"
    BY <1>2 DEF Configure
  <2> QED
    BY <2>1
<1>3. CASE wait
  BY <1>3 DEF wait
<1>4. CASE UNCHANGED <<on, fds, ready>> /\ pc # "idle"
  BY <1>4
<1>5. CASE wait_zero
  BY <1>5 DEF wait_zero, None
<1>6. CASE UNCHANGED vars
  BY <1>6 DEF vars
<1> QED
  BY <1>1, <1>2, <1>3, <1>4, <1>5, <1>6 DEF Next, wait_timeout, wait_test,
     wait_action_returns, wait_loop_ends

\* The careful user never has an uninitialised action called, and wait calls actions
\* for registered descriptors only.
THEOREM WaitInvAlways ==
    ASSUME Careful
    PROVE  Spec => []WaitInv
<1>1. Init => WaitInv
  BY DEF Init, WaitInv, None
<1>2. TypeOK /\ WaitInv /\ [Next]_vars => WaitInv'
  BY NextWaitInv
<1> QED
  BY <1>1, <1>2, TypeCorrect, PTL DEF Spec

\* The tests that the loop of wait has still to do after the one it is at.
After(event) ==
    \E j \in 1 .. 3 : /\ KindOrder[j] = event[1]
                      /\ event[2] > i \/ (event[2] = i /\ j > k)

\* The event of the test it is at.
Here(event) == k \in 1 .. 3 /\ event = <<KindOrder[k], i>>

Reported(event) == event[2] \in ready[event[1]] /\ on[event[1]] # NULL

\* What is due at each point of wait.
DueByPc ==
    /\ pc = "test" => Due = {event \in Kinds \X Fds :
                                Reported(event) /\ (Here(event) \/ After(event))}
    /\ pc = "action" => Due = {event \in Kinds \X Fds : Reported(event) /\ After(event)}
    /\ pc = "timeout" => Due = IF on["timeout"] = NULL THEN {} ELSE {<<"timeout", 0>>}
    /\ pc \notin {"test", "action", "timeout"} => Due = {}

\* The tests of Here and of After are those of Due.
LEMMA DueAt == TypeOK => DueByPc
<1> SUFFICES ASSUME TypeOK
             PROVE  DueByPc
  OBVIOUS
<1>1. ASSUME NEW event \in Kinds \X Fds
      PROVE  Here(event) <=> event[2] = i /\ \E j \in 1 .. 3 : KindOrder[j] = event[1] /\ j = k
  BY DEF Here, TypeOK, KindOrder
<1>2. CASE pc = "test"
  <2>1. ASSUME NEW event \in Kinds \X Fds
        PROVE  Here(event) \/ After(event) <=>
                  \E j \in 1 .. 3 : /\ KindOrder[j] = event[1]
                                    /\ \/ event[2] > i
                                       \/ event[2] = i /\ j > k
                                       \/ event[2] = i /\ j = k
    BY <1>1 DEF After
  <2> QED
    BY <1>2, <2>1 DEF DueByPc, Due, Reported
<1>3. CASE pc = "action"
  BY <1>3 DEF DueByPc, Due, Reported, After
<1> QED
  BY <1>2, <1>3 DEF DueByPc, Due

\* The same after a step.
LEMMA DueAtNext == TypeOK' => DueByPc'
  BY DueAt, PTL

\* A test that calls no action, or an action that returns, leaves due what is after it.
LEMMA AdvanceLeavesLater ==
    ASSUME TypeOK, Advance, UNCHANGED <<on, ready>>, NEW event \in Kinds \X Fds
    PROVE  /\ (Here(event) \/ After(event))' <=> After(event)
           /\ Reported(event)' <=> Reported(event)
<1>1. i \in Nat /\ k \in 1 .. 3 /\ event[2] \in Nat /\ event = <<event[1], event[2]>>
  BY Pair DEF TypeOK
<1>2. CASE k = 3
  <2>1. k' = 1 /\ i' = i + 1
    BY <1>2 DEF Advance
  <2>2. (Here(event) \/ After(event))' <=>
           \E j \in 1 .. 3 : KindOrder[j] = event[1] /\ event[2] >= i + 1
    BY <1>1, <2>1 DEF Here, After, KindOrder
  <2> QED
    BY <1>1, <1>2, <2>2 DEF After, Reported
<1>3. CASE k # 3
  <2>1. k' = k + 1 /\ i' = i /\ k + 1 \in 1 .. 3
    BY <1>1, <1>3 DEF Advance
  <2>2. (Here(event) \/ After(event))' <=>
           \E j \in 1 .. 3 : /\ KindOrder[j] = event[1]
                             /\ event[2] > i \/ (event[2] = i /\ j >= k + 1)
    BY <1>1, <2>1 DEF Here, After, KindOrder
  <2> QED
    BY <1>1, <2>2 DEF After, Reported
<1> QED
  BY <1>2, <1>3

\* A test that fires is that of an event which is due, and which is not due any more
\* while its action runs.
LEMMA TestCalls ==
    ASSUME Careful, TypeOK, WaitInv, wait_test, Fires
    PROVE  /\ <<KindOrder[k], i>> \in Due
           /\ Due' = Due \ {<<KindOrder[k], i>>}
           /\ Running = Loop!Nothing
           /\ Running' = <<KindOrder[k], i>>
           /\ pc' = "action"
<1> DEFINE e == <<KindOrder[k], i>>
<1>1. /\ pc = "test" /\ pc' = "action"
      /\ UNCHANGED <<i, k, on, ready, fds>>
      /\ KindOrder[k] \in Kinds
      /\ i \in ready[KindOrder[k]]
      /\ on[KindOrder[k]] # NULL
  BY DEF wait_test, Calls, Fires, WaitInv, Actions, Advance, TypeOK
<1>2. i \in Fds /\ k \in 1 .. 3 /\ e \in Kinds \X Fds
  BY <1>1 DEF TypeOK
<1>3. Reported(e) /\ Here(e) /\ ~After(e)
  <2>1. ~After(e)
    BY <1>2 DEF After, KindOrder
  <2> QED
    BY <1>1, <1>2, <2>1 DEF Reported, Here
<1>4. ASSUME NEW event \in Kinds \X Fds
      PROVE  /\ Here(event) <=> event = e
             /\ Reported(event)' <=> Reported(event)
             /\ After(event)' <=> After(event)
  BY <1>1, <1>2 DEF Here, Reported, After
<1>5. TypeOK'
  BY NextType DEF Next
<1>6. Due = {event \in Kinds \X Fds : Reported(event) /\ (Here(event) \/ After(event))}
  BY <1>1, DueAt DEF DueByPc
<1>7. Due' = {event \in Kinds \X Fds : Reported(event)' /\ After(event)'}
  BY <1>1, <1>5, DueAtNext DEF DueByPc
<1>8. Due' = Due \ {e}
  BY <1>3, <1>4, <1>6, <1>7
<1>9. e \in Due
  BY <1>2, <1>3, <1>6
<1>10. Running = Loop!Nothing /\ Running' = e
  BY <1>1 DEF Running, Loop!Nothing
<1> QED
  BY <1>1, <1>8, <1>9, <1>10

\* The loop goes on, to its next test, and nothing that was due is skipped.
LEMMA AdvanceKeepsDue ==
    ASSUME TypeOK, TypeOK', Advance, UNCHANGED <<on, ready, fds>>, pc' = "test",
           pc = "action" \/ (pc = "test" /\ ~Fires), WaitInv
    PROVE  Due' = Due
<1>1. Due' = {event \in Kinds \X Fds :
                 Reported(event)' /\ (Here(event) \/ After(event))'}
  BY DueAtNext DEF DueByPc
<1>2. ASSUME NEW event \in Kinds \X Fds, pc = "test"
      PROVE  ~(Reported(event) /\ Here(event))
  BY <1>2, Pair DEF Reported, Here, Fires, WaitInv
<1>3. Due = {event \in Kinds \X Fds : Reported(event) /\ After(event)}
  <2>1. CASE pc = "action"
    BY <2>1, DueAt DEF DueByPc
  <2>2. CASE pc = "test"
    BY <1>2, <2>2, DueAt DEF DueByPc
  <2> QED
    BY <2>1, <2>2
<1> QED
  BY <1>1, <1>3, AdvanceLeavesLater

\* When the loop has gone past the bound, nothing is due any more.
LEMMA LoopEndsEmpty ==
    ASSUME TypeOK, MaxCovers, WaitInv, pc = "test", i > max
    PROVE  Due = {}
<1>1. ASSUME NEW event \in Kinds \X Fds
      PROVE  ~(Reported(event) /\ (Here(event) \/ After(event)))
  <2>1. event[2] \in ready[event[1]] => event[2] <= max
    BY Pair DEF WaitInv, MaxCovers
  <2>2. Here(event) => event[2] = i
    BY DEF Here
  <2>3. i \in Nat /\ max \in Nat /\ event[2] \in Nat
    BY Pair DEF TypeOK
  <2> QED
    BY <2>1, <2>2, <2>3 DEF Reported, After
<1> QED
  BY <1>1, DueAt DEF DueByPc

\* What pselect reports is registered, so that it may be due.
LEMMA WaitReports ==
    ASSUME TypeOK, wait
    PROVE  Loop!Wait
<1> DEFINE registered == {event \in Kinds \X Fds : event[2] \in fds[event[1]]}
<1>1. TypeOK'
  BY NextType DEF Next
<1>2. pc = "idle" /\ pc' \in {"timeout", "test", "zero"} /\ UNCHANGED <<fds, on>>
  BY DEF wait
<1>3. Running = Loop!Nothing /\ Running' = Loop!Nothing
  BY <1>2 DEF Running, Loop!Nothing
<1>4. Due' \in (SUBSET Loop!Reportable(registered)) \cup {{Loop!Timeout}}
  <2>1. CASE pc' = "timeout"
    <3>1. CASE on'["timeout"] = NULL
      <4>1. Due' = {}
        BY <1>1, <2>1, <3>1, DueAtNext DEF DueByPc
      <4> QED
        BY <4>1
    <3>2. CASE on'["timeout"] # NULL
      <4>1. Due' = {Loop!Timeout}
        BY <1>1, <2>1, <3>2, DueAtNext DEF DueByPc, Loop!Timeout
      <4> QED
        BY <4>1
    <3> QED
      BY <3>1, <3>2
  <2>2. CASE pc' = "zero"
    BY <1>1, <2>2, DueAtNext DEF DueByPc
  <2>3. CASE pc' = "test"
    <3>1. \A kind \in Kinds : ready'[kind] \subseteq fds[kind]
      BY <2>3 DEF wait
    <3>2. Due' \subseteq {event \in Kinds \X Fds : event[2] \in ready'[event[1]]}
      BY <1>1, <2>3, DueAtNext DEF DueByPc, Reported
    <3>3. Due' \subseteq registered
      BY <3>1, <3>2, Pair
    <3> QED
      BY <3>3 DEF Loop!Reportable
  <2> QED
    BY <1>2, <2>1, <2>2, <2>3
<1> QED
  BY <1>2, <1>3, <1>4 DEF Loop!Wait

\* Every step of the selector is one of the event loop's, or none of its business.
LEMMA NextLoop ==
    ASSUME Careful, TypeOK, TypeOK', MaxCovers, WaitInv, [Next]_vars
    PROVE  [Loop!Next]_(Loop!vars)
<1> USE DEF Loop!vars, Loop!Next
<1>1. ASSUME NEW kind \in Kinds, NEW fd \in Fds, set(kind, fd)
      PROVE  Loop!Register(kind, fd)
  <2>1. UNCHANGED <<on, ready, i, k, pc>> /\ pc \in {"idle", "expired", "action"}
    BY <1>1 DEF set
  <2>2. UNCHANGED <<Due, Running>>
    BY <2>1 DEF Due, Running
  <2>3. pc = "idle" \/ Running # Loop!Nothing
    BY <2>1 DEF Running, Loop!Nothing, KindOrder, TypeOK
  <2>4. {event \in Kinds \X Fds : event[2] \in fds'[event[1]]}
           = {event \in Kinds \X Fds : event[2] \in fds[event[1]]} \cup {<<kind, fd>>}
    <3>1. fds' = [fds EXCEPT ![kind] = @ \cup {fd}]
      BY <1>1 DEF set
    <3>2. ASSUME NEW event \in Kinds \X Fds
          PROVE  event[2] \in fds'[event[1]]
                    <=> event[2] \in fds[event[1]] \/ event = <<kind, fd>>
      BY <3>1, Pair DEF TypeOK
    <3> QED
      BY <3>2
  <2> QED
    BY <2>1, <2>2, <2>3, <2>4 DEF Loop!Register
<1>2. CASE Configure
  <2>1. UNCHANGED <<fds, pc>> /\ pc = "idle"
    BY <1>2 DEF Configure
  <2>2. Due = {} /\ Due' = {} /\ UNCHANGED Running
    BY <2>1 DEF Due, Running
  <2> QED
    BY <2>1, <2>2
<1>3. CASE wait
  BY <1>3, WaitReports
<1>4. CASE wait_timeout
  <2>1. pc = "timeout" /\ UNCHANGED <<on, fds>> /\ Running = Loop!Nothing
    BY <1>4 DEF wait_timeout, Running, Loop!Nothing
  <2>2. CASE on["timeout"] = NULL
    <3>1. pc' = "zero" /\ Due = {}
      BY <1>4, <2>1, <2>2, DueAt DEF wait_timeout, DueByPc
    <3>2. Due' = {} /\ Running' = Loop!Nothing
      BY <3>1, DueAtNext DEF DueByPc, Running, Loop!Nothing
    <3> QED
      BY <2>1, <3>1, <3>2
  <2>3. CASE on["timeout"] # NULL
    <3>1. pc' = "expired"
      BY <1>4, <2>1, <2>3 DEF wait_timeout, Calls, WaitInv, Actions
    <3>2. Due = {Loop!Timeout}
      BY <2>1, <2>3, DueAt DEF DueByPc, Loop!Timeout
    <3>3. Due' = {} /\ Running' = Loop!Timeout
      BY <3>1, DueAtNext DEF DueByPc, Running, Loop!Timeout
    <3>4. Loop!Call(Loop!Timeout)
      BY <2>1, <3>1, <3>2, <3>3 DEF Loop!Call
    <3> QED
      BY <3>2, <3>4
  <2> QED
    BY <2>2, <2>3
<1>5. CASE wait_test
  <2>1. CASE Fires
    <3>1. Loop!Call(<<KindOrder[k], i>>)
      BY <1>5, <2>1, TestCalls DEF Loop!Call, wait_test
    <3> QED
      BY <1>5, <2>1, <3>1, TestCalls
  <2>2. CASE ~Fires
    <3>1. Advance /\ pc = "test" /\ pc' = "test" /\ UNCHANGED <<on, fds, ready>>
      BY <1>5, <2>2 DEF wait_test
    <3>2. UNCHANGED <<Due, Running>>
      BY <2>2, <3>1, AdvanceKeepsDue DEF Running
    <3> QED
      BY <3>1, <3>2
  <2> QED
    BY <2>1, <2>2
<1>6. CASE wait_action_returns
  <2>1. UNCHANGED <<on, fds, ready>> /\ pc # "idle" /\ pc' # "idle"
    BY <1>6 DEF wait_action_returns
  <2>2. Running # Loop!Nothing /\ Running' = Loop!Nothing
    BY <1>6 DEF wait_action_returns, Running, Loop!Nothing, KindOrder, TypeOK
  <2>3. Due' = Due
    <3>1. CASE pc = "expired"
      BY <1>6, <3>1, DueAt, DueAtNext DEF DueByPc, wait_action_returns
    <3>2. CASE pc = "action"
      BY <1>6, <2>1, <3>2, AdvanceKeepsDue DEF wait_action_returns
    <3> QED
      BY <1>6, <3>1, <3>2 DEF wait_action_returns
  <2> QED
    BY <2>1, <2>2, <2>3 DEF Loop!ActionReturns
<1>7. CASE wait_loop_ends
  <2>1. pc = "test" /\ pc' = "zero" /\ i > max /\ UNCHANGED fds
    BY <1>7 DEF wait_loop_ends
  <2>2. Due = {} /\ Due' = {}
    BY <2>1, LoopEndsEmpty, DueAtNext DEF DueByPc
  <2>3. UNCHANGED Running
    BY <2>1 DEF Running
  <2> QED
    BY <2>1, <2>2, <2>3
<1>8. CASE wait_zero
  <2>1. pc = "zero" /\ pc' = "idle" /\ fds' = None
    BY <1>8 DEF wait_zero
  <2>2. Due = {} /\ Due' = {} /\ Running = Loop!Nothing /\ Running' = Loop!Nothing
    BY <2>1, DueAt, DueAtNext DEF DueByPc, Running, Loop!Nothing
  <2>3. {event \in Kinds \X Fds : event[2] \in fds'[event[1]]} = {}
    BY <2>1, Pair DEF None
  <2> QED
    BY <2>1, <2>2, <2>3 DEF Loop!Return
<1>9. CASE UNCHANGED vars
  BY <1>9 DEF vars, Due, Running
<1> QED
  BY <1>1, <1>2, <1>3, <1>4, <1>5, <1>6, <1>7, <1>8, <1>9 DEF Next

\* For a user who sets every action before it waits, wait of the selector calls the
\* action of each reported event once, and no other, whatever its actions register.
THEOREM SelectorImplementsEventLoop ==
    ASSUME Careful
    PROVE  Spec => ImplementsEventLoop
<1>1. Init => Loop!Init
  BY Pair DEF Init, None, Due, Running, Loop!Init, Loop!Nothing
<1>2. TypeOK /\ TypeOK' /\ MaxCovers /\ WaitInv /\ [Next]_vars => [Loop!Next]_(Loop!vars)
  BY NextLoop
<1> QED
  BY <1>1, <1>2, TypeCorrect, MaxCoversAlways, WaitInvAlways, PTL
     DEF Spec, ImplementsEventLoop, Loop!Spec
==============================================================================
