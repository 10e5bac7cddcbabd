------------------------- MODULE EventsPollerProofs --------------------------
(***************************************************************************)
(* Theorems about the event loop on ppoll(2), for any descriptors, kinds   *)
(* of events, time-outs and size of the first block of its array.          *)
(***************************************************************************)
EXTENDS EventsPoller, TLAPS

------------------------------------------------------------------------------
(* What EventsImpl does                                                      *)

\* A pair is made of its elements.
LEMMA PairOf ==
    ASSUME NEW A, NEW B, NEW pair \in A \X B
    PROVE  pair = <<pair[1], pair[2]>>
<1> PICK a \in A, b \in B : pair = <<a, b>>
  BY SMT
<1> QED
  OBVIOUS

USE EventsAssumption, PollerAssumption

\* An event is a kind and a descriptor.
LEMMA Pair ==
    ASSUME NEW event \in Kinds \X Fds
    PROVE  /\ event = <<event[1], event[2]>>
           /\ event[1] \in Kinds
           /\ event[2] \in Fds
           /\ event[2] \in Nat
<1>1. event = <<event[1], event[2]>>
  BY PairOf
<1>2. event[1] \in Kinds /\ event[2] \in Fds
  OBVIOUS
<1> QED
  BY <1>1, <1>2

\* The time-out of cad_events.c is a normal timespec, whatever the microseconds.
LEMMA SetTimeoutType ==
    ASSUME ImplTypeOK, NEW us \in Timeouts, set_timeout(us)
    PROVE  ImplTypeOK'
<1>1. us \in Nat
  OBVIOUS
<1>2. us \div 1000000 \in Nat /\ us % 1000000 \in Nat /\ us % 1000000 < 1000000
  BY <1>1, SMT
<1>3. (us % 1000000) * 1000 \in Nat /\ (us % 1000000) * 1000 < 1000000000
  BY <1>2, SMT
<1> QED
  BY <1>2, <1>3, SMT DEF ImplTypeOK, set_timeout

\* Setting an action, which may be NULL, keeps the types.
LEMMA OnEventType ==
    ASSUME ImplTypeOK, NEW a \in Actions, NEW action \in {"action", NULL},
           on_event(a, action)
    PROVE  ImplTypeOK'
  BY SMT DEF ImplTypeOK, on_event

\* The steps of wait leave the time-out and the actions alone.
LEMMA StillImplType == ImplTypeOK /\ UNCHANGED <<timeout, on>> => ImplTypeOK'
  BY SMT DEF ImplTypeOK

------------------------------------------------------------------------------
(* Type correctness                                                          *)

\* Whatever the user does between two waits keeps the types.
LEMMA ConfigureType ==
    ASSUME TypeOK, Configure
    PROVE  TypeOK'
<1>1. ImplTypeOK'
  <2>1. CASE \E us \in Timeouts : set_timeout(us)
    BY <2>1, SetTimeoutType DEF TypeOK
  <2>2. CASE \E a \in Actions, action \in {"action", NULL} : on_event(a, action)
    BY <2>2, OnEventType DEF TypeOK
  <2> QED
    BY <2>1, <2>2 DEF Configure
<1> QED
  BY <1>1 DEF TypeOK, Configure, loopVars

\* An insertion grows the block when it is full, so that the element fits.
LEMMA SetType ==
    ASSUME TypeOK, NEW kind \in Kinds, NEW fd \in Fds, set(kind, fd)
    PROVE  TypeOK'
<1> USE DEF TypeOK
<1>1. CASE find_pollfd(fd) # {}
  <2>1. PICK j \in find_pollfd(fd) : poller' = [poller EXCEPT ![j].events = @ \cup {kind}]
    BY <1>1 DEF set
  <2>2. j \in 1 .. Len(poller)
    BY <2>1 DEF find_pollfd
  <2>3. poller[j] \in PollFds
    BY <2>2
  <2>4. [poller[j] EXCEPT !.events = @ \cup {kind}] \in PollFds
    BY <2>3 DEF PollFds
  <2>5. poller' \in Seq(PollFds) /\ Len(poller') = Len(poller)
    BY <2>1, <2>2, <2>4
  <2>6. UNCHANGED <<timeout, on, capacity, dangling, n, i, k, pc>>
    BY <1>1 DEF set
  <2> QED
    BY <2>5, <2>6, StillImplType
<1>2. CASE find_pollfd(fd) = {}
  <2> DEFINE p == [fd |-> fd, events |-> {kind}, revents |-> {}]
  <2>1. poller' = Append(poller, p) /\ p \in PollFds
    BY <1>2 DEF set, PollFds
  <2>2. poller' \in Seq(PollFds) /\ Len(poller') = Len(poller) + 1
    BY <2>1
  <2>3. capacity' \in Nat /\ Len(poller) + 1 <= capacity'
    <3>1. CASE Len(poller) < capacity
      BY <1>2, <3>1 DEF set
    <3>2. CASE ~(Len(poller) < capacity)
      BY <1>2, <3>2 DEF set
    <3> QED
      BY <3>1, <3>2
  <2>4. dangling' \in BOOLEAN
    BY <1>2 DEF set
  <2> QED
    BY <2>2, <2>3, <2>4, StillImplType DEF set
<1> QED
  BY <1>1, <1>2

\* What ppoll reports are flags of the elements it was given.
LEMMA WaitType ==
    ASSUME TypeOK, wait
    PROVE  TypeOK'
<1> USE DEF TypeOK
<1>1. poller' \in Seq(PollFds) /\ Len(poller') = Len(poller)
  <2>1. CASE UNCHANGED poller
    BY <2>1
  <2>2. CASE poller' # poller
    <3>1. PICK r \in [1 .. Len(poller) -> SUBSET Kinds] :
             poller' = [j \in 1 .. Len(poller) |-> [poller[j] EXCEPT !.revents = r[j]]]
      BY <2>2 DEF wait
    <3>2. ASSUME NEW j \in 1 .. Len(poller)
          PROVE  [poller[j] EXCEPT !.revents = r[j]] \in PollFds
      <4>1. poller[j] \in PollFds /\ r[j] \in SUBSET Kinds
        OBVIOUS
      <4> QED
        BY <4>1 DEF PollFds
    <3>3. Len(poller) \in Nat
      OBVIOUS
    <3> QED
      BY <3>1, <3>2, <3>3
  <2> QED
    BY <2>1, <2>2
<1> QED
  BY <1>1, StillImplType DEF wait

\* Each step of the user and of wait keeps the types.
LEMMA NextType == TypeOK /\ [Next]_vars => TypeOK'
<1> SUFFICES ASSUME TypeOK, [Next]_vars
             PROVE  TypeOK'
  OBVIOUS
<1> USE DEF TypeOK
<1>1. CASE \E kind \in Kinds, fd \in Fds : set(kind, fd)
  BY <1>1, SetType
<1>2. CASE Configure
  BY <1>2, ConfigureType
<1>3. CASE wait
  BY <1>3, WaitType
<1>4. CASE wait_timeout
  BY <1>4, StillImplType DEF wait_timeout, Calls, loopVars
<1>5. CASE wait_test
  BY <1>5, StillImplType DEF wait_test, Calls, Advance
<1>6. CASE wait_test_garbage
  BY <1>6, StillImplType DEF wait_test_garbage, Calls, Advance
<1>7. CASE wait_action_returns
  BY <1>7, StillImplType DEF wait_action_returns, Advance
<1>8. CASE wait_loop_ends
  BY <1>8, StillImplType DEF wait_loop_ends, loopVars
<1>9. CASE wait_clear
  <2>1. poller' \in Seq(PollFds)
    BY <1>9 DEF wait_clear
  <2>2. Len(poller') <= capacity'
    BY <1>9 DEF wait_clear
  <2>3. dangling' \in BOOLEAN
    BY <1>9, Zenon DEF wait_clear
  <2> QED
    BY <1>9, <2>1, <2>2, <2>3, StillImplType, SMT DEF wait_clear
<1>10. CASE UNCHANGED vars
  BY <1>10, StillImplType DEF vars
<1> QED
  BY <1>1, <1>2, <1>3, <1>4, <1>5, <1>6, <1>7, <1>8, <1>9, <1>10 DEF Next

\* The constructor gives every field but the actions a value of its type.
LEMMA InitType == Init => TypeOK
<1> SUFFICES ASSUME Init
             PROVE  TypeOK
  OBVIOUS
<1>1. ImplTypeOK
  BY SMT DEF Init, ImplInit, ImplTypeOK
<1>2. poller \in Seq(PollFds)
  BY DEF Init
<1>3. Len(poller) <= capacity
  BY DEF Init
<1>4. dangling \in BOOLEAN
  BY Zenon DEF Init
<1> QED
  BY <1>1, <1>2, <1>3, <1>4, SMT DEF Init, TypeOK

\* The state of the loop of cad_events.c keeps its types, and its elements fit in the
\* block of their array.
THEOREM TypeCorrect == Spec => []TypeOK
  BY InitType, NextType, PTL DEF Spec

------------------------------------------------------------------------------
(* The elements of the poller                                                *)

\* Only an insertion adds an element, for a descriptor that has none.
LEMMA NextOneElementPerFd ==
    ASSUME TypeOK, OneElementPerFd, [Next]_vars
    PROVE  OneElementPerFd'
<1> USE DEF OneElementPerFd
<1>1. ASSUME NEW kind \in Kinds, NEW fd \in Fds, set(kind, fd)
      PROVE  OneElementPerFd'
  <2>1. CASE find_pollfd(fd) # {}
    <3>1. PICK j \in find_pollfd(fd) : poller' = [poller EXCEPT ![j].events = @ \cup {kind}]
      BY <1>1, <2>1 DEF set
    <3>2. /\ Len(poller') = Len(poller)
          /\ \A m \in 1 .. Len(poller) : poller'[m].fd = poller[m].fd
      BY <3>1 DEF find_pollfd, TypeOK, PollFds
    <3> QED
      BY <3>2
  <2>2. CASE find_pollfd(fd) = {}
    <3>1. poller' = Append(poller, [fd |-> fd, events |-> {kind}, revents |-> {}])
      BY <1>1, <2>2 DEF set
    <3>2. /\ Len(poller') = Len(poller) + 1
          /\ poller'[Len(poller) + 1].fd = fd
          /\ \A m \in 1 .. Len(poller) : poller'[m] = poller[m] /\ poller[m].fd # fd
      BY <2>2, <3>1 DEF find_pollfd, TypeOK
    <3>3. Len(poller) \in Nat
      BY DEF TypeOK
    <3> QED
      BY <3>2, <3>3
  <2> QED
    BY <2>1, <2>2
<1>2. CASE wait
  <2>1. CASE UNCHANGED poller
    BY <2>1
  <2>2. CASE poller' # poller
    <3>1. PICK r \in [1 .. Len(poller) -> SUBSET Kinds] :
             poller' = [j \in 1 .. Len(poller) |-> [poller[j] EXCEPT !.revents = r[j]]]
      BY <1>2, <2>2 DEF wait
    <3>2. ASSUME NEW m \in 1 .. Len(poller)
          PROVE  poller'[m].fd = poller[m].fd
      <4>1. poller[m] \in PollFds
        BY DEF TypeOK
      <4> QED
        BY <3>1, <4>1 DEF PollFds
    <3>3. Len(poller) \in Nat /\ Len(poller') = Len(poller)
      BY <3>1 DEF TypeOK
    <3> QED
      BY <3>2, <3>3
  <2> QED
    BY <2>1, <2>2
<1>3. CASE wait_clear
  BY <1>3 DEF wait_clear
<1>4. CASE UNCHANGED poller
  BY <1>4
<1> QED
  BY <1>1, <1>2, <1>3, <1>4 DEF Next, vars, Configure, wait_timeout, wait_test,
     wait_test_garbage, wait_action_returns, wait_loop_ends

\* However the descriptors are registered, in one wait or over several, ppoll is given
\* one element for each.
THEOREM OneElementPerFdAlways == Spec => []OneElementPerFd
<1>1. Init => OneElementPerFd
  BY DEF Init, OneElementPerFd
<1>2. TypeOK /\ OneElementPerFd /\ [Next]_vars => OneElementPerFd'
  BY NextOneElementPerFd
<1> QED
  BY <1>1, <1>2, TypeCorrect, PTL DEF Spec
------------------------------------------------------------------------------
(* The poller implements the event loop                                      *)

\* Every element was registered for something, only those that ppoll was given have
\* something to report, and no action of a careful user is missing during wait.
PollerInv ==
    /\ n <= Len(poller)
    /\ pc = "idle" => n = 0
    /\ \A j \in 1 .. Len(poller) :
          /\ poller[j].events # {}
          /\ j > n => poller[j].revents = {}
    /\ pc # "idle" => (\A a \in Kinds : on[a] = "action") /\ on["timeout"] # WILD

\* What set changes in the elements: the events of one of them, or there is one more.
OldElements(kind, fd) ==
    \A j \in 1 .. Len(poller) :
        /\ poller'[j].fd = poller[j].fd
        /\ poller'[j].revents = poller[j].revents
        /\ poller[j].events \subseteq poller'[j].events
        /\ poller'[j].events
              \subseteq poller[j].events \cup (IF poller[j].fd = fd THEN {kind} ELSE {})

NewElements(kind, fd) ==
    \A j \in 1 .. Len(poller') : j \notin 1 .. Len(poller) =>
        /\ poller'[j].fd = fd
        /\ poller'[j].events = {kind}
        /\ poller'[j].revents = {}

SetElement(kind, fd) ==
    \E j \in 1 .. Len(poller') : poller'[j].fd = fd /\ kind \in poller'[j].events

\* set changes at most the events of one element, or adds one.
LEMMA SetElements ==
    ASSUME TypeOK, NEW kind \in Kinds, NEW fd \in Fds, set(kind, fd)
    PROVE  /\ Len(poller) \in Nat /\ Len(poller') \in Nat /\ Len(poller) <= Len(poller')
           /\ OldElements(kind, fd)
           /\ NewElements(kind, fd)
           /\ SetElement(kind, fd)
           /\ UNCHANGED <<timeout, on, n, i, k, pc>>
<1>0. Len(poller) \in Nat /\ UNCHANGED <<timeout, on, n, i, k, pc>>
  BY DEF set, TypeOK
<1>1. CASE find_pollfd(fd) # {}
  <2>1. PICK j \in find_pollfd(fd) : poller' = [poller EXCEPT ![j].events = @ \cup {kind}]
    BY <1>1 DEF set
  <2>2. j \in 1 .. Len(poller) /\ poller[j].fd = fd
    BY <2>1 DEF find_pollfd
  <2>3. Len(poller') = Len(poller)
    BY <2>1 DEF TypeOK
  <2>4. poller[j] \in PollFds
    BY <2>2 DEF TypeOK
  <2>5. /\ poller'[j].fd = fd
        /\ poller'[j].revents = poller[j].revents
        /\ poller'[j].events = poller[j].events \cup {kind}
    BY <2>1, <2>2, <2>4 DEF TypeOK, PollFds
  <2>6. \A m \in 1 .. Len(poller) : m # j => poller'[m] = poller[m]
    BY <2>1, <2>2 DEF TypeOK
  <2>7. OldElements(kind, fd)
    BY <2>2, <2>5, <2>6 DEF OldElements
  <2>8. NewElements(kind, fd)
    BY <2>3 DEF NewElements
  <2>9. SetElement(kind, fd)
    BY <2>2, <2>3, <2>5 DEF SetElement
  <2> QED
    BY <1>0, <2>3, <2>7, <2>8, <2>9
<1>2. CASE find_pollfd(fd) = {}
  <2> DEFINE p == [fd |-> fd, events |-> {kind}, revents |-> {}]
  <2>1. poller' = Append(poller, p)
    BY <1>2 DEF set
  <2>2. /\ Len(poller') = Len(poller) + 1
        /\ poller'[Len(poller) + 1] = p
        /\ \A j \in 1 .. Len(poller) : poller'[j] = poller[j]
    BY <2>1 DEF TypeOK
  <2>3. p.fd = fd /\ p.events = {kind} /\ p.revents = {}
    OBVIOUS
  <2> HIDE DEF p
  <2>4. OldElements(kind, fd)
    BY <2>2 DEF OldElements
  <2>5. NewElements(kind, fd)
    BY <1>0, <2>2, <2>3 DEF NewElements
  <2>6. Len(poller) + 1 \in 1 .. Len(poller')
    BY <1>0, <2>2
  <2>7. SetElement(kind, fd)
    BY <2>2, <2>3, <2>6 DEF SetElement
  <2> QED
    BY <1>0, <2>2, <2>4, <2>5, <2>7
<1> QED
  BY <1>1, <1>2

\* What wait changes in the elements: what they report, which is among what they may.
LEMMA WaitElements ==
    ASSUME TypeOK, wait
    PROVE  /\ Len(poller') = Len(poller) /\ n' = Len(poller)
           /\ \A j \in 1 .. Len(poller) :
                 /\ poller'[j].fd = poller[j].fd
                 /\ poller'[j].events = poller[j].events
           /\ pc' = "test" =>
                 \A j \in 1 .. Len(poller) : poller'[j].revents \subseteq Reports(poller[j])
           /\ pc' \in {"timeout", "test", "clear"} /\ pc = "idle" /\ UNCHANGED on
<1>1. /\ pc' \in {"timeout", "test", "clear"} /\ pc = "idle"
      /\ n' = Len(poller) /\ UNCHANGED on
  BY DEF wait
<1>2. CASE pc' # "test"
  BY <1>1, <1>2 DEF wait
<1>3. CASE pc' = "test"
  <2>1. PICK r \in [1 .. Len(poller) -> SUBSET Kinds] :
           /\ \A j \in 1 .. Len(poller) : r[j] \subseteq Reports(poller[j])
           /\ poller' = [j \in 1 .. Len(poller) |-> [poller[j] EXCEPT !.revents = r[j]]]
    BY <1>3 DEF wait
  <2>2. ASSUME NEW j \in 1 .. Len(poller)
        PROVE  /\ poller'[j].fd = poller[j].fd
               /\ poller'[j].events = poller[j].events
               /\ poller'[j].revents = r[j]
    <3>1. poller[j] \in PollFds
      BY DEF TypeOK
    <3> QED
      BY <2>1, <3>1 DEF PollFds
  <2>3. Len(poller') = Len(poller)
    BY <2>1 DEF TypeOK
  <2> QED
    BY <1>1, <2>1, <2>2, <2>3
<1> QED
  BY <1>2, <1>3

\* Reports stay in the elements that ppoll was given, which set never removes.
LEMMA NextPollerInv ==
    ASSUME Careful, TypeOK, PollerInv, [Next]_vars
    PROVE  PollerInv'
<1> USE DEF PollerInv
<1>0. Len(poller) \in Nat /\ n \in Nat
  BY DEF TypeOK
<1>1. ASSUME NEW kind \in Kinds, NEW fd \in Fds, set(kind, fd)
      PROVE  PollerInv'
  <2>0. OldElements(kind, fd) /\ NewElements(kind, fd)
    BY <1>1, SetElements
  <2>1. ASSUME NEW j \in 1 .. Len(poller')
        PROVE  poller'[j].events # {} /\ (j > n => poller'[j].revents = {})
    <3>1. CASE j \in 1 .. Len(poller)
      BY <2>0, <3>1 DEF OldElements
    <3>2. CASE j \notin 1 .. Len(poller)
      BY <2>0, <3>2 DEF NewElements
    <3> QED
      BY <3>1, <3>2
  <2>2. n <= Len(poller')
    BY <1>0, <1>1, SetElements
  <2>3. UNCHANGED <<on, n, pc>>
    BY <1>1, SetElements
  <2> QED
    BY <2>1, <2>2, <2>3
<1>2. CASE Configure
  <2>1. UNCHANGED <<poller, n, pc>> /\ pc = "idle"
    BY <1>2 DEF Configure, loopVars
  <2> QED
    BY <2>1
<1>3. CASE wait
  <2>1. Len(poller') = Len(poller) /\ n' = Len(poller) /\ pc' # "idle" /\ pc = "idle"
    BY <1>3, WaitElements
  <2>2. (\A a \in Kinds : on'[a] = "action") /\ on'["timeout"] # WILD
    BY <1>3 DEF wait
  <2>3. \A j \in 1 .. Len(poller') : poller'[j].events # {} /\ ~(j > n')
    BY <1>0, <1>3, <2>1, WaitElements
  <2> QED
    BY <1>0, <2>1, <2>2, <2>3
<1>4. CASE UNCHANGED <<on, poller, n>> /\ pc # "idle" /\ pc' # "idle"
  BY <1>4
<1>5. CASE wait_clear
  <2>1. Len(poller') = 0 /\ n' = 0 /\ pc' = "idle"
    BY <1>5 DEF wait_clear
  <2> QED
    BY <2>1
<1>6. CASE UNCHANGED vars
  BY <1>6 DEF vars
<1> QED
  BY <1>1, <1>2, <1>3, <1>4, <1>5, <1>6 DEF Next, wait_timeout, wait_test, Calls,
     wait_test_garbage, wait_action_returns, wait_loop_ends, loopVars

\* During wait of a careful user, ppoll's reports are in the elements it was given.
THEOREM PollerInvAlways ==
    ASSUME Careful
    PROVE  Spec => []PollerInv
<1>1. Init => PollerInv
  <2> SUFFICES ASSUME Init
               PROVE  PollerInv
    OBVIOUS
  <2>1. Len(poller) = 0 /\ n = 0 /\ pc = "idle"
    BY DEF Init
  <2> QED
    BY <2>1 DEF PollerInv
<1>2. TypeOK /\ PollerInv /\ [Next]_vars => PollerInv'
  BY NextPollerInv
<1> QED
  BY <1>1, <1>2, TypeCorrect, PTL DEF Spec

\* Test m of element j is one that finds the event.
Finds(event, j, m) ==
    /\ poller[j].fd = event[2]
    /\ event[1] \in poller[j].revents
    /\ KindOrder[m] = event[1]

\* The tests that the loop of wait has still to do after the one it is at.
After(event) ==
    \E j \in 1 .. Len(poller), m \in 1 .. 3 :
        Finds(event, j, m) /\ (j > i + 1 \/ (j = i + 1 /\ m > k))

\* The same with the one it is at.
From(event) ==
    \E j \in 1 .. Len(poller), m \in 1 .. 3 :
        Finds(event, j, m) /\ (j > i + 1 \/ (j = i + 1 /\ m >= k))

\* What is due at each point of wait.
DueByPc ==
    /\ pc = "test" => Due = {event \in Kinds \X Fds : From(event)}
    /\ pc = "action" => Due = {event \in Kinds \X Fds : After(event)}
    /\ pc = "timeout" => Due = IF on["timeout"] = NULL THEN {} ELSE {<<"timeout", 0>>}
    /\ pc \notin {"test", "action", "timeout"} => Due = {}

\* The tests of After and of From are those of Due.
LEMMA DueAt == TypeOK => DueByPc
<1> SUFFICES ASSUME TypeOK
             PROVE  DueByPc
  OBVIOUS
<1>1. CASE pc = "test"
  <2>1. \A m \in 1 .. 3 : m >= k <=> m > k \/ m = k
    BY DEF TypeOK
  <2>2. ASSUME NEW event \in Kinds \X Fds
        PROVE  From(event) <=>
                  \E j \in 1 .. Len(poller), m \in 1 .. 3 :
                     /\ poller[j].fd = event[2]
                     /\ event[1] \in poller[j].revents
                     /\ KindOrder[m] = event[1]
                     /\ \/ j > i + 1
                        \/ j = i + 1 /\ m > k
                        \/ j = i + 1 /\ m = k
    BY <2>1 DEF From, Finds
  <2> QED
    BY <1>1, <2>2 DEF DueByPc, Due
<1>2. CASE pc = "action"
  <2>1. ASSUME NEW event \in Kinds \X Fds
        PROVE  After(event) <=>
                  \E j \in 1 .. Len(poller), m \in 1 .. 3 :
                     /\ poller[j].fd = event[2]
                     /\ event[1] \in poller[j].revents
                     /\ KindOrder[m] = event[1]
                     /\ \/ j > i + 1
                        \/ j = i + 1 /\ m > k
    BY DEF After, Finds
  <2> QED
    BY <1>2, <2>1 DEF DueByPc, Due
<1> QED
  BY <1>1, <1>2 DEF DueByPc, Due

\* The same after a step.
LEMMA DueAtNext == TypeOK' => DueByPc'
  BY DueAt, PTL

\* A step to the next test leaves due what is after the last one.
LEMMA AdvanceLeavesLater ==
    ASSUME TypeOK, Advance, UNCHANGED poller, NEW event \in Kinds \X Fds
    PROVE  From(event)' <=> After(event)
<1>1. i \in Nat /\ k \in 1 .. 3 /\ Len(poller) \in Nat
  BY DEF TypeOK
<1>2. ASSUME NEW j \in 1 .. Len(poller), NEW m \in 1 .. 3
      PROVE  j > i' + 1 \/ (j = i' + 1 /\ m >= k') <=> j > i + 1 \/ (j = i + 1 /\ m > k)
  BY <1>1 DEF Advance
<1> QED
  BY <1>2 DEF From, After, Finds

\* The test that the loop is at finds nothing: only those after it are due.
LEMMA NotHere ==
    ASSUME TypeOK, AtElement \/ AtZero, ~Fires, NEW event \in Kinds \X Fds, From(event)
    PROVE  After(event)
<1>1. i \in Nat /\ k \in 1 .. 3 /\ Len(poller) \in Nat
  BY DEF TypeOK
<1>2. PICK j \in 1 .. Len(poller), m \in 1 .. 3 :
         Finds(event, j, m) /\ (j > i + 1 \/ (j = i + 1 /\ m >= k))
  BY DEF From
<1>3. ~(j = i + 1 /\ m = k)
  BY <1>1, <1>2 DEF Finds, Fires, AtElement, AtZero
<1> QED
  BY <1>1, <1>2, <1>3 DEF After

\* The event whose test fires is due, and is not any more while its action runs: no
\* other element has its descriptor.
LEMMA TestCalls ==
    ASSUME TypeOK, PollerInv, OneElementPerFd, pc = "test", wait_test, Fires
    PROVE  /\ <<KindOrder[k], poller[i + 1].fd>> \in Due
           /\ Due' = Due \ {<<KindOrder[k], poller[i + 1].fd>>}
           /\ Running = Loop!Nothing
           /\ Running' = <<KindOrder[k], poller[i + 1].fd>>
<1> DEFINE e == <<KindOrder[k], poller[i + 1].fd>>
<1>1. i \in Nat /\ k \in 1 .. 3 /\ Len(poller) \in Nat /\ n \in Nat
  BY DEF TypeOK
<1>2. i + 1 \in 1 .. Len(poller) /\ KindOrder[k] \in poller[i + 1].revents
  BY <1>1 DEF Fires, AtElement
<1>3. poller[i + 1] \in PollFds
  BY <1>2 DEF TypeOK
<1>4. KindOrder[k] \in Kinds /\ poller[i + 1].fd \in Fds
  BY <1>2, <1>3 DEF PollFds
<1>5. i < n
  BY <1>1, <1>2 DEF PollerInv
<1>6. pc' = "action" /\ UNCHANGED <<poller, i, k, n>>
  <2>1. pc # "idle" /\ on[KindOrder[k]] = "action"
    BY <1>4 DEF PollerInv
  <2>2. UNCHANGED <<poller, i, k, n>> /\ Calls(KindOrder[k], "action")
    BY DEF wait_test
  <2> QED
    BY <2>1, <2>2 DEF Calls
<1>7. From(e) /\ ~After(e) /\ e \in Kinds \X Fds
  <2>1. From(e)
    BY <1>1, <1>2 DEF From, Finds
  <2>2. ~After(e)
    BY <1>1, <1>2 DEF After, Finds, OneElementPerFd, KindOrder
  <2> QED
    BY <1>4, <2>1, <2>2
<1>8. ASSUME NEW event \in Kinds \X Fds
      PROVE  After(event)' <=> From(event) /\ event # e
  <2>1. After(event)' <=> After(event)
    BY <1>6 DEF After, Finds
  <2>2. ASSUME From(event), ~After(event)
        PROVE  event = e
    <3>1. PICK j \in 1 .. Len(poller), m \in 1 .. 3 :
             Finds(event, j, m) /\ (j > i + 1 \/ (j = i + 1 /\ m >= k))
      BY <2>2 DEF From
    <3>2. j = i + 1 /\ m = k
      BY <1>1, <2>2, <3>1 DEF After
    <3> QED
      BY <3>1, <3>2, Pair DEF Finds
  <2>3. After(event) => From(event)
    BY <1>1 DEF After, From
  <2> QED
    BY <1>7, <2>1, <2>2, <2>3
<1>9. TypeOK'
  BY NextType DEF Next
<1>10. Due = {event \in Kinds \X Fds : From(event)}
  BY DueAt DEF DueByPc
<1>11. Due' = {event \in Kinds \X Fds : After(event)'}
  BY <1>6, <1>9, DueAtNext DEF DueByPc
<1>12. Due' = Due \ {e}
  BY <1>8, <1>10, <1>11
<1>13. e \in Due
  BY <1>7, <1>10
<1>14. Running = Loop!Nothing /\ Running' = e
  BY <1>5, <1>6 DEF Running, Loop!Nothing
<1> QED
  BY <1>12, <1>13, <1>14

\* The loop goes on, to its next test, and nothing that was due is skipped.
LEMMA AdvanceKeepsDue ==
    ASSUME TypeOK, TypeOK', Advance, UNCHANGED poller, pc' = "test",
           pc = "action" \/ (pc = "test" /\ (AtElement \/ AtZero) /\ ~Fires)
    PROVE  Due' = Due
<1>1. Due' = {event \in Kinds \X Fds : From(event)'}
  BY DueAtNext DEF DueByPc
<1>2. ASSUME NEW event \in Kinds \X Fds
      PROVE  After(event) => From(event)
  BY DEF After, From, TypeOK
<1>3. Due = {event \in Kinds \X Fds : After(event)}
  <2>1. CASE pc = "action"
    BY <2>1, DueAt DEF DueByPc
  <2>2. CASE pc = "test"
    BY <1>2, <2>2, DueAt, NotHere DEF DueByPc
  <2> QED
    BY <2>1, <2>2
<1> QED
  BY <1>1, <1>3, AdvanceLeavesLater

\* When the loop has gone past the elements that ppoll was given, nothing is due.
LEMMA LoopEndsEmpty ==
    ASSUME TypeOK, PollerInv, pc = "test", i > n
    PROVE  Due = {}
<1>1. i \in Nat /\ n \in Nat /\ Len(poller) \in Nat
  BY DEF TypeOK
<1>2. ASSUME NEW event \in Kinds \X Fds
      PROVE  ~From(event)
  BY <1>1 DEF From, Finds, PollerInv
<1> QED
  BY <1>2, DueAt DEF DueByPc

\* The pairs that the elements are registered for, as the refinement says it.
Registered == {event \in Kinds \X Fds :
                  \E j \in 1 .. Len(poller) :
                      /\ poller[j].fd = event[2]
                      /\ event[1] \in poller[j].events}

\* What ppoll reports was asked for, or is an exception on a registered descriptor.
LEMMA WaitReports ==
    ASSUME TypeOK, PollerInv, wait
    PROVE  Loop!Wait
<1>1. TypeOK'
  BY NextType DEF Next
<1>2. pc = "idle" /\ pc' \in {"timeout", "test", "clear"} /\ UNCHANGED on
  BY WaitElements
<1>3. Running = Loop!Nothing /\ Running' = Loop!Nothing
  BY <1>2 DEF Running, Loop!Nothing
<1>4. UNCHANGED Registered
  BY WaitElements DEF Registered
<1>5. Due' \in (SUBSET Loop!Reportable(Registered)) \cup {{Loop!Timeout}}
  <2>1. CASE pc' = "timeout"
    <3>1. CASE on'["timeout"] = NULL
      <4>1. Due' = {}
        BY <1>1, <2>1, <3>1, DueAtNext DEF DueByPc
      <4> QED
        BY <4>1
    <3>2. CASE on'["timeout"] # NULL
      <4>1. Due' = {Loop!Timeout}
        BY <1>1, <2>1, <3>2, DueAtNext DEF DueByPc, Loop!Timeout
      <4> QED
        BY <4>1
    <3> QED
      BY <3>1, <3>2
  <2>2. CASE pc' = "clear"
    BY <1>1, <2>2, DueAtNext DEF DueByPc
  <2>3. CASE pc' = "test"
    <3>1. ASSUME NEW event \in Due'
          PROVE  event \in Loop!Reportable(Registered)
      <4>1. event \in Kinds \X Fds /\ From(event)'
        BY <1>1, <2>3, DueAtNext DEF DueByPc
      <4>2. PICK j \in 1 .. Len(poller') :
               poller'[j].fd = event[2] /\ event[1] \in poller'[j].revents
        BY <4>1 DEF From, Finds
      <4>3. /\ j \in 1 .. Len(poller)
            /\ poller[j].fd = event[2]
            /\ event[1] \in poller[j].events \cup (Kinds \cap {"exception"})
        BY <2>3, <4>2, WaitElements DEF Reports
      <4>4. CASE event[1] \in poller[j].events
        BY <4>1, <4>3, <4>4 DEF Registered, Loop!Reportable
      <4>5. CASE event[1] \in Kinds \cap {"exception"}
        <5>0. poller[j] \in PollFds /\ poller[j].events # {}
          BY <4>3 DEF PollerInv, TypeOK
        <5>1. PICK kind \in poller[j].events : kind \in Kinds
          BY <5>0 DEF PollFds
        <5>2. <<kind, event[2]>> \in Registered
          BY <4>1, <4>3, <5>1, Pair DEF Registered
        <5>3. event \in (Kinds \cap {"exception"}) \X Fds
          BY <4>1, <4>5, Pair
        <5> QED
          BY <5>1, <5>2, <5>3 DEF Loop!Reportable
      <4> QED
        BY <4>3, <4>4, <4>5
    <3> QED
      BY <3>1
  <2> QED
    BY <1>2, <2>1, <2>2, <2>3
<1> QED
  BY <1>2, <1>3, <1>4, <1>5 DEF Loop!Wait, Registered

\* What is registered, due and running after a call of set.
LEMMA SetRegisters ==
    ASSUME TypeOK, PollerInv, NEW kind \in Kinds, NEW fd \in Fds, set(kind, fd)
    PROVE  Loop!Register(kind, fd)
<1>0. /\ Len(poller) \in Nat /\ Len(poller') \in Nat /\ Len(poller) <= Len(poller')
      /\ UNCHANGED <<on, n, i, k, pc>>
      /\ OldElements(kind, fd) /\ NewElements(kind, fd) /\ SetElement(kind, fd)
  BY SetElements
<1>1. pc \in {"idle", "expired", "action"}
  BY DEF set
<1>2. Registered' = Registered \cup {<<kind, fd>>}
  <2>1. ASSUME NEW event \in Kinds \X Fds, event \in Registered'
        PROVE  event \in Registered \/ event = <<kind, fd>>
    <3>1. PICK j \in 1 .. Len(poller') :
             poller'[j].fd = event[2] /\ event[1] \in poller'[j].events
      BY <2>1 DEF Registered
    <3>2. CASE j \in 1 .. Len(poller)
      <4>1. /\ poller[j].fd = event[2]
            /\ event[1] \in poller[j].events \/ (event[1] = kind /\ event[2] = fd)
        BY <3>1, <3>2, <1>0 DEF OldElements
      <4> QED
        BY <3>2, <4>1, Pair DEF Registered
    <3>3. CASE j \notin 1 .. Len(poller)
      <4>1. poller'[j].fd = fd /\ poller'[j].events = {kind}
        BY <3>1, <3>3, <1>0 DEF NewElements
      <4>2. event[1] = kind /\ event[2] = fd
        BY <3>1, <4>1
      <4> QED
        BY <4>2, Pair
    <3> QED
      BY <3>2, <3>3
  <2>2. ASSUME NEW event \in Registered
        PROVE  event \in Registered'
    <3>1. PICK j \in 1 .. Len(poller) :
             poller[j].fd = event[2] /\ event[1] \in poller[j].events
      BY DEF Registered
    <3>2. /\ j \in 1 .. Len(poller')
          /\ poller'[j].fd = event[2] /\ event[1] \in poller'[j].events
      BY <1>0, <3>1, <1>0 DEF OldElements
    <3> QED
      BY <3>2 DEF Registered
  <2>3. <<kind, fd>> \in Registered'
    BY <1>0 DEF SetElement, Registered
  <2> QED
    BY <2>1, <2>2, <2>3 DEF Registered
<1>3. Due' = Due
  <2>1. CASE pc = "action"
    <3>1. ASSUME NEW event \in Kinds \X Fds
          PROVE  After(event)' <=> After(event)
      <4>1. ASSUME NEW j \in 1 .. Len(poller'), NEW m \in 1 .. 3, Finds(event, j, m)'
            PROVE  j \in 1 .. Len(poller)
        BY <4>1, <1>0 DEF NewElements, Finds
      <4>2. ASSUME NEW j \in 1 .. Len(poller), NEW m \in 1 .. 3
            PROVE  Finds(event, j, m)' <=> Finds(event, j, m)
        BY <1>0 DEF OldElements, Finds
      <4>3. \A j \in 1 .. Len(poller) : j \in 1 .. Len(poller')
        BY <1>0
      <4> QED
        BY <1>0, <4>1, <4>2, <4>3 DEF After
    <3> QED
      BY <1>0, <2>1, <3>1, DueAt, NextType, DueAtNext DEF DueByPc, Next
  <2>2. CASE pc # "action"
    BY <1>0, <1>1, <2>2 DEF Due
  <2> QED
    BY <2>1, <2>2
<1>4. UNCHANGED Running /\ (pc = "idle" \/ Running # Loop!Nothing)
  <2>1. CASE pc = "action" /\ i < n
    <3>1. i + 1 \in 1 .. Len(poller)
      BY <1>0, <2>1 DEF PollerInv, TypeOK
    <3>2. poller'[i + 1].fd = poller[i + 1].fd
      BY <3>1, <1>0 DEF OldElements
    <3> QED
      BY <1>0, <2>1, <3>2 DEF Running, Loop!Nothing, KindOrder, TypeOK
  <2>2. CASE ~(pc = "action" /\ i < n)
    BY <1>0, <1>1, <2>2 DEF Running, Loop!Nothing
  <2> QED
    BY <2>1, <2>2
<1> QED
  BY <1>0, <1>2, <1>3, <1>4 DEF Loop!Register, Registered

\* But for the reads outside the block, every step of the poller is one of the event
\* loop's, or none of its business.
LEMMA NextLoop ==
    ASSUME Careful, TypeOK, TypeOK', PollerInv, OneElementPerFd, ReadsItsBlock, [Next]_vars
    PROVE  Loop!Next \/ UNCHANGED Loop!vars
<1> USE DEF Loop!vars, Loop!Next
<1>1. ASSUME NEW kind \in Kinds, NEW fd \in Fds, set(kind, fd)
      PROVE  Loop!Register(kind, fd)
  BY <1>1, SetRegisters
<1>2. CASE Configure
  <2>1. UNCHANGED <<poller, pc>> /\ pc = "idle"
    BY <1>2 DEF Configure
  <2>2. Due = {} /\ Due' = {} /\ UNCHANGED Running
    BY <2>1 DEF Due, Running
  <2> QED
    BY <2>1, <2>2
<1>3. CASE wait
  BY <1>3, WaitReports
<1>4. CASE wait_timeout
  <2>1. pc = "timeout" /\ UNCHANGED <<on, poller>> /\ Running = Loop!Nothing
    BY <1>4 DEF wait_timeout, Running, Loop!Nothing
  <2>2. CASE on["timeout"] = NULL
    <3>1. pc' = "clear" /\ Due = {}
      BY <1>4, <2>1, <2>2, DueAt DEF wait_timeout, DueByPc
    <3>2. Due' = {} /\ Running' = Loop!Nothing
      BY <3>1, DueAtNext DEF DueByPc, Running, Loop!Nothing
    <3> QED
      BY <2>1, <3>1, <3>2
  <2>3. CASE on["timeout"] # NULL
    <3>1. pc' = "expired"
      BY <1>4, <2>1, <2>3 DEF wait_timeout, Calls, PollerInv
    <3>2. Due = {Loop!Timeout}
      BY <2>1, <2>3, DueAt DEF DueByPc, Loop!Timeout
    <3>3. Due' = {} /\ Running' = Loop!Timeout
      BY <3>1, DueAtNext DEF DueByPc, Running, Loop!Timeout
    <3>4. Loop!Call(Loop!Timeout)
      BY <2>1, <3>1, <3>2, <3>3 DEF Loop!Call
    <3> QED
      BY <3>2, <3>4
  <2> QED
    BY <2>2, <2>3
<1>5. CASE wait_test
  <2>1. CASE Fires
    <3>1. /\ pc = "test" /\ pc' # "idle" /\ UNCHANGED poller
      BY <1>5 DEF wait_test, Calls
    <3>2. Loop!Call(<<KindOrder[k], poller[i + 1].fd>>)
      BY <1>5, <2>1, <3>1, TestCalls DEF Loop!Call
    <3> QED
      BY <1>5, <2>1, <3>1, <3>2, TestCalls
  <2>2. CASE ~Fires
    <3>1. /\ Advance /\ pc = "test" /\ pc' = "test" /\ UNCHANGED <<on, poller>>
          /\ AtElement \/ AtZero
      BY <1>5, <2>2 DEF wait_test
    <3>2. UNCHANGED <<Due, Running>>
      BY <2>2, <3>1, AdvanceKeepsDue DEF Running
    <3> QED
      BY <3>1, <3>2
  <2> QED
    BY <2>1, <2>2
<1>6. ~wait_test_garbage
  BY DEF wait_test_garbage, ReadsItsBlock
<1>7. CASE wait_action_returns
  <2>1. UNCHANGED <<on, poller>> /\ pc # "idle" /\ pc' # "idle"
    BY <1>7 DEF wait_action_returns
  <2>2. Running # Loop!Nothing /\ Running' = Loop!Nothing
    BY <1>7 DEF wait_action_returns, Running, Loop!Nothing, KindOrder, TypeOK
  <2>3. Due' = Due
    <3>1. CASE pc = "expired"
      BY <1>7, <3>1, DueAt, DueAtNext DEF DueByPc, wait_action_returns
    <3>2. CASE pc = "action"
      BY <1>7, <2>1, <3>2, AdvanceKeepsDue DEF wait_action_returns
    <3> QED
      BY <1>7, <3>1, <3>2 DEF wait_action_returns
  <2> QED
    BY <2>1, <2>2, <2>3 DEF Loop!ActionReturns
<1>8. CASE wait_loop_ends
  <2>1. pc = "test" /\ pc' = "clear" /\ i > n /\ UNCHANGED poller
    BY <1>8 DEF wait_loop_ends
  <2>2. Due = {} /\ Due' = {}
    BY <2>1, LoopEndsEmpty, DueAtNext DEF DueByPc
  <2>3. UNCHANGED Running
    BY <2>1 DEF Running
  <2> QED
    BY <2>1, <2>2, <2>3
<1>9. CASE wait_clear
  <2>1. pc = "clear" /\ pc' = "idle" /\ Len(poller') = 0
    BY <1>9 DEF wait_clear
  <2>2. Due = {} /\ Due' = {} /\ Running = Loop!Nothing /\ Running' = Loop!Nothing
    BY <2>1, DueAt, DueAtNext DEF DueByPc, Running, Loop!Nothing
  <2>3. Registered' = {}
    BY <2>1 DEF Registered
  <2> QED
    BY <2>1, <2>2, <2>3 DEF Loop!Return, Registered
<1>10. CASE UNCHANGED vars
  BY <1>10 DEF vars, Due, Running
<1> QED
  BY <1>1, <1>2, <1>3, <1>4, <1>5, <1>6, <1>7, <1>8, <1>9, <1>10 DEF Next

\* For a user who sets every action before it waits, wait of the poller calls the action
\* of each reported event once, and no other, as long as it reads in the array's block.
THEOREM PollerImplementsEventLoop ==
    ASSUME Careful
    PROVE  Spec => ImplementsEventLoop
<1>1. Init => Loop!Init
  <2> SUFFICES ASSUME Init
               PROVE  Loop!Init
    OBVIOUS
  <2>1. pc = "idle" /\ Len(poller) = 0
    BY DEF Init
  <2>2. Registered = {}
    BY <2>1 DEF Registered
  <2> QED
    BY <2>1, <2>2 DEF Due, Running, Loop!Init, Loop!Nothing, Registered
<1>2. TypeOK /\ TypeOK' /\ PollerInv /\ OneElementPerFd /\ [Next]_vars
         => [ReadsItsBlock => Loop!Next \/ UNCHANGED Loop!vars]_vars
  BY NextLoop
<1> QED
  BY <1>1, <1>2, TypeCorrect, OneElementPerFdAlways, PollerInvAlways, PTL
     DEF Spec, ImplementsEventLoop
==============================================================================
