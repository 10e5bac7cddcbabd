--------------------------- MODULE EventQueueProofs --------------------------
(***************************************************************************)
(* Theorems about the event queue, for every number of user and worker     *)
(* threads, every capacity of the pipe and every set of failing calls.     *)
(***************************************************************************)
EXTENDS EventQueue, TLAPS

USE ThreadsAssumption, BoundsAssumption

------------------------------------------------------------------------------
(* Type correctness                                                          *)

\* The initial state has its type.
LEMMA InitTypeOK == Init => TypeOK
  BY DEF Init, TypeOK, Threads, UserPcs, WorkerPcs

\* Moving a thread to a label of its kind keeps pc well typed: GoTo is how all
\* actions but two move their thread.
LEMMA GoToTyped ==
    ASSUME TypeOK, NEW t \in Threads, NEW label,
           t \in Users => label \in UserPcs,
           t \in Workers => label \in WorkerPcs,
           GoTo(t, label)
    PROVE  /\ pc' \in [Threads -> UserPcs \cup WorkerPcs]
           /\ \A u \in Users : pc'[u] \in UserPcs
           /\ \A w \in Workers : pc'[w] \in WorkerPcs
  BY DEF TypeOK, GoTo, Threads

\* The same for the two actions that move a second thread, a worker.
LEMMA GoTo2Typed ==
    ASSUME TypeOK, NEW t \in Threads, NEW label, NEW w \in Workers, NEW l2,
           t \in Users => label \in UserPcs,
           t \in Workers => label \in WorkerPcs,
           l2 \in WorkerPcs,
           pc' = [pc EXCEPT ![t] = label, ![w] = l2]
    PROVE  /\ pc' \in [Threads -> UserPcs \cup WorkerPcs]
           /\ \A u \in Users : pc'[u] \in UserPcs
           /\ \A v \in Workers : pc'[v] \in WorkerPcs
  BY DEF TypeOK, Threads

\* Every step of a call of stop keeps the type, whichever thread makes it.
LEMMA StopStepType ==
    ASSUME TypeOK, NEW t \in Threads, StopStep(t)
    PROVE  TypeOK'
<1> USE DEF lifeVars, controlVars, mutexVars, callVars, itemVars, At
<1> DEFINE Labels == {"s_lock", "s_set", "s_join", "s_wait", "s_return"}
<1>0. /\ Labels \subseteq UserPcs
      /\ Labels \subseteq WorkerPcs
      /\ "idle" \in UserPcs
      /\ {"w_unlock", "joined"} \subseteq WorkerPcs
  BY DEF UserPcs, WorkerPcs, AlivePcs, StopPcs
<1>1. CASE StopLock(t)
  <2>1. GoTo(t, "s_set")
    BY <1>1 DEF StopLock
  <2> QED
    BY <1>0, <1>1, <2>1, GoToTyped DEF TypeOK, StopLock
<1>2. CASE StopSet(t)
  <2> DEFINE label == IF saw[t] = "RUN" THEN "s_join" ELSE "s_return"
  <2>1. GoTo(t, label)
    BY <1>2 DEF StopSet
  <2> QED
    BY <1>0, <1>2, <2>1, GoToTyped DEF TypeOK, StopSet
<1>3. CASE StopJoin(t)
  <2>1. GoTo(t, "s_wait")
    BY <1>3 DEF StopJoin
  <2> QED
    BY <1>0, <1>3, <2>1, GoToTyped DEF TypeOK, StopJoin
<1>4. CASE StopWait(t)
  <2>1. joins[t] \in Workers
    BY <1>4 DEF StopWait, TypeOK
  <2> QED
    BY <1>0, <1>4, <2>1, GoTo2Typed DEF TypeOK, StopWait
<1>5. CASE StopWaitAgain(t)
  <2>1. CASE GoTo(t, "s_return") /\ obj' = obj
    BY <1>0, <1>5, <2>1, GoToTyped DEF TypeOK, StopWaitAgain
  <2>2. CASE obj' = "crashed" /\ pc' = pc
    BY <1>5, <2>2 DEF TypeOK, StopWaitAgain
  <2> QED
    BY <1>5, <2>1, <2>2 DEF StopWaitAgain
<1>6. CASE StopReturn(t)
  <2> DEFINE label == IF t \in Users THEN "idle" ELSE "w_unlock"
  <2>1. GoTo(t, label)
    BY <1>6 DEF StopReturn
  <2> QED
    BY <1>0, <1>6, <2>1, GoToTyped DEF TypeOK, StopReturn
<1> QED
  BY <1>1, <1>2, <1>3, <1>4, <1>5, <1>6 DEF StopStep

\* Every call a user makes, and every step of one, keeps the type.
LEMMA UserType ==
    ASSUME TypeOK, NEW u \in Users, UserCall(u) \/ UserStep(u)
    PROVE  TypeOK'
<1> USE DEF lifeVars, controlVars, mutexVars, callVars, itemVars
<1>0. /\ {"idle", "b_lock", "b_create", "b_run", "y_lock", "r_read", "s_lock"}
            \subseteq UserPcs
      /\ "w_init" \in WorkerPcs
  BY DEF UserPcs, WorkerPcs, AlivePcs, StopPcs
<1>t. u \in Threads /\ u \notin Workers
  BY DEF Threads
<1>1. CASE StartCall(u)
  <2> DEFINE label == IF state = "INIT" THEN "b_lock" ELSE "idle"
  <2>1. GoTo(u, label)
    BY <1>1 DEF StartCall
  <2> QED
    BY <1>0, <1>t, <1>1, <2>1, GoToTyped DEF TypeOK, StartCall
<1>2. CASE StopCall(u)
  <2>1. GoTo(u, "s_lock")
    BY <1>2 DEF StopCall, StopEnter
  <2> QED
    BY <1>0, <1>t, <1>2, <2>1, GoToTyped DEF TypeOK, StopCall, StopEnter
<1>3. CASE FreeCall(u)
  <2>1. GoTo(u, "s_lock")
    BY <1>3 DEF FreeCall, StopEnter
  <2> QED
    BY <1>0, <1>t, <1>3, <2>1, GoToTyped DEF TypeOK, FreeCall, StopEnter
<1>4. CASE PullCall(u)
  <2>1. GoTo(u, "r_read")
    BY <1>4 DEF PullCall
  <2> QED
    BY <1>0, <1>t, <1>4, <2>1, GoToTyped DEF TypeOK, PullCall
<1>5. CASE SyncCall(u)
  <2>1. GoTo(u, "y_lock")
    BY <1>5 DEF SyncCall
  <2> QED
    BY <1>0, <1>t, <1>5, <2>1, GoToTyped DEF TypeOK, SyncCall
<1>6. CASE StartLock(u)
  <2>1. GoTo(u, "b_create")
    BY <1>6 DEF StartLock
  <2> QED
    BY <1>0, <1>t, <1>6, <2>1, GoToTyped DEF TypeOK, StartLock
<1>7. CASE StartFail(u)
  <2>1. GoTo(u, "idle")
    BY <1>7 DEF StartFail
  <2> QED
    BY <1>0, <1>t, <1>7, <2>1, GoToTyped DEF TypeOK, StartFail
<1>8. CASE StartRun(u)
  <2>1. GoTo(u, "idle")
    BY <1>8 DEF StartRun
  <2> QED
    BY <1>0, <1>t, <1>8, <2>1, GoToTyped DEF TypeOK, StartRun
<1>9. CASE Pull(u)
  <2>1. GoTo(u, "idle")
    BY <1>9 DEF Pull
  <2> QED
    BY <1>0, <1>t, <1>9, <2>1, GoToTyped DEF TypeOK, Pull
<1>10. CASE PullFail(u)
  <2>1. GoTo(u, "idle")
    BY <1>10 DEF PullFail
  <2> QED
    BY <1>0, <1>t, <1>10, <2>1, GoToTyped DEF TypeOK, PullFail
<1>11. CASE SyncLock(u)
  <2>1. GoTo(u, "idle")
    BY <1>11 DEF SyncLock
  <2> QED
    BY <1>0, <1>t, <1>11, <2>1, GoToTyped DEF TypeOK, SyncLock
<1>12. CASE SyncExit(u)
  BY <1>12 DEF TypeOK, SyncExit
<1>13. ASSUME NEW w \in Workers, StartCreate(u, w)
       PROVE  TypeOK'
  BY <1>0, <1>t, <1>13, GoTo2Typed DEF TypeOK, StartCreate
<1>14. CASE StopStep(u)
  BY <1>t, <1>14, StopStepType
<1> QED
  BY <1>1, <1>2, <1>3, <1>4, <1>5, <1>6, <1>7, <1>8, <1>9, <1>10, <1>11,
     <1>12, <1>13, <1>14 DEF UserCall, UserStep

\* Every step of a worker keeps the type.
LEMMA WorkerType ==
    ASSUME TypeOK, NEW w \in Workers, WorkerStep(w)
    PROVE  TypeOK'
<1> USE DEF lifeVars, controlVars, mutexVars, callVars, itemVars
<1>0. {"ended", "w_test", "w_poll", "w_lock", "w_check", "w_slock", "w_provide",
       "w_write", "w_unlock", "s_lock"} \subseteq WorkerPcs
  BY DEF WorkerPcs, AlivePcs, StopPcs
<1>t. w \in Threads /\ w \notin Users
  BY DEF Threads
<1>1. CASE WorkerInit(w)
  <2>1. GoTo(w, "w_test")
    BY <1>1 DEF WorkerInit
  <2> QED
    BY <1>0, <1>t, <1>1, <2>1, GoToTyped DEF TypeOK, WorkerInit
<1>2. CASE WorkerTest(w)
  <2> DEFINE label == IF state = "RUN" THEN "w_poll" ELSE "ended"
  <2>1. GoTo(w, label)
    BY <1>2 DEF WorkerTest
  <2> QED
    BY <1>0, <1>t, <1>2, <2>1, GoToTyped DEF TypeOK, WorkerTest
<1>3. CASE WorkerLock(w)
  <2>1. GoTo(w, "w_check")
    BY <1>3 DEF WorkerLock
  <2> QED
    BY <1>0, <1>t, <1>3, <2>1, GoToTyped DEF TypeOK, WorkerLock
<1>4. CASE WorkerCheck(w)
  <2> DEFINE label == IF state = "RUN" THEN "w_slock" ELSE "w_unlock"
  <2>1. GoTo(w, label)
    BY <1>4 DEF WorkerCheck
  <2> QED
    BY <1>0, <1>t, <1>4, <2>1, GoToTyped DEF TypeOK, WorkerCheck
<1>5. CASE WorkerSlock(w)
  <2>1. GoTo(w, "w_provide")
    BY <1>5 DEF WorkerSlock
  <2> QED
    BY <1>0, <1>t, <1>5, <2>1, GoToTyped DEF TypeOK, WorkerSlock
<1>6. CASE WorkerWrite(w)
  <2>1. GoTo(w, "w_unlock")
    BY <1>6 DEF WorkerWrite
  <2> QED
    BY <1>0, <1>t, <1>6, <2>1, GoToTyped DEF TypeOK, WorkerWrite
<1>7. CASE WorkerWriteFail(w)
  <2>1. GoTo(w, "s_lock")
    BY <1>7 DEF WorkerWriteFail, StopEnter
  <2> QED
    BY <1>0, <1>t, <1>7, <2>1, GoToTyped DEF TypeOK, WorkerWriteFail, StopEnter
<1>8. CASE WorkerUnlock(w)
  <2>1. GoTo(w, "w_test")
    BY <1>8 DEF WorkerUnlock
  <2> QED
    BY <1>0, <1>t, <1>8, <2>1, GoToTyped DEF TypeOK, WorkerUnlock
<1>9. CASE WorkerPoll(w)
  <2>1. GoTo(w, "w_lock") \/ GoTo(w, "w_test")
    BY <1>9 DEF WorkerPoll
  <2> QED
    BY <1>0, <1>t, <1>9, <2>1, GoToTyped DEF TypeOK, WorkerPoll
<1>10. CASE WorkerProvide(w)
  <2>1. GoTo(w, "w_write") \/ GoTo(w, "w_unlock")
    BY <1>10 DEF WorkerProvide
  <2> QED
    BY <1>0, <1>t, <1>10, <2>1, GoToTyped DEF TypeOK, WorkerProvide
<1>11. CASE WorkerDangles(w)
  BY <1>11 DEF TypeOK, WorkerDangles
<1>12. CASE StopStep(w)
  BY <1>t, <1>12, StopStepType
<1> QED
  BY <1>1, <1>2, <1>3, <1>4, <1>5, <1>6, <1>7, <1>8, <1>9, <1>10, <1>11,
     <1>12 DEF WorkerStep

\* TypeOK is inductive.
LEMMA NextTypeOK == TypeOK /\ [Next]_vars => TypeOK'
<1> SUFFICES ASSUME TypeOK, [Next]_vars
             PROVE  TypeOK'
  OBVIOUS
<1>1. CASE New
  BY <1>1 DEF New, TypeOK, controlVars, mutexVars, callVars, itemVars
<1>2. CASE Terminated \/ UNCHANGED vars
  BY <1>2 DEF Terminated, TypeOK, vars, lifeVars, controlVars, mutexVars,
              callVars, itemVars
<1> QED
  BY <1>1, <1>2, UserType, WorkerType DEF Next

\* Every reachable state has its type: in particular this->thread is a thread
\* that pthread_create made, and a thread is only ever at a statement of the
\* functions it runs.
THEOREM TypeCorrect == Spec => []TypeOK
  BY InitTypeOK, NextTypeOK, PTL DEF Spec

------------------------------------------------------------------------------
(* Mutual exclusion                                                          *)

\* A step of stop keeps the mutexes owned.  Only a user gets past s_lock.
LEMMA StopStepMutex ==
    ASSUME TypeOK, MutexInv, NEW t \in Threads, StopStep(t)
    PROVE  MutexInv'
<1> USE DEF lifeVars, controlVars, mutexVars, callVars, itemVars, At, GoTo,
            Threads, HoldsLock, TypeOK, MutexInv, LockOwned, SlockOwned,
            WorkerNeverStops, RunsUnderLock, PayloadSet
<1>1. CASE StopLock(t)
  BY <1>1 DEF StopLock
<1>2. CASE StopSet(t)
  BY <1>2 DEF StopSet
<1>3. CASE StopJoin(t)
  BY <1>3 DEF StopJoin
<1>4. CASE StopWait(t)
  BY <1>4 DEF StopWait
<1>5. CASE StopWaitAgain(t)
  BY <1>5 DEF StopWaitAgain
<1>6. CASE StopReturn(t)
  BY <1>6 DEF StopReturn
<1> QED
  BY <1>1, <1>2, <1>3, <1>4, <1>5, <1>6 DEF StopStep

\* So do the users' calls and their steps.
LEMMA UserMutex ==
    ASSUME TypeOK, MutexInv, NEW u \in Users, UserCall(u) \/ UserStep(u)
    PROVE  MutexInv'
<1> USE DEF lifeVars, controlVars, mutexVars, callVars, itemVars, At, GoTo,
            Threads, HoldsLock, TypeOK, MutexInv, LockOwned, SlockOwned,
            WorkerNeverStops, RunsUnderLock, PayloadSet
<1>1. CASE StartCall(u)
  BY <1>1 DEF StartCall, MayCall
<1>2. CASE StopCall(u)
  BY <1>2 DEF StopCall, MayCall, StopEnter
<1>3. CASE FreeCall(u)
  BY <1>3 DEF FreeCall, MayCall, StopEnter
<1>4. CASE PullCall(u)
  BY <1>4 DEF PullCall, MayCall
<1>5. CASE SyncCall(u)
  BY <1>5 DEF SyncCall, MayCall
<1>6. CASE StartLock(u)
  BY <1>6 DEF StartLock
<1>7. CASE StartFail(u)
  BY <1>7 DEF StartFail
<1>8. CASE StartRun(u)
  BY <1>8 DEF StartRun
<1>9. CASE Pull(u)
  BY <1>9 DEF Pull
<1>10. CASE PullFail(u)
  BY <1>10 DEF PullFail
<1>11. CASE SyncLock(u)
  BY <1>11 DEF SyncLock
<1>12. CASE SyncExit(u)
  BY <1>12 DEF SyncExit
<1>13. ASSUME NEW w \in Workers, StartCreate(u, w)
       PROVE  MutexInv'
  BY <1>13 DEF StartCreate
<1>14. CASE StopStep(u)
  BY <1>14, StopStepMutex
<1> QED
  BY <1>1, <1>2, <1>3, <1>4, <1>5, <1>6, <1>7, <1>8, <1>9, <1>10, <1>11,
     <1>12, <1>13, <1>14 DEF UserCall, UserStep

\* And the workers' steps.
LEMMA WorkerMutex ==
    ASSUME TypeOK, MutexInv, NEW w \in Workers, WorkerStep(w)
    PROVE  MutexInv'
<1> USE DEF lifeVars, controlVars, mutexVars, callVars, itemVars, At, GoTo,
            Threads, HoldsLock, TypeOK, MutexInv, LockOwned, SlockOwned,
            WorkerNeverStops, RunsUnderLock, PayloadSet
<1>1. CASE WorkerInit(w)
  BY <1>1 DEF WorkerInit
<1>2. CASE WorkerTest(w)
  BY <1>2 DEF WorkerTest
<1>3. CASE WorkerPoll(w)
  BY <1>3 DEF WorkerPoll
<1>4. CASE WorkerLock(w)
  BY <1>4 DEF WorkerLock
<1>5. CASE WorkerCheck(w)
  BY <1>5 DEF WorkerCheck
<1>6. CASE WorkerSlock(w)
  BY <1>6 DEF WorkerSlock
<1>7. CASE WorkerProvide(w)
  <2>1. \/ pc' = [pc EXCEPT ![w] = "w_write"]
        \/ pc' = [pc EXCEPT ![w] = "w_unlock"]
    BY <1>7 DEF WorkerProvide
  <2>2. /\ pc[w] = "w_provide" /\ lock' = lock /\ slock' = NULL
        /\ insync' = insync /\ state' = state /\ data' = data
    BY <1>7 DEF WorkerProvide
  <2> QED
    BY <2>1, <2>2
<1>8. CASE WorkerWrite(w)
  BY <1>8 DEF WorkerWrite
<1>9. CASE WorkerWriteFail(w)
  BY <1>9 DEF WorkerWriteFail, StopEnter
<1>10. CASE WorkerUnlock(w)
  BY <1>10 DEF WorkerUnlock
<1>11. CASE WorkerDangles(w)
  BY <1>11 DEF WorkerDangles
<1>12. CASE StopStep(w)
  BY <1>12, StopStepMutex
<1> QED
  BY <1>1, <1>2, <1>3, <1>4, <1>5, <1>6, <1>7, <1>8, <1>9, <1>10, <1>11,
     <1>12 DEF WorkerStep

\* MutexInv is inductive relative to TypeOK.
LEMMA NextMutex == TypeOK /\ MutexInv /\ [Next]_vars => MutexInv'
<1> SUFFICES ASSUME TypeOK, MutexInv, [Next]_vars
             PROVE  MutexInv'
  OBVIOUS
<1>1. CASE New \/ Terminated \/ UNCHANGED vars
  BY <1>1 DEF New, Terminated, vars, lifeVars, controlVars, mutexVars,
              callVars, itemVars, MutexInv, LockOwned, SlockOwned, HoldsLock,
              WorkerNeverStops, RunsUnderLock, PayloadSet
<1> QED
  BY <1>1, UserMutex, WorkerMutex DEF Next

\* Every reachable state keeps the mutexes owned.
LEMMA MutexCorrect == Spec => []MutexInv
<1>1. Init => MutexInv
  BY DEF Init, MutexInv, LockOwned, SlockOwned, HoldsLock, WorkerNeverStops,
         RunsUnderLock, PayloadSet, Threads
<1> QED
  BY <1>1, TypeCorrect, NextMutex, PTL DEF Spec

\* The provider runs in a critical section: never at the same time as a
\* synchronized function, nor as another call of the provider, however many
\* threads start, stop and synchronize.
THEOREM Exclusion == Spec => []ProviderExclusion
<1>1. TypeOK /\ MutexInv => ProviderExclusion
  BY DEF MutexInv, SlockOwned, ProviderExclusion, TypeOK
<1> QED
  BY <1>1, TypeCorrect, MutexCorrect, PTL

\* The provider is never called with the NULL payload of a stopped queue.
THEOREM PayloadGivenAlways == Spec => []PayloadGiven
<1>1. MutexInv => PayloadGiven
  BY DEF MutexInv, RunsUnderLock, PayloadSet, PayloadGiven
<1> QED
  BY <1>1, MutexCorrect, PTL

------------------------------------------------------------------------------
(* One thread starts, stops and frees the queue, while any number of threads *)
(* pull and synchronize.                                                     *)

\* The controller's steps of stop keep SoloInv; the workers have none.
LEMMA StopStepSolo ==
    ASSUME SingleController, TypeOK, MutexInv, SoloInv,
           NEW t \in Threads, StopStep(t)
    PROVE  SoloInv'
<1> USE DEF lifeVars, controlVars, mutexVars, callVars, itemVars, At, GoTo,
            Threads, TypeOK, MutexInv, LockOwned, HoldsLock, WorkerNeverStops,
            StopPcs, UserPcs, WorkerPcs, AlivePcs, SingleController, SoloInv,
            ControllerOnly, StartFresh, StopFresh, OneWorker,
            WorkerFollowsState, JoinFresh, RoomKept
<1>1. CASE StopLock(t)
  BY <1>1 DEF StopLock
<1>2. CASE StopSet(t)
  BY <1>2 DEF StopSet
<1>3. CASE StopJoin(t)
  BY <1>3 DEF StopJoin
<1>4. CASE StopWait(t)
  BY <1>4 DEF StopWait
<1>5. CASE StopWaitAgain(t)
  BY <1>5 DEF StopWaitAgain
<1>6. CASE StopReturn(t)
  BY <1>6 DEF StopReturn
<1> QED
  BY <1>1, <1>2, <1>3, <1>4, <1>5, <1>6 DEF StopStep

\* The users' calls and steps keep SoloInv.
LEMMA UserSolo ==
    ASSUME SingleController, TypeOK, MutexInv, SoloInv,
           NEW u \in Users, UserCall(u) \/ UserStep(u)
    PROVE  SoloInv'
<1> USE DEF lifeVars, controlVars, mutexVars, callVars, itemVars, At, GoTo,
            Threads, TypeOK, MutexInv, LockOwned, HoldsLock, WorkerNeverStops,
            StopPcs, UserPcs, WorkerPcs, AlivePcs, SingleController, SoloInv,
            ControllerOnly, StartFresh, StopFresh, OneWorker,
            WorkerFollowsState, JoinFresh, RoomKept
<1>1. CASE StartCall(u)
  BY <1>1 DEF StartCall, MayCall
<1>2. CASE StopCall(u)
  BY <1>2 DEF StopCall, MayCall, StopEnter
<1>3. CASE FreeCall(u)
  BY <1>3 DEF FreeCall, MayCall, StopEnter
<1>4. CASE PullCall(u)
  BY <1>4 DEF PullCall, MayCall
<1>5. CASE SyncCall(u)
  BY <1>5 DEF SyncCall, MayCall
<1>6. CASE StartLock(u)
  BY <1>6 DEF StartLock
<1>7. CASE StartFail(u)
  BY <1>7 DEF StartFail
<1>8. CASE StartRun(u)
  BY <1>8 DEF StartRun
<1>9. CASE Pull(u)
  <2>1. Len(pipe') <= Len(pipe) /\ Len(pipe') \in Nat /\ Len(pipe) \in Nat
    <3>1. pipe \in Seq(Nat) /\ pipe # <<>> /\ pipe' = Tail(pipe)
      BY <1>9 DEF Pull
    <3> QED
      BY <3>1
  <2>2. RoomKept'
    BY <1>9, <2>1 DEF Pull
  <2>3. /\ UNCHANGED <<state, thread, saw, joins>>
        /\ pc[u] = "r_read" /\ pc' = [pc EXCEPT ![u] = "idle"]
    BY <1>9 DEF Pull
  <2> QED
    BY <2>2, <2>3
<1>10. CASE PullFail(u)
  BY <1>10 DEF PullFail
<1>11. CASE SyncLock(u)
  BY <1>11 DEF SyncLock
<1>12. CASE SyncExit(u)
  BY <1>12 DEF SyncExit
<1>13. ASSUME NEW w \in Workers, StartCreate(u, w)
       PROVE  SoloInv'
  <2>1. /\ UNCHANGED <<state, saw, joins, pipe>>
        /\ pc[u] = "b_create" /\ pc[w] = "none" /\ thread' = w
        /\ pc' = [pc EXCEPT ![u] = "b_run", ![w] = "w_init"]
    BY <1>13 DEF StartCreate
  <2>2. /\ state = "INIT" /\ u \in Controllers /\ u # w
        /\ \A v \in Workers : pc[v] = "none"
        /\ \A v \in Users \ {u} :
              pc[v] \notin {"b_lock", "b_create", "b_run"} \cup StopPcs
    BY <2>1
  <2>3. /\ pc'[u] = "b_run" /\ pc'[w] = "w_init"
        /\ \A t \in Threads \ {u, w} : pc'[t] = pc[t]
    BY <2>1, <2>2
  <2>4. w \in Workers /\ w # NULL /\ u \in Users /\ w \notin Users
    OBVIOUS
  <2> HIDE DEF TypeOK, MutexInv, SoloInv, LockOwned, HoldsLock, WorkerNeverStops,
               UserPcs, WorkerPcs, ControllerOnly, StartFresh, StopFresh, OneWorker,
               WorkerFollowsState, JoinFresh, RoomKept
  <2>5. \A v \in Users \ {u} :
           pc'[v] = pc[v] /\ pc'[v] \notin {"b_lock", "b_create", "b_run"} \cup StopPcs
    BY <2>2, <2>3, <2>4
  <2>6. \A v \in Workers \ {w} : pc'[v] = "none"
    BY <2>2, <2>3, <2>4
  <2>7. ControllerOnly'
    BY <2>2, <2>5 DEF ControllerOnly
  <2>8. StartFresh'
    BY <2>1, <2>2, <2>3, <2>4, <2>5 DEF StartFresh
  <2>9. StopFresh'
    BY <2>3, <2>5 DEF StopFresh
  <2>10. OneWorker'
    BY <2>1, <2>6 DEF OneWorker
  <2>11. WorkerFollowsState'
    BY <2>1, <2>2, <2>3, <2>4, <2>6 DEF WorkerFollowsState
  <2>12. JoinFresh'
    BY <2>3, <2>5 DEF JoinFresh
  <2>13. RoomKept'
    BY <2>3, <2>6 DEF RoomKept
  <2> QED
    BY <2>7, <2>8, <2>9, <2>10, <2>11, <2>12, <2>13 DEF SoloInv
<1>14. CASE StopStep(u)
  BY <1>14, StopStepSolo
<1> QED
  BY <1>1, <1>2, <1>3, <1>4, <1>5, <1>6, <1>7, <1>8, <1>9, <1>10, <1>11,
     <1>12, <1>13, <1>14 DEF UserCall, UserStep

\* The worker's steps keep SoloInv.
LEMMA WorkerSolo ==
    ASSUME SingleController, TypeOK, MutexInv, SoloInv,
           NEW w \in Workers, WorkerStep(w)
    PROVE  SoloInv'
<1> USE DEF lifeVars, controlVars, mutexVars, callVars, itemVars, At, GoTo,
            Threads, TypeOK, MutexInv, LockOwned, HoldsLock, WorkerNeverStops,
            StopPcs, UserPcs, WorkerPcs, AlivePcs, SingleController, SoloInv,
            ControllerOnly, StartFresh, StopFresh, OneWorker,
            WorkerFollowsState, JoinFresh, RoomKept
<1>1. CASE WorkerInit(w)
  BY <1>1 DEF WorkerInit
<1>2. CASE WorkerTest(w)
  BY <1>2 DEF WorkerTest
<1>3. CASE WorkerPoll(w)
  BY <1>3 DEF WorkerPoll
<1>4. CASE WorkerLock(w)
  BY <1>4 DEF WorkerLock
<1>5. CASE WorkerCheck(w)
  BY <1>5 DEF WorkerCheck
<1>6. CASE WorkerSlock(w)
  BY <1>6 DEF WorkerSlock
<1>7. CASE WorkerProvide(w)
  BY <1>7 DEF WorkerProvide
<1>8. CASE WorkerWrite(w)
  BY <1>8 DEF WorkerWrite
<1>9. CASE WorkerWriteFail(w)
  BY <1>9 DEF WorkerWriteFail, StopEnter
<1>10. CASE WorkerUnlock(w)
  BY <1>10 DEF WorkerUnlock
<1>11. CASE WorkerDangles(w)
  BY <1>11 DEF WorkerDangles
<1>12. CASE StopStep(w)
  BY <1>12, StopStepSolo
<1> QED
  BY <1>1, <1>2, <1>3, <1>4, <1>5, <1>6, <1>7, <1>8, <1>9, <1>10, <1>11,
     <1>12 DEF WorkerStep

\* SoloInv is inductive relative to TypeOK and MutexInv.
LEMMA NextSolo ==
    ASSUME SingleController, TypeOK, MutexInv, SoloInv, [Next]_vars
    PROVE  SoloInv'
<1>1. CASE New \/ Terminated \/ UNCHANGED vars
  BY <1>1 DEF New, Terminated, vars, lifeVars, controlVars, mutexVars,
              callVars, itemVars, SoloInv, ControllerOnly, StartFresh,
              StopFresh, OneWorker, WorkerFollowsState, JoinFresh, RoomKept
<1> QED
  BY <1>1, UserSolo, WorkerSolo DEF Next

\* Every reachable state of a queue with one controller satisfies SoloInv.
LEMMA SoloCorrect ==
    ASSUME SingleController
    PROVE  Spec => []SoloInv
<1>1. Init => SoloInv
  <2> SUFFICES ASSUME Init
               PROVE  SoloInv
    OBVIOUS
  <2>1. /\ \A u \in Users : pc[u] = "idle"
        /\ \A w \in Workers : pc[w] = "none"
        /\ state = "INIT"
    BY DEF Init, Threads
  <2> QED
    BY <2>1 DEF SoloInv, ControllerOnly, StartFresh, StopFresh, OneWorker,
                WorkerFollowsState, JoinFresh, RoomKept, StopPcs
<1>2. TypeOK /\ MutexInv /\ SoloInv /\ [Next]_vars => SoloInv'
  BY NextSolo
<1> QED
  BY <1>1, <1>2, TypeCorrect, MutexCorrect, PTL DEF Spec

\* When one thread controls the queue, a stop that has returned leaves no worker
\* behind: the object can be freed.
THEOREM QuietAfterStopSolo ==
    ASSUME SingleController
    PROVE  Spec => []QuietAfterStop
<1>1. SoloInv => QuietAfterStop
  BY DEF SoloInv, WorkerFollowsState, QuietAfterStop, StopPcs, Threads
<1> QED
  BY <1>1, SoloCorrect, PTL

\* When one thread controls the queue, stop joins the worker that start created,
\* once.
THEOREM JoinsOnceSolo ==
    ASSUME SingleController
    PROVE  Spec => []JoinsOnce
<1>1. TypeOK /\ MutexInv /\ SoloInv => JoinsOnce
  BY DEF TypeOK, MutexInv, WorkerNeverStops, SoloInv, ControllerOnly, JoinFresh,
         JoinsOnce, StopPcs, Threads, SingleController
<1> QED
  BY <1>1, SoloCorrect, TypeCorrect, MutexCorrect, PTL

\* When one thread controls the queue, the worker never blocks in write(2) with
\* the lock held, for every capacity of the pipe.
THEOREM WriteNeverBlocksSolo ==
    ASSUME SingleController
    PROVE  Spec => []WriteNeverBlocks
<1>1. SoloInv => WriteNeverBlocks
  BY DEF SoloInv, RoomKept, WriteNeverBlocks
<1> QED
  BY <1>1, SoloCorrect, PTL

------------------------------------------------------------------------------
(* The queue implements DataQueue                                            *)

\* A step that moves no worker into or out of its write and touches no item
\* keeps ItemsInv.
LEMMA ItemsUntouched ==
    ASSUME ItemsInv, UNCHANGED itemVars,
           \A w \in Workers : pc'[w] = "w_write" <=> pc[w] = "w_write"
    PROVE  ItemsInv'
  BY DEF ItemsInv, itemVars

\* The users' steps other than pull are such steps.
LEMMA UserNotWrite ==
    ASSUME TypeOK, MutexInv, NEW u \in Users, UserCall(u) \/ UserStep(u),
           ~Pull(u)
    PROVE  /\ UNCHANGED itemVars
           /\ \A w \in Workers : pc'[w] = "w_write" <=> pc[w] = "w_write"
<1> USE DEF At, GoTo, MayCall, StopEnter, Threads, TypeOK
<1>1. CASE UserCall(u)
  BY <1>1 DEF UserCall, StartCall, StopCall, FreeCall, PullCall, SyncCall
<1>2. CASE StopStep(u)
  BY <1>2 DEF StopStep, StopLock, StopSet, StopJoin, StopWait, StopWaitAgain,
              StopReturn
<1>3. ASSUME NEW v \in Workers, StartCreate(u, v)
      PROVE  /\ UNCHANGED itemVars
             /\ \A w \in Workers : pc'[w] = "w_write" <=> pc[w] = "w_write"
  BY <1>3 DEF StartCreate
<1>4. CASE StartLock(u) \/ StartFail(u) \/ StartRun(u)
  BY <1>4 DEF StartLock, StartFail, StartRun
<1>5. CASE PullFail(u) \/ SyncLock(u) \/ SyncExit(u)
  BY <1>5 DEF PullFail, SyncLock, SyncExit
<1> QED
  BY <1>1, <1>2, <1>3, <1>4, <1>5 DEF UserStep

\* So are the worker's, but for the provider's return and the write.
LEMMA WorkerNotWrite ==
    ASSUME TypeOK, MutexInv, NEW w \in Workers, WorkerStep(w),
           "write" \notin Faults, ~WorkerProvide(w), ~WorkerWrite(w)
    PROVE  /\ UNCHANGED itemVars
           /\ \A v \in Workers : pc'[v] = "w_write" <=> pc[v] = "w_write"
<1> USE DEF At, GoTo, Threads, TypeOK
<1>1. CASE WorkerInit(w) \/ WorkerTest(w) \/ WorkerPoll(w)
  BY <1>1 DEF WorkerInit, WorkerTest, WorkerPoll
<1>2. CASE WorkerLock(w) \/ WorkerCheck(w) \/ WorkerSlock(w)
  BY <1>2 DEF WorkerLock, WorkerCheck, WorkerSlock
<1>3. CASE WorkerUnlock(w) \/ WorkerDangles(w)
  BY <1>3 DEF WorkerUnlock, WorkerDangles
<1>4. CASE StopStep(w)
  BY <1>4 DEF StopStep, StopLock, StopSet, StopJoin, StopWait, StopWaitAgain,
              StopReturn, MutexInv, WorkerNeverStops
<1>5. CASE WorkerWriteFail(w)
  BY <1>5 DEF WorkerWriteFail
<1> QED
  BY <1>1, <1>2, <1>3, <1>4, <1>5 DEF WorkerStep

\* Pulling the head of the pipe keeps ItemsInv.
LEMMA PullItems ==
    ASSUME TypeOK, ItemsInv, NEW u \in Users, Pull(u)
    PROVE  ItemsInv'
<1>1. /\ pipe \in Seq(Nat) /\ pipe # <<>> /\ pulled \in Nat
      /\ pipe' = Tail(pipe) /\ pulled' = Head(pipe)
      /\ item' = item /\ provided' = provided
    BY DEF TypeOK, Pull
<1>2. /\ Len(pipe) \in Nat \ {0}
      /\ Len(pipe') = Len(pipe) - 1
      /\ \A i \in 1 .. Len(pipe') : pipe'[i] = pipe[i + 1]
      /\ Head(pipe) = pipe[1]
    BY <1>1
<1>3. \A w \in Workers : pc'[w] = "w_write" <=> pc[w] = "w_write"
    BY DEF Pull, At, GoTo, TypeOK, Threads
<1>4. pulled' = pulled + 1
    BY <1>1, <1>2 DEF ItemsInv
<1>5. \A i \in 1 .. Len(pipe') : pipe'[i] = pulled' + i
    BY <1>1, <1>2, <1>4 DEF ItemsInv
<1> DEFINE writing == IF \E w \in Workers : pc[w] = "w_write" THEN 1 ELSE 0
<1>6. writing' = writing /\ writing \in Nat
    BY <1>3
<1>7. provided = pulled + Len(pipe) + writing
    BY DEF ItemsInv
<1>8. provided' = pulled' + Len(pipe') + writing'
  <2> HIDE DEF writing
  <2> QED
    BY <1>1, <1>2, <1>4, <1>6, <1>7
<1> QED
    BY <1>1, <1>3, <1>5, <1>8 DEF ItemsInv

\* The provider's result is the next item: its worker is about to write it.
LEMMA ProvideItems ==
    ASSUME TypeOK, MutexInv, ItemsInv, NEW w \in Workers, WorkerProvide(w)
    PROVE  ItemsInv'
<1>1. \A v \in Workers : pc[v] # "w_write"
  BY DEF WorkerProvide, At, MutexInv, LockOwned, HoldsLock, Threads
<1>2. provided = pulled + Len(pipe) /\ Len(pipe) \in Nat
  BY <1>1 DEF ItemsInv, TypeOK
<1>3. pipe' = pipe /\ pulled' = pulled
  BY DEF WorkerProvide
<1>4. CASE /\ provided' = provided + 1
           /\ item' = [item EXCEPT ![w] = provided']
           /\ GoTo(w, "w_write")
  <2>1. pc'[w] = "w_write" /\ \A v \in Workers \ {w} : pc'[v] # "w_write"
    BY <1>1, <1>4 DEF GoTo, TypeOK, Threads
  <2>2. item'[w] = provided'
    BY <1>4 DEF TypeOK
  <2>3. provided' = pulled' + Len(pipe') + 1
    BY <1>2, <1>3, <1>4 DEF TypeOK
  <2> QED
    BY <1>3, <2>1, <2>2, <2>3 DEF ItemsInv
<1>5. CASE provided' = provided /\ GoTo(w, "w_unlock")
  <2>1. \A v \in Workers : pc'[v] # "w_write"
    BY <1>1, <1>5 DEF GoTo, TypeOK, Threads
  <2>2. provided' = pulled' + Len(pipe') + 0
    BY <1>2, <1>3, <1>5 DEF TypeOK
  <2> QED
    BY <1>3, <2>1, <2>2 DEF ItemsInv
<1> QED
  BY <1>4, <1>5 DEF WorkerProvide

\* The item that is written is the one after those in the pipe.
LEMMA WriteItems ==
    ASSUME TypeOK, MutexInv, ItemsInv, NEW w \in Workers, WorkerWrite(w)
    PROVE  /\ ItemsInv'
           /\ item[w] = pulled + Len(pipe) + 1
<1>1. /\ pc[w] = "w_write" /\ pipe' = Append(pipe, item[w])
      /\ item' = item /\ pulled' = pulled /\ provided' = provided
      /\ GoTo(w, "w_unlock")
  BY DEF WorkerWrite, At
<1>2. \A v \in Workers \ {w} : pc[v] # "w_write"
  BY <1>1 DEF MutexInv, LockOwned, HoldsLock, Threads
<1>3. /\ item[w] = provided
      /\ provided = pulled + Len(pipe) + 1
  BY <1>1 DEF ItemsInv
<1>4. \A v \in Workers : pc'[v] # "w_write"
  BY <1>1, <1>2 DEF GoTo, TypeOK, Threads
<1>5. /\ pipe \in Seq(Nat) /\ item[w] \in Nat /\ Len(pipe) \in Nat
      /\ pulled \in Nat
  BY DEF TypeOK
<1>6. /\ Len(pipe') = Len(pipe) + 1
      /\ \A i \in 1 .. Len(pipe) : pipe'[i] = pipe[i]
      /\ pipe'[Len(pipe) + 1] = item[w]
  BY <1>1, <1>5
<1>7. ASSUME NEW i \in 1 .. Len(pipe')
      PROVE  pipe'[i] = pulled' + i
  <2>1. CASE i \in 1 .. Len(pipe)
    BY <1>1, <1>6, <2>1 DEF ItemsInv
  <2>2. CASE i = Len(pipe) + 1
    BY <1>1, <1>3, <1>5, <1>6, <2>2
  <2> QED
    BY <1>5, <1>6, <2>1, <2>2
<1>8. provided' = pulled' + Len(pipe') + 0
  BY <1>1, <1>3, <1>5, <1>6
<1> QED
  BY <1>3, <1>4, <1>7, <1>8 DEF ItemsInv

\* ItemsInv is inductive as long as no write fails.
LEMMA NextItems ==
    ASSUME "write" \notin Faults, TypeOK, MutexInv, ItemsInv, [Next]_vars
    PROVE  ItemsInv'
<1>1. CASE New \/ Terminated \/ UNCHANGED vars
  BY <1>1, ItemsUntouched DEF New, Terminated, vars, lifeVars, itemVars
<1>2. ASSUME NEW u \in Users, UserCall(u) \/ UserStep(u)
      PROVE  ItemsInv'
  BY <1>2, PullItems, UserNotWrite, ItemsUntouched
<1>3. ASSUME NEW w \in Workers, WorkerStep(w)
      PROVE  ItemsInv'
  BY <1>3, ProvideItems, WriteItems, WorkerNotWrite, ItemsUntouched
<1> QED
  BY <1>1, <1>2, <1>3 DEF Next

\* The pipe holds the items after the last one pulled, in every reachable state.
LEMMA ItemsCorrect ==
    ASSUME "write" \notin Faults
    PROVE  Spec => []ItemsInv
<1>1. Init => ItemsInv
  <2> SUFFICES ASSUME Init
               PROVE  ItemsInv
    OBVIOUS
  <2>1. /\ \A w \in Workers : pc[w] = "none"
        /\ pipe = <<>> /\ pulled = 0 /\ provided = 0
    BY DEF Init, Threads
  <2> QED
    BY <2>1 DEF ItemsInv
<1>2. TypeOK /\ MutexInv /\ ItemsInv /\ [Next]_vars => ItemsInv'
  BY NextItems
<1> QED
  BY <1>1, <1>2, TypeCorrect, MutexCorrect, PTL DEF Spec

\* Every step of the queue is a step of DataQueue, or changes nothing in it.
LEMMA StepRefines ==
    ASSUME SingleController, "write" \notin Faults,
           TypeOK, MutexInv, SoloInv, ItemsInv, [Next]_vars
    PROVE  [Abstract!Next]_(Abstract!vars)
<1> USE DEF Abstract!vars, Abstract!Next
<1>1. CASE New \/ Terminated \/ UNCHANGED vars
  BY <1>1 DEF New, Terminated, vars, lifeVars, controlVars, itemVars
<1>2. ASSUME NEW t \in Threads, StopStep(t)
      PROVE  [Abstract!Next]_(Abstract!vars)
  <2>1. CASE StopSet(t)
    BY <2>1 DEF StopSet, Abstract!Stop, itemVars
  <2> QED
    BY <1>2, <2>1 DEF StopStep, StopLock, StopJoin, StopWait, StopWaitAgain,
                      StopReturn, controlVars, itemVars
<1>3. ASSUME NEW u \in Users, UserCall(u) \/ UserStep(u)
      PROVE  [Abstract!Next]_(Abstract!vars)
  <2>1. CASE StartRun(u)
    BY <2>1 DEF StartRun, At, SoloInv, StartFresh, Abstract!Start, itemVars
  <2>2. CASE Pull(u)
    BY <2>2 DEF Pull, Abstract!Take, controlVars
  <2>3. CASE StopStep(u)
    BY <1>2, <2>3 DEF Threads
  <2>4. CASE UserCall(u)
    BY <2>4 DEF UserCall, StartCall, StopCall, FreeCall, PullCall, SyncCall,
                controlVars, itemVars
  <2>5. CASE \E w \in Workers : StartCreate(u, w)
    BY <2>5 DEF StartCreate, itemVars
  <2>6. CASE StartLock(u) \/ StartFail(u) \/ PullFail(u) \/ SyncLock(u)
             \/ SyncExit(u)
    BY <2>6 DEF StartLock, StartFail, PullFail, SyncLock, SyncExit,
                controlVars, itemVars
  <2> QED
    BY <1>3, <2>1, <2>2, <2>3, <2>4, <2>5, <2>6 DEF UserStep
<1>4. ASSUME NEW w \in Workers, WorkerStep(w)
      PROVE  [Abstract!Next]_(Abstract!vars)
  <2>1. CASE WorkerWrite(w)
    <3>1. item[w] = pulled + Len(pipe) + 1 /\ state = "RUN"
      BY <2>1, WriteItems DEF WorkerWrite, At, MutexInv, RunsUnderLock
    <3> QED
      BY <2>1, <3>1 DEF WorkerWrite, Abstract!Provide, controlVars
  <2>2. CASE StopStep(w)
    BY <1>2, <2>2 DEF Threads
  <2>3. CASE WorkerInit(w) \/ WorkerTest(w) \/ WorkerPoll(w) \/ WorkerLock(w)
             \/ WorkerCheck(w) \/ WorkerSlock(w)
    BY <2>3 DEF WorkerInit, WorkerTest, WorkerPoll, WorkerLock, WorkerCheck,
                WorkerSlock, controlVars, itemVars
  <2>4. CASE WorkerProvide(w) \/ WorkerWriteFail(w) \/ WorkerUnlock(w)
             \/ WorkerDangles(w)
    BY <2>4 DEF WorkerProvide, WorkerWriteFail, WorkerUnlock, WorkerDangles,
                controlVars, itemVars
  <2> QED
    BY <1>4, <2>1, <2>2, <2>3, <2>4 DEF WorkerStep
<1> QED
  BY <1>1, <1>3, <1>4 DEF Next

\* When one thread controls the queue and no write fails, the threads, mutexes
\* and pipe implement DataQueue: no item is lost, repeated, reordered or queued
\* after the stop, for every capacity and every number of pulling threads.
THEOREM QueueImplementsDataQueue ==
    ASSUME SingleController, "write" \notin Faults
    PROVE  Spec => ImplementsDataQueue
<1>1. Init => Abstract!Init
  BY DEF Init, Abstract!Init
<1>2. TypeOK /\ MutexInv /\ SoloInv /\ ItemsInv /\ [Next]_vars
        => [Abstract!Next]_(Abstract!vars)
  BY StepRefines
<1> QED
  BY <1>1, <1>2, TypeCorrect, MutexCorrect, SoloCorrect, ItemsCorrect, PTL
     DEF Spec, ImplementsDataQueue, Abstract!Spec
==============================================================================
