----------------------------- MODULE EventQueue ------------------------------
(***************************************************************************)
(* The event queue of src/src/cad_event_queue_pthread.c: a worker thread   *)
(* that calls the user's provider and writes what it returns to a pipe,    *)
(* and the user's threads that start and stop it, pull items off the pipe  *)
(* and run functions in the provider's critical section.                   *)
(*                                                                         *)
(* A thread's pc names the statement it is about to run; each action runs  *)
(* from one shared access (state, a mutex, the pipe, a thread) to the      *)
(* next.  Threads are those of the user (Users) and those pthread_create   *)
(* makes (Workers).                                                        *)
(*                                                                         *)
(* Client contract: free is called when no other user thread is in a call  *)
(* and none calls afterwards; the object is used once it is constructed.   *)
(***************************************************************************)
EXTENDS Naturals, Sequences, FiniteSets

CONSTANTS
    Users,        \* the user's threads
    Controllers,  \* those that call start, stop and free
    Pullers,      \* those that call pull
    Workers,      \* the threads pthread_create can make
    Payloads,     \* what start can be given for the provider
    NULL,
    Capacity,     \* how many items fit in the pipe
    MaxItems,     \* bound: the items the provider makes before it returns NULL
    Faults,       \* the system calls that may fail
    BlindPull,    \* TRUE: the user pulls without asking get_fd's poll first
    SyncControl   \* TRUE: a synchronized function may call start and stop

Threads == Users \cup Workers

ASSUME ThreadsAssumption ==
    /\ Users \cap Workers = {}
    /\ Controllers \subseteq Users
    /\ Pullers \subseteq Users
    /\ NULL \notin Threads \cup Payloads

ASSUME BoundsAssumption ==
    /\ Capacity \in Nat \ {0}
    /\ MaxItems \in Nat
    /\ Faults \subseteq {"malloc", "pipe", "fcntl", "create", "write", "read"}
    /\ BlindPull \in BOOLEAN
    /\ SyncControl \in BOOLEAN

VARIABLES
    obj,       \* the object: none, live, null (not built), freed, crashed
    state,     \* this->state
    data,      \* this->data
    thread,    \* this->thread
    lock,      \* the owner of this->lock, or NULL
    slock,     \* the owner of this->synchronized_lock, or NULL
    pipe,      \* the items in this->pipe
    pc,        \* where each thread is
    saw,       \* the local variable `state` of a thread's call of stop
    joins,     \* the thread that a thread's call of stop waits for
    item,      \* the local variable `data` of a worker: 0 is NULL
    insync,    \* the users whose synchronized function is running
    freeing,   \* the user that is in free, or NULL
    provided,  \* how many items the provider has made
    pulled     \* the last item pulled

lifeVars == <<obj, freeing>>
controlVars == <<state, data, thread>>
mutexVars == <<lock, slock, insync>>
callVars == <<saw, joins>>
itemVars == <<pipe, item, provided, pulled>>
vars == <<lifeVars, controlVars, mutexVars, callVars, itemVars, pc>>

StopPcs == {"s_lock", "s_set", "s_join", "s_wait", "s_return"}
UserPcs == {"idle", "b_lock", "b_create", "b_run", "y_lock", "r_read"}
           \cup StopPcs
\* where a worker that has been created and has not returned can be
AlivePcs == {"w_init", "w_test", "w_poll", "w_lock", "w_check", "w_slock",
             "w_provide", "w_write", "w_unlock"} \cup StopPcs
WorkerPcs == {"none", "ended", "joined"} \cup AlivePcs

\* One type invariant for the whole state.
TypeOK ==
    /\ obj \in {"none", "live", "null", "freed", "crashed"}
    /\ state \in {"INIT", "RUN", "STOP"}
    /\ data \in Payloads \cup {NULL}
    /\ thread \in Workers \cup {NULL}
    /\ lock \in Threads \cup {NULL}
    /\ slock \in Threads \cup {NULL}
    /\ pipe \in Seq(Nat)
    /\ pc \in [Threads -> UserPcs \cup WorkerPcs]
    /\ \A u \in Users : pc[u] \in UserPcs
    /\ \A w \in Workers : pc[w] \in WorkerPcs
    /\ saw \in [Threads -> {"INIT", "RUN", "STOP"}]
    /\ joins \in [Threads -> Workers \cup {NULL}]
    /\ item \in [Workers -> Nat]
    /\ insync \subseteq Users
    /\ freeing \in Users \cup {NULL}
    /\ provided \in Nat
    /\ pulled \in Nat

Init ==
    /\ obj = "none"
    /\ state = "INIT"
    /\ data = NULL
    /\ thread = NULL
    /\ lock = NULL
    /\ slock = NULL
    /\ pipe = <<>>
    /\ pc = [t \in Threads |-> IF t \in Users THEN "idle" ELSE "none"]
    /\ saw = [t \in Threads |-> "INIT"]
    /\ joins = [t \in Threads |-> NULL]
    /\ item = [w \in Workers |-> 0]
    /\ insync = {}
    /\ freeing = NULL
    /\ provided = 0
    /\ pulled = 0

------------------------------------------------------------------------------
(* The constructor.                                                          *)

\* cad_new_event_queue_pthread.  When pipe(2) fails, result is set to NULL
\* and the next statement reads result->pipe[1].
New ==
    /\ obj = "none"
    /\ \/ obj' = "live"
       \/ "malloc" \in Faults /\ obj' = "null"
       \/ "pipe" \in Faults /\ obj' = "crashed"
       \/ "fcntl" \in Faults /\ obj' = "null"
    /\ UNCHANGED <<controlVars, mutexVars, callVars, itemVars, pc, freeing>>

------------------------------------------------------------------------------
(* What every call needs: an object, and a thread that is not in a call.     *)

At(t, label) == obj = "live" /\ pc[t] = label

MayCall(u) ==
    /\ freeing = NULL
    /\ At(u, "idle")

GoTo(t, label) == pc' = [pc EXCEPT ![t] = label]

------------------------------------------------------------------------------
(* start_pthread                                                             *)

\* The state is tested before the lock is taken, and not again under it.
StartCall(u) ==
    /\ MayCall(u)
    /\ u \in Controllers
    /\ u \in insync => SyncControl
    /\ GoTo(u, IF state = "INIT" THEN "b_lock" ELSE "idle")
    /\ UNCHANGED <<lifeVars, controlVars, mutexVars, callVars, itemVars>>

StartLock(u) ==
    /\ At(u, "b_lock")
    /\ lock = NULL
    /\ lock' = u
    /\ GoTo(u, "b_create")
    /\ UNCHANGED <<lifeVars, controlVars, callVars, itemVars, slock, insync>>

\* Mutant: the creator's own id is kept as the thread to join.
StartCreateKeepsSelf(u, w) ==
    /\ At(u, "b_create")
    /\ At(w, "none")
    /\ data' \in Payloads
    /\ thread' = u
    /\ pc' = [pc EXCEPT ![u] = "b_run", ![w] = "w_init"]
    /\ UNCHANGED <<lifeVars, mutexVars, callVars, itemVars, state>>

\* pthread_create works: the new thread runs from here on, the state still
\* being INIT.
StartCreate(u, w) ==
    /\ At(u, "b_create")
    /\ At(w, "none")
    /\ data' \in Payloads
    /\ thread' = w
    /\ pc' = [pc EXCEPT ![u] = "b_run", ![w] = "w_init"]
    /\ UNCHANGED <<lifeVars, mutexVars, callVars, itemVars, state>>

\* pthread_create fails: data is set, the state stays INIT.
StartFail(u) ==
    /\ At(u, "b_create")
    /\ "create" \in Faults
    /\ data' \in Payloads
    /\ lock' = NULL
    /\ GoTo(u, "idle")
    /\ UNCHANGED <<lifeVars, callVars, itemVars, state, thread, slock, insync>>

StartRun(u) ==
    /\ At(u, "b_run")
    /\ state' = "RUN"
    /\ lock' = NULL
    /\ GoTo(u, "idle")
    /\ UNCHANGED <<lifeVars, callVars, itemVars, data, thread, slock, insync>>

------------------------------------------------------------------------------
(* stop_pthread, which free_pthread begins with and the worker calls when    *)
(* write(2) fails.                                                           *)

\* The state that decides on the join is read before the lock is taken.
StopEnter(t) ==
    /\ saw' = [saw EXCEPT ![t] = state]
    /\ GoTo(t, "s_lock")

StopCall(u) ==
    /\ MayCall(u)
    /\ u \in Controllers
    /\ u \in insync => SyncControl
    /\ StopEnter(u)
    /\ UNCHANGED <<lifeVars, controlVars, mutexVars, itemVars, joins>>

\* free_pthread up to its call of stop_pthread.
FreeCall(u) ==
    /\ MayCall(u)
    /\ u \in Controllers
    /\ insync = {}
    /\ \A v \in Users : pc[v] = "idle"
    /\ freeing' = u
    /\ StopEnter(u)
    /\ UNCHANGED <<controlVars, mutexVars, itemVars, obj, joins>>

StopLock(t) ==
    /\ At(t, "s_lock")
    /\ lock = NULL
    /\ lock' = t
    /\ GoTo(t, "s_set")
    /\ UNCHANGED <<lifeVars, controlVars, callVars, itemVars, slock, insync>>

\* Mutants: the join is decided by the state that was just set, or not at all.
StopSetNeverJoins(t) ==
    /\ At(t, "s_set")
    /\ state' = "STOP"
    /\ data' = NULL
    /\ lock' = NULL
    /\ GoTo(t, "s_return")
    /\ UNCHANGED <<lifeVars, callVars, itemVars, thread, slock, insync>>

StopSetAlwaysJoins(t) ==
    /\ At(t, "s_set")
    /\ state' = "STOP"
    /\ data' = NULL
    /\ lock' = NULL
    /\ GoTo(t, "s_join")
    /\ UNCHANGED <<lifeVars, callVars, itemVars, thread, slock, insync>>

StopSet(t) ==
    /\ At(t, "s_set")
    /\ state' = "STOP"
    /\ data' = NULL
    /\ lock' = NULL
    /\ GoTo(t, IF saw[t] = "RUN" THEN "s_join" ELSE "s_return")
    /\ UNCHANGED <<lifeVars, callVars, itemVars, thread, slock, insync>>

\* this->thread is read for the call of pthread_join.
StopJoin(t) ==
    /\ At(t, "s_join")
    /\ joins' = [joins EXCEPT ![t] = thread]
    /\ GoTo(t, "s_wait")
    /\ UNCHANGED <<lifeVars, controlVars, mutexVars, itemVars, saw>>

\* pthread_join waits for that worker to return.
StopWait(t) ==
    /\ At(t, "s_wait")
    /\ joins[t] # NULL
    /\ pc[joins[t]] = "ended"
    /\ pc' = [pc EXCEPT ![t] = "s_return", ![joins[t]] = "joined"]
    /\ UNCHANGED <<lifeVars, controlVars, mutexVars, callVars, itemVars>>

\* pthread_join of a thread another stop has joined, or is waiting for, is
\* undefined: glibc returns an error at once, or reads a thread that is gone.
StopWaitAgain(t) ==
    /\ At(t, "s_wait")
    /\ joins[t] # NULL
    /\ \/ pc[joins[t]] = "joined"
       \/ \E s \in Threads \ {t} : pc[s] = "s_wait" /\ joins[s] = joins[t]
    /\ \/ GoTo(t, "s_return") /\ obj' = obj
       \/ obj' = "crashed" /\ pc' = pc
    /\ UNCHANGED <<controlVars, mutexVars, callVars, itemVars, freeing>>

\* stop returns: to its user, to free, which then frees the object (and leaves
\* the pipe open), or to the worker that called it.
StopReturn(t) ==
    /\ At(t, "s_return")
    /\ GoTo(t, IF t \in Users THEN "idle" ELSE "w_unlock")
    /\ obj' = IF freeing = t THEN "freed" ELSE obj
    /\ UNCHANGED <<controlVars, mutexVars, callVars, itemVars, freeing>>

------------------------------------------------------------------------------
(* pull_pthread                                                              *)

\* The user calls pull; unless it pulls blindly, after poll or select said
\* that get_fd's descriptor is readable.
PullCall(u) ==
    /\ MayCall(u)
    /\ u \in Pullers
    /\ BlindPull \/ pipe # <<>>
    /\ GoTo(u, "r_read")
    /\ UNCHANGED <<lifeVars, controlVars, mutexVars, callVars, itemVars>>

\* read(2) blocks while the pipe is empty.
Pull(u) ==
    /\ At(u, "r_read")
    /\ pipe # <<>>
    /\ pulled' = Head(pipe)
    /\ pipe' = Tail(pipe)
    /\ GoTo(u, "idle")
    /\ UNCHANGED <<lifeVars, controlVars, mutexVars, callVars, item, provided>>

\* read(2) fails: pull returns NULL.
PullFail(u) ==
    /\ At(u, "r_read")
    /\ "read" \in Faults
    /\ GoTo(u, "idle")
    /\ UNCHANGED <<lifeVars, controlVars, mutexVars, callVars, itemVars>>

------------------------------------------------------------------------------
(* synchronized_pthread                                                      *)

SyncCall(u) ==
    /\ MayCall(u)
    /\ u \notin insync
    /\ GoTo(u, "y_lock")
    /\ UNCHANGED <<lifeVars, controlVars, mutexVars, callVars, itemVars>>

SyncLock(u) ==
    /\ At(u, "y_lock")
    /\ slock = NULL
    /\ slock' = u
    /\ insync' = insync \cup {u}
    /\ GoTo(u, "idle")
    /\ UNCHANGED <<lifeVars, controlVars, callVars, itemVars, lock>>

\* The user's function returns.  (It may call pull meanwhile.)
SyncExit(u) ==
    /\ u \in insync
    /\ At(u, "idle")
    /\ insync' = insync \ {u}
    /\ slock' = NULL
    /\ UNCHANGED <<lifeVars, controlVars, callVars, itemVars, lock, pc>>

------------------------------------------------------------------------------
(* pthread_main                                                              *)

\* The worker polls until start has set the state.
WorkerInit(w) ==
    /\ At(w, "w_init")
    /\ state # "INIT"
    /\ GoTo(w, "w_test")
    /\ UNCHANGED <<lifeVars, controlVars, mutexVars, callVars, itemVars>>

\* Mutant: the loop only leaves the initial state, never on STOP.
WorkerTestForever(w) ==
    /\ At(w, "w_test")
    /\ GoTo(w, IF state # "INIT" THEN "w_poll" ELSE "ended")
    /\ UNCHANGED <<lifeVars, controlVars, mutexVars, callVars, itemVars>>

WorkerTest(w) ==
    /\ At(w, "w_test")
    /\ GoTo(w, IF state = "RUN" THEN "w_poll" ELSE "ended")
    /\ UNCHANGED <<lifeVars, controlVars, mutexVars, callVars, itemVars>>

\* Mutant: revents is not looked at.
WorkerPollIgnored(w) ==
    /\ At(w, "w_poll")
    /\ GoTo(w, "w_lock")
    /\ UNCHANGED <<lifeVars, controlVars, mutexVars, callVars, itemVars>>

\* poll(2) sees POLLOUT only if the pipe has room; it may miss room beside
\* items that are queued, because the kernel counts whole pages.
WorkerPoll(w) ==
    /\ At(w, "w_poll")
    /\ \/ Len(pipe) < Capacity /\ GoTo(w, "w_lock")
       \/ pipe # <<>> /\ GoTo(w, "w_test")
    /\ UNCHANGED <<lifeVars, controlVars, mutexVars, callVars, itemVars>>

WorkerLock(w) ==
    /\ At(w, "w_lock")
    /\ lock = NULL
    /\ lock' = w
    /\ GoTo(w, "w_check")
    /\ UNCHANGED <<lifeVars, controlVars, callVars, itemVars, slock, insync>>

\* Mutant: the state is not tested again under the lock.
WorkerCheckSkipped(w) ==
    /\ At(w, "w_check")
    /\ GoTo(w, "w_slock")
    /\ UNCHANGED <<lifeVars, controlVars, mutexVars, callVars, itemVars>>

\* The state is tested again, now under the lock.
WorkerCheck(w) ==
    /\ At(w, "w_check")
    /\ GoTo(w, IF state = "RUN" THEN "w_slock" ELSE "w_unlock")
    /\ UNCHANGED <<lifeVars, controlVars, mutexVars, callVars, itemVars>>

\* Mutant: the provider runs without waiting for the synchronized lock.
WorkerSlockIgnored(w) ==
    /\ At(w, "w_slock")
    /\ slock' = w
    /\ GoTo(w, "w_provide")
    /\ UNCHANGED <<lifeVars, controlVars, callVars, itemVars, lock, insync>>

WorkerSlock(w) ==
    /\ At(w, "w_slock")
    /\ slock = NULL
    /\ slock' = w
    /\ GoTo(w, "w_provide")
    /\ UNCHANGED <<lifeVars, controlVars, callVars, itemVars, lock, insync>>

\* The provider returns an item, or NULL, which is not queued.
WorkerProvide(w) ==
    /\ At(w, "w_provide")
    /\ \/ /\ provided < MaxItems
          /\ provided' = provided + 1
          /\ item' = [item EXCEPT ![w] = provided']
          /\ GoTo(w, "w_write")
       \/ /\ provided' = provided
          /\ item' = [item EXCEPT ![w] = 0]
          /\ GoTo(w, "w_unlock")
    /\ slock' = NULL
    /\ UNCHANGED <<lifeVars, controlVars, callVars, lock, pipe, insync,
                   pulled>>

\* write(2) blocks while the pipe is full: the lock is held meanwhile.
WorkerWrite(w) ==
    /\ At(w, "w_write")
    /\ Len(pipe) < Capacity
    /\ pipe' = Append(pipe, item[w])
    /\ GoTo(w, "w_unlock")
    /\ UNCHANGED <<lifeVars, controlVars, mutexVars, callVars, item, provided,
                   pulled>>

\* write(2) fails: the item is dropped and the worker, which owns the lock,
\* calls stop.
WorkerWriteFail(w) ==
    /\ At(w, "w_write")
    /\ "write" \in Faults
    /\ StopEnter(w)
    /\ UNCHANGED <<lifeVars, controlVars, mutexVars, itemVars, joins>>

\* Mutant: the unlock is missing.
WorkerUnlockMissing(w) ==
    /\ At(w, "w_unlock")
    /\ GoTo(w, "w_test")
    /\ UNCHANGED <<lifeVars, controlVars, mutexVars, callVars, itemVars>>

WorkerUnlock(w) ==
    /\ At(w, "w_unlock")
    /\ lock' = NULL
    /\ GoTo(w, "w_test")
    /\ UNCHANGED <<lifeVars, controlVars, callVars, itemVars, slock, insync>>

\* A worker that outlives the object runs on freed memory.
WorkerDangles(w) ==
    /\ obj = "freed"
    /\ pc[w] \in AlivePcs
    /\ obj' = "crashed"
    /\ UNCHANGED <<controlVars, mutexVars, callVars, itemVars, pc, freeing>>

------------------------------------------------------------------------------

\* The steps a user chooses to take, and those of a call that has begun.
UserCall(u) ==
    StartCall(u) \/ StopCall(u) \/ FreeCall(u) \/ PullCall(u) \/ SyncCall(u)

StopStep(t) ==
    \/ StopLock(t) \/ StopSet(t) \/ StopJoin(t) \/ StopWait(t)
    \/ StopWaitAgain(t) \/ StopReturn(t)

UserStep(u) ==
    \/ StartLock(u) \/ (\E w \in Workers : StartCreate(u, w))
    \/ StartFail(u) \/ StartRun(u)
    \/ StopStep(u)
    \/ Pull(u) \/ PullFail(u)
    \/ SyncLock(u) \/ SyncExit(u)

WorkerStep(w) ==
    \/ WorkerInit(w) \/ WorkerTest(w) \/ WorkerPoll(w) \/ WorkerLock(w)
    \/ WorkerCheck(w) \/ WorkerSlock(w) \/ WorkerProvide(w)
    \/ WorkerWrite(w) \/ WorkerWriteFail(w) \/ WorkerUnlock(w)
    \/ WorkerDangles(w) \/ StopStep(w)

\* The object is gone: the threads do nothing more with it.
Terminated ==
    /\ obj \in {"null", "freed", "crashed"}
    /\ UNCHANGED vars

Next ==
    \/ New
    \/ \E u \in Users : UserCall(u) \/ UserStep(u)
    \/ \E w \in Workers : WorkerStep(w)
    \/ Terminated

Spec == Init /\ [][Next]_vars

\* Threads run, and the user's provider and synchronized functions return,
\* the latter whatever they pull.  A read or a write that blocks is not forced
\* to fail.
\* Mutexes are not handed out in order, but the worker sleeps 10 ms between
\* two rounds with neither mutex held, so a waiting user gets its turn.
Fairness ==
    /\ \A u \in Users : /\ WF_vars(UserStep(u) /\ ~PullFail(u))
                        /\ SF_vars(StartLock(u))
                        /\ SF_vars(StopLock(u))
                        /\ SF_vars(SyncLock(u))
                        /\ SF_vars(SyncExit(u))
    /\ \A w \in Workers : /\ WF_vars(WorkerStep(w) /\ ~WorkerWriteFail(w))
                          /\ SF_vars(WorkerLock(w))
                          /\ SF_vars(WorkerSlock(w))

FairSpec == Spec /\ Fairness

------------------------------------------------------------------------------
(* Safety                                                                    *)

\* The provider never runs at the same time as a synchronized function, nor
\* two synchronized functions, nor two workers' calls of the provider.
ProviderExclusion ==
    LET inside == insync \cup {w \in Workers : pc[w] = "w_provide"}
    IN  \A s, t \in inside : s = t

\* The provider is called with the payload that was given to start: never
\* with the NULL that a stop racing the worker leaves in this->data.
PayloadGiven ==
    \A w \in Workers : pc[w] = "w_provide" => data # NULL

\* The worker's write never has to wait for a pull: the room its poll saw is
\* still there when it writes, so stop never waits on a full pipe.
WriteNeverBlocks ==
    \A w \in Workers : pc[w] = "w_write" => Len(pipe) < Capacity

\* When no call of stop is under way on a queue that was stopped, the worker
\* has returned and was joined: nothing runs the provider, and free can
\* destroy the lock and the object.
QuietAfterStop ==
    (state = "STOP" /\ \A t \in Threads : pc[t] \notin StopPcs)
        => \A w \in Workers : pc[w] \in {"none", "joined"}

\* pthread_join is called with a thread that start created and that no stop
\* has joined before.
JoinsOnce ==
    \A t \in Threads : pc[t] = "s_wait" =>
        /\ joins[t] # NULL
        /\ pc[joins[t]] # "joined"
        /\ \A s \in Threads \ {t} : pc[s] = "s_wait" => joins[s] # joins[t]

\* Seen from the user, the queue is a DataQueue: it starts once, stops for
\* good, loses, repeats and reorders no item, and queues none once stopped.
Abstract == INSTANCE DataQueue
                WITH phase <- state, queue <- pipe, taken <- pulled
ImplementsDataQueue == Abstract!Spec

------------------------------------------------------------------------------
(* Why the properties hold, whatever the number of controllers: the inductive *)
(* strengthening of ProviderExclusion and PayloadGiven.                       *)

\* The threads that are between a lock and the unlock of this->lock, the
\* worker that calls stop when its write fails included.
HoldsLock(t) ==
    \/ pc[t] \in {"b_create", "b_run", "s_set"}
    \/ /\ t \in Workers
       /\ pc[t] \in {"w_check", "w_slock", "w_provide", "w_write", "w_unlock",
                     "s_lock"}

\* A mutex belongs to the thread that is in its critical section.
LockOwned == \A t \in Threads : HoldsLock(t) => lock = t
SlockOwned ==
    /\ \A w \in Workers : pc[w] = "w_provide" => slock = w
    /\ \A u \in insync : slock = u

\* A worker that calls stop waits for the lock it holds, for ever.
WorkerNeverStops ==
    \A w \in Workers : pc[w] \notin {"s_set", "s_join", "s_wait", "s_return"}

\* Under the lock, a worker past its second test of the state is running...
RunsUnderLock ==
    \A w \in Workers :
        pc[w] \in {"w_slock", "w_provide", "w_write"} => state = "RUN"

\* ... and a running queue has its payload.
PayloadSet ==
    /\ state = "RUN" => data # NULL
    /\ \A u \in Users : pc[u] = "b_run" => data # NULL

MutexInv ==
    LockOwned /\ SlockOwned /\ WorkerNeverStops /\ RunsUnderLock /\ PayloadSet

------------------------------------------------------------------------------
(* Why the other properties hold when one thread does all the controlling:    *)
(* their inductive strengthening.  Every one of these facts fails as soon as  *)
(* two threads may start and stop the queue.                                  *)

SingleController == \A c, d \in Controllers : c = d

\* Only the controller is in start and stop.
ControllerOnly ==
    \A u \in Users :
        pc[u] \in {"b_lock", "b_create", "b_run"} \cup StopPcs
            => u \in Controllers

\* What start saw before it took the lock is still true under it.
StartFresh ==
    \A u \in Users :
        /\ pc[u] \in {"b_lock", "b_create", "b_run"} => state = "INIT"
        /\ pc[u] \in {"b_lock", "b_create"}
              => \A w \in Workers : pc[w] = "none"
        /\ pc[u] = "b_run" => thread # NULL /\ pc[thread] = "w_init"

\* What stop saw before it took the lock is still true under it.
StopFresh ==
    \A u \in Users : pc[u] \in {"s_lock", "s_set"} => saw[u] = state

\* this->thread is the only worker there ever is...
OneWorker == \A w \in Workers : pc[w] # "none" => thread = w

\* ... and it lives as long as the state says.
WorkerFollowsState ==
    /\ state = "INIT" =>
          \A w \in Workers : \/ pc[w] = "none"
                             \/ pc[w] = "w_init" /\ \E u \in Users : pc[u] = "b_run"
    /\ state = "RUN" => thread # NULL /\ pc[thread] \in AlivePcs
    /\ state = "STOP" =>
          \/ \E u \in Users : pc[u] \in {"s_join", "s_wait"}
          \/ \A w \in Workers : pc[w] \in {"none", "joined"}

\* stop joins the worker it found running.
JoinFresh ==
    \A u \in Users :
        /\ pc[u] \in {"s_join", "s_wait"} =>
              /\ state = "STOP"
              /\ thread # NULL
              /\ pc[thread] \notin {"none", "joined"}
        /\ pc[u] = "s_wait" => joins[u] = thread

\* The room that poll saw is kept: the only other party takes items out.
RoomKept ==
    \A w \in Workers :
        pc[w] \in {"w_lock", "w_check", "w_slock", "w_provide", "w_write"}
            => Len(pipe) < Capacity

SoloInv ==
    /\ ControllerOnly /\ StartFresh /\ StopFresh /\ OneWorker
    /\ WorkerFollowsState /\ JoinFresh /\ RoomKept

\* The pipe holds the items after the last one pulled, in order, up to the one
\* the worker is about to write.  (No write fails.)
ItemsInv ==
    /\ \A i \in 1 .. Len(pipe) : pipe[i] = pulled + i
    /\ \A w \in Workers : pc[w] = "w_write" => item[w] = provided
    /\ provided = pulled + Len(pipe)
          + (IF \E w \in Workers : pc[w] = "w_write" THEN 1 ELSE 0)

------------------------------------------------------------------------------
(* Liveness, under FairSpec                                                  *)

\* Every call of stop returns (and free, which begins with one).
StopReturns ==
    \A t \in Threads : pc[t] \in StopPcs ~> pc[t] \notin StopPcs

\* A running queue never starves its user: while it is empty, the provider is
\* called again, whatever the users' synchronized functions do.
WorkerServes ==
    (state = "RUN" /\ pipe = <<>>)
        ~> \/ state = "STOP"
           \/ pipe # <<>>
           \/ \E w \in Workers : pc[w] = "w_provide"

\* "The pulled item, or NULL if impossible": a call of pull returns.  It does for
\* one puller that looks first; one that does not, or two that both look, can wait
\* in read.
PullReturns ==
    \A u \in Users : pc[u] = "r_read" ~> pc[u] # "r_read"

\* The constructor hands out a queue or NULL, whichever call fails.
ConstructorReports == [][obj = "none" => obj' \in {"live", "null"}]_vars
==============================================================================
