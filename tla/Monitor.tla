------------------------------ MODULE Monitor ------------------------------
(* One Lock and one Condition used with it, as built from semaphores in    *)
(* threads/synch.cc.  A step runs from one tick to the next: P and V end   *)
(* in a tick, where the scheduler may run any other thread that is not     *)
(* blocked.  The operations are those of KernelThreads seen through        *)
(* Semaphores: a thread in P is testing or queued, V moves the first       *)
(* queued thread back to testing.                                          *)
(*                                                                         *)
(* Wait allocates a semaphore of its own for each call.  A thread is in at *)
(* most one Wait, so the waiter semaphore is named by its thread.          *)
(*                                                                         *)
(* at[t] is the place of thread t:                                         *)
(*   "outside"      in no monitor routine, the lock not held               *)
(*   "acquiring"    in P of the lock's semaphore, testing                  *)
(*   "lockQueued"   ... queued                                             *)
(*   "acquired"     P has returned, lockHolder not assigned yet            *)
(*   "inside"       Acquire or Wait has returned: the thread holds the lock*)
(*   "waiting"      in P of its waiter semaphore, testing                  *)
(*   "asleep"       ... queued                                             *)
(*   "broadcasting" in the loop of Broadcast                               *)
(***************************************************************************)
EXTENDS Naturals, Sequences, FiniteSets, Functions

CONSTANTS Thread, NoThread

ASSUME NoThreadAssumption == NoThread \notin Thread

VARIABLES
  lockValue,    \* Lock::semaphore->value
  lockQueue,    \* Lock::semaphore->queue
  lockHolder,   \* Lock::lockHolder
  waitQueue,    \* Condition::waitQueue, each waiter named by its thread
  waiterValue,  \* value of the waiter semaphore of each thread
  at            \* the place of each thread

lock == <<lockValue, lockQueue, lockHolder>>
condition == <<waitQueue, waiterValue>>
monVars == <<lock, condition, at>>

Place == {"outside", "acquiring", "lockQueued", "acquired", "inside",
          "waiting", "asleep", "broadcasting"}

MonTypeOK ==
  /\ lockValue \in Nat
  /\ lockQueue \in Seq(Thread)
  /\ lockHolder \in Thread \cup {NoThread}
  /\ waitQueue \in Seq(Thread)
  /\ waiterValue \in [Thread -> Nat]
  /\ at \in [Thread -> Place]

MonInit ==
  /\ lockValue = 1 /\ lockQueue = <<>> /\ lockHolder = NoThread
  /\ waitQueue = <<>>
  /\ waiterValue = [t \in Thread |-> 0]
  /\ at = [t \in Thread |-> "outside"]

----------------------------------------------------------------------------
(* Lock::Acquire: P of the lock's semaphore ...                            *)
CallAcquire(t) ==
  /\ at[t] = "outside"
  /\ at' = [at EXCEPT ![t] = "acquiring"]
  /\ UNCHANGED <<lock, condition>>

LockBusy == lockValue = 0

LockP(t) ==
  /\ at[t] = "acquiring"
  /\ IF LockBusy
     THEN /\ lockQueue' = Append(lockQueue, t)
          /\ at' = [at EXCEPT ![t] = "lockQueued"]
          /\ UNCHANGED lockValue
     ELSE /\ lockValue' = lockValue - 1
          /\ at' = [at EXCEPT ![t] = "acquired"]
          /\ UNCHANGED lockQueue
  /\ UNCHANGED <<lockHolder, condition>>

(* ... and the assignment of lockHolder. *)
TakeOwnership(t) ==
  /\ at[t] = "acquired"
  /\ lockHolder' = t
  /\ at' = [at EXCEPT ![t] = "inside"]
  /\ UNCHANGED <<lockValue, lockQueue, condition>>

AcquireStep(t) == LockP(t) \/ TakeOwnership(t)

(* Where V sends the first sleeper: back to the test of P.  A faulty P that *)
(* tests once ("if") would let it through.                                 *)
PastTheTest == "acquired"
BackToTest == "acquiring"

(* The holder after Release; a faulty one leaves the pointer.              *)
StaleHolder == lockHolder
ClearedHolder == NoThread

(* A faulty Release that wakes nobody.                                     *)
UnlockSilently(t, p) ==
  /\ lockHolder' = ClearedHolder
  /\ lockValue' = lockValue + 1
  /\ at' = [at EXCEPT ![t] = p]
  /\ UNCHANGED lockQueue

(* Lock::Release, the caller going to place p: lockHolder is cleared, then *)
(* V readies the first thread queued for the lock.                         *)
Unlock(t, p) ==
  /\ lockHolder' = ClearedHolder
  /\ lockValue' = lockValue + 1
  /\ IF lockQueue = <<>>
     THEN /\ at' = [at EXCEPT ![t] = p]
          /\ UNCHANGED lockQueue
     ELSE /\ at' = [at EXCEPT ![t] = p, ![Head(lockQueue)] = BackToTest]
          /\ lockQueue' = Tail(lockQueue)

CallRelease(t) ==
  /\ at[t] = "inside"
  /\ Unlock(t, "outside")
  /\ UNCHANGED condition

----------------------------------------------------------------------------
(* Condition::Wait: a fresh waiter is queued before the lock is released.  *)
CallWait(t) ==
  /\ at[t] = "inside"
  /\ waitQueue' = Append(waitQueue, t)
  /\ waiterValue' = [waiterValue EXCEPT ![t] = 0]
  /\ Unlock(t, "waiting")

(* waiter->P(), then Acquire again. *)
WaiterP(t) ==
  /\ at[t] = "waiting"
  /\ IF waiterValue[t] = 0
     THEN at' = [at EXCEPT ![t] = "asleep"] /\ UNCHANGED waiterValue
     ELSE /\ waiterValue' = [waiterValue EXCEPT ![t] = @ - 1]
          /\ at' = [at EXCEPT ![t] = "acquiring"]
  /\ UNCHANGED <<lock, waitQueue>>

(* What V does to the value and the place of the waiter.  A faulty signal   *)
(* counts only if the waiter sleeps already.                               *)
PostSleeper(w) == IF at[w] = "asleep" THEN waiterValue[w] + 1 ELSE waiterValue[w]
PostWaiter(w) == waiterValue[w] + 1
Readied(w) == IF at[w] = "asleep" THEN "waiting" ELSE at[w]

(* The body of Condition::Signal: remove the first waiter and V it.  The   *)
(* signaller t goes to place p.                                            *)
WakeFirst(t, p) ==
  LET w == Head(waitQueue) IN
  /\ waitQueue' = Tail(waitQueue)
  /\ waiterValue' = [waiterValue EXCEPT ![w] = PostWaiter(w)]
  /\ at' = [at EXCEPT ![t] = p, ![w] = Readied(w)]

SignalFirst(t, p) ==
  IF waitQueue = <<>>
  THEN at' = [at EXCEPT ![t] = p] /\ UNCHANGED condition
  ELSE WakeFirst(t, p)

CallSignal(t) ==
  /\ at[t] = "inside"
  /\ SignalFirst(t, "inside")
  /\ UNCHANGED lock

(* Condition::Broadcast: Signal while somebody waits, a tick after each.   *)
CallBroadcast(t) ==
  /\ at[t] = "inside"
  /\ at' = [at EXCEPT ![t] = "broadcasting"]
  /\ UNCHANGED <<lock, condition>>

BroadcastStep(t) ==
  /\ at[t] = "broadcasting"
  /\ SignalFirst(t, IF waitQueue = <<>> THEN "inside" ELSE "broadcasting")
  /\ UNCHANGED lock

----------------------------------------------------------------------------
(* The steps that go on once a routine has been called.                    *)
MonStep(t) == AcquireStep(t) \/ WaiterP(t) \/ BroadcastStep(t)

MonRuns(t) ==
  \/ CallAcquire(t) \/ CallRelease(t) \/ CallWait(t)
  \/ CallSignal(t) \/ CallBroadcast(t)
  \/ MonStep(t)

MonNext == \E t \in Thread : MonRuns(t)

MonSpec == MonInit /\ [][MonNext]_monVars

(* The scheduler is a FIFO with time slices: a thread that can run does so *)
(* in the end (KernelThreads!ReadyThreadsRun), and a thread that holds the *)
(* lock goes on to release it or to wait.                                  *)
MonFairness ==
  \A t \in Thread :
    /\ WF_monVars(MonStep(t))
    /\ WF_monVars(CallRelease(t) \/ CallWait(t))

MonFairSpec == MonSpec /\ MonFairness

----------------------------------------------------------------------------
(* Properties.                                                             *)

Owners == {t \in Thread : at[t] \in {"acquired", "inside", "broadcasting"}}
InWait == {t \in Thread : at[t] \in {"waiting", "asleep"}}

(* The lock is free or one thread owns it, never both and never two: the   *)
(* value of the lock's semaphore and the threads past its P add up to one. *)
MutualExclusion == lockValue + Cardinality(Owners) = 1

(* IsHeldByCurrentThread answers right for every thread that Acquire has   *)
(* returned to, so the ASSERTs of Release, Wait and Signal hold.           *)
HolderExact ==
  \A t \in Thread : lockHolder = t <=> at[t] \in {"inside", "broadcasting"}

(* The lock keeps the threads apart and knows which one it let in.         *)
LockExact == MonTypeOK /\ MutualExclusion /\ HolderExact

(* The queue of the lock holds each thread that sleeps for it once, and a  *)
(* free lock with sleepers has somebody on the way to take it.             *)
LockHandedOn ==
  /\ IsInjective(lockQueue)
  /\ Range(lockQueue) = {t \in Thread : at[t] = "lockQueued"}
  /\ lockQueue # <<>> /\ lockValue > 0 =>
        \E t \in Thread : at[t] = "acquiring"

(* "there is no chance the waiter will miss the signal, even though the    *)
(* lock is released before calling P()" (synch.cc:235): a thread in Wait   *)
(* is in the wait queue until it is signalled, exactly once, and from then *)
(* on its semaphore lets it through; a queued waiter is never a deleted    *)
(* one.                                                                    *)
SignalNotMissed ==
  /\ IsInjective(waitQueue)
  /\ \A t \in Thread :
        t \in Range(waitQueue) <=> t \in InWait /\ waiterValue[t] = 0
  /\ \A t \in Thread : waiterValue[t] > 0 => at[t] = "waiting" /\ waiterValue[t] = 1

(* No thread is forgotten, by the lock or by the condition.                *)
NobodyMissed == LockHandedOn /\ SignalNotMissed

(* The lock is never stuck: while somebody wants it, somebody gets it.     *)
LockProgress ==
  (\E t \in Thread : at[t] \in {"acquiring", "lockQueued"}) ~> lockHolder # NoThread

(* Seen from its users the lock is a mutex: wanting it, holding it and     *)
(* giving it up, with nothing said about queues.                           *)
Mutex == INSTANCE MutexLock WITH
  want <- {t \in Thread : at[t] \in {"acquiring", "lockQueued"}},
  held <- Owners
ImplementsMutex == Mutex!MutexSpec
=============================================================================
