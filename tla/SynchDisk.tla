----------------------------- MODULE SynchDisk ------------------------------
(* The simulated disk (machine/disk.cc) and its synchronous interface      *)
(* (filesys/synchdisk.cc): threads read and write whole sectors; the       *)
(* device works on one request at a time and interrupts when it is done.   *)
(*                                                                         *)
(* The lock is the abstract one of MutexLock (Monitor implements it), the  *)
(* semaphore is its value (see Semaphores); a step ends at a tick, where   *)
(* the interrupt or another thread may come in.  The sectors live in the   *)
(* UNIX file DISK_n, so they survive the end of the process.               *)
EXTENDS Naturals, FiniteSets

CONSTANTS Thread, NoThread, Sector, Value,
          NoValue,       \* the value of a read request
          MaxRequests,   \* bound on the calls of ReadSector and WriteSector
          MaxCrashes     \* bound on the ends of the process

ASSUME SynchDiskAssumption ==
  /\ NoThread \notin Thread
  /\ NoValue \notin Value
  /\ Sector # {}
  /\ MaxRequests \in Nat /\ MaxCrashes \in Nat

VARIABLES
  sectors,    \* the UNIX file that stands for the disk
  active,     \* Disk::active; the interrupt DiskInt is pending while TRUE
  lock,       \* the holder of SynchDisk::lock
  semaphore,  \* the value of SynchDisk::semaphore
  pc,         \* where each thread stands
  request,    \* the sector and value each thread passed
  data,       \* the buffer each thread passed, after a read
  requests, crashes   \* calls and crashes so far

device == <<sectors, active>>
waiting == <<lock, semaphore>>
calls == <<request, data, requests>>
vars == <<device, waiting, calls, pc, crashes>>

Place == {"idle", "acquire", "start", "wait", "release"}

Init ==
  /\ sectors \in [Sector -> Value]
  /\ active = FALSE
  /\ lock = NoThread /\ semaphore = 0
  /\ pc = [t \in Thread |-> "idle"]
  /\ request \in [Thread -> [sector : {CHOOSE s \in Sector : TRUE}, value : {NoValue}]]
  /\ data = [t \in Thread |-> NoValue]
  /\ requests = 0 /\ crashes = 0

Goto(t, place) == pc' = [pc EXCEPT ![t] = place]

(* ReadSector (value = NoValue) or WriteSector is called.                  *)
Call(t, s, v) ==
  /\ pc[t] = "idle" /\ requests < MaxRequests
  /\ request' = [request EXCEPT ![t] = [sector |-> s, value |-> v]]
  /\ data' = [data EXCEPT ![t] = NoValue]
  /\ requests' = requests + 1
  /\ Goto(t, "acquire")
  /\ UNCHANGED <<device, waiting, crashes>>

(* The lock of the faulty variant lets anyone in. *)
LockIgnored == TRUE
LockFree == lock = NoThread

Acquire(t) ==
  /\ pc[t] = "acquire" /\ LockFree
  /\ lock' = t
  /\ Goto(t, "start")
  /\ UNCHANGED <<device, semaphore, calls, crashes>>

(* Disk::ReadRequest and WriteRequest move the data at once, whatever the  *)
(* latency; what is delayed is the interrupt.  Their ASSERT(!active) is    *)
(* the invariant OneRequest.                                               *)
ReadRequest(t) ==
  /\ pc[t] = "start" /\ request[t].value = NoValue
  /\ data' = [data EXCEPT ![t] = sectors[request[t].sector]]
  /\ active' = TRUE
  /\ Goto(t, "wait")
  /\ UNCHANGED <<sectors, waiting, request, requests, crashes>>

(* A faulty device that writes the sector at the interrupt of the next one *)
WriteDelayed(t) == sectors
Written(t) == [sectors EXCEPT ![request[t].sector] = request[t].value]

WriteRequest(t) ==
  /\ pc[t] = "start" /\ request[t].value # NoValue
  /\ sectors' = Written(t)
  /\ active' = TRUE
  /\ Goto(t, "wait")
  /\ UNCHANGED <<waiting, calls, crashes>>

(* Disk::CallBack, then SynchDisk::CallBack.                               *)
StillActive == TRUE
NoLongerActive == FALSE
NotPosted == semaphore
Posted == semaphore + 1

CallBack ==
  /\ active
  /\ active' = NoLongerActive
  /\ semaphore' = Posted
  /\ UNCHANGED <<sectors, lock, calls, pc, crashes>>

Positive == semaphore > 0

P(t) ==
  /\ pc[t] = "wait" /\ Positive
  /\ semaphore' = semaphore - 1
  /\ Goto(t, "release")
  /\ UNCHANGED <<device, lock, calls, crashes>>

Release(t) ==
  /\ pc[t] = "release"
  /\ lock' = NoThread
  /\ Goto(t, "idle")
  /\ UNCHANGED <<device, semaphore, calls, crashes>>

(* The process ends and another one is started on the same DISK_n file:    *)
(* the constructors of Disk and SynchDisk start afresh, the sectors stay.  *)
Crash ==
  /\ crashes < MaxCrashes
  /\ crashes' = crashes + 1
  /\ active' = FALSE
  /\ lock' = NoThread /\ semaphore' = 0
  /\ pc' = [t \in Thread |-> "idle"]
  /\ UNCHANGED <<sectors, calls>>

ThreadStep(t) ==
  Acquire(t) \/ ReadRequest(t) \/ WriteRequest(t) \/ P(t) \/ Release(t)

Next ==
  \/ \E t \in Thread :
       \/ \E s \in Sector, v \in Value \cup {NoValue} : Call(t, s, v)
       \/ ThreadStep(t)
  \/ CallBack
  \/ Crash

Spec == Init /\ [][Next]_vars

(* The clock moves while the disk is busy (Interrupt::Idle advances it even *)
(* when nobody is ready), ready threads run, and the queue of the lock is  *)
(* first in, first out.                                                    *)
Fairness ==
  /\ WF_vars(CallBack)
  /\ \A t \in Thread : WF_vars(ThreadStep(t)) /\ SF_vars(Acquire(t))

FairSpec == Spec /\ Fairness

----------------------------------------------------------------------------
(* Properties.                                                             *)

TypeOK ==
  /\ sectors \in [Sector -> Value]
  /\ active \in BOOLEAN
  /\ lock \in Thread \cup {NoThread}
  /\ semaphore \in Nat
  /\ pc \in [Thread -> Place]
  /\ request \in [Thread -> [sector : Sector, value : Value \cup {NoValue}]]
  /\ data \in [Thread -> Value \cup {NoValue}]
  /\ requests \in 0 .. MaxRequests /\ crashes \in 0 .. MaxCrashes

Busy(t) == pc[t] \in {"start", "wait", "release"}
Waits(t) == pc[t] = "wait"

(* The ASSERT(!active) of the device ("only one request at a time"): no    *)
(* thread reaches a request while another is under way, and the completion *)
(* counted by the semaphore is the one of the thread that waits for it, so *)
(* nobody returns on the interrupt of someone else's request.              *)
OneRequest ==
  /\ TypeOK
  /\ \A t \in Thread : Busy(t) => lock = t
  /\ active => semaphore = 0
  /\ (active \/ semaphore = 1) <=> (\E t \in Thread : Waits(t))
  /\ semaphore <= 1

(* Every call returns ("Return only after the data has been read"), unless *)
(* the process ends.                                                       *)
RequestsReturn == \A t \in Thread : pc[t] = "acquire" ~> pc[t] = "idle"

(* Reads and writes of threads are atomic and a write that returned is not *)
(* lost in a crash: SynchDisk implements AtomicSectors.                    *)
Stage(t) == CASE pc[t] = "idle" -> "none"
              [] pc[t] \in {"acquire", "start"} -> "asked"
              [] OTHER -> "served"

Atomic == INSTANCE AtomicSectors
            WITH store <- sectors, stage <- [t \in Thread |-> Stage(t)],
                 asked <- request, answer <- data

ImplementsSectors == Atomic!SectorsSpec
=============================================================================
