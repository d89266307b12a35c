------------------------------- MODULE MCDisk --------------------------------
(* The disk from both its sides; side, which never changes, says which.    *)
(*   requests   two threads, two sectors, two values, three requests and   *)
(*              one crash                                                  *)
(*   clock      the head over two tracks of three sectors, the timer and   *)
(*              the list of pending interrupts, for a bounded time         *)
EXTENDS SynchDisk, InterruptClock

CONSTANTS t1, t2, s1, s2, v1, v2

VARIABLE side

requestVars == <<sectors, active, lock, semaphore, request, data, requests, pc, crashes>>
timeVars == <<lastSector, bufferInit, busy, last, totalTicks, pending, mode, at,
              yieldOnReturn, randomize, slice>>
mcVars == <<side, requestVars, timeVars>>

MCInit ==
  /\ side \in {"requests", "clock"}
  /\ Init /\ ClockInit
  /\ side = "clock" => \A s \in Sector : sectors[s] = v1
  /\ side = "requests" => ~randomize

MCNext ==
  /\ UNCHANGED side
  /\ \/ side = "requests" /\ Next /\ UNCHANGED timeVars
     \/ side = "clock" /\ ClockNext /\ UNCHANGED requestVars

(* The fairness of SynchDisk.                                              *)
MCFairness ==
  /\ WF_mcVars(CallBack /\ UNCHANGED <<side, timeVars>>)
  /\ \A t \in Thread : /\ WF_mcVars(ThreadStep(t) /\ UNCHANGED <<side, timeVars>>)
                       /\ SF_mcVars(Acquire(t) /\ UNCHANGED <<side, timeVars>>)

MCSpec == MCInit /\ [][MCNext]_mcVars /\ MCFairness
=============================================================================
