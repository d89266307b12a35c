----------------------------- MODULE MCMonitors -----------------------------
(* Lock and condition under three kinds of clients; which, never changes.  *)
(*   any    they use the monitor in every order its rules allow            *)
(*   list   they append items to a SynchList of at most two, remove and    *)
(*          apply                                                          *)
(*   test   the self-tests of the kernel                                   *)
EXTENDS SynchList

-----------------------------------------------------------------------------
(* The self-tests that NachOS runs with option -K, as far as they are      *)
(* about threads (Kernel::ThreadSelfTest): the main thread plays ping-pong *)
(* with a helper, first over two semaphores, then over two synchronized    *)
(* lists, and deletes what the two have used.  The helpers keep pointers   *)
(* to it, and nobody waits for their end.                                  *)
(*                                                                         *)
(* The list of the test is the one of SynchList, and selfTestPing another. *)
CONSTANTS Main, SemaphoreHelper, ListHelper,
          Rounds          \* ten in the code

VARIABLES value, queue, testers,                     \* the semaphores ping and pong
          pingLockValue, pingLockQueue, pingLockHolder,
          pingWaitQueue, pingWaiterValue, pingAt,
          pingList, pingOp, pingItem,                \* selfTestPing
          pc, round,                                 \* of the threads of the test
          carried,                                   \* between the lists, by the helper
          deleted                                    \* objects that are gone

semaphores == <<value, queue, testers>>
pingVars == <<pingLockValue, pingLockQueue, pingLockHolder, pingWaitQueue, pingWaiterValue,
              pingAt, pingList, pingOp, pingItem>>
control == <<pc, round, carried, deleted>>
testVars == <<semaphores, pingVars, control>>

S == INSTANCE Semaphores WITH Sem <- {"ping", "pong"}, MaxValue <- Rounds
Ping == INSTANCE SynchList WITH
  lockValue <- pingLockValue, lockQueue <- pingLockQueue, lockHolder <- pingLockHolder,
  waitQueue <- pingWaitQueue, waiterValue <- pingWaiterValue, at <- pingAt,
  list <- pingList, op <- pingOp, item <- pingItem

TestInit ==
  /\ S!SemInit /\ value = [s \in {"ping", "pong"} |-> 0]
  /\ Ping!ListInit
  /\ pc = [t \in Thread |-> IF t \in {Main, SemaphoreHelper} THEN "semaphore" ELSE "none"]
  /\ round = [t \in Thread |-> 0]
  /\ carried = NoItem /\ deleted = {}

Goto(t, label) == pc' = [pc EXCEPT ![t] = label]
Turn(t) == round' = [round EXCEPT ![t] = @ + 1]
MoreRounds(t) == round[t] < Rounds

(* The loop of a helper (and of a faulty one, that goes round once more).  *)
OnceMore(t) == round[t] <= Rounds
HelperLoops(t) == MoreRounds(t)

(* P from its call to its return.                                          *)
P(t, s, before, inside, after) ==
  \/ /\ pc[t] = before
     /\ S!CallP(t, s) /\ Goto(t, inside) /\ UNCHANGED round
  \/ /\ pc[t] = inside
     /\ \/ S!Block(t, s) /\ UNCHANGED <<pc, round>>
        \/ S!Take(t, s) /\ Goto(t, after) /\ Turn(t)

(* Semaphore::SelfTest and SelfTestHelper                                  *)
SelfTest ==
  /\ \/ pc[Main] = "semaphore" /\ MoreRounds(Main)
        /\ S!CallV("ping") /\ Goto(Main, "pong") /\ UNCHANGED round
     \/ P(Main, "pong", "pong", "inPong", "semaphore")
  /\ UNCHANGED <<listVars, pingVars, carried, deleted>>
SelfTestHelper ==
  /\ \/ HelperLoops(SemaphoreHelper) /\ P(SemaphoreHelper, "ping", "semaphore", "inPing", "pong")
     \/ /\ pc[SemaphoreHelper] = "pong"
        /\ S!CallV("pong") /\ Goto(SemaphoreHelper, "semaphore") /\ UNCHANGED round
  /\ UNCHANGED <<listVars, pingVars, carried, deleted>>

(* SynchList::SelfTest appends to selfTestPing and removes from the list,  *)
(* SelfTestHelper the other way round, each in calls of many steps.        *)
Calls(t) == op[t] # "none" \/ pingOp[t] # "none"
InList(t) == ListStep(t) /\ UNCHANGED <<testVars>>
InPing(t) == Ping!ListStep(t) /\ UNCHANGED <<listVars, semaphores, pc, round, deleted>>
             /\ carried' = IF t = ListHelper /\ pingOp[t] = "removed" THEN pingItem[t] ELSE carried
MainInList(val) ==
  \/ InList(Main) \/ InPing(Main)
  \/ /\ pc[Main] = "append" /\ MoreRounds(Main) /\ ~Calls(Main)
     /\ Ping!Start(Main, "append", val) /\ Goto(Main, "remove")
     /\ UNCHANGED <<listVars, semaphores, round, carried, deleted>>
  \/ /\ pc[Main] = "remove" /\ ~Calls(Main)
     /\ Start(Main, "remove", NoItem) /\ Goto(Main, "append") /\ Turn(Main)
     /\ UNCHANGED <<pingVars, semaphores, carried, deleted>>
HelperInList ==
  \/ InList(ListHelper) \/ InPing(ListHelper)
  \/ /\ pc[ListHelper] = "remove" /\ HelperLoops(ListHelper) /\ ~Calls(ListHelper)
     /\ Ping!Start(ListHelper, "remove", NoItem) /\ Goto(ListHelper, "append")
     /\ UNCHANGED <<listVars, semaphores, round, carried, deleted>>
  \/ /\ pc[ListHelper] = "append" /\ ~Calls(ListHelper)
     /\ Start(ListHelper, "append", carried) /\ Goto(ListHelper, "remove") /\ Turn(ListHelper)
     /\ UNCHANGED <<pingVars, semaphores, carried, deleted>>

(* ThreadSelfTest goes on: the objects of a test are deleted, the thread   *)
(* of the next one is forked.                                              *)
ThreadSelfTest ==
  /\ ~MoreRounds(Main) /\ ~Calls(Main)
  /\ \/ /\ pc[Main] = "semaphore"
        /\ deleted' = {"ping", "pong"}
        /\ pc' = [pc EXCEPT ![Main] = "append", ![ListHelper] = "remove"]
        /\ round' = [round EXCEPT ![Main] = 0]
     \/ /\ pc[Main] = "append"
        /\ deleted' = deleted \cup {"selfTestPing", "synchList"}
        /\ Goto(Main, "done") /\ UNCHANGED round
  /\ UNCHANGED <<listVars, semaphores, pingVars, carried>>

MainTest(val) == SelfTest \/ MainInList(val) \/ ThreadSelfTest
TestNext(val) == MainTest(val) \/ SelfTestHelper \/ HelperInList

----------------------------------------------------------------------------
(* What is deleted is used no more: nobody is inside one of its methods,   *)
(* and the helper has made its last call.                                  *)
DeletedUnused ==
  /\ "ping" \in deleted => /\ \A s \in {"ping", "pong"} : testers[s] = {} /\ queue[s] = <<>>
                           /\ ~HelperLoops(SemaphoreHelper) /\ pc[SemaphoreHelper] = "semaphore"
  /\ "synchList" \in deleted => /\ \A t \in Thread : ~Calls(t) /\ at[t] = "outside"
                                                     /\ pingAt[t] = "outside"
                                /\ ~HelperLoops(ListHelper) /\ pc[ListHelper] = "remove"

(* The ASSERTs of the tests: semaphore and list are empty at the start,    *)
(* and what comes back is what was sent.                                   *)
AssertsHold(val) ==
  /\ pc[Main] = "append" /\ round[Main] = 0 /\ pingOp[Main] = "none" =>
       list = <<>> /\ pingList = <<>>
  /\ op[Main] = "removed" => item[Main] = val

-----------------------------------------------------------------------------
CONSTANTS t1, t2, t3, t4, a, b

VARIABLE clients

mcVars == <<clients, lockValue, lockQueue, lockHolder, waitQueue, waiterValue, at,
            list, op, item, testVars>>
noList == <<list, op, item>>

MCInit == ListInit /\ TestInit /\ clients \in {"any", "list", "test"}

MCNext ==
  /\ UNCHANGED clients
  /\ \/ clients = "any" /\ MonNext /\ UNCHANGED <<noList, testVars>>
     \/ clients = "list" /\ ListNext /\ UNCHANGED testVars
     \/ clients = "test" /\ TestNext(a)

(* A thread that can run does so in the end; one that uses the monitor as  *)
(* it likes goes on to release the lock or to wait, and the operations of  *)
(* the list do so by themselves.                                           *)
MCFairness ==
  /\ \A t \in Thread :
       /\ WF_mcVars(UNCHANGED <<clients, testVars>> /\ ListStep(t))
       /\ WF_mcVars(/\ clients = "any" /\ (CallRelease(t) \/ CallWait(t))
                    /\ UNCHANGED <<clients, list, op, item, testVars>>)
  /\ WF_mcVars(clients = "test" /\ MainTest(a) /\ UNCHANGED clients)
  /\ WF_mcVars(clients = "test" /\ SelfTestHelper /\ UNCHANGED clients)
  /\ WF_mcVars(clients = "test" /\ HelperInList /\ UNCHANGED clients)

MCSpec == MCInit /\ [][MCNext]_mcVars /\ MCFairness

(* The self-tests come to their end, their ASSERTs hold on the way, and no *)
(* helper touches the semaphores and lists that the main thread deletes    *)
(* without waiting for it (Kernel::ThreadSelfTest).                        *)
TestsPass ==
  /\ [](DeletedUnused /\ (clients = "test" => AssertsHold(a)))
  /\ clients = "test" => <>(pc[Main] = "done")
=============================================================================
