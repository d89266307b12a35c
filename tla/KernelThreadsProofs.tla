------------------------ MODULE KernelThreadsProofs -------------------------
(* The inductive invariant of the thread system, and the safety properties *)
(* that follow from it for any number of threads and semaphores.           *)
EXTENDS KernelThreads, FiniteSetTheorems, TLAPS

----------------------------------------------------------------------------
(* Queues in which nobody stands twice: what appending to them and         *)
(* removing from them does to the set of those who wait.                   *)

(* Appending something new to a queue.                                     *)
LEMMA RangeAppend ==
  ASSUME NEW S, NEW q \in Seq(S), NEW x \in S, IsInjective(q), x \notin Range(q)
  PROVE  /\ IsInjective(Append(q, x))
         /\ \A y : y \in Range(Append(q, x)) <=> y \in Range(q) \/ y = x
<1> DEFINE r == Append(q, x)
<1>1. /\ r \in Seq(S) /\ Len(r) = Len(q) + 1 /\ r[Len(q) + 1] = x
      /\ \A i \in 1 .. Len(q) : r[i] = q[i]
  OBVIOUS
<1>2. Len(q) \in Nat /\ DOMAIN q = 1 .. Len(q) /\ DOMAIN r = 1 .. Len(r)
  OBVIOUS
<1>3. \A i \in 1 .. Len(q) : q[i] # x
  BY <1>2 DEF Range
<1>4. IsInjective(r)
  <2> SUFFICES ASSUME NEW i \in 1 .. Len(r), NEW j \in 1 .. Len(r), r[i] = r[j]
               PROVE  i = j
    BY DEF IsInjective
  <2> HIDE DEF r
  <2> QED BY <1>1, <1>2, <1>3 DEF IsInjective
<1>5. \A y : y \in Range(r) <=> y \in Range(q) \/ y = x
  <2> HIDE DEF r
  <2>1. ASSUME NEW y, y \in Range(r) PROVE y \in Range(q) \/ y = x
    <3>1. PICK i \in 1 .. Len(r) : r[i] = y
      BY <2>1, <1>2 DEF Range
    <3>2. i \in 1 .. Len(q) \/ i = Len(q) + 1
      BY <1>1, <1>2
    <3> QED BY <3>1, <3>2, <1>1, <1>2 DEF Range
  <2>2. ASSUME NEW y, y \in Range(q) PROVE y \in Range(r)
    <3>1. PICK i \in 1 .. Len(q) : q[i] = y
      BY <2>2, <1>2 DEF Range
    <3>2. i \in 1 .. Len(r) /\ r[i] = y
      BY <3>1, <1>1, <1>2
    <3> QED BY <3>2, <1>2 DEF Range
  <2>3. x \in Range(r)
    <3>1. Len(q) + 1 \in 1 .. Len(r)
      BY <1>1, <1>2
    <3> QED BY <3>1, <1>1, <1>2 DEF Range
  <2> QED BY <2>1, <2>2, <2>3
<1> QED BY <1>4, <1>5

(* Taking the front of a queue.                                            *)
LEMMA RangeTail ==
  ASSUME NEW S, NEW q \in Seq(S), q # <<>>, IsInjective(q)
  PROVE  /\ Head(q) \in Range(q) /\ IsInjective(Tail(q))
         /\ \A y : y \in Range(Tail(q)) <=> y \in Range(q) /\ y # Head(q)
<1> DEFINE r == Tail(q)
<1>1. /\ r \in Seq(S) /\ Len(q) \in Nat \ {0} /\ Len(r) = Len(q) - 1
      /\ \A i \in 1 .. Len(r) : r[i] = q[i + 1]
  OBVIOUS
<1>2. Head(q) = q[1] /\ DOMAIN q = 1 .. Len(q) /\ DOMAIN r = 1 .. Len(r)
  OBVIOUS
<1>3. Head(q) \in Range(q)
  BY <1>1, <1>2 DEF Range
<1> HIDE DEF r
<1>4. IsInjective(r)
  <2> SUFFICES ASSUME NEW i \in 1 .. Len(r), NEW j \in 1 .. Len(r), r[i] = r[j]
               PROVE  i = j
    BY DEF IsInjective
  <2>1. i + 1 \in 1 .. Len(q) /\ j + 1 \in 1 .. Len(q) /\ q[i + 1] = q[j + 1]
    BY <1>1
  <2> QED BY <2>1 DEF IsInjective
<1>5. ASSUME NEW y, y \in Range(r) PROVE y \in Range(q) /\ y # Head(q)
  <2>1. PICK i \in 1 .. Len(r) : r[i] = y
    BY <1>5, <1>2 DEF Range
  <2>2. i + 1 \in 1 .. Len(q) /\ q[i + 1] = y /\ 1 \in 1 .. Len(q) /\ i + 1 # 1
    BY <2>1, <1>1
  <2> QED BY <2>2, <1>2 DEF Range, IsInjective
<1>6. ASSUME NEW y, y \in Range(q), y # Head(q) PROVE y \in Range(r)
  <2>1. PICK i \in 1 .. Len(q) : q[i] = y
    BY <1>6, <1>2 DEF Range
  <2>2. i # 1
    BY <2>1, <1>2, <1>6
  <2>3. i - 1 \in 1 .. Len(r) /\ r[i - 1] = y
    BY <2>1, <2>2, <1>1
  <2> QED BY <2>3, <1>2 DEF Range
<1> QED BY <1>3, <1>4, <1>5, <1>6 DEF r

----------------------------------------------------------------------------
USE DEF scheduler, interrupt, semaphore, stack

(* The types hold in the initial states.                                   *)
LEMMA TypeInit == Init => TypeOK
<1> SUFFICES ASSUME Init PROVE TypeOK
  OBVIOUS
<1> USE MainAssumption DEF Init, Status, Mode, Label
<1>1. status \in [Thread -> Status] /\ pc \in [Thread -> Label]
  OBVIOUS
<1>2. readyList \in Seq(Thread) /\ queue \in [Sem -> Seq(Thread)] /\ saved \in [Thread -> Seq(Mode)]
  OBVIOUS
<1>3. value \in [Sem -> Nat]
  OBVIOUS
<1> QED BY <1>1, <1>2, <1>3 DEF TypeOK

(* Every step keeps them.                                                  *)
LEMMA TypeStep == TypeOK /\ [Next]_vars => TypeOK'
<1> SUFFICES ASSUME TypeOK, [Next]_vars PROVE TypeOK'
  OBVIOUS
<1> USE DEF At, Goto, BeginTick, CanRun, MarkReady, ListAppend, SwitchAway,
            Status, Mode, Label
<1>1. ASSUME NEW s \in Sem, Signal(s)
      PROVE  /\ value' \in [Sem -> Nat] /\ queue' \in [Sem -> Seq(Thread)]
             /\ status' \in [Thread -> Status] /\ readyList' \in Seq(Thread)
  <2>1. value' \in [Sem -> Nat]
    BY <1>1 DEF Signal, TypeOK
  <2>2. CASE queue[s] = <<>>
    BY <1>1, <2>1, <2>2 DEF Signal, TypeOK
  <2>3. CASE queue[s] # <<>>
    <3>1. queue[s] \in Seq(Thread)
      BY DEF TypeOK
    <3>2. Head(queue[s]) \in Thread /\ Tail(queue[s]) \in Seq(Thread)
      BY <2>3, <3>1
    <3>3. Append(readyList, Head(queue[s])) \in Seq(Thread)
      BY <3>2 DEF TypeOK
    <3>4. readyList' \in Seq(Thread) /\ status' \in [Thread -> Status]
      BY <1>1, <2>3, <3>2, <3>3 DEF Signal, TypeOK
    <3>5. queue' \in [Sem -> Seq(Thread)]
      BY <1>1, <2>3, <3>2 DEF Signal, TypeOK
    <3> QED BY <2>1, <3>4, <3>5
  <2> QED BY <2>2, <2>3
<1>2. ASSUME readyList # <<>>
      PROVE  Head(readyList) \in Thread /\ Tail(readyList) \in Seq(Thread)
  BY <1>2 DEF TypeOK
<1>3. ASSUME NEW t \in Thread, KernelCode(t) PROVE TypeOK'
  <2>1. ASSUME NEW n \in Thread, Create(t, n) PROVE TypeOK'
    BY <2>1 DEF TypeOK, Create
  <2>2. ASSUME NEW n \in Thread, Fork(t, n) PROVE TypeOK'
    <3>1. readyList' \in Seq(Thread)
      BY <2>2 DEF TypeOK, Fork
    <3>2. status' \in [Thread -> Status] /\ pc' \in [Thread -> Label]
          /\ level' \in {"IntOff", "IntOn"}
      BY <2>2 DEF TypeOK, Fork
    <3> QED BY <2>2, <3>1, <3>2 DEF TypeOK, Fork
  <2>3. CASE Enable(t)
    BY <2>3 DEF TypeOK, Enable
  <2>4. CASE Yield(t)
    <3>1. CASE readyList = <<>>
      BY <2>4, <3>1 DEF TypeOK, Yield
    <3>2. CASE readyList # <<>>
      <4>1. readyList' \in Seq(Thread)
        BY <2>4, <3>2, <1>2 DEF Yield
      <4> QED BY <2>4, <3>2, <4>1, <1>2 DEF TypeOK, Yield
    <3> QED BY <3>1, <3>2
  <2>5. CASE Finish(t)
    BY <2>5 DEF TypeOK, Finish
  <2>6. ASSUME NEW s \in Sem, P(t, s) PROVE TypeOK'
    BY <2>6 DEF TypeOK, P
  <2>7. ASSUME NEW s \in Sem, V(t, s) PROVE TypeOK'
    BY <2>7, <1>1 DEF TypeOK, V
  <2>8. CASE PWait(t)
    <3>1. queue' \in [Sem -> Seq(Thread)]
      <4>1. CASE waitsOn[t] \in Sem
        <5>1. Append(queue[waitsOn[t]], t) \in Seq(Thread)
          BY <4>1 DEF TypeOK
        <5> QED BY <2>8, <4>1, <5>1 DEF TypeOK, PWait, Enqueue
      <4>2. CASE waitsOn[t] \notin Sem
        BY <2>8, <4>2 DEF TypeOK, PWait, Enqueue
      <4> QED BY <4>1, <4>2
    <3> QED BY <2>8, <3>1 DEF TypeOK, PWait
  <2>9. CASE PTake(t)
    <3>1. value' \in [Sem -> Nat]
      <4>1. CASE waitsOn[t] \in Sem
        <5>1. value[waitsOn[t]] - 1 \in Nat
          BY <2>9, <4>1 DEF TypeOK, PTake, Available
        <5> QED BY <2>9, <4>1, <5>1 DEF TypeOK, PTake
      <4>2. CASE waitsOn[t] \notin Sem
        BY <2>9, <4>2 DEF TypeOK, PTake
      <4> QED BY <4>1, <4>2
    <3> QED BY <2>9, <3>1 DEF TypeOK, PTake
  <2> QED BY <1>3, <2>1, <2>2, <2>3, <2>4, <2>5, <2>6, <2>7, <2>8, <2>9 DEF KernelCode
<1>4. ASSUME NEW t \in Thread, UserCode(t) PROVE TypeOK'
  BY <1>4 DEF TypeOK, UserCode, RunUser, UserInstruction, Trap, TrapReturn,
              NestedException
<1>5. ASSUME NEW t \in Thread, Switching(t) PROVE TypeOK'
  <2> USE DEF CheckToBeDestroyed, Buried
  <2>1. CASE SleepSwitch(t)
    BY <2>1, <1>2 DEF TypeOK, SleepSwitch
  <2>2. CASE FinishSwitch(t)
    BY <2>2, <1>2 DEF TypeOK, FinishSwitch, Carcass
  <2>3. CASE Idle(t) \/ IdleReturn(t)
    BY <2>3 DEF TypeOK, Idle, IdleReturn
  <2>4. CASE ResumeYield(t)
    BY <2>4 DEF TypeOK, ResumeYield
  <2>5. CASE ResumeSleep(t)
    BY <2>5 DEF TypeOK, ResumeSleep
  <2>6. CASE Begin(t)
    BY <2>6 DEF TypeOK, Begin
  <2> QED BY <1>5, <2>1, <2>2, <2>3, <2>4, <2>5, <2>6 DEF Switching
<1>6. ASSUME NEW t \in Thread, Tick(t) PROVE TypeOK'
  <2>1. CASE CheckIfDue(t)
    BY <2>1 DEF TypeOK, CheckIfDue
  <2>2. CASE TickReturn(t)
    <3>1. RestoredMode(t) \in Mode
      BY DEF TypeOK, RestoredMode
    <3>2. saved' \in [Thread -> Seq(Mode)]
      BY <2>2 DEF TypeOK, TickReturn
    <3> QED BY <2>2, <3>1, <3>2 DEF TypeOK, TickReturn
  <2>3. CASE TickYield(t)
    <3>1. saved' \in [Thread -> Seq(Mode)]
      <4>1. Append(saved[t], mode) \in Seq(Mode)
        BY DEF TypeOK
      <4> QED BY <2>3, <4>1 DEF TypeOK, TickYield
    <3>2. CASE readyList = <<>>
      BY <2>3, <3>1, <3>2 DEF TypeOK, TickYield, FlagServed, YieldMode
    <3>3. CASE readyList # <<>>
      <4>1. readyList' \in Seq(Thread)
        BY <2>3, <3>3, <1>2 DEF TickYield
      <4> QED BY <2>3, <3>1, <3>3, <4>1, <1>2 DEF TypeOK, TickYield, FlagServed, YieldMode
    <3> QED BY <3>2, <3>3
  <2> QED BY <1>6, <2>1, <2>2, <2>3 DEF Tick
<1>7. CASE Handler
  <2>1. CASE TimerInterrupt
    BY <2>1 DEF TypeOK, TimerInterrupt
  <2>2. ASSUME NEW s \in Sem, DeviceInterrupt(s) PROVE TypeOK'
    BY <2>2, <1>1 DEF TypeOK, DeviceInterrupt
  <2> QED BY <1>7, <2>1, <2>2 DEF Handler
<1>8. CASE UNCHANGED vars
  BY <1>8 DEF TypeOK, vars
<1> QED BY <1>3, <1>4, <1>5, <1>6, <1>7, <1>8 DEF Next

(* Every variable keeps its type; in particular no semaphore value ever    *)
(* goes below zero (Semaphore::P decrements only what it has tested).      *)
THEOREM TypeCorrect == Spec => []TypeOK
  BY TypeInit, TypeStep, PTL DEF Spec

----------------------------------------------------------------------------
(* Where a thread can be, given its status.                                *)
Places ==
  /\ \A t \in Thread :
       /\ status[t] = "RUNNING" <=> t = currentThread /\ pc[t] \notin {"sleeping", "finishing"}
       /\ pc[t] \in {"boot", "kernel", "user", "tick", "testing", "sleeping", "finishing"}
            => t = currentThread
       /\ status[t] = "READY" => pc[t] \in {"begin", "yielded", "slept", "sleeping"}
       /\ status[t] = "BLOCKED" => pc[t] \in {"sleeping", "slept", "finishing", "zombie"}
       /\ pc[t] \in {"finishing", "zombie"} => status[t] = "BLOCKED"
       /\ status[t] = "NONE" <=> pc[t] = "unborn"
       /\ status[t] = "JUST_CREATED" <=> pc[t] = "created"
       /\ status[t] = "DELETED" <=> pc[t] = "dead"
  /\ pc[currentThread] \notin {"unborn", "created", "zombie", "dead"}

(* The ready list holds the READY threads, each once.                      *)
ReadyQueue ==
  /\ IsInjective(readyList)
  /\ \A t \in Thread : t \in Range(readyList) <=> status[t] = "READY"

Asleep(t, s) ==
  status[t] = "BLOCKED" /\ pc[t] \in {"sleeping", "slept"} /\ waitsOn[t] = s

(* A semaphore's queue holds the threads asleep on it, each once; a thread *)
(* inside P knows its semaphore.                                           *)
WaitQueues ==
  /\ \A s \in Sem : /\ IsInjective(queue[s])
                    /\ \A t \in Thread : t \in Range(queue[s]) <=> Asleep(t, s)
  /\ \A t \in Thread : pc[t] \in {"testing", "sleeping", "slept"} => waitsOn[t] \in Sem

(* The finished thread, between its switch and its deletion.               *)
CarcassSlot ==
  /\ toBeDestroyed # NoThread =>
       pc[toBeDestroyed] = "zombie" /\ OnCPU \in {"yielded", "slept", "begin"}
  /\ \A t \in Thread : pc[t] = "zombie" => toBeDestroyed = t

(* The machine is idle only inside Idle.                                   *)
IdleExact == mode = "IdleMode" <=> inHandler /\ OnCPU \in {"sleeping", "finishing"}

(* The modes on a thread's stack: only a thread inside OneTick has frames, *)
(* none of them was pushed while idle, and the first frame of a user       *)
(* program was pushed in user mode.                                        *)
StackModes(t) ==
  /\ \A i \in 1 .. Len(saved[t]) : saved[t][i] # "IdleMode"
  /\ saved[t] # <<>> => pc[t] \in {"tick", "yielded"}
  /\ pc[t] = "user" => home[t] = "user"
  /\ home[t] = "user" =>
       /\ pc[t] \in {"user", "tick", "yielded"}
       /\ pc[t] = "user" => mode = "UserMode"
       /\ pc[t] = "tick" => RestoredMode(t) = "UserMode"
       /\ pc[t] = "yielded" => saved[t] # <<>> /\ Head(saved[t]) = "UserMode"

Modes == IdleExact /\ \A t \in Thread : StackModes(t)

IInv ==
  /\ TypeOK /\ Places /\ ReadyQueue /\ WaitQueues /\ CarcassSlot
  /\ LevelDiscipline /\ Modes

----------------------------------------------------------------------------
(* What the scheduling part of the invariant needs from a step.            *)

Scheduling == Places /\ ReadyQueue /\ WaitQueues /\ CarcassSlot

(* The front of the ready list is a READY thread, on the list just once.   *)
LEMMA Dispatch ==
  ASSUME TypeOK, ReadyQueue, readyList # <<>>
  PROVE  LET next == Head(readyList)
         IN  /\ next \in Thread /\ status[next] = "READY"
             /\ Tail(readyList) \in Seq(Thread) /\ IsInjective(Tail(readyList))
             /\ \A t \in Thread : t \in Range(Tail(readyList))
                                   <=> status[t] = "READY" /\ t # next
<1>1. readyList \in Seq(Thread)
  BY DEF TypeOK
<1>2. Head(readyList) \in Thread /\ Tail(readyList) \in Seq(Thread)
  BY <1>1
<1> QED BY <1>1, <1>2, RangeTail DEF ReadyQueue

(* V wakes a thread that is asleep on the semaphore, if there is one.      *)
LEMMA Wakeup ==
  ASSUME TypeOK, Scheduling, NEW s \in Sem, Signal(s)
  PROVE  \/ UNCHANGED <<queue, status, readyList>>
         \/ \E h \in Thread :
              /\ Asleep(h, s)
              /\ status' = [status EXCEPT ![h] = "READY"]
              /\ ReadyQueue'
              /\ \A u \in Sem : IsInjective(queue'[u])
              /\ \A u \in Sem, t \in Thread :
                   t \in Range(queue'[u]) <=> t \in Range(queue[u]) /\ (u = s => t # h)
<1>1. CASE queue[s] = <<>>
  BY <1>1 DEF Signal
<1>2. CASE queue[s] # <<>>
  <2> DEFINE h == Head(queue[s])
  <2>1. queue[s] \in Seq(Thread) /\ readyList \in Seq(Thread)
    BY DEF TypeOK
  <2>2. h \in Thread /\ Tail(queue[s]) \in Seq(Thread)
    BY <1>2, <2>1
  <2>3. /\ h \in Range(queue[s]) /\ IsInjective(Tail(queue[s]))
        /\ \A t : t \in Range(Tail(queue[s])) <=> t \in Range(queue[s]) /\ t # h
    BY <1>2, <2>1, RangeTail DEF Scheduling, WaitQueues
  <2>4. Asleep(h, s)
    BY <2>2, <2>3 DEF Scheduling, WaitQueues
  <2>5. /\ queue' = [queue EXCEPT ![s] = Tail(@)]
        /\ status' = [status EXCEPT ![h] = "READY"]
        /\ readyList' = Append(readyList, h)
    BY <1>2 DEF Signal, MarkReady, ListAppend
  <2> HIDE DEF h
  <2>6. h \notin Range(readyList)
    BY <2>2, <2>4 DEF Scheduling, ReadyQueue, Asleep
  <2>7. ReadyQueue'
    <3>1. /\ IsInjective(readyList')
          /\ \A t : t \in Range(readyList') <=> t \in Range(readyList) \/ t = h
      BY <2>1, <2>2, <2>5, <2>6, RangeAppend DEF Scheduling, ReadyQueue
    <3>2. \A t \in Thread : status'[t] = IF t = h THEN "READY" ELSE status[t]
      BY <2>2, <2>5 DEF TypeOK
    <3> QED BY <3>1, <3>2 DEF Scheduling, ReadyQueue
  <2>8. \A u \in Sem : queue'[u] = IF u = s THEN Tail(queue[s]) ELSE queue[u]
    BY <2>5 DEF TypeOK
  <2>9. \A u \in Sem : IsInjective(queue'[u])
    BY <2>3, <2>8 DEF Scheduling, WaitQueues
  <2>10. \A u \in Sem, t \in Thread :
           t \in Range(queue'[u]) <=> t \in Range(queue[u]) /\ (u = s => t # h)
    BY <2>3, <2>8
  <2> QED BY <2>2, <2>4, <2>5, <2>7, <2>9, <2>10
<1> QED BY <1>1, <1>2

Working == {"boot", "kernel", "user", "tick", "testing"}

(* The current thread goes on to its next place, and nothing else moves.   *)
LEMMA LocalStep ==
  ASSUME TypeOK, TypeOK', Scheduling, OnCPU \in Working,
         NEW l \in Working \ {"boot"},
         pc' = [pc EXCEPT ![currentThread] = l],
         UNCHANGED <<scheduler, queue>>,
         \A t \in Thread \ {currentThread} : waitsOn'[t] = waitsOn[t],
         l = "testing" => waitsOn'[currentThread] \in Sem
  PROVE  Scheduling'
<1> USE DEF Scheduling, Working
<1>1. /\ currentThread \in Thread /\ pc'[currentThread] = l
      /\ \A t \in Thread \ {currentThread} : pc'[t] = pc[t]
  BY DEF TypeOK
<1>2. Places'
  BY <1>1 DEF Places, OnCPU
<1>3. ReadyQueue'
  BY DEF ReadyQueue
<1>4. WaitQueues'
  BY <1>1 DEF WaitQueues, Asleep, OnCPU, Places
<1>5. CarcassSlot'
  BY <1>1 DEF CarcassSlot, OnCPU, TypeOK
<1> QED BY <1>2, <1>3, <1>4, <1>5

(* A handler or a thread wakes somebody with V.                            *)
LEMMA WakeStep ==
  ASSUME TypeOK, TypeOK', Scheduling, NEW s \in Sem, Signal(s),
         UNCHANGED <<currentThread, toBeDestroyed, waitsOn>>,
         \/ UNCHANGED pc
         \/ OnCPU = "kernel" /\ pc' = [pc EXCEPT ![currentThread] = "tick"]
  PROVE  Scheduling'
<1> USE DEF Scheduling
<1>0. /\ currentThread \in Thread
      /\ \A t \in Thread : \/ pc'[t] = pc[t]
                           \/ t = currentThread /\ OnCPU = "kernel" /\ pc'[t] = "tick"
  BY DEF TypeOK
<1>1. CASE UNCHANGED <<queue, status, readyList>>
  <2>1. Places'
    BY <1>0, <1>1 DEF Places, OnCPU
  <2>2. ReadyQueue'
    BY <1>1 DEF ReadyQueue
  <2>3. WaitQueues'
    BY <1>0, <1>1 DEF WaitQueues, Asleep, OnCPU, Places
  <2>4. CarcassSlot'
    BY <1>0 DEF CarcassSlot, OnCPU, TypeOK
  <2> QED BY <2>1, <2>2, <2>3, <2>4
<1>2. ASSUME NEW h \in Thread,
             Asleep(h, s),
             status' = [status EXCEPT ![h] = "READY"],
             ReadyQueue',
             \A u \in Sem : IsInjective(queue'[u]),
             \A u \in Sem, t \in Thread :
                   t \in Range(queue'[u]) <=> t \in Range(queue[u]) /\ (u = s => t # h)
      PROVE  Scheduling'
  <2>1. \A t \in Thread : status'[t] = IF t = h THEN "READY" ELSE status[t]
    BY <1>2 DEF TypeOK
  <2>2. Places'
    BY <1>0, <1>2, <2>1 DEF Places, Asleep, OnCPU
  <2>3. WaitQueues'
    <3>1. ASSUME NEW u \in Sem, NEW t \in Thread
          PROVE  t \in Range(queue'[u]) <=> Asleep(t, u)'
      BY <3>1, <1>0, <1>2, <2>1 DEF WaitQueues, Asleep, Places, OnCPU
    <3>2. \A t \in Thread : pc'[t] \in {"testing", "sleeping", "slept"} => waitsOn'[t] \in Sem
      BY <1>0 DEF WaitQueues
    <3> QED BY <1>2, <3>1, <3>2 DEF WaitQueues
  <2>4. CarcassSlot'
    BY <1>0 DEF CarcassSlot, OnCPU, TypeOK
  <2> QED BY <1>2, <2>2, <2>3, <2>4
<1> QED BY <1>1, <1>2, Wakeup

(* Thread::Yield, called by a thread or at the end of a tick.              *)
LEMMA YieldStep ==
  ASSUME TypeOK, TypeOK', Scheduling, readyList # <<>>,
         OnCPU \in {"kernel", "tick"},
         SwitchAway(currentThread, MarkReady(status, currentThread)),
         readyList' = ListAppend(Tail(readyList), currentThread),
         pc' = [pc EXCEPT ![currentThread] = "yielded"],
         UNCHANGED <<toBeDestroyed, queue, waitsOn>>
  PROVE  Scheduling'
<1> DEFINE next == Head(readyList)
           old == currentThread
<1> USE DEF Scheduling
<1>1. /\ next \in Thread /\ status[next] = "READY"
      /\ Tail(readyList) \in Seq(Thread) /\ IsInjective(Tail(readyList))
      /\ \A t \in Thread : t \in Range(Tail(readyList)) <=> status[t] = "READY" /\ t # next
  BY Dispatch
<1>2. old \in Thread /\ status[old] = "RUNNING" /\ next # old
  BY <1>1 DEF Places, OnCPU, TypeOK
<1>3. /\ currentThread' = next
      /\ \A t \in Thread : status'[t] = IF t = next THEN "RUNNING"
                                        ELSE IF t = old THEN "READY" ELSE status[t]
  BY <1>1, <1>2 DEF SwitchAway, MarkReady, TypeOK
<1>4. \A t \in Thread : pc'[t] = IF t = old THEN "yielded" ELSE pc[t]
  BY DEF TypeOK
<1>5. pc[next] \in {"begin", "yielded", "slept"}
  BY <1>1, <1>2 DEF Places
<1>6. /\ IsInjective(readyList')
      /\ \A t : t \in Range(readyList') <=> t \in Range(Tail(readyList)) \/ t = old
  BY <1>1, <1>2, RangeAppend DEF ListAppend
<1> HIDE DEF next
<1>7. Places'
  BY <1>1, <1>2, <1>3, <1>4, <1>5 DEF Places, OnCPU
<1>8. ReadyQueue'
  BY <1>1, <1>2, <1>3, <1>6 DEF ReadyQueue
<1>9. WaitQueues'
  BY <1>1, <1>2, <1>3, <1>4 DEF WaitQueues, Asleep
<1>10. CarcassSlot'
  BY <1>1, <1>2, <1>3, <1>4, <1>5 DEF CarcassSlot, OnCPU, TypeOK
<1> QED BY <1>7, <1>8, <1>9, <1>10

(* The tail of Run: the thread switched to deletes its predecessor's       *)
(* carcass and goes on.                                                    *)
LEMMA ResumeStep ==
  ASSUME TypeOK, TypeOK', Scheduling, NEW l \in {"tick", "testing"},
         OnCPU \in {"yielded", "slept", "begin"},
         l = "testing" => OnCPU = "slept",
         status' = CheckToBeDestroyed(status), toBeDestroyed' = NoThread,
         pc' = [Buried(pc) EXCEPT ![currentThread] = l],
         UNCHANGED <<currentThread, readyList, queue, waitsOn>>
  PROVE  Scheduling'
<1> USE NoThreadAssumption DEF Scheduling
<1>1. currentThread \in Thread /\ status[currentThread] = "RUNNING"
  BY DEF Places, OnCPU, TypeOK
<1>2. toBeDestroyed # NoThread =>
        /\ toBeDestroyed \in Thread /\ toBeDestroyed # currentThread
        /\ pc[toBeDestroyed] = "zombie" /\ status[toBeDestroyed] = "BLOCKED"
  BY DEF Places, OnCPU, TypeOK, CarcassSlot
<1>3. \A t \in Thread :
        status'[t] = IF toBeDestroyed # NoThread /\ t = toBeDestroyed THEN "DELETED" ELSE status[t]
  BY <1>2 DEF CheckToBeDestroyed, TypeOK
<1>4. \A t \in Thread :
        pc'[t] = IF t = currentThread THEN l
                 ELSE IF toBeDestroyed # NoThread /\ t = toBeDestroyed THEN "dead" ELSE pc[t]
  BY <1>2 DEF Buried, TypeOK
<1>5. Places'
  BY <1>1, <1>2, <1>3, <1>4 DEF Places
<1>6. ReadyQueue'
  BY <1>2, <1>3 DEF ReadyQueue
<1>7. WaitQueues'
  BY <1>1, <1>2, <1>3, <1>4 DEF WaitQueues, Asleep, OnCPU
<1>8. CarcassSlot'
  BY <1>1, <1>2, <1>4 DEF CarcassSlot
<1> QED BY <1>5, <1>6, <1>7, <1>8

----------------------------------------------------------------------------
(* Every step keeps the scheduling part of the invariant.                  *)
LEMMA SchedulingStep ==
  ASSUME TypeOK, Scheduling, [Next]_vars
  PROVE  Scheduling'
<1> USE DEF At, Goto, BeginTick
<1>1. TypeOK'
  BY TypeStep
<1>2. ASSUME NEW t \in Thread, NEW n \in Thread, Create(t, n) PROVE Scheduling'
  <2>1. pc[n] = "unborn" /\ status[n] = "NONE" /\ n # currentThread
    BY <1>2 DEF Create, Scheduling, Places
  <2>2. /\ \A u \in Thread : status'[u] = IF u = n THEN "JUST_CREATED" ELSE status[u]
        /\ \A u \in Thread : pc'[u] = IF u = n THEN "created" ELSE pc[u]
        /\ currentThread \in Thread
    BY <1>2 DEF Create, TypeOK
  <2>3. UNCHANGED <<currentThread, readyList, toBeDestroyed, queue, waitsOn>>
    BY <1>2 DEF Create
  <2>4. Places'
    BY <2>1, <2>2, <2>3 DEF Scheduling, Places
  <2>5. ReadyQueue'
    BY <2>1, <2>2, <2>3 DEF Scheduling, ReadyQueue
  <2>6. WaitQueues'
    BY <2>1, <2>2, <2>3 DEF Scheduling, WaitQueues, Asleep
  <2>7. CarcassSlot'
    BY <2>1, <2>2, <2>3 DEF Scheduling, CarcassSlot, OnCPU, TypeOK
  <2> QED BY <2>4, <2>5, <2>6, <2>7 DEF Scheduling
<1>3. ASSUME NEW t \in Thread, NEW n \in Thread, Fork(t, n) PROVE Scheduling'
  <2>1. /\ pc[n] = "created" /\ status[n] = "JUST_CREATED" /\ n # currentThread
        /\ t = currentThread /\ OnCPU \in {"kernel", "boot"}
    BY <1>3 DEF Fork, CanRun, OnCPU, Scheduling, Places
  <2>2. /\ \A u \in Thread : status'[u] = IF u = n THEN "READY" ELSE status[u]
        /\ \A u \in Thread :
             pc'[u] = IF u = n THEN "begin"
                      ELSE IF u = t /\ level = "IntOn" THEN "tick" ELSE pc[u]
    BY <1>3, <2>1 DEF Fork, MarkReady, TypeOK
  <2>3. UNCHANGED <<currentThread, toBeDestroyed, queue, waitsOn>>
    BY <1>3 DEF Fork
  <2>4. /\ IsInjective(readyList')
        /\ \A u : u \in Range(readyList') <=> u \in Range(readyList) \/ u = n
    <3>1. n \notin Range(readyList) /\ readyList \in Seq(Thread)
      BY <2>1 DEF Scheduling, ReadyQueue, TypeOK
    <3> QED BY <1>3, <3>1, RangeAppend DEF Fork, ListAppend, Scheduling, ReadyQueue
  <2>5. Places'
    BY <2>1, <2>2, <2>3 DEF Scheduling, Places, OnCPU
  <2>6. ReadyQueue'
    BY <2>1, <2>2, <2>4 DEF Scheduling, ReadyQueue
  <2>7. WaitQueues'
    BY <2>1, <2>2, <2>3 DEF Scheduling, WaitQueues, Asleep, OnCPU, Places
  <2>8. CarcassSlot'
    BY <2>1, <2>2, <2>3 DEF Scheduling, CarcassSlot, OnCPU, TypeOK
  <2> QED BY <2>5, <2>6, <2>7, <2>8 DEF Scheduling
<1>4. ASSUME NEW t \in Thread, Enable(t) PROVE Scheduling'
  BY <1>1, <1>4, LocalStep DEF Enable, OnCPU, Working
<1>5. ASSUME NEW t \in Thread, Yield(t) PROVE Scheduling'
  <2>1. CASE readyList = <<>>
    BY <1>1, <1>5, <2>1, LocalStep DEF Yield, OnCPU, Working
  <2>2. CASE readyList # <<>>
    BY <1>1, <1>5, <2>2, YieldStep DEF Yield, OnCPU
  <2> QED BY <2>1, <2>2
<1>6. ASSUME NEW t \in Thread, Finish(t) PROVE Scheduling'
  <2>1. t = currentThread /\ OnCPU = "kernel" /\ status[t] = "RUNNING"
    BY <1>6 DEF Finish, OnCPU, Scheduling, Places
  <2>2. /\ \A u \in Thread : status'[u] = IF u = t THEN "BLOCKED" ELSE status[u]
        /\ \A u \in Thread : pc'[u] = IF u = t THEN "finishing" ELSE pc[u]
    BY <1>6 DEF Finish, TypeOK
  <2>3. UNCHANGED <<currentThread, readyList, toBeDestroyed, queue, waitsOn>>
    BY <1>6 DEF Finish
  <2>4. Places'
    BY <2>1, <2>2, <2>3 DEF Scheduling, Places, OnCPU
  <2>5. ReadyQueue'
    BY <2>1, <2>2, <2>3 DEF Scheduling, ReadyQueue
  <2>6. WaitQueues'
    BY <2>1, <2>2, <2>3 DEF Scheduling, WaitQueues, Asleep
  <2>7. CarcassSlot'
    BY <2>1, <2>2, <2>3 DEF Scheduling, CarcassSlot, OnCPU, TypeOK
  <2> QED BY <2>4, <2>5, <2>6, <2>7 DEF Scheduling
<1>7. ASSUME NEW t \in Thread, NEW s \in Sem, P(t, s) PROVE Scheduling'
  <2>1. /\ \A u \in Thread \ {currentThread} : waitsOn'[u] = waitsOn[u]
        /\ waitsOn'[currentThread] \in Sem
    BY <1>7 DEF P, TypeOK
  <2> QED BY <1>1, <1>7, <2>1, LocalStep DEF P, OnCPU, Working
<1>8. ASSUME NEW t \in Thread, NEW s \in Sem, V(t, s) PROVE Scheduling'
  BY <1>1, <1>8, WakeStep DEF V, OnCPU
<1>9. ASSUME NEW t \in Thread, PWait(t) PROVE Scheduling'
  <2> DEFINE s == waitsOn[t]
  <2>1. t = currentThread /\ OnCPU = "testing" /\ status[t] = "RUNNING" /\ s \in Sem
    BY <1>9 DEF PWait, OnCPU, Scheduling, Places, WaitQueues
  <2>2. /\ \A u \in Thread : status'[u] = IF u = t THEN "BLOCKED" ELSE status[u]
        /\ \A u \in Thread : pc'[u] = IF u = t THEN "sleeping" ELSE pc[u]
    BY <1>9 DEF PWait, TypeOK
  <2>3. UNCHANGED <<currentThread, readyList, toBeDestroyed, waitsOn>>
    BY <1>9 DEF PWait
  <2>4. \A v \in Sem : queue'[v] = IF v = s THEN Append(queue[s], t) ELSE queue[v]
    BY <1>9, <2>1 DEF PWait, Enqueue, ListAppend, TypeOK
  <2>5. /\ IsInjective(queue'[s])
        /\ \A u : u \in Range(queue'[s]) <=> u \in Range(queue[s]) \/ u = t
    <3>1. t \notin Range(queue[s]) /\ queue[s] \in Seq(Thread) /\ IsInjective(queue[s])
      BY <2>1 DEF Scheduling, WaitQueues, Asleep, TypeOK
    <3> QED BY <2>1, <2>4, <3>1, RangeAppend
  <2>6. Places'
    BY <2>1, <2>2, <2>3 DEF Scheduling, Places, OnCPU
  <2>7. ReadyQueue'
    BY <2>1, <2>2, <2>3 DEF Scheduling, ReadyQueue
  <2>8. WaitQueues'
    BY <2>1, <2>2, <2>3, <2>4, <2>5 DEF Scheduling, WaitQueues, Asleep
  <2>9. CarcassSlot'
    BY <2>1, <2>2, <2>3 DEF Scheduling, CarcassSlot, OnCPU, TypeOK
  <2> QED BY <2>6, <2>7, <2>8, <2>9 DEF Scheduling
<1>10. ASSUME NEW t \in Thread, PTake(t) PROVE Scheduling'
  <2>1. \A u \in Thread \ {currentThread} : waitsOn'[u] = waitsOn[u]
    BY <1>10 DEF PTake, TypeOK
  <2> QED BY <1>1, <1>10, <2>1, LocalStep DEF PTake, OnCPU, Working
<1>11. ASSUME NEW t \in Thread, RunUser(t) \/ UserInstruction(t) \/ Trap(t) \/ TrapReturn(t)
       PROVE  Scheduling'
  <2>1. CASE RunUser(t)
    BY <1>1, <2>1, LocalStep DEF RunUser, OnCPU, Working
  <2>2. CASE UserInstruction(t)
    BY <1>1, <2>2, LocalStep DEF UserInstruction, OnCPU, Working
  <2>3. CASE Trap(t)
    BY <1>1, <2>3, LocalStep DEF Trap, OnCPU, Working
  <2>4. CASE TrapReturn(t)
    BY <1>1, <2>4, LocalStep DEF TrapReturn, OnCPU, Working
  <2> QED BY <1>11, <2>1, <2>2, <2>3, <2>4
<1>12. ASSUME UNCHANGED <<scheduler, queue, pc, waitsOn>> PROVE Scheduling'
  BY <1>12 DEF Scheduling, Places, ReadyQueue, WaitQueues, Asleep, CarcassSlot, OnCPU
<1>13. ASSUME NEW t \in Thread, SleepSwitch(t) PROVE Scheduling'
  <2> DEFINE next == Head(readyList)
  <2>1. /\ next \in Thread /\ status[next] = "READY"
        /\ IsInjective(Tail(readyList))
        /\ \A u \in Thread : u \in Range(Tail(readyList)) <=> status[u] = "READY" /\ u # next
    BY <1>13, Dispatch DEF SleepSwitch, Scheduling
  <2>2. /\ currentThread' = next /\ readyList' = Tail(readyList)
        /\ \A u \in Thread : status'[u] = IF u = next THEN "RUNNING" ELSE status[u]
        /\ \A u \in Thread : pc'[u] = IF u = t THEN "slept" ELSE pc[u]
    BY <1>13, <2>1 DEF SleepSwitch, SwitchAway, TypeOK
  <2>3. t = currentThread /\ OnCPU = "sleeping" /\ UNCHANGED <<toBeDestroyed, queue, waitsOn>>
    BY <1>13 DEF SleepSwitch, OnCPU
  <2> HIDE DEF next
  <2>4. Places'
    BY <2>1, <2>2, <2>3 DEF Scheduling, Places, OnCPU
  <2>5. ReadyQueue'
    BY <2>1, <2>2 DEF Scheduling, ReadyQueue
  <2>6. WaitQueues'
    BY <2>1, <2>2, <2>3 DEF Scheduling, WaitQueues, Asleep, OnCPU
  <2>7. CarcassSlot'
    BY <2>1, <2>2, <2>3 DEF Scheduling, CarcassSlot, OnCPU, TypeOK
  <2> QED BY <2>4, <2>5, <2>6, <2>7 DEF Scheduling
<1>14. ASSUME NEW t \in Thread, FinishSwitch(t) PROVE Scheduling'
  <2> DEFINE next == Head(readyList)
  <2>1. /\ next \in Thread /\ status[next] = "READY"
        /\ IsInjective(Tail(readyList))
        /\ \A u \in Thread : u \in Range(Tail(readyList)) <=> status[u] = "READY" /\ u # next
    BY <1>14, Dispatch DEF FinishSwitch, Scheduling
  <2>2. /\ currentThread' = next /\ readyList' = Tail(readyList) /\ toBeDestroyed' = t
        /\ \A u \in Thread : status'[u] = IF u = next THEN "RUNNING" ELSE status[u]
        /\ \A u \in Thread : pc'[u] = IF u = t THEN "zombie" ELSE pc[u]
    BY <1>14, <2>1 DEF FinishSwitch, SwitchAway, Carcass, TypeOK
  <2>3. t = currentThread /\ OnCPU = "finishing" /\ UNCHANGED <<queue, waitsOn>>
    BY <1>14 DEF FinishSwitch, OnCPU
  <2> HIDE DEF next
  <2>4. status[t] = "BLOCKED" /\ next # t /\ pc[next] \in {"begin", "yielded", "slept"}
    BY <2>1, <2>3 DEF Scheduling, Places, OnCPU
  <2>5. Places'
    BY <2>1, <2>2, <2>3, <2>4 DEF Scheduling, Places, OnCPU
  <2>6. ReadyQueue'
    BY <2>1, <2>2 DEF Scheduling, ReadyQueue
  <2>7. WaitQueues'
    BY <2>1, <2>2, <2>3 DEF Scheduling, WaitQueues, Asleep, OnCPU
  <2>8. CarcassSlot'
    BY NoThreadAssumption, <2>1, <2>2, <2>3, <2>4 DEF Scheduling, CarcassSlot, OnCPU, TypeOK
  <2> QED BY <2>5, <2>6, <2>7, <2>8 DEF Scheduling
<1>15. ASSUME NEW t \in Thread, ResumeYield(t) \/ ResumeSleep(t) \/ Begin(t) PROVE Scheduling'
  <2>1. CASE ResumeYield(t)
    BY <1>1, <2>1, ResumeStep DEF ResumeYield, OnCPU
  <2>2. CASE ResumeSleep(t)
    BY <1>1, <2>2, ResumeStep DEF ResumeSleep, OnCPU
  <2>3. CASE Begin(t)
    BY <1>1, <2>3, ResumeStep DEF Begin, OnCPU
  <2> QED BY <1>15, <2>1, <2>2, <2>3
<1>16. ASSUME NEW t \in Thread, TickReturn(t) PROVE Scheduling'
  <2> DEFINE l == IF home[t] = "user" THEN "user" ELSE "kernel"
  <2>1. l \in Working \ {"boot"} /\ l # "testing" /\ pc' = [pc EXCEPT ![currentThread] = l]
    BY <1>16 DEF TickReturn, Working
  <2> HIDE DEF l
  <2> QED BY <1>1, <1>16, <2>1, LocalStep DEF TickReturn, OnCPU, Working
<1>17. ASSUME NEW t \in Thread, TickYield(t) PROVE Scheduling'
  <2>1. CASE readyList = <<>>
    BY <1>12, <1>17, <2>1 DEF TickYield
  <2>2. CASE readyList # <<>>
    BY <1>1, <1>17, <2>2, YieldStep DEF TickYield, OnCPU
  <2> QED BY <2>1, <2>2
<1>18. ASSUME NEW s \in Sem, DeviceInterrupt(s) PROVE Scheduling'
  BY <1>1, <1>18, WakeStep DEF DeviceInterrupt
<1>19. ASSUME NEW t \in Thread, NestedException(t) \/ Idle(t) \/ IdleReturn(t) \/ CheckIfDue(t)
       PROVE  Scheduling'
  BY <1>12, <1>19 DEF NestedException, Idle, IdleReturn, CheckIfDue
<1>20. ASSUME TimerInterrupt PROVE Scheduling'
  BY <1>12, <1>20 DEF TimerInterrupt
<1>21. ASSUME UNCHANGED vars PROVE Scheduling'
  BY <1>12, <1>21 DEF vars
<1> QED
  BY <1>2, <1>3, <1>4, <1>5, <1>6, <1>7, <1>8, <1>9, <1>10, <1>11, <1>13, <1>14,
     <1>15, <1>16, <1>17, <1>18, <1>19, <1>20, <1>21
     DEF Next, KernelCode, UserCode, Switching, Tick, Handler

----------------------------------------------------------------------------
(* The interrupt level, the handlers and the mode.                         *)

Interrupts == LevelDiscipline /\ Modes

(* Every step keeps the discipline of the interrupt level.                 *)
LEMMA LevelStep ==
  ASSUME TypeOK, Scheduling, Interrupts, [Next]_vars
  PROVE  LevelDiscipline'
<1> USE DEF Scheduling, Interrupts, At, Goto, BeginTick, LevelDiscipline, OnCPU
<1>1. ASSUME NEW t \in Thread, KernelCode(t) PROVE LevelDiscipline'
  <2>1. ASSUME NEW n \in Thread, Create(t, n) \/ Fork(t, n) PROVE LevelDiscipline'
    BY <2>1 DEF Create, Fork, CanRun, TypeOK
  <2>2. CASE Enable(t) \/ Finish(t) \/ PWait(t) \/ PTake(t)
    BY <2>2 DEF Enable, Finish, PWait, PTake, TypeOK
  <2>3. CASE Yield(t)
    <3>1. CASE readyList = <<>>
      BY <2>3, <3>1 DEF Yield, TypeOK
    <3>2. CASE readyList # <<>>
      <4>1. Head(readyList) # t /\ pc[Head(readyList)] \in {"begin", "yielded", "slept"}
        BY <2>3, <3>2, Dispatch DEF Yield, Places, TypeOK
      <4> QED BY <2>3, <3>2, <4>1, Dispatch DEF Yield, SwitchAway, TypeOK
    <3> QED BY <3>1, <3>2
  <2>4. ASSUME NEW s \in Sem, P(t, s) \/ V(t, s) PROVE LevelDiscipline'
    BY <2>4 DEF P, V, TypeOK
  <2> QED BY <1>1, <2>1, <2>2, <2>3, <2>4 DEF KernelCode
<1>2. ASSUME NEW t \in Thread, UserCode(t) PROVE LevelDiscipline'
  BY <1>2 DEF UserCode, RunUser, UserInstruction, Trap, TrapReturn, NestedException, TypeOK
<1>3. ASSUME NEW t \in Thread, Switching(t) PROVE LevelDiscipline'
  <2>1. CASE SleepSwitch(t) \/ FinishSwitch(t)
    <3> DEFINE next == Head(readyList)
    <3>1. next \in Thread /\ status[next] = "READY" /\ currentThread' = next
      BY <2>1, Dispatch DEF SleepSwitch, FinishSwitch, SwitchAway
    <3>2. pc'[next] \in {"begin", "yielded", "slept"}
      BY <2>1, <3>1 DEF SleepSwitch, FinishSwitch, Places, TypeOK
    <3> HIDE DEF next
    <3> QED BY <2>1, <3>1, <3>2 DEF SleepSwitch, FinishSwitch, TypeOK
  <2>2. CASE Idle(t) \/ IdleReturn(t)
    BY <2>2 DEF Idle, IdleReturn, TypeOK
  <2>3. CASE ResumeYield(t) \/ ResumeSleep(t) \/ Begin(t)
    BY <2>3 DEF ResumeYield, ResumeSleep, Begin, Buried, TypeOK
  <2> QED BY <1>3, <2>1, <2>2, <2>3 DEF Switching
<1>4. ASSUME NEW t \in Thread, Tick(t) PROVE LevelDiscipline'
  <2>1. CASE CheckIfDue(t) \/ TickReturn(t)
    BY <2>1 DEF CheckIfDue, TickReturn, TypeOK
  <2>2. CASE TickYield(t)
    <3>1. CASE readyList = <<>>
      BY <2>2, <3>1 DEF TickYield, FlagServed, TypeOK
    <3>2. CASE readyList # <<>>
      <4>1. Head(readyList) # t /\ pc[Head(readyList)] \in {"begin", "yielded", "slept"}
        BY <2>2, <3>2, Dispatch DEF TickYield, Places, TypeOK
      <4> QED BY <2>2, <3>2, <4>1, Dispatch DEF TickYield, FlagServed, SwitchAway, TypeOK
    <3> QED BY <3>1, <3>2
  <2> QED BY <1>4, <2>1, <2>2 DEF Tick
<1>5. ASSUME Handler PROVE LevelDiscipline'
  <2>1. CASE TimerInterrupt
    BY <2>1 DEF TimerInterrupt, Modes, IdleExact, TypeOK
  <2>2. ASSUME NEW s \in Sem, DeviceInterrupt(s) PROVE LevelDiscipline'
    BY <2>2 DEF DeviceInterrupt
  <2> QED BY <1>5, <2>1, <2>2 DEF Handler
<1>6. ASSUME UNCHANGED vars PROVE LevelDiscipline'
  BY <1>6 DEF vars
<1> QED BY <1>1, <1>2, <1>3, <1>4, <1>5, <1>6 DEF Next

(* A frame of OneTick is pushed with the mode it will restore.             *)
LEMMA PushMode ==
  ASSUME NEW q \in Seq(Mode), NEW m \in Mode
  PROVE  /\ Append(q, m) # <<>>
         /\ Head(Append(q, m)) = IF q = <<>> THEN m ELSE Head(q)
         /\ \A i \in 1 .. Len(Append(q, m)) :
              Append(q, m)[i] = m \/ (i \in 1 .. Len(q) /\ Append(q, m)[i] = q[i])
  OBVIOUS

(* A thread that is off the CPU, or whose mode, home and frames are left   *)
(* alone, keeps its part.                                                  *)
LEMMA StackKept ==
  ASSUME TypeOK, TypeOK', Places, NEW u \in Thread, StackModes(u),
         saved'[u] = saved[u], home'[u] = home[u],
         \/ pc'[u] = pc[u] /\ (u # currentThread \/ mode' = mode)
         \/ home[u] # "user" /\ pc'[u] # "user" /\ saved[u] = <<>>
         \/ pc[u] = "yielded" /\ pc'[u] = "tick"
  PROVE  StackModes(u)'
  BY DEF StackModes, Places, RestoredMode, TypeOK

(* Every step keeps Modes.                                                 *)
LEMMA ModesStep ==
  ASSUME TypeOK, Scheduling, Interrupts, [Next]_vars
  PROVE  Modes'
<1> USE DEF At, Goto, BeginTick
<1>1. TypeOK' /\ Places /\ currentThread \in Thread
  BY TypeStep DEF Scheduling, TypeOK
<1>2. IdleExact /\ LevelDiscipline /\ \A u \in Thread : StackModes(u)
  BY DEF Interrupts, Modes
<1> SUFFICES IdleExact' /\ \A u \in Thread : StackModes(u)'
  BY DEF Modes
<1>3. readyList # <<>> => /\ Head(readyList) \in Thread /\ status[Head(readyList)] = "READY"
                         /\ pc[Head(readyList)] \in {"begin", "yielded", "slept", "sleeping"}
  BY <1>1, Dispatch DEF Scheduling, Places
<1>4. ASSUME NEW t \in Thread, KernelCode(t) PROVE IdleExact' /\ \A u \in Thread : StackModes(u)'
  <2> USE DEF KernelCode, Create, Fork, CanRun, Enable, Yield, Finish, P, V, PWait, PTake, SwitchAway
  <2>1. mode' = mode /\ saved' = saved /\ home' = home /\ inHandler' = inHandler
    BY <1>4
  <2>2. pc[t] \in {"kernel", "boot", "testing"} /\ t = currentThread
    BY <1>4
  <2>3. \A u \in Thread : pc'[u] = pc[u] \/ (pc[u] \in {"unborn", "created", "kernel", "boot", "testing"}
                                             /\ pc'[u] # "user")
    BY <1>4, <2>2 DEF TypeOK
  <2>4. ~inHandler /\ mode # "IdleMode"
    BY <1>2, <2>2 DEF IdleExact, LevelDiscipline, OnCPU
  <2>5. \A u \in Thread : StackModes(u)'
    BY <1>1, <1>2, <2>1, <2>3, StackKept DEF StackModes
  <2> QED BY <2>1, <2>4, <2>5 DEF IdleExact
<1>5. ASSUME NEW t \in Thread, UserCode(t) PROVE IdleExact' /\ \A u \in Thread : StackModes(u)'
  <2> USE DEF UserCode, RunUser, UserInstruction, Trap, TrapReturn, NestedException
  <2>1. /\ t = currentThread /\ pc[t] \in {"user", "kernel"} /\ mode' # "IdleMode"
        /\ inHandler' = inHandler /\ saved' = saved /\ currentThread' = t
    BY <1>5, <1>2 DEF IdleExact, OnCPU
  <2>2. \A u \in Thread : u # t => pc'[u] = pc[u] /\ home'[u] = home[u]
    BY <1>5 DEF TypeOK
  <2>3. ~inHandler
    BY <1>2, <2>1 DEF LevelDiscipline, OnCPU
  <2>4. \A u \in Thread \ {t} : StackModes(u)'
    BY <1>1, <1>2, <2>1, <2>2, StackKept
  <2>5. StackModes(t)'
    <3>1. StackModes(t)
      BY <1>2
    <3>2. saved[t] # <<>> => Head(saved[t]) \in Mode
      BY DEF TypeOK
    <3>3. CASE RunUser(t)
      BY <3>1, <3>3 DEF StackModes, TypeOK
    <3>4. CASE UserInstruction(t)
      BY <3>1, <3>4 DEF StackModes, RestoredMode, TypeOK
    <3>5. CASE Trap(t)
      BY <3>1, <3>5 DEF StackModes, TypeOK
    <3>6. CASE TrapReturn(t)
      BY <3>1, <3>6 DEF StackModes, RestoredMode, TypeOK
    <3>7. CASE NestedException(t)
      BY <3>1, <3>7 DEF StackModes, TypeOK
    <3> QED BY <1>5, <3>3, <3>4, <3>5, <3>6, <3>7
  <2> QED BY <2>1, <2>3, <2>4, <2>5 DEF IdleExact
<1>6. ASSUME NEW t \in Thread, Switching(t) PROVE IdleExact' /\ \A u \in Thread : StackModes(u)'
  <2>1. CASE SleepSwitch(t) \/ FinishSwitch(t)
    <3> USE DEF SleepSwitch, FinishSwitch, SwitchAway
    <3>1. UNCHANGED <<mode, inHandler, saved, home>> /\ ~inHandler
      BY <2>1
    <3>2. \A u \in Thread :
            \/ pc'[u] = pc[u]
            \/ pc[u] \in {"sleeping", "finishing"} /\ pc'[u] \in {"slept", "zombie"}
      BY <2>1 DEF TypeOK
    <3>3. \A u \in Thread : StackModes(u)'
      BY <1>1, <1>2, <3>1, <3>2, StackKept DEF StackModes
    <3> QED BY <1>2, <3>1, <3>3 DEF IdleExact
  <2>2. CASE Idle(t) \/ IdleReturn(t)
    <3> USE DEF Idle, IdleReturn
    <3>1. UNCHANGED <<saved, home, pc, currentThread>> /\ pc[t] \in {"sleeping", "finishing"}
          /\ t = currentThread
      BY <2>2
    <3>2. \A u \in Thread : StackModes(u)'
      BY <1>1, <1>2, <3>1, StackKept DEF StackModes
    <3> QED BY <2>2, <3>1, <3>2 DEF IdleExact, OnCPU
  <2>3. CASE ResumeYield(t) \/ ResumeSleep(t) \/ Begin(t)
    <3> USE DEF ResumeYield, ResumeSleep, Begin
    <3>1. /\ UNCHANGED <<mode, inHandler, saved, home, currentThread>> /\ t = currentThread
          /\ pc[t] \in {"yielded", "slept", "begin"} /\ pc'[t] \in {"tick", "testing"}
          /\ pc[t] = "yielded" => pc'[t] = "tick"
      BY <2>3, <1>1 DEF Buried, TypeOK
    <3>2. \A u \in Thread :
            \/ pc'[u] = pc[u]
            \/ pc[u] = "yielded" /\ pc'[u] = "tick"
            \/ pc[u] \in {"slept", "begin", "zombie"} /\ pc'[u] \in {"tick", "testing", "dead"}
      <4>1. \A u \in Thread : u # t => pc'[u] = Buried(pc)[u]
        BY <2>3 DEF Buried, TypeOK
      <4>2. \A u \in Thread : Buried(pc)[u] = pc[u] \/ (pc[u] = "zombie" /\ Buried(pc)[u] = "dead")
        BY DEF Buried, TypeOK, CarcassSlot, Scheduling
      <4> QED BY <3>1, <4>1, <4>2
    <3>3. \A u \in Thread : StackModes(u)'
      BY <1>1, <1>2, <3>1, <3>2, StackKept DEF StackModes
    <3>4. ~inHandler /\ mode # "IdleMode"
      BY <1>2, <3>1 DEF IdleExact, LevelDiscipline, OnCPU
    <3> QED BY <3>1, <3>3, <3>4 DEF IdleExact
  <2> QED BY <1>6, <2>1, <2>2, <2>3 DEF Switching
<1>7. ASSUME NEW t \in Thread, Tick(t) PROVE IdleExact' /\ \A u \in Thread : StackModes(u)'
  <2>1. CASE CheckIfDue(t)
    <3>1. UNCHANGED <<mode, saved, home, pc, currentThread>> /\ pc[currentThread] = "tick"
      BY <2>1 DEF CheckIfDue
    <3>2. \A u \in Thread : StackModes(u)'
      BY <1>1, <1>2, <3>1, StackKept
    <3> QED BY <1>2, <3>1, <3>2 DEF IdleExact, OnCPU
  <2>2. CASE TickReturn(t)
    <3>1. /\ t = currentThread /\ pc[t] = "tick" /\ ~inHandler' /\ UNCHANGED <<home, currentThread>>
          /\ pc'[t] = IF home[t] = "user" THEN "user" ELSE "kernel"
          /\ \A u \in Thread \ {t} : pc'[u] = pc[u] /\ saved'[u] = saved[u]
          /\ saved'[t] = <<>> /\ mode' = RestoredMode(t)
      BY <2>2 DEF TickReturn, TypeOK
    <3>2. mode' # "IdleMode"
      <4>1. CASE saved[t] = <<>>
        BY <1>2, <3>1, <4>1 DEF RestoredMode, IdleExact, OnCPU
      <4>2. CASE saved[t] # <<>>
        <5>1. Head(saved[t]) = saved[t][1] /\ 1 \in 1 .. Len(saved[t])
          BY <4>2, <3>1, <1>1 DEF TypeOK
        <5> QED BY <1>1, <1>2, <3>1, <4>2, <5>1 DEF RestoredMode, StackModes
      <4> QED BY <4>1, <4>2
    <3>3. \A u \in Thread \ {t} : StackModes(u)'
      BY <1>1, <1>2, <3>1, StackKept
    <3>4. StackModes(t)'
      BY <1>1, <1>2, <3>1 DEF StackModes
    <3> QED BY <3>1, <3>2, <3>3, <3>4 DEF IdleExact
  <2>3. CASE TickYield(t)
    <3>1. /\ t = currentThread /\ pc[t] = "tick" /\ ~inHandler' /\ home' = home
          /\ mode' = "SystemMode" /\ pc'[t] \in {"tick", "yielded"}
          /\ \A u \in Thread \ {t} : pc'[u] = pc[u] /\ saved'[u] = saved[u]
          /\ saved'[t] = Append(saved[t], mode)
      BY <2>3 DEF TickYield, SwitchAway, YieldMode, TypeOK
    <3>2. \A u \in Thread \ {t} : StackModes(u)'
      BY <1>1, <1>2, <3>1, StackKept
    <3>3. StackModes(t)'
      <4>1. saved[t] \in Seq(Mode) /\ mode \in Mode /\ mode # "IdleMode"
        BY <1>1, <1>2, <3>1 DEF TypeOK, IdleExact, OnCPU
      <4>2. /\ saved'[t] # <<>>
            /\ Head(saved'[t]) = RestoredMode(t)
            /\ \A i \in 1 .. Len(saved'[t]) : saved'[t][i] # "IdleMode"
        BY <1>2, <3>1, <4>1, PushMode DEF StackModes, RestoredMode
      <4>3. RestoredMode(t)' = Head(saved'[t])
        BY <4>2 DEF RestoredMode
      <4> QED BY <1>2, <3>1, <4>2, <4>3 DEF StackModes
    <3> QED BY <3>1, <3>2, <3>3 DEF IdleExact
  <2> QED BY <1>7, <2>1, <2>2, <2>3 DEF Tick
<1>8. ASSUME \/ Handler
             \/ UNCHANGED vars
      PROVE  IdleExact' /\ \A u \in Thread : StackModes(u)'
  <2>1. UNCHANGED <<mode, inHandler, saved, home, pc, currentThread>>
    BY <1>8 DEF Handler, TimerInterrupt, DeviceInterrupt, vars
  <2>2. \A u \in Thread : StackModes(u)'
    BY <1>1, <1>2, <2>1, StackKept
  <2> QED BY <1>2, <2>1, <2>2 DEF IdleExact, OnCPU
<1> QED BY <1>4, <1>5, <1>6, <1>7, <1>8 DEF Next

----------------------------------------------------------------------------
(* The invariant and what follows from it.                                 *)

(* The invariant holds when Kernel::Initialize starts.                     *)
LEMMA InvariantInit == Init => IInv
<1> SUFFICES ASSUME Init PROVE IInv
  OBVIOUS
<1>1. TypeOK
  BY TypeInit
<1>2. Places /\ CarcassSlot /\ LevelDiscipline /\ Modes
  BY MainAssumption, NoThreadAssumption
     DEF Init, Places, CarcassSlot, LevelDiscipline, Modes, IdleExact, StackModes, OnCPU
<1>3. IsInjective(<<>>) /\ \A y : y \notin Range(<<>>)
  BY DEF IsInjective, Range
<1>4. ReadyQueue /\ WaitQueues
  BY <1>3 DEF Init, ReadyQueue, WaitQueues, Asleep
<1> QED BY <1>1, <1>2, <1>4 DEF IInv

(* Every step keeps it.                                                    *)
LEMMA InvariantStep == IInv /\ [Next]_vars => IInv'
<1> SUFFICES ASSUME IInv, [Next]_vars PROVE IInv'
  OBVIOUS
<1>1. TypeOK /\ Scheduling /\ Interrupts
  BY DEF IInv, Scheduling, Interrupts
<1>2. TypeOK' /\ Scheduling' /\ LevelDiscipline' /\ Modes'
  BY <1>1, TypeStep, SchedulingStep, LevelStep, ModesStep
<1> QED BY <1>2 DEF IInv, Scheduling

(* So it always holds.                                                     *)
LEMMA Invariant == Spec => []IInv
  BY InvariantInit, InvariantStep, PTL DEF Spec

(* One thread runs and it is currentThread, and the ready list holds       *)
(* exactly the READY threads, each once: List::Append's ASSERT never fails *)
(* and no thread is dispatched twice.                                      *)
THEOREM SchedulerIsConsistent == Spec => []SchedulerConsistent
<1>1. IInv => SchedulerConsistent
  <2> SUFFICES ASSUME IInv PROVE SchedulerConsistent
    OBVIOUS
  <2> USE DEF IInv, Places, ReadyQueue
  <2>1. readyList \in Seq(Thread) /\ currentThread \in Thread
    BY DEF TypeOK
  <2>2. Range(readyList) \subseteq Thread
    BY <2>1 DEF Range
  <2>3. Range(readyList) = {t \in Thread : status[t] = "READY"}
    BY <2>2
  <2> QED BY <2>1, <2>3 DEF SchedulerConsistent, OnCPU
<1> QED BY <1>1, Invariant, PTL

(* No blocked thread is forgotten: it is finishing, or queued exactly once *)
(* on the semaphore it called P of, where a V finds it.                    *)
THEOREM NobodyIsForgotten == Spec => []NobodyForgotten
<1>1. IInv => NobodyForgotten
  <2> SUFFICES ASSUME IInv PROVE NobodyForgotten
    OBVIOUS
  <2> USE DEF IInv, Places, WaitQueues, Asleep, Waiting
  <2>1. \A s \in Sem : Range(queue[s]) \subseteq Thread
    <3>1. \A s \in Sem : queue[s] \in Seq(Thread)
      BY DEF TypeOK
    <3> QED BY <3>1 DEF Range
  <2> QED BY <2>1 DEF NobodyForgotten
<1> QED BY <1>1, Invariant, PTL

(* The ASSERT of Scheduler::Run holds: the slot for a carcass is free when *)
(* a thread finishes.                                                      *)
THEOREM FinishSlotIsFree == Spec => []FinishSlotFree
<1>1. IInv => FinishSlotFree
  BY DEF IInv, CarcassSlot, FinishSlotFree
<1> QED BY <1>1, Invariant, PTL

(* A carcass is never the running thread (the ASSERT of Thread::~Thread),  *)
(* nor in any queue, and the thread that was switched to deletes it before *)
(* it does anything else.                                                  *)
THEOREM CarcassIsSafe == Spec => []CarcassSafe
<1>1. IInv => CarcassSafe
  BY DEF IInv, Places, ReadyQueue, WaitQueues, Asleep, Waiting, CarcassSlot, CarcassSafe,
         OnCPU, TypeOK
<1> QED BY <1>1, Invariant, PTL

(* Interrupts are on exactly in ordinary code, and a request to yield dies *)
(* with the tick whose handler made it.                                    *)
THEOREM LevelIsDisciplined == Spec => []LevelDiscipline
<1>1. IInv => LevelDiscipline
  BY DEF IInv
<1> QED BY <1>1, Invariant, PTL

(* A user program resumes in user mode whatever ran in between, and        *)
(* IdleMode means the idle loop.                                           *)
THEOREM UserAndIdleModeAreExact == Spec => []UserAndIdleModeExact
<1>1. IInv => UserAndIdleModeExact
  BY DEF IInv, Modes, IdleExact, StackModes, UserAndIdleModeExact, OnCPU, TypeOK
<1> QED BY <1>1, Invariant, PTL

(* A finished thread is deleted once, by the thread that runs next.        *)
THEOREM CarcassIsHandled == Spec => []CarcassHandled
<1> QED BY FinishSlotIsFree, CarcassIsSafe, PTL DEF CarcassHandled

(* Interrupt level, mode and the request to yield are always what the code *)
(* that runs expects.                                                      *)
THEOREM MachineIsDisciplined == Spec => []MachineDisciplined
<1> QED BY LevelIsDisciplined, UserAndIdleModeAreExact, PTL DEF MachineDisciplined

-----------------------------------------------------------------------------
(* The semaphores of the kernel, run on its threads, ready list and        *)
(* interrupt level, implement the abstract ones.                           *)
InsideP == {"testing", "sleeping", "slept"}

(* Steps that neither enter nor leave P are stutters of the semaphores.    *)
LEMMA Stutter ==
  ASSUME UNCHANGED <<value, queue, waitsOn>>,
         \A t \in Thread : pc'[t] \in InsideP <=> pc[t] \in InsideP
  PROVE  UNCHANGED Abstract!semVars
<1>1. \A s \in Sem : Testers(s)' = Testers(s)
  BY DEF Testers, Waiting, InsideP
<1> QED BY <1>1 DEF Abstract!semVars

(* A waiting thread is not a tester, and a tester is not waiting.          *)
LEMMA InsideOnce ==
  ASSUME TypeOK, Scheduling, NEW t \in Thread, Abstract!Inside(t)
  PROVE  pc[t] \in InsideP
<1>1. PICK s \in Sem : t \in Testers(s) \cup Range(queue[s])
  BY DEF Abstract!Inside, Abstract!Range, Range
<1> QED BY <1>1 DEF Testers, InsideP, Scheduling, WaitQueues, Asleep

(* The body of V is the abstract V, whatever place the caller goes to.     *)
LEMMA SignalIsV ==
  ASSUME TypeOK, Scheduling, NEW s \in Sem, Signal(s),
         UNCHANGED waitsOn,
         \A t \in Thread : pc'[t] \in InsideP <=> pc[t] \in InsideP
  PROVE  Abstract!CallV(s)
<1> USE DEF Scheduling
<1>1. value[s] < MaxValue /\ value' = [value EXCEPT ![s] = @ + 1]
  BY DEF Signal
<1>2. CASE queue[s] = <<>>
  <2>1. queue' = queue
    BY <1>2 DEF Signal
  <2>2. \A u \in Sem : Testers(u)' = Testers(u)
    BY <2>1 DEF Testers, Waiting, InsideP
  <2> QED BY <1>1, <1>2, <2>1, <2>2 DEF Abstract!CallV
<1>3. CASE queue[s] # <<>>
  <2> DEFINE h == Head(queue[s])
  <2>1. queue[s] \in Seq(Thread) /\ IsInjective(queue[s])
    BY DEF TypeOK, WaitQueues
  <2>2. h \in Thread
    BY <1>3, <2>1
  <2>3. /\ h \in Range(queue[s])
        /\ \A y : y \in Range(Tail(queue[s])) <=> y \in Range(queue[s]) /\ y # h
    BY <1>3, <2>1, RangeTail
  <2>4. queue' = [queue EXCEPT ![s] = Tail(@)]
    BY <1>3 DEF Signal
  <2>5. \A u \in Sem : queue'[u] = IF u = s THEN Tail(queue[s]) ELSE queue[u]
    BY <2>4 DEF TypeOK
  <2>6. waitsOn[h] = s /\ pc[h] \in InsideP
    BY <2>2, <2>3 DEF WaitQueues, Asleep, InsideP
  <2> HIDE DEF h
  <2>7. \A u \in Sem : Testers(u)' = IF u = s THEN Testers(s) \cup {h} ELSE Testers(u)
    BY <2>2, <2>3, <2>5, <2>6 DEF Testers, Waiting, InsideP
  <2>8. [u \in Sem |-> Testers(u)]' = [[u \in Sem |-> Testers(u)] EXCEPT ![s] = @ \cup {h}]
    BY <2>7
  <2> QED BY <1>1, <1>3, <2>4, <2>8 DEF Abstract!CallV, h
<1> QED BY <1>2, <1>3

(* The initial states are initial states of the semaphores.                *)
LEMMA RefinementInit == Init => Abstract!SemInit
<1> SUFFICES ASSUME Init PROVE Abstract!SemInit
  OBVIOUS
<1>1. \A s \in Sem : Testers(s) = {}
  BY DEF Init, Testers
<1> QED BY <1>1 DEF Init, Abstract!SemInit

(* Every step is a step of the semaphores or leaves them alone.            *)
LEMMA RefinementStep ==
  ASSUME TypeOK, Scheduling, [Next]_vars
  PROVE  [Abstract!SemNext]_(Abstract!semVars)
<1> USE DEF At, Goto, BeginTick
<1> DEFINE bar == [s \in Sem |-> Testers(s)]
<1>1. ASSUME NEW t \in Thread, NEW s \in Sem, P(t, s) PROVE Abstract!SemNext
  <2>1. pc[t] \notin InsideP /\ UNCHANGED <<value, queue>>
    BY <1>1 DEF P, InsideP
  <2>2. ~Abstract!Inside(t)
    BY <2>1, InsideOnce
  <2>3. /\ \A u \in Thread : pc'[u] = IF u = t THEN "testing" ELSE pc[u]
        /\ \A u \in Thread : waitsOn'[u] = IF u = t THEN s ELSE waitsOn[u]
    BY <1>1 DEF P, TypeOK
  <2>4. \A u \in Sem : t \notin Range(queue[u])
    BY <2>1 DEF InsideP, Scheduling, WaitQueues, Asleep
  <2>5. \A u \in Sem : Testers(u)' = IF u = s THEN Testers(s) \cup {t} ELSE Testers(u)
    BY <2>1, <2>3, <2>4 DEF Testers, Waiting, InsideP
  <2>6. bar' = [bar EXCEPT ![s] = @ \cup {t}]
    BY <2>5
  <2>7. Abstract!CallP(t, s)
    BY <2>1, <2>2, <2>6 DEF Abstract!CallP
  <2> QED BY <2>7 DEF Abstract!SemNext
<1>2. ASSUME NEW t \in Thread, PWait(t) PROVE Abstract!SemNext
  <2> DEFINE s == waitsOn[t]
  <2>1. pc[t] = "testing" /\ status[t] = "RUNNING" /\ s \in Sem
    BY <1>2 DEF PWait, Scheduling, Places, WaitQueues
  <2>2. value[s] = 0 /\ UNCHANGED <<value, waitsOn>>
    BY <1>2, <2>1 DEF PWait, Available, TypeOK
  <2>3. queue' = [queue EXCEPT ![s] = Append(@, t)]
    BY <1>2 DEF PWait, Enqueue, ListAppend
  <2>4. /\ \A u \in Sem : queue'[u] = IF u = s THEN Append(queue[s], t) ELSE queue[u]
        /\ \A u \in Thread : pc'[u] = IF u = t THEN "sleeping" ELSE pc[u]
    BY <1>2, <2>1, <2>3 DEF PWait, TypeOK
  <2>5. t \notin Range(queue[s]) /\ queue[s] \in Seq(Thread) /\ IsInjective(queue[s])
    BY <2>1 DEF Scheduling, WaitQueues, Asleep, TypeOK
  <2>6. \A y : y \in Range(queue'[s]) <=> y \in Range(queue[s]) \/ y = t
    BY <2>1, <2>4, <2>5, RangeAppend
  <2> HIDE DEF s
  <2>7. \A u \in Sem : Testers(u)' = IF u = s THEN Testers(s) \ {t} ELSE Testers(u)
    BY <2>1, <2>2, <2>4, <2>6 DEF Testers, Waiting, s
  <2>8. bar' = [bar EXCEPT ![s] = @ \ {t}]
    BY <2>7
  <2>9. t \in bar[s]
    BY <2>1, <2>5 DEF Testers, Waiting, s
  <2>10. Abstract!Block(t, s)
    BY <2>1, <2>2, <2>3, <2>8, <2>9 DEF Abstract!Block
  <2> QED BY <2>1, <2>10 DEF Abstract!SemNext
<1>3. ASSUME NEW t \in Thread, PTake(t) PROVE Abstract!SemNext
  <2> DEFINE s == waitsOn[t]
  <2>1. pc[t] = "testing" /\ status[t] = "RUNNING" /\ s \in Sem
    BY <1>3 DEF PTake, Scheduling, Places, WaitQueues
  <2>2. value[s] > 0 /\ value' = [value EXCEPT ![s] = @ - 1] /\ UNCHANGED queue
    BY <1>3 DEF PTake, Available
  <2>3. /\ \A u \in Thread : pc'[u] = IF u = t THEN "tick" ELSE pc[u]
        /\ \A u \in Thread : u # t => waitsOn'[u] = waitsOn[u]
    BY <1>3 DEF PTake, TypeOK
  <2>4. t \notin Range(queue[s])
    BY <2>1 DEF Scheduling, WaitQueues, Asleep
  <2> HIDE DEF s
  <2>5. \A u \in Sem : Testers(u)' = IF u = s THEN Testers(s) \ {t} ELSE Testers(u)
    BY <2>1, <2>2, <2>3 DEF Testers, Waiting, s
  <2>6. bar' = [bar EXCEPT ![s] = @ \ {t}]
    BY <2>5
  <2>7. t \in bar[s]
    BY <2>1, <2>4 DEF Testers, Waiting, s
  <2>8. Abstract!Take(t, s)
    BY <2>2, <2>6, <2>7 DEF Abstract!Take
  <2> QED BY <2>1, <2>8 DEF Abstract!SemNext
<1>4. ASSUME NEW t \in Thread, NEW s \in Sem, V(t, s) PROVE Abstract!SemNext
  <2>1. Signal(s) /\ UNCHANGED waitsOn
    BY <1>4 DEF V
  <2>2. \A u \in Thread : pc'[u] \in InsideP <=> pc[u] \in InsideP
    BY <1>4 DEF V, InsideP, TypeOK
  <2>3. Abstract!CallV(s)
    BY <2>1, <2>2, SignalIsV
  <2> QED BY <2>3 DEF Abstract!SemNext
<1>5. ASSUME NEW s \in Sem, DeviceInterrupt(s) PROVE Abstract!SemNext
  <2>1. Abstract!CallV(s)
    BY <1>5, SignalIsV DEF DeviceInterrupt
  <2> QED BY <2>1 DEF Abstract!SemNext
<1>6. ASSUME NEW t \in Thread,
             \/ \E n \in Thread : Create(t, n) \/ Fork(t, n)
             \/ Enable(t) \/ Yield(t) \/ Finish(t)
      PROVE  UNCHANGED Abstract!semVars
  <2>1. UNCHANGED <<value, queue, waitsOn>>
    BY <1>6 DEF Create, Fork, Enable, Yield, Finish
  <2>2. \A u \in Thread : pc'[u] \in InsideP <=> pc[u] \in InsideP
    BY <1>6 DEF Create, Fork, Enable, Yield, Finish, CanRun, InsideP, TypeOK
  <2> QED BY <2>1, <2>2, Stutter
<1>7. ASSUME NEW t \in Thread, UserCode(t) PROVE UNCHANGED Abstract!semVars
  <2> USE DEF UserCode, RunUser, UserInstruction, Trap, TrapReturn, NestedException
  <2>1. UNCHANGED <<value, queue, waitsOn>>
    BY <1>7
  <2>2. \A u \in Thread : pc'[u] \in InsideP <=> pc[u] \in InsideP
    BY <1>7 DEF InsideP, TypeOK
  <2> QED BY <2>1, <2>2, Stutter
<1>8. ASSUME NEW t \in Thread, Switching(t) PROVE UNCHANGED Abstract!semVars
  <2> USE DEF Switching, SleepSwitch, FinishSwitch, Idle, IdleReturn, ResumeYield,
              ResumeSleep, Begin
  <2>1. UNCHANGED <<value, queue, waitsOn>>
    BY <1>8
  <2>2. \A u \in Thread : Buried(pc)[u] = pc[u] \/ (pc[u] = "zombie" /\ Buried(pc)[u] = "dead")
    BY DEF Buried, TypeOK, CarcassSlot, Scheduling
  <2>3. Buried(pc) \in [Thread -> Label]
    BY DEF Buried, TypeOK, Label
  <2>4. \A u \in Thread : pc'[u] \in InsideP <=> pc[u] \in InsideP
    <3>1. CASE SleepSwitch(t) \/ FinishSwitch(t) \/ Idle(t) \/ IdleReturn(t)
      BY <3>1 DEF InsideP, TypeOK
    <3>2. CASE ResumeYield(t) \/ ResumeSleep(t) \/ Begin(t)
      BY <2>2, <2>3, <3>2 DEF InsideP
    <3> QED BY <1>8, <3>1, <3>2
  <2> QED BY <2>1, <2>4, Stutter
<1>9. ASSUME NEW t \in Thread, Tick(t) PROVE UNCHANGED Abstract!semVars
  <2> USE DEF Tick, CheckIfDue, TickReturn, TickYield
  <2>1. UNCHANGED <<value, queue, waitsOn>>
    BY <1>9
  <2>2. \A u \in Thread : pc'[u] \in InsideP <=> pc[u] \in InsideP
    BY <1>9 DEF InsideP, TypeOK
  <2> QED BY <2>1, <2>2, Stutter
<1>10. ASSUME TimerInterrupt \/ UNCHANGED vars PROVE UNCHANGED Abstract!semVars
  BY <1>10, Stutter DEF TimerInterrupt, vars
<1> QED
  BY <1>1, <1>2, <1>3, <1>4, <1>5, <1>6, <1>7, <1>8, <1>9, <1>10
     DEF Next, KernelCode, Handler

(* Whatever the users of the kernel's semaphores see is a behaviour of the *)
(* abstract semaphores.                                                    *)
THEOREM SemaphoresImplemented == Spec => ImplementsSemaphores
<1>1. IInv => TypeOK /\ Scheduling
  BY DEF IInv, Scheduling
<1> QED BY <1>1, RefinementInit, RefinementStep, Invariant, PTL
        DEF Spec, ImplementsSemaphores, Abstract!SemSpec

----------------------------------------------------------------------------
(* The step of the wakeup property follows from the abstract one.          *)
LEMMA WakeupStep ==
  ASSUME IsFiniteSet(Thread), TypeOK, TypeOK', Scheduling, NoLostWakeup,
         [Abstract!SemNext]_(Abstract!semVars)
  PROVE  NoLostWakeup'
<1> DEFINE bar == [s \in Sem |-> Testers(s)]
<1>1. /\ \A s \in Sem : bar[s] = Testers(s) /\ bar'[s] = Testers(s)'
      /\ \A s \in Sem : IsFiniteSet(Testers(s)) /\ Cardinality(Testers(s)) \in Nat
  <2>1. \A s \in Sem : Testers(s) \in SUBSET Thread
    BY DEF Testers
  <2> QED BY <2>1, FS_Subset, FS_CardinalityType
<1>2. /\ value \in [Sem -> Nat] /\ value' \in [Sem -> Nat]
      /\ queue \in [Sem -> Seq(Thread)]
  BY DEF TypeOK
<1>3. CASE UNCHANGED Abstract!semVars
  <2>1. UNCHANGED <<value, queue>> /\ bar' = bar
    BY <1>3 DEF Abstract!semVars
  <2>2. \A s \in Sem : Testers(s)' = Testers(s)
    BY <1>1, <2>1
  <2> QED BY <2>1, <2>2 DEF NoLostWakeup
<1>4. ASSUME NEW s \in Sem, NEW t \in Thread, Abstract!CallP(t, s) PROVE NoLostWakeup'
  <2>1. UNCHANGED <<value, queue>> /\ bar' = [bar EXCEPT ![s] = @ \cup {t}]
    BY <1>4 DEF Abstract!CallP
  <2>2. \A u \in Sem : Testers(u)' = IF u = s THEN Testers(s) \cup {t} ELSE Testers(u)
    BY <1>1, <2>1
  <2>3. Cardinality(Testers(s)) =< Cardinality(Testers(s) \cup {t})
        /\ Cardinality(Testers(s) \cup {t}) \in Nat
    <3> DEFINE T == Testers(s)
    <3>1. IsFiniteSet(T) /\ Cardinality(T) \in Nat
      BY <1>1
    <3> HIDE DEF T, bar
    <3>2. Cardinality(T \cup {t}) = IF t \in T THEN Cardinality(T) ELSE Cardinality(T) + 1
      BY <3>1, FS_AddElement
    <3> QED BY <3>1, <3>2 DEF T
  <2> HIDE DEF bar
  <2> QED
    <3> SUFFICES ASSUME NEW u \in Sem, queue'[u] # <<>>
                 PROVE  value'[u] =< Cardinality(Testers(u)')
      BY DEF NoLostWakeup
    <3>1. value[u] =< Cardinality(Testers(u)) /\ value[u] \in Nat
      BY <1>2, <2>1 DEF NoLostWakeup
    <3>2. CASE u = s
      <4>1. Testers(u)' = Testers(s) \cup {t} /\ value'[u] = value[s]
        BY <2>1, <2>2, <3>2
      <4>2. value[s] =< Cardinality(Testers(s)) /\ value[s] \in Nat
            /\ Cardinality(Testers(s)) \in Nat
        BY <1>1, <3>1, <3>2
      <4> QED BY <2>3, <4>1, <4>2
    <3>3. CASE u # s
      BY <2>1, <2>2, <3>1, <3>3
    <3> QED BY <3>2, <3>3
<1>5. ASSUME NEW s \in Sem, NEW t \in Thread, Abstract!Block(t, s) PROVE NoLostWakeup'
  <2>1. /\ value[s] = 0 /\ UNCHANGED value /\ bar' = [bar EXCEPT ![s] = @ \ {t}]
        /\ queue' = [queue EXCEPT ![s] = Append(@, t)]
    BY <1>5 DEF Abstract!Block
  <2>2. \A u \in Sem : u # s => Testers(u)' = Testers(u) /\ queue'[u] = queue[u]
    BY <1>1, <1>2, <2>1
  <2>3. Testers(s)' = Testers(s) \ {t}
    BY <1>1, <2>1
  <2>4. Cardinality(Testers(s)') \in Nat
    BY <1>1, <2>3, FS_RemoveElement, FS_CardinalityType
  <2> HIDE DEF bar
  <2> QED BY <1>2, <2>1, <2>2, <2>4 DEF NoLostWakeup
<1>6. ASSUME NEW s \in Sem, NEW t \in Thread, Abstract!Take(t, s) PROVE NoLostWakeup'
  <2>1. /\ t \in bar[s] /\ value[s] > 0 /\ value' = [value EXCEPT ![s] = @ - 1]
        /\ UNCHANGED queue /\ bar' = [bar EXCEPT ![s] = @ \ {t}]
    BY <1>6 DEF Abstract!Take
  <2>2. \A u \in Sem : u # s => Testers(u)' = Testers(u) /\ value'[u] = value[u]
    BY <1>1, <1>2, <2>1
  <2>3. Testers(s)' = Testers(s) \ {t} /\ t \in Testers(s)
    BY <1>1, <2>1
  <2>4. Cardinality(Testers(s)') = Cardinality(Testers(s)) - 1
    BY <1>1, <2>3, FS_RemoveElement
  <2>5. value'[s] = value[s] - 1 /\ value[s] \in Nat /\ Cardinality(Testers(s)) \in Nat
    BY <1>1, <1>2, <2>1
  <2> HIDE DEF bar
  <2> QED
    <3> SUFFICES ASSUME NEW u \in Sem, queue'[u] # <<>>
                 PROVE  value'[u] =< Cardinality(Testers(u)')
      BY DEF NoLostWakeup
    <3>1. value[u] =< Cardinality(Testers(u))
      BY <2>1 DEF NoLostWakeup
    <3> QED BY <2>2, <2>4, <2>5, <3>1
<1>7. ASSUME NEW s \in Sem, Abstract!CallV(s) PROVE NoLostWakeup'
  <2>1. value' = [value EXCEPT ![s] = @ + 1]
    BY <1>7 DEF Abstract!CallV
  <2>2. CASE queue[s] = <<>>
    <3>1. queue' = queue /\ bar' = bar
      BY <1>7, <2>2 DEF Abstract!CallV
    <3>2. \A u \in Sem : Testers(u)' = Testers(u)
      BY <1>1, <3>1
    <3> QED BY <1>2, <2>1, <2>2, <3>1, <3>2 DEF NoLostWakeup
  <2>3. CASE queue[s] # <<>>
    <3> DEFINE h == Head(queue[s])
    <3>1. queue' = [queue EXCEPT ![s] = Tail(@)] /\ bar' = [bar EXCEPT ![s] = @ \cup {h}]
      BY <1>7, <2>3 DEF Abstract!CallV
    <3>2. h \in Range(queue[s])
      BY <1>2, <2>3, RangeTail DEF Scheduling, WaitQueues
    <3>3. h \notin Testers(s)
      BY <3>2 DEF Testers, Waiting
    <3> HIDE DEF h
    <3>4. \A u \in Sem : u # s => /\ Testers(u)' = Testers(u) /\ queue'[u] = queue[u]
                                 /\ value'[u] = value[u]
      BY <1>1, <1>2, <2>1, <3>1
    <3>5. Testers(s)' = Testers(s) \cup {h}
      BY <1>1, <3>1
    <3>6. Cardinality(Testers(s)') = Cardinality(Testers(s)) + 1
      BY <1>1, <3>3, <3>5, FS_AddElement
    <3>7. value'[s] = value[s] + 1 /\ value[s] \in Nat /\ Cardinality(Testers(s)) \in Nat
      BY <1>1, <1>2, <2>1
    <3>8. value[s] =< Cardinality(Testers(s))
      BY <2>3 DEF NoLostWakeup
    <3> HIDE DEF bar
    <3> QED BY <3>4, <3>6, <3>7, <3>8 DEF NoLostWakeup
  <2> QED BY <2>2, <2>3
<1> QED BY <1>3, <1>4, <1>5, <1>6, <1>7 DEF Abstract!SemNext

(* No wakeup is lost: while threads wait on a semaphore, every unit of its *)
(* value is spoken for by a thread on its way to test it.                  *)
THEOREM WakeupsAreNotLost ==
  ASSUME IsFiniteSet(Thread)
  PROVE  Spec => []NoLostWakeup
<1>1. Init => NoLostWakeup
  BY DEF Init, NoLostWakeup
<1>2. IInv /\ IInv' /\ NoLostWakeup /\ [Next]_vars => NoLostWakeup'
  BY RefinementStep, WakeupStep DEF IInv, Scheduling
<1> QED BY <1>1, <1>2, Invariant, PTL DEF Spec
=============================================================================
