--------------------------- MODULE KernelThreads ---------------------------
(***************************************************************************)
(* The thread system of the kernel: thread control blocks, the FIFO ready  *)
(* list, the context switch, the interrupt level, interrupt handlers with  *)
(* deferred preemption, and the semaphore on which every blocking object   *)
(* of the kernel is built.                                                 *)
(*                                                                         *)
(* The machine is a uniprocessor.  A step of the specification is what the *)
(* current thread does between two points where something else can happen: *)
(* a tick (interrupts are re-enabled, or a user instruction ends), a turn  *)
(* of the idle loop, an interrupt handler, or a SWITCH.  pc[t] names the   *)
(* point at which thread t stands:                                         *)
(*                                                                         *)
(*   "unborn"    no Thread object                                          *)
(*   "created"   constructed, not forked (JUST_CREATED)                    *)
(*   "boot"      Kernel::Initialize, interrupts still off                  *)
(*   "begin"     forked: the first dispatch runs ThreadBegin               *)
(*   "kernel"    kernel code, interrupts on                                *)
(*   "user"      executing user instructions (Machine::Run)                *)
(*   "tick"      inside OneTick, handlers may run                          *)
(*   "yielded"   inside SWITCH, called from Yield                          *)
(*   "testing"   at the while test of Semaphore::P                         *)
(*   "sleeping"  in the loop of Sleep, still on the CPU                    *)
(*   "slept"     inside SWITCH, called from Sleep                          *)
(*   "finishing" in the loop of Sleep(TRUE), still on the CPU              *)
(*   "zombie"    finished, its carcass not deleted                         *)
(*   "dead"      deleted                                                   *)
(***************************************************************************)
EXTENDS Naturals, Sequences, FiniteSets, Functions

CONSTANTS Thread,      \* thread control blocks
          Main,        \* the thread that boots the kernel
          NoThread,    \* the NULL thread pointer
          Sem,         \* the semaphores of the kernel
          NoSem,       \* no semaphore: the thread is not inside P
          BadPointers, \* do user programs pass addresses they do not own?
          MaxValue,    \* bound on a semaphore's value (guards V)
          MaxNest      \* bound on nested Yields inside OneTick (guards the timer)

ASSUME MainAssumption == Main \in Thread
ASSUME NoThreadAssumption == NoThread \notin Thread
ASSUME SemAssumption == NoSem \notin Sem /\ BadPointers \in BOOLEAN
ASSUME BoundAssumption == MaxValue \in Nat /\ MaxNest \in Nat

VARIABLES
  status,         \* Thread::status
  currentThread,  \* Kernel::currentThread
  readyList,      \* Scheduler::readyList
  toBeDestroyed,  \* Scheduler::toBeDestroyed
  level,          \* Interrupt::level
  mode,           \* Interrupt::status
  inHandler,      \* Interrupt::inHandler
  yieldOnReturn,  \* Interrupt::yieldOnReturn
  value,          \* Semaphore::value
  queue,          \* Semaphore::queue
  pc,             \* where each thread stands
  home,           \* what the thread is running: a kernel thread, user
                  \* instructions, or a system call ("trap") made by them
  waitsOn,        \* the semaphore whose P the thread is in
  saved           \* the oldStatus of each OneTick frame on the thread's stack

scheduler == <<status, currentThread, readyList, toBeDestroyed>>
interrupt == <<level, mode, inHandler, yieldOnReturn>>
semaphore == <<value, queue>>
stack     == <<home, waitsOn, saved>>
vars == <<scheduler, interrupt, semaphore, pc, stack>>

Status == {"NONE", "JUST_CREATED", "RUNNING", "READY", "BLOCKED", "DELETED"}
Mode   == {"IdleMode", "SystemMode", "UserMode"}
Label  == {"unborn", "created", "boot", "begin", "kernel", "user", "tick",
           "yielded", "testing", "sleeping", "slept", "finishing", "zombie",
           "dead"}

TypeOK ==
  /\ status \in [Thread -> Status]
  /\ currentThread \in Thread
  /\ readyList \in Seq(Thread)
  /\ toBeDestroyed \in Thread \cup {NoThread}
  /\ level \in {"IntOff", "IntOn"}
  /\ mode \in Mode
  /\ inHandler \in BOOLEAN
  /\ yieldOnReturn \in BOOLEAN
  /\ value \in [Sem -> Nat]
  /\ queue \in [Sem -> Seq(Thread)]
  /\ pc \in [Thread -> Label]
  /\ home \in [Thread -> {"kernel", "trap", "user"}]
  /\ waitsOn \in [Thread -> Sem \cup {NoSem}]
  /\ saved \in [Thread -> Seq(Mode)]

----------------------------------------------------------------------------
(* Kernel::Initialize: the booting code becomes thread "main", interrupts  *)
(* are off until its last statement.  Semaphores are created in it too.    *)
Init ==
  /\ status = [t \in Thread |-> IF t = Main THEN "RUNNING" ELSE "NONE"]
  /\ currentThread = Main
  /\ readyList = <<>>
  /\ toBeDestroyed = NoThread
  /\ level = "IntOff" /\ mode = "SystemMode"
  /\ inHandler = FALSE /\ yieldOnReturn = FALSE
  /\ value \in [Sem -> 0..1]
  /\ queue = [s \in Sem |-> <<>>]
  /\ pc = [t \in Thread |-> IF t = Main THEN "boot" ELSE "unborn"]
  /\ home = [t \in Thread |-> "kernel"]
  /\ waitsOn = [t \in Thread |-> NoSem]
  /\ saved = [t \in Thread |-> <<>>]

At(t, label) == currentThread = t /\ pc[t] = label
Goto(t, label) == pc' = [pc EXCEPT ![t] = label]

(* List::Append; the faulty variant is List::Prepend.                      *)
ListPrepend(q, t) == <<t>> \o q
ListAppend(q, t) == Append(q, t)

(* The status half of Scheduler::ReadyToRun. *)
LeaveStatus(st, t) == st
MarkReady(st, t) == [st EXCEPT ![t] = "READY"]

(* Scheduler::CheckToBeDestroyed, the first thing done after a switch: on  *)
(* the status table and on the threads' places.                            *)
CheckToBeDestroyed(st) ==
  IF toBeDestroyed = NoThread THEN st
  ELSE [st EXCEPT ![toBeDestroyed] = "DELETED"]

Buried(p) ==
  IF toBeDestroyed = NoThread THEN p
  ELSE [p EXCEPT ![toBeDestroyed] = "dead"]

(* SetLevel(IntOn): the level goes up and OneTick begins, which turns the  *)
(* level off again before it looks for due interrupts.                     *)
BeginTick(t) == level' = "IntOff" /\ Goto(t, "tick")

(* Code that may create and fork threads: Kernel::Initialize does so (the  *)
(* postal worker) with interrupts off.                                     *)
CanRun(t) == At(t, "kernel") \/ At(t, "boot")

----------------------------------------------------------------------------
(* Operations of a thread in kernel code.                                  *)

(* Thread::Thread *)
Create(t, n) ==
  /\ CanRun(t) /\ pc[n] = "unborn"
  /\ status' = [status EXCEPT ![n] = "JUST_CREATED"]
  /\ Goto(n, "created")
  /\ UNCHANGED <<currentThread, readyList, toBeDestroyed, interrupt, semaphore, stack>>

(* Thread::Fork: n goes to the end of the ready list, then the level is    *)
(* restored.                                                               *)
Fork(t, n) ==
  /\ CanRun(t) /\ pc[n] = "created"
  /\ status' = MarkReady(status, n)
  /\ readyList' = ListAppend(readyList, n)
  /\ IF level = "IntOn"
     THEN level' = "IntOff" /\ pc' = [pc EXCEPT ![n] = "begin", ![t] = "tick"]
     ELSE UNCHANGED level /\ pc' = [pc EXCEPT ![n] = "begin"]
  /\ UNCHANGED <<currentThread, toBeDestroyed, mode, inHandler, yieldOnReturn,
                 semaphore, stack>>

(* Interrupt::Enable at the end of Kernel::Initialize. *)
Enable(t) ==
  /\ At(t, "boot")
  /\ BeginTick(t)
  /\ UNCHANGED <<scheduler, mode, inHandler, yieldOnReturn, semaphore, stack>>

(* Semaphore::P, up to the while test.  The level is IntOn, so oldLevel is *)
(* restored by a tick.                                                     *)
P(t, s) ==
  /\ At(t, "kernel")
  /\ level' = "IntOff"
  /\ Goto(t, "testing")
  /\ waitsOn' = [waitsOn EXCEPT ![t] = s]
  /\ UNCHANGED <<scheduler, mode, inHandler, yieldOnReturn, semaphore, home, saved>>

(* The while test of P. *)
Available(s) == value[s] > 0

(* The wait queue of P; a faulty P sleeps without queueing up. *)
SleepUnqueued(q, t) == q
Enqueue(q, t) == ListAppend(q, t)

(* value == 0: queue up and enter Sleep(FALSE). *)
PWait(t) ==
  LET s == waitsOn[t] IN
  /\ At(t, "testing") /\ ~Available(s)
  /\ queue' = [queue EXCEPT ![s] = Enqueue(@, t)]
  /\ status' = [status EXCEPT ![t] = "BLOCKED"]
  /\ Goto(t, "sleeping")
  /\ UNCHANGED <<currentThread, readyList, toBeDestroyed, interrupt, value, stack>>

(* value > 0: take it, and restore the level. *)
PTake(t) ==
  LET s == waitsOn[t] IN
  /\ At(t, "testing") /\ Available(s)
  /\ value' = [value EXCEPT ![s] = @ - 1]
  /\ waitsOn' = [waitsOn EXCEPT ![t] = NoSem]
  /\ BeginTick(t)
  /\ UNCHANGED <<scheduler, mode, inHandler, yieldOnReturn, queue, home, saved>>

(* A faulty V that wakes somebody only when the value leaves zero. *)
SignalFromZero(s) ==
  /\ value[s] < MaxValue
  /\ value' = [value EXCEPT ![s] = @ + 1]
  /\ IF queue[s] = <<>> \/ value[s] > 0
     THEN UNCHANGED <<queue, status, readyList>>
     ELSE /\ queue' = [queue EXCEPT ![s] = Tail(@)]
          /\ status' = MarkReady(status, Head(queue[s]))
          /\ readyList' = ListAppend(readyList, Head(queue[s]))

(* The body of Semaphore::V: the first waiter becomes ready, the value     *)
(* goes up whether or not anybody waited.                                  *)
Signal(s) ==
  /\ value[s] < MaxValue
  /\ value' = [value EXCEPT ![s] = @ + 1]
  /\ IF queue[s] = <<>>
     THEN UNCHANGED <<queue, status, readyList>>
     ELSE /\ queue' = [queue EXCEPT ![s] = Tail(@)]
          /\ status' = MarkReady(status, Head(queue[s]))
          /\ readyList' = ListAppend(readyList, Head(queue[s]))

(* Semaphore::V called by a thread. *)
V(t, s) ==
  /\ At(t, "kernel")
  /\ Signal(s)
  /\ BeginTick(t)
  /\ UNCHANGED <<currentThread, toBeDestroyed, mode, inHandler, yieldOnReturn, stack>>

(* Thread::Yield with nobody ready only ticks; otherwise the caller joins  *)
(* the end of the ready list and the front one runs.                       *)
SwitchAway(t, readied) ==
  LET next == Head(readyList) IN
  /\ currentThread' = next
  /\ status' = [readied EXCEPT ![next] = "RUNNING"]

Yield(t) ==
  /\ At(t, "kernel")
  /\ IF readyList = <<>>
     THEN BeginTick(t) /\ UNCHANGED scheduler
     ELSE /\ SwitchAway(t, MarkReady(status, t))
          /\ readyList' = ListAppend(Tail(readyList), t)
          /\ level' = "IntOff" /\ Goto(t, "yielded")
          /\ UNCHANGED toBeDestroyed
  /\ UNCHANGED <<mode, inHandler, yieldOnReturn, semaphore, stack>>

(* Thread::Finish, up to the loop of Sleep(TRUE).  A user program never    *)
(* gets here: there is no Exit system call.                                *)
Finish(t) ==
  /\ At(t, "kernel") /\ home[t] = "kernel"
  /\ level' = "IntOff"
  /\ status' = [status EXCEPT ![t] = "BLOCKED"]
  /\ Goto(t, "finishing")
  /\ UNCHANGED <<currentThread, readyList, toBeDestroyed, mode, inHandler,
                 yieldOnReturn, semaphore, stack>>

(* Machine::Run: the thread starts executing its user program. *)
RunUser(t) ==
  /\ At(t, "kernel") /\ home[t] = "kernel"
  /\ mode' = "UserMode"
  /\ home' = [home EXCEPT ![t] = "user"]
  /\ Goto(t, "user")
  /\ UNCHANGED <<scheduler, level, inHandler, yieldOnReturn, semaphore,
                 waitsOn, saved>>

(* One user instruction without exception, then OneTick. *)
UserInstruction(t) ==
  /\ At(t, "user")
  /\ BeginTick(t)
  /\ UNCHANGED <<scheduler, mode, inHandler, yieldOnReturn, semaphore, stack>>

(* Machine::RaiseException: enter the handler of a system call ...         *)
Trap(t) ==
  /\ At(t, "user")
  /\ mode' = "SystemMode"
  /\ home' = [home EXCEPT ![t] = "trap"]
  /\ Goto(t, "kernel")
  /\ UNCHANGED <<scheduler, level, inHandler, yieldOnReturn, semaphore,
                 waitsOn, saved>>

(* ... and leave it; the instruction is over and Run ticks.                *)
TrapReturn(t) ==
  /\ At(t, "kernel") /\ home[t] = "trap"
  /\ mode' = "UserMode"
  /\ home' = [home EXCEPT ![t] = "user"]
  /\ BeginTick(t)
  /\ UNCHANGED <<scheduler, inHandler, yieldOnReturn, semaphore, waitsOn, saved>>

(* ReadMem or WriteMem called by the handler of a system call on an        *)
(* address that does not translate: a RaiseException inside the handler,   *)
(* which comes back with the mode set to UserMode.                         *)
NestedException(t) ==
  /\ BadPointers
  /\ At(t, "kernel") /\ home[t] = "trap"
  /\ mode' = "UserMode"
  /\ UNCHANGED <<scheduler, level, inHandler, yieldOnReturn, semaphore, pc, stack>>

----------------------------------------------------------------------------
(* Sleep: dispatch the front of the ready list, idle while it is empty.    *)
SleepSwitch(t) ==
  /\ At(t, "sleeping") /\ ~inHandler /\ readyList # <<>>
  /\ SwitchAway(t, status)
  /\ readyList' = Tail(readyList)
  /\ Goto(t, "slept")
  /\ UNCHANGED <<toBeDestroyed, interrupt, semaphore, stack>>

(* The finishing flag lost on the way to Run. *)
ForgetCarcass(t) == toBeDestroyed
Carcass(t) == t

(* Run(nextThread, TRUE): the finishing thread is left for the next one to *)
(* delete (the ASSERT of this branch is FinishSlotFree below).             *)
FinishSwitch(t) ==
  /\ At(t, "finishing") /\ ~inHandler /\ readyList # <<>>
  /\ SwitchAway(t, status)
  /\ readyList' = Tail(readyList)
  /\ toBeDestroyed' = Carcass(t)
  /\ Goto(t, "zombie")
  /\ UNCHANGED <<interrupt, semaphore, stack>>

(* Interrupt::Idle: the clock jumps to the next pending interrupt and its  *)
(* handlers run.  The timer is always pending, so Halt is not reached.     *)
Idle(t) ==
  /\ At(t, "sleeping") \/ At(t, "finishing")
  /\ ~inHandler /\ readyList = <<>>
  /\ mode' = "IdleMode" /\ inHandler' = TRUE
  /\ UNCHANGED <<scheduler, level, yieldOnReturn, semaphore, pc, stack>>

IdleReturn(t) ==
  /\ At(t, "sleeping") \/ At(t, "finishing")
  /\ inHandler
  /\ mode' = "SystemMode" /\ inHandler' = FALSE
  /\ UNCHANGED <<scheduler, level, yieldOnReturn, semaphore, pc, stack>>

----------------------------------------------------------------------------
(* What a dispatched thread does first, interrupts still off.              *)

(* The tail of Run, back in Yield: restore the level (a tick).             *)
ResumeYield(t) ==
  /\ At(t, "yielded")
  /\ status' = CheckToBeDestroyed(status)
  /\ toBeDestroyed' = NoThread
  /\ level' = "IntOff" /\ pc' = [Buried(pc) EXCEPT ![t] = "tick"]
  /\ UNCHANGED <<currentThread, readyList, mode, inHandler, yieldOnReturn,
                 semaphore, stack>>

(* The tail of Run, back in Sleep and P: test the value again.             *)
ResumeSleep(t) ==
  /\ At(t, "slept")
  /\ status' = CheckToBeDestroyed(status)
  /\ toBeDestroyed' = NoThread
  /\ pc' = [Buried(pc) EXCEPT ![t] = "testing"]
  /\ UNCHANGED <<currentThread, readyList, interrupt, semaphore, stack>>

(* Thread::Begin of a thread dispatched for the first time.                *)
Begin(t) ==
  /\ At(t, "begin")
  /\ status' = CheckToBeDestroyed(status)
  /\ toBeDestroyed' = NoThread
  /\ level' = "IntOff" /\ pc' = [Buried(pc) EXCEPT ![t] = "tick"]
  /\ UNCHANGED <<currentThread, readyList, mode, inHandler, yieldOnReturn,
                 semaphore, stack>>

----------------------------------------------------------------------------
(* Interrupt::OneTick and CheckIfDue.                                      *)

(* Some interrupt is due: run handlers until none is.                      *)
CheckIfDue(t) ==
  /\ At(t, "tick") /\ ~inHandler
  /\ inHandler' = TRUE
  /\ UNCHANGED <<scheduler, level, mode, yieldOnReturn, semaphore, pc, stack>>

(* Alarm::CallBack.  The guard bounds the nesting of Yields in ticks.      *)
TimerInterrupt ==
  /\ inHandler /\ Len(saved[currentThread]) < MaxNest
  /\ yieldOnReturn' = (yieldOnReturn \/ mode # "IdleMode")
  /\ UNCHANGED <<scheduler, level, mode, inHandler, semaphore, pc, stack>>

(* The handler of a console, disk or network interrupt calls V.  Its level *)
(* is IntOff before and after: no tick.                                    *)
DeviceInterrupt(s) ==
  /\ inHandler
  /\ Signal(s)
  /\ UNCHANGED <<currentThread, toBeDestroyed, interrupt, pc, stack>>

(* The mode that the OneTick frames of a thread leave behind. *)
KeptMode(t) == mode
RestoredMode(t) == IF saved[t] = <<>> THEN mode ELSE Head(saved[t])

(* No handler asked for a switch: every OneTick frame on the stack returns *)
(* in turn, each restoring the mode it found, the outermost one last.      *)
TickReturn(t) ==
  /\ At(t, "tick") /\ ~yieldOnReturn
  /\ inHandler' = FALSE
  /\ level' = "IntOn"
  /\ mode' = RestoredMode(t)
  /\ saved' = [saved EXCEPT ![t] = <<>>]
  /\ Goto(t, IF home[t] = "user" THEN "user" ELSE "kernel")
  /\ UNCHANGED <<scheduler, yieldOnReturn, semaphore, home, waitsOn>>

(* The value of the request flag once it is served. *)
FlagServed == FALSE

(* "yield is a kernel routine"; a faulty OneTick yields in the old mode.    *)
OldMode == mode
YieldMode == "SystemMode"

(* A handler asked for a switch: the interrupted thread yields, in kernel  *)
(* mode, and will restore the mode when it comes back.                     *)
TickYield(t) ==
  /\ At(t, "tick") /\ yieldOnReturn
  /\ inHandler' = FALSE /\ yieldOnReturn' = FlagServed
  /\ mode' = YieldMode
  /\ saved' = [saved EXCEPT ![t] = Append(@, mode)]
  /\ level' = "IntOff"
  /\ IF readyList = <<>>
     THEN UNCHANGED <<scheduler, pc>>          \* Yield only ticks again
     ELSE /\ SwitchAway(t, MarkReady(status, t))
          /\ readyList' = ListAppend(Tail(readyList), t)
          /\ Goto(t, "yielded")
          /\ UNCHANGED toBeDestroyed
  /\ UNCHANGED <<semaphore, home, waitsOn>>

----------------------------------------------------------------------------
KernelCode(t) ==
  \/ \E n \in Thread : Create(t, n) \/ Fork(t, n)
  \/ Enable(t) \/ Yield(t) \/ Finish(t)
  \/ \E s \in Sem : P(t, s) \/ V(t, s)
  \/ PWait(t) \/ PTake(t)

UserCode(t) ==
  \/ RunUser(t) \/ UserInstruction(t) \/ Trap(t) \/ TrapReturn(t)
  \/ NestedException(t)

Switching(t) ==
  \/ SleepSwitch(t) \/ FinishSwitch(t) \/ Idle(t) \/ IdleReturn(t)
  \/ ResumeYield(t) \/ ResumeSleep(t) \/ Begin(t)

Tick(t) == CheckIfDue(t) \/ TickReturn(t) \/ TickYield(t)

Handler == TimerInterrupt \/ \E s \in Sem : DeviceInterrupt(s)

Next ==
  \/ \E t \in Thread : KernelCode(t) \/ UserCode(t) \/ Switching(t) \/ Tick(t)
  \/ Handler

Spec == Init /\ [][Next]_vars

(* The CPU keeps executing, and a periodic timer interrupt is always       *)
(* pending: a thread that ticks again and again meets it in the end.       *)
Fairness ==
  /\ WF_vars(Next)
  /\ \A t \in Thread : SF_vars(CheckIfDue(t))
  /\ SF_vars(TimerInterrupt)

FairSpec == Spec /\ Fairness

----------------------------------------------------------------------------
(* Properties.                                                             *)

OnCPU == pc[currentThread]

(* One thread runs and it is currentThread (which is BLOCKED, or woken     *)
(* already and READY, while it idles in Sleep); the ready list holds       *)
(* exactly the READY threads, each once (List::Append's ASSERT).  A        *)
(* semaphore's value, whose type is part of TypeOK, is never negative.     *)
SchedulerConsistent ==
  /\ TypeOK
  /\ \A t \in Thread : status[t] = "RUNNING" =>
        t = currentThread /\ pc[t] \notin {"sleeping", "finishing"}
  /\ OnCPU \notin {"sleeping", "finishing"} => status[currentThread] = "RUNNING"
  /\ IsInjective(readyList)
  /\ Range(readyList) = {t \in Thread : status[t] = "READY"}

(* The threads somebody can still wake: queued on a semaphore.             *)
Waiting(s) == Range(queue[s])

(* The threads inside P of s that will test its value again (or for the    *)
(* first time) when they run.                                              *)
Testers(s) ==
  {t \in Thread : /\ waitsOn[t] = s
                  /\ pc[t] \in {"testing", "sleeping", "slept"}
                  /\ t \notin Waiting(s)}

(* A BLOCKED thread has not been forgotten: it is finishing, or it is in   *)
(* the queue of exactly the semaphore whose P it called, once.             *)
NobodyForgotten ==
  /\ \A t \in Thread : status[t] = "BLOCKED" =>
        \/ pc[t] \in {"finishing", "zombie"}
        \/ pc[t] \in {"sleeping", "slept"} /\ waitsOn[t] \in Sem
           /\ t \in Waiting(waitsOn[t])
  /\ \A s \in Sem : /\ IsInjective(queue[s])
                    /\ \A t \in Waiting(s) : status[t] = "BLOCKED" /\ waitsOn[t] = s

(* No wakeup is lost: while threads wait, every unit of the value is       *)
(* spoken for by a thread that is on its way to test the value.            *)
NoLostWakeup ==
  \A s \in Sem : queue[s] # <<>> => value[s] =< Cardinality(Testers(s))

(* The ASSERT of Scheduler::Run: when a thread finishes, the slot for the  *)
(* carcass is free.                                                        *)
FinishSlotFree == OnCPU = "finishing" => toBeDestroyed = NoThread

(* The carcass is not the running thread (the ASSERT of ~Thread), nobody   *)
(* can dispatch or wake it, and the thread just switched to deletes it     *)
(* before it does anything else.                                           *)
CarcassSafe ==
  /\ toBeDestroyed # NoThread =>
       /\ toBeDestroyed # currentThread /\ pc[toBeDestroyed] = "zombie"
       /\ OnCPU \in {"yielded", "slept", "begin"}
  /\ \A t \in Thread : pc[t] \in {"zombie", "dead"} =>
       /\ t \notin Range(readyList)
       /\ \A s \in Sem : t \notin Waiting(s)
  /\ \A t \in Thread : pc[t] = "zombie" => toBeDestroyed = t

(* A finished thread is deleted once, by the thread that runs next, and    *)
(* the slot is free for the next one to finish.                            *)
CarcassHandled == FinishSlotFree /\ CarcassSafe

(* Interrupts are on exactly while a thread executes ordinary code; every  *)
(* handler runs with them off, and a request to yield never outlives the   *)
(* tick whose handler made it.                                             *)
LevelDiscipline ==
  /\ level = "IntOn" <=> OnCPU \in {"kernel", "user"}
  /\ inHandler => OnCPU \in {"tick", "sleeping", "finishing"}
  /\ yieldOnReturn => inHandler /\ OnCPU = "tick"

(* A user program resumes in the mode it was interrupted in, whatever ran   *)
(* in between, and the machine is idle only inside Idle; interrupt.h:43:   *)
(* "Nachos can be running kernel code (SystemMode), user code (UserMode),  *)
(* or there can be no runnable thread, because the ready list is empty     *)
(* (IdleMode)."                                                            *)
UserAndIdleModeExact ==
  /\ OnCPU = "user" => mode = "UserMode"
  /\ mode = "IdleMode" <=> inHandler /\ OnCPU \in {"sleeping", "finishing"}

(* Level, mode and the handler's flags of the machine are what the code    *)
(* that runs expects.                                                      *)
MachineDisciplined == LevelDiscipline /\ UserAndIdleModeExact

(* The SystemMode part of the same comment: it needs system calls that     *)
(* never touch an address which does not translate (~BadPointers).         *)
KernelCodeInSystemMode == OnCPU = "kernel" => mode = "SystemMode"

(* Every ready thread gets the CPU.                                        *)
ReadyThreadsRun ==
  \A t \in Thread : status[t] = "READY" ~> status[t] = "RUNNING"

(* What the users of a Semaphore see is the abstract semaphore: every step *)
(* of the kernel is one of its operations or leaves it alone.              *)
Abstract == INSTANCE Semaphores WITH testers <- [s \in Sem |-> Testers(s)]
ImplementsSemaphores == Abstract!SemSpec
=============================================================================
