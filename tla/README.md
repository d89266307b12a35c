# A verification project for the NachOS kernel of this repository

The repository holds an operating system course project built on NachOS: a
kernel that runs on a simulated MIPS machine with a timer, a console, a disk and
a network, inside one UNIX process. Three snapshots of it lie side by side
(`code/`, `phna_13112022/`, `14112022_1830/`); the models follow the latest,
`src/14112022_1830/`, and paths below are relative to it. `OpenFiles` is about the
file system calls of `src/phna_13112022/`, which work differently; the second half of
`ConsoleCalls` and a part of `HostFiles` are about what `src/code/` had in their place.

The modules in this directory describe that kernel in TLA+, TLC checks them on
small instances, and TLAPS proves the thread system, everything built on its
semaphores (lock, condition, synchronized list, console, disk, post office), the
arithmetic of simulated time, the translation of addresses and the restart of
instructions, the linked lists, both file systems and the tables of open files, for
every number of threads, machines, sectors and objects.

## 1. The system

### 1.1 Components

| component | source | state | operations | what makes it correct |
|---|---|---|---|---|
| threads, scheduler | `threads/thread.*`, `scheduler.*` | status of each thread, `currentThread`, `readyList`, `toBeDestroyed` | `Fork`, `Begin`, `Yield`, `Sleep`, `Finish`, `ReadyToRun`, `Run`, `CheckToBeDestroyed` | one thread runs; the ready list is the READY threads, once each; a BLOCKED thread can be woken; a carcass is deleted once, by another thread, before anything else |
| context switch, stacks | `threads/switch.S`, `switch.h`, `thread.cc` | registers, stack words, fence post, saved machine state | `SWITCH`, `ThreadRoot`, `StackAllocate`, `CheckOverflow`, `SaveUserState`, `RestoreUserState` | a thread finds its registers as it left them; it starts with its own function and argument |
| interrupts, modes, tick | `machine/interrupt.*`, `threads/alarm.*` | `level`, `status`, `inHandler`, `yieldOnReturn`, `pending` | `SetLevel`, `OneTick`, `Idle`, `Schedule`, `CheckIfDue`, `YieldOnReturn` | handlers run with interrupts off; the mode found is the mode restored; nothing overdue; slices bounded |
| semaphore | `threads/synch.*` | `value`, `queue` | `P`, `V` | no lost wakeup, value never negative |
| lock, condition | `threads/synch.*` | `lockHolder`, its semaphore; `waitQueue` of one-shot semaphores | `Acquire`, `Release`, `Wait`, `Signal`, `Broadcast` | mutual exclusion, ownership, no missed signal, progress |
| `SynchList` | `threads/synchlist.*` | a list, a lock, a condition | `Append`, `RemoveFront`, `Apply` | a FIFO queue; no consumer asleep beside an item |
| console | `machine/console.*`, `userprog/synchconsole.*` | one-character buffer, `putBusy`, pending polls | `GetChar`, `PutChar`, two interrupt handlers | no character overwritten, lost or doubled; every call returns |
| string and number calls | `userprog/exception.cc`, `ksyscall.h` | the program's buffer | ReadString, PrintString, ReadNum, PrintNum, ReadChar, PrintChar, RandomNum, Add | conversions correct for every number, buffers respected |
| disk and timer | `machine/disk.*`, `timer.*`, `stats.*` | head position, track buffer, clock | `ReadRequest`, `WriteRequest`, `ComputeLatency`, `CallBack` | latency agrees with the geometry; one request at a time |
| `SynchDisk` | `filesys/synchdisk.*` | a lock and a semaphore over the disk | `ReadSector`, `WriteSector` | atomic, durable sectors; calls return |
| real file system | `filesys/filesys.cc`, `filehdr.*`, `directory.*`, `openfile.cc`, `pbitmap.*`, commands of `threads/main.cc` | free map, directory, headers on disk | Create, Open, Remove, ReadAt, WriteAt, copying UNIX files in | the three structures agree; files keep their contents; what a crash may leave |
| network, post office | `machine/network.*`, `network/post.*` | one-packet buffer, mailboxes, send lock, postal worker | `Send`, `Receive`, `PostalDelivery`, handlers | in order, at most once; only the wire and the end of a machine lose mail |
| file system calls, stub file system | `userprog/exception.cc`, `filesys/filesys.h`, `openfile.h`; an earlier state of them in `src/phna_13112022/` | table of open files, `index`, types, positions | Create, Open, Close, Read, Write, Seek, Remove | a failed call harms nothing; no descriptor overwritten; a read-only file is not written |
| user programs | `test/*.c`, `start.S`, `userprog/syscall.h` | descriptors, a byte, arrays | copy, cat, concatenate, createfile, delete, sort, matmult, ... | the files hold what the program is for |
| address spaces, translation | `userprog/addrspace.*`, `machine/translate.*`, `coff2noff/` | page table, TLB, use and dirty bits, segments | Load, InitRegisters, RestoreState, Translate, ReadMem, WriteMem | a program touches only its pages; its image is what was linked |
| MIPS simulator | `machine/mipssim.*`, `machine.*` | registers, delayed load, delayed branch | `OneInstruction`, `DelayedLoad`, `RaiseException` | the instruction set; an instruction that faults can run again |
| containers | `lib/list.*`, `hash.*`, `bitmap.*`, `c++example/` | elements and pointers, buckets, words | append, insert, remove, grow, ... | sequences, maps, sets, stacks |
| host interface | `lib/sysdep.*` | the host's files, descriptors with offsets, sockets | UNIX calls | an object's position is its own whatever the host's offset is |
| self-tests | `lib/libtest.*`, `SelfTest` of the classes | helpers, what they share | `LibSelfTest`, `ThreadSelfTest` | ASSERTs hold, nothing deleted is used, they end |
| kernel, main | `threads/kernel.*`, `main.*` | | boot order, commands | |

### 1.2 How they interact

The machine is a uniprocessor. Kernel code is never preempted except at a
*tick*: whenever `SetLevel` turns interrupts on, and after each user
instruction, `OneTick` advances the clock, runs the handlers that are due with
interrupts off, and yields if one of them (the timer's) asked for it. A thread
that blocks calls `Sleep`, which dispatches the next ready thread or, if there
is none, lets the machine idle until a handler readies somebody.

Everything that blocks is built from the semaphore: a lock is a semaphore of
value 1 and an owner; a condition queues one fresh semaphore per waiter;
`SynchList` is a lock and a condition; `SynchConsole`, `SynchDisk` and the post
office take a lock, start the device, and do `P` on a semaphore that the
device's handler `V`s. Devices never call threads; they schedule interrupts.
System calls run in `ExceptionHandler` on the stack of the calling thread.

### 1.3 What is hard

* Interleaving at ticks, including ticks inside the yield of an earlier tick:
  frames of `OneTick` nest to any depth, each with its saved mode.
* State read before a switch and used after it: the value of a semaphore,
  `lockHolder`, the emptiness of a list, `toBeDestroyed`.
* A thread that idles inside `Sleep` may be woken by the very handler it runs.
* Handlers race the calls they complete.
* The process may end between two sector writes.
* Packets are lost; sockets fill while the device's buffer holds one packet.
* Registers and stacks change hands in assembly, once per host architecture.
* An instruction may fault between a delayed load, a branch and its slot.
* A table of open files with two notions of which slots are in use, and calls
  that fail half way.
* Integer arithmetic on time, on sectors and on numbers at the ends of their range.

PROJECT.json lists these hazards at the lines where they bite, with the
properties that guard each.

## 2. The modules

```
 ContextSwitch                                       registers and stacks
 KernelThreads  --implements-->  Semaphores          threads, ticks, modes
                                     |  (P, V as atomic steps)
                                  Monitor  --implements-->  MutexLock
                                     |  EXTENDS
                                  SynchList  --implements-->  FifoQueue
                                     |  EXTENDS
                                  MCMonitors          + self-tests of threads
 MutexLock + Semaphores as given:
   SynchConsole <- ConsoleCalls                       console, strings, numbers
   SynchDisk --implements--> AtomicSectors <- FileSystem
   PostOffice (mailboxes: FifoQueue) --implements--> LossyMail
     | EXTENDS
   MCPostOffice                                       + NetworkTest
 InterruptClock                                       simulated time, disk head
 UserMachine EXTENDS AddrSpace EXTENDS Mips           user programs' machine
 FileTable <- UserPrograms     OpenFiles (snapshot)   system calls on files
 HostFiles --implements--> PositionedFiles            class OpenFile on the host
 LinkedList --implements--> ItemSequence, HashTable, Bitmap, Stacks <- LibTests
```

Each layer is modelled over the *abstract* specification of the layer below,
and the layer below is checked (or proved) to implement that specification, so
that no model carries the state of the whole kernel. Where several small models
answer one question (or have nothing to do with each other and would need a run
each), an `MC*` module puts them side by side and the initial state chooses which
one moves: `MCMonitors`, `MCDisk`, `MCConsole`, `MCMachine` (with what `MCConsole` has),
`MCPostOffice`, `MCFileTable`, `MCLibrary`.

**KernelThreads.** A step is what `currentThread` does between two points where
anything else could happen: a tick, a turn of the idle loop, a handler, or
`SWITCH`. `pc[t]` names the point where thread *t* stands; a thread inside
`SWITCH` is `"yielded"`, `"slept"` or not yet begun. `saved[t]` is the stack of
`oldStatus` of the `OneTick` frames of *t*; these frames return one after the
other without anything in between, so `TickReturn` returns from all of them at
once and what remains is the mode of the outermost. The environment chooses
which handlers run at a tick: the timer (`yieldOnReturn`) and any device
(`V` on any semaphore). The `while` of `P` and the test after a switch are
separate steps, and so are the two halves of `Run`. Creation of threads is
allowed with interrupts off, as the post office does in `Kernel::Initialize`.
`BadPointers` says whether user programs pass addresses that do not translate,
which makes `ReadMem` raise an exception inside a system call.

**Semaphores.** The abstract semaphore: `P` first puts the caller among the
*testers*, a tester either takes a unit or goes to sleep in the queue, `V` adds
a unit and moves the first sleeper back to the testers. The refinement mapping
computes the testers from the places of the kernel's threads.

**Monitor, MutexLock.** One lock and one condition used under its rules (Wait,
Signal and Broadcast by the holder). `Acquire` is three steps, because a tick
lies between `P` and the assignment of `lockHolder`; `Wait` releases the lock in
one step and does `P` on its own semaphore in another, which is where a signal
could get lost. **SynchList, FifoQueue**: the list operations drive the steps of
`Monitor`, and refine a queue whose calls take effect in one step. **MCMonitors**
adds the self-tests of semaphores and synchronized lists, in which main and a
helper play ping-pong and main deletes what they shared.

**SynchConsole.** Both devices with the interrupts they have pending. The input
device polls until it finds something and then waits for the reader to restart
it. The user types a script and then closes the input.

**SynchDisk, AtomicSectors.** The device moves the data when the request is
made; only the interrupt is delayed. `Crash` ends the process at any step and
starts another on the same disk file. **InterruptClock**: the arithmetic of
`ComputeLatency` and the machinery of time around it, the sorted
list of pending interrupts, `CheckIfDue`, `Idle`, timer slices fixed or random.

**PostOffice, LossyMail.** Machines are processes that share
datagram sockets; each may end at any step (`Stop`) and be started again
(`Boot`), with empty buffers and mailboxes and a new, empty socket (`OpenSocket`,
`PollSocket`, `ReadFromSocket` and `SendToSocket` are the calls of `sysdep.cc`).
`SendPacket` loses a packet or puts it into the socket of the receiver, and
schedules the interrupt in both cases; a packet to a machine that does not run
is dropped, which is what `SendToSocket` does after ten retries. A mail to a
mailbox that the receiver does not have is accepted by `Send` and ends the
receiver (`IllegalMail`, the ASSERT of the postal worker). **MCPostOffice** adds
`NetworkTest` of `kernel.cc`: a message and an acknowledgement each way.

**FileTable.** The branches of `ExceptionHandler` for files, with `opened`,
`index`, UNIX files with their contents, and the result register. The error
branches of Read return without `IncreasePC`, so the instruction runs again with
the result as its call number; `again` and `Unexpected` model that. A Write of no
bytes falls through into Open, as in the code. In the stub file system
`OpenFile::type` is always 0, whatever type Open is given, so the branches for other
types are dead (`ReadOnlyRefused`, section 5).

**UserPrograms.** The programs of `test/` over the actions of FileTable: copy,
cat, concatenate, createfile, delete, testr and testc as one step per system
call, with the code that `start.S` makes of each call; sort, matmult, ascii,
segments and add, which make no call that matters, in one step. One program is
run per boot, from any files. `char *c` of the copying programs is never set, so
Read and Write go to whatever address the register holds: 0.

**OpenFiles.** The same system calls as `src/phna_13112022/` has them: fifteen
slots of which Close accepts ten, types 0 and 1, console in slots 0 and 1, every
branch ending in `IncreasePC`; `SC_Remove` is not handled.

**HostFiles, PositionedFiles.** Objects of class `OpenFile` with `FILESYS_STUB`, in
the latest snapshot and in `code/` (without `Seek`; the initial state chooses).
Each keeps `currentOffset` beside the offset that the host keeps for its
descriptor, and `ReadAt`, `Length` and the plain calls leave the two in
different places; the abstract specification has one position per handle.

**ConsoleCalls.** What `exception.cc` and `ksyscall.h` make of characters:
numbers as numerals in any base and any width, strings through the copies
`User2System` and `System2User`, results with the program counter. Its second half is
the handler of `code/`: another ReadString, and every exception steps over the
instruction.

**FileSystem.** The disk is an array of sectors; header, directory and free map
are decoded from it. Each command (format, copy a UNIX file in, remove, print,
read and write at a position) is a queue of sector writes in the order of the
code, and `Stop` may end the process before any of them. Memory that the code
keeps across commands (the two files that are always open, with their headers)
is kept as well. Reading and choosing happen when the command starts, as nothing
runs beside it.

**Mips, AddrSpace, UserMachine.** Words are sequences of bits cut
to a few: `ByteBits`, `ShiftBits` and `JumpBits` set the widths. `Translate` and
`ReadMem`/`WriteMem` return either a value or an exception; `Mips` has every
instruction as the effect on registers, memory, next program counter and delayed
load; `AddrSpace` turns sections of an object file into segments and loads them
into pages; `UserMachine` runs programs and gives their exceptions to the
handler. `SIM_FIX` and `RDATA` are defined, `USE_TLB` is not, as in the build;
the TLB is reached by the same operators with another table. Words of an object
file go through `WordToHost` on the way in, and `coff2noff` writes them in the
order of its own host; both hosts may be of either kind (`NOFFMAGIC` tells).

**ContextSwitch.** For each host the registers that `SWITCH` saves and
loads, where block and stack keep them, and from where `ThreadRoot` takes its
arguments; and threads with stacks of words that call `SWITCH`, start, overflow, and
run user programs whose registers are saved with them. `ThreadRoot` has the stores of
its own that the file shows: the return pointer of each call on the PA-RISC, on AIX the
frame with f14 to f31, r13 to r31, cr, lr and the arguments that it fills before the
first two calls and empties after them.

**LinkedList, ItemSequence, HashTable, Bitmap, Stacks.** The lists with elements
and pointers, as `lib/list.cc` changes them, refine the sequence of their items.
The hash table grows as the code grows it. The stacks are the two of
`c++example/`, run against each other. **LibTests** has the self-tests of all of
these as programs of calls with their ASSERTs.

**KernelThreadsProofs**, **MonitorProofs** (also of SynchList), **MachineProofs** (the
simulated hardware: SynchDisk, InterruptClock and UserMachine), **PostOfficeProofs**,
**LibraryProofs** (LinkedList, HostFiles and SynchConsole), **FileTableProofs** (also of
OpenFiles), **FileSystemProofs** and **ContextSwitchProofs** hold the theorems; each EXTENDS the modules it is about. (Two
lemmas on queues, `RangeAppend` and `RangeTail`, stand in the first two.)

## 3. The runs

| run | instance | states | what it shows |
|---|---|---|---|
| `threads` | 3 threads, 1 semaphore of value at most 2, one tick inside the yield of another, bad pointers | 109 350 | the safety of the thread system, that its semaphores implement `Semaphores`, and that every READY thread runs |
| `monitors` | 4 threads using the monitor in any legal order; 4 threads on a list of 2 items; the self-tests with 3 rounds | 267 300 | mutual exclusion and exact `lockHolder`, nobody missed, progress, a mutex; items spoken for, consumers wake, a FIFO queue; the tests of threads end and use nothing deleted |
| `disk` | 2 threads, 2 sectors, 2 values, 3 requests, 1 crash; and 2 tracks of 3 sectors, clock up to 17 | 512 556 | one request at a time, calls return, atomic durable sectors; no interrupt overdue, slices bounded, latency and track buffer agree with the head |
| `file_system` | 10 sectors of 2 bytes, directory of 2 entries over two sectors, 3 names, 2 direct sectors per header | 754 994 | free map exact whenever no command was cut off, files keep their contents, the ASSERT of Deallocate fails only for the file of the command that was cut off |
| `post_office` | 2 machines, 3 starts of them, 3 threads, 2 mails, one perhaps to no mailbox, lossy; NetworkTest on 2 machines | 285 584 | device driven as it expects; every Send returns and no packet stays behind, the test ends; in order and at most once |
| `file_table` | 2 names of files for the programs; 5 slots for any calls; 4 slots, 1 name, 2 bytes for the snapshot | 655 651 | programs leave the right files; a call that fails harms nothing, a slot is never overwritten, in the snapshot a file changes only through a slot opened for writing |
| `library` | 4 items, 4 elements; 6 keys, 2 to 4 buckets; 5 bits in words of 3; stacks of 3; the self-tests; 3 threads on 7 hosts; 2 objects on 1 name and 1 file of the host, lengths up to 2 | 97 313 | containers agree with sequences, maps, sets and each other, their tests pass; threads keep their registers and start right; files with a position per object |
| `machine` | words of 4 bits, 4 pages of a word, 6 registers, every instruction on every pair of operands, object files and hosts of both byte orders; console of 2 threads, 2 characters and end of input, 3 calls each way; and 4-bit numbers to base 3, a buffer of 2, lines up to 3, in the latest snapshot and in `code/` | 136 321 | instructions exact, faults restartable, image as linked, every write authorised by the page table; device ASSERTs, order of input, calls return; numbers (but 0) and strings right |
| `threads_bad_pointer` | 3 threads, bad pointers | | *violated*: kernel code runs in SystemMode |
| `console_second_eof` | 4 reads, no writes | | *violated*: every `GetChar` returns |
| `file_seek` | all 10 slots, 1 file | | *violated*: an open file can be sought in |
| `file_read_only` | `copy` on 2 names | | *violated*: a write through a descriptor opened with type 1 is refused |

**Bounds and why they are enough.** Three threads are the smallest number with a
running thread, a carcass and a successor, or with a sleeper, a thread that
wakes it and a newcomer that takes its unit; the safety part of `threads` holds
for every number, every nesting and every value by the proofs below. `MaxNest` =
1 has a tick inside the yield of a tick, which is where a saved mode could be
lost (2 was tried once: 427 511 states, no error); `MaxValue` bounds `V`. Four
threads in the monitor give a holder, two sleepers and a newcomer, so that the
queue order and Broadcast matter, and let a consumer be overtaken between its
wakeup and its test. Three reads reach the end of the input behind two
characters. Three requests of two threads give a waiter behind a waiter, and one
crash falls between any two steps. Three starts of two machines let one stop at
any step and come back while the other has mail under way to it. Three sectors per track and rotation and seek
times that do not divide each other reach every case of rounding; 17 ticks are
more than a full turn.

Four bits hold INT_MIN, whose negative does not fit, INT_MAX and numbers of
three digits to base 3, so the special cases of PrintNum and ReadNum all occur.
A word of four bits with bytes of one has unaligned addresses, the last byte
before the end of memory and overflow in both directions; the operators take the
width as a parameter. Five sectors for files of at most two sectors run full with
two files; the second directory entry lies across two sectors as entry 6 of the
code's ten does, and two of the names are equal up to the length that a directory
keeps. Four slots with the last one beyond what Close accepts is the snapshot's
table of fifteen of which ten are closable. Six keys make a table of one bucket
grow twice. Five bits in words of three leave a part of the last word unused.
Two objects on one file are what it takes for the host's offsets to disagree with
the positions; calls of one and of two bytes end inside and at the end of a file
of two.

`MaxTime`, `MaxMails`, `MaxBoots`, `MaxReads`, `MaxWrites`, `MaxRequests`,
`MaxCrashes`, `MaxItems`, `MaxLength`, `MaxIndex`, `MaxLine`, `MaxSteps`, `MaxBuckets` and `Rounds` are
guards on the actions of the environment, and with `FitsHeader` and
`NoMoreCreates` of `FileSystem` the only cut in the behaviour.

Deadlock is checked in the thread runs, where the machine never stops. It is
switched off where the environment may stop calling, or where a bound runs out.

**Fairness and why the code justifies it.**
*Threads:* the simulator executes as long as it can (weak fairness of `Next`);
the timer is always pending, so a thread that ticks for ever meets it (strong
fairness of `CheckIfDue` and `TimerInterrupt`). Nothing is assumed of the
scheduler: that a READY thread runs is what is checked.
*The layers above* take from it that a thread which can run does (weak fairness
of its step). A thread that holds the lock of a monitor goes on to release it
or wait; nobody is obliged to call anything. The lock of the disk is a queue,
which strong fairness of its acquisition stands for; the send lock of the post
office needs none, because each call of Send that holds it ends. The programs of
NetworkTest are started and go on. *Devices:* the clock moves even when nobody
is ready (`Idle`), so pending interrupts fire. The user of the console goes on
typing until the end of the script. A fair wire is not assumed: any packet may
be lost (except in NetworkTest, which waits for ever for a lost one).

## 4. The proofs

The theorems hold for every set of threads, semaphores, machines, sectors and
items, every bound and every length. They assume what the modules assume of their
constants (NULL pointers are not objects, bounds are natural numbers, there is a
sector and a mailbox, seeks and rotations take time, the stack pointer is not register
0, free map and directory fit the disk). Where a proof counts threads,
slots or list elements, the theorem says that there are finitely many.

| theorem | module | states |
|---|---|---|
| `TypeCorrect` | `KernelThreadsProofs` | `[]TypeOK` |
| `SchedulerIsConsistent` | | `[]SchedulerConsistent` |
| `NobodyIsForgotten` | | `[]NobodyForgotten` |
| `CarcassIsHandled` | | `[]CarcassHandled`, from `FinishSlotIsFree` and `CarcassIsSafe` |
| `MachineIsDisciplined` | | `[]MachineDisciplined`, from `LevelIsDisciplined` and `UserAndIdleModeAreExact` |
| `SemaphoresImplemented` | | `ImplementsSemaphores` |
| `WakeupsAreNotLost` | | `[]NoLostWakeup` |
| `LockIsExact` | `MonitorProofs` | `[]LockExact` |
| `NobodyIsMissed` | | `[]NobodyMissed` |
| `MutexIsImplemented` | | `ImplementsMutex` |
| `ItemsAreSpokenFor` | | `[]ItemsSpokenFor` |
| `QueueIsImplemented` | | `ImplementsQueue` |
| `OneRequestAtATime` | `MachineProofs` | `[]OneRequest` |
| `SectorsAreImplemented` | | `ImplementsSectors` |
| `TimeIsKept` | | `[]TimingExact` |
| `TranslationStaysInside` | | the ASSERT of `Translate`, for each translation that succeeds |
| `MachineIsSound` | | `[]MachineSound`: the simulated machine has its type |
| `MachineWritesAuthorised` | | `WritesAuthorised` |
| `FaultsRestart` | | `[]FaultsRestartable` |
| `DeviceIsExact` | `PostOfficeProofs` | `[]DeviceExact` |
| `MailIsImplemented` | | `ImplementsMail` |
| `ListsAreSane` | `LibraryProofs` | `[](SanityCheck /\ NoneLost)` |
| `ListsAreSequences` | | `ImplementsSequence` |
| `DescriptorsAreOwned` | | `[]OwnDescriptors` |
| `FilesAreImplemented` | | `ImplementsFiles` |
| `DevicesAreReady` | | `[]DevicesReady` |
| `InputStaysInOrder` | | `[]InputInOrder` |
| `TableIsCounted` | `FileTableProofs` | `[](TypeOK /\ IndexCounts)` |
| `CallsAreContained` | | `[][CallContained]`, the part of `CallsContained` about the latest handler |
| `AccessIsExact` | | `[][FailureHarmless /\ AccessExact]`, the part about the snapshot |
| `DiskSound` | `FileSystemProofs` | `[]IInv`: the disk is sound at every write of every call |
| `FreeMapIsExact` | | `[]FreeMapExact` |
| `AbortsWhenTorn` | | `AbortsOnlyWhenTorn` |
| `ContentsSound` | | `[](IInv /\ KeptInv)`: and each file holds its bytes at every write |
| `FilesAreKept` | | `[]FilesKept` |
| `RegistersInPlace` | `ContextSwitchProofs` | `[]SwitchInv`: on each host, every register is where the switch to come looks for it |
| `RegistersAreKept` | | `[]ThreadsKeepRegisters` |
| `StartsAreRight` | | `[]ThreadsStartRight` |

**Threads.** None of the properties is inductive alone. `SchedulerConsistent`, for
example, depends on a thread being dispatched at most once, which depends on where
each thread stands; `CarcassHandled` depends on what the successor does first. The
invariant that is inductive, `IInv`, is the conjunction of

* `TypeOK`;
* `Places`: where a thread stands fixes its status, and only `currentThread`
  stands at a point of execution, with the exception of a thread that a handler
  readied while it idles in `Sleep`;
* `ReadyQueue`: the ready list has no duplicates and is the set of READY threads;
* `WaitQueues`: each semaphore's queue has no duplicates and is the set of
  BLOCKED threads that called its `P`;
* `CarcassSlot`: `toBeDestroyed` is the one zombie, and is set only while the
  successor has not taken its first step;
* `LevelDiscipline`, `Modes`: the level and the mode at each place, and what the
  saved modes of user threads are.

The step lemma splits by the kind of action, and a few lemmas carry what the
actions share: `Dispatch` (taking the head of the ready list), `Wakeup` (moving
a thread from a semaphore's queue to the ready list), `LocalStep` (a step that
changes only where the current thread stands), and `RangeAppend` and `RangeTail`
(what a queue contains). For the refinement each action is shown to
be an action of `Semaphores` or to leave its variables alone. `NoLostWakeup` is then a
property of the *abstract* steps: a wakeup adds one unit and one tester, a tester
that leaves takes a unit or finds none.

**Lock, condition, list.** `MonInv` says that the one unit of the lock's semaphore is
free or with one owner (`OneOwner`), that `lockHolder` names the owner from the end of
Acquire to the beginning of Release (`HolderExact`), that a free lock has a thread on
its way to it if anybody sleeps (`LockHandedOn`), and that a thread in `Wait` is in
`waitQueue` or has its signal, never both (`SignalNotMissed`). `LockExact` and
`NobodyMissed` follow by counting; the mutex is implemented with the owner as its
holder. `ListInv` adds how many consumers are awake: at least as many as items, while
any sleep. RemoveFront signals nobody, so this depends on Append signalling for
every item rather than for the first.

**Console.** `ConsoleInv`: the lock keeps others out of the part between it and its
release (`Locked`); a completion of the display is pending or counted for exactly the
thread that waits for it (`OutputPaired`); the right to the keyboard's buffer is with
the device, in the semaphore or with one reader (`InputPassedOn`), so the device never
overwrites a character. `InputInOrder` is about a script without the byte 0xFF, which
the code takes for the end of the input.

**Disk.** `OneRequest` is inductive. `ClockInv` for the time has as its parts that the
pending list is one entry of the timer and one of the disk while it is busy, sorted
(`PendingExact`; there are two devices, so the sorted insertion is proved for lists of
one), that nothing in it is overdue outside `CheckIfDue` (`NoneOverdue`), that the
latency of the last request ends behind its sector and is bounded (`RequestExact`),
that the track buffer started at a sector boundary (`BufferAtBoundary`), and that the
machine idles only until the interrupt it waits for fires (`Idling`). The arithmetic
(division, multiples, the next pass of a sector) is in lemmas of its own.

**Processor.** `WritesAuthorised` is about one step, but a step of any instruction, so the
proof follows the code: `TranslateExact` says that an address which is let through
lies in the frame of the entry found (the arithmetic: page size and access divide,
so an aligned access does not cross the end of its page), `ReadExact` and `WriteExact`
what ReadMem and WriteMem leave behind, then there is a lemma per class of
instructions (`ComputeKept` to `StoreHalfAuthorised`), and `InstructionAuthorised` adds the
mark that the fetch leaves. All of them need that registers hold words and memory
bytes, which is the invariant `MachineSound`: each result is shown to fit, the
32-step product of `Mult` with its folds included. A byte lies in one frame only
(`OneFrame`), hence only the frame of that one entry changes. The induction that sums and
loops need is over the subsets of a finite set, by the smallest counterexample
(`Least`, `FoldExists`). Two assumptions stand in for what the prover cannot compute:
`PowersAssumption` (powers of two double), and in `UserMachineAssumption` that each
object file of `Layout` that fits is loaded to a machine with its type; TLC evaluates
both. A program that is already loaded, `Preset`, needs no more than its type and 0 in
register 0.

`FaultsRestart` compares two runs of the same instruction. The trap has finished the
pending load before the handler sees the machine, so the run after the repair starts
with the loaded word in its register and no load pending, the run without a fault
with the load still pending. That both leave the same is shown for each class of instructions:
one that keeps off the register being loaded reads the same operands in both, writes
another register, and ends with the old load done either way; LWL and LWR read the
pending word itself. `MachineSound` contributes that register 0 is 0, which the
argument needs where an instruction writes there. What may differ is only what no
program can see (`Visible`): a load pending into register 0, which stays 0, and the one
pending when the simulator is stopped. TLC showed that without this exception the
property is false, for LWL with rt = 0 and for a DIV that stops the simulator;
the property and the inputs of the run were changed accordingly.

**Network.** `OfficeInv`: a packet in the device's buffer has a signal or the worker on
its way to it (`BuffersPassOn`), one thread per machine is past the send lock and has
its mail (`SendersAlone`), an interrupt is pending or counted exactly for a sender that
waits (`SendPaired`), and a machine that is down has nothing left (`DownIsEmpty`). The
abstract mail in transit is what is on the wire, in the buffer and with the worker;
each step moves mail along that way, drops it where a machine ends, or does nothing.

**Lists.** `ListInv`: following `next` from `first` visits a sequence of different
elements that ends at `last`, `numInList` is its length, and a sorted list is ordered by
key. `InsertLinked` and `RemoveLinked` say what linking in and out at a position does to
that sequence; each operation is shown to be one of them, and both lists then
implement `ItemSequence`. The walks of the code are functions over positions, and "for
every position up to n" is proved with `Everywhere`, which takes the least
counterexample of a set of numbers instead of an induction over a predicate.

**Files.** `HostInv`: every object has an open descriptor and no two have the same.
The position of an abstract handle is `currentOffset`; Read and Write set the host's
offset to it before they use it, so what ReadAt, Length and other objects left in the
host never shows. `TableInv`: `index` is at least the number of open slots and
three (`IndexCounts`), and a Read that is executed again carries -1 as its call
number (`ReadFailed`). `SnapshotInv` keeps the type that Open was given, and that a slot
with a writable file names a file of the program, not the console.

**File system.** A call is known by the sectors it has still to write: `After(d, w, k)` is
disk d after the first k of the writes w. `IInv` does not speak of the disk alone, which a
stop may catch anywhere, but of every disk that the rest of the call passes through:
each is `Sound` (files that do not meet each other or the system's sectors, no marked
sector without an owner), and the last is `Exact` (every sector of a file is marked)
as long as no Create or Remove was cut off (`Clean`). A stop then leaves a sound disk,
and the end of the call an exact one, without an argument of their own; a step of
`WriteSector` only drops the head of w. What has to be proved is that each call *begins*
well, per kind of call: Create writes header, directory and map in that order, into
sectors that were free, so the file is not in the directory before its header is on the
disk (`CreateView`); Remove writes the map before the directory (`RemoveView`), which is why
it can leave a file whose sectors are free; data goes only into sectors of the file
(`DataBegins`). All of it is about the model with its two bounds, `FitsHeader` and
`NoMoreCreates` (section 6). The directory may lie across sectors, so a table between two of its
writes is half old and half new (`IsBetween`); its flag and number change together,
because `FileSystemAssumption` keeps them in one sector (with entries of 20 bytes and
sectors of 128, entry 19 counted from 0 is the first that would break this; the code
has ten). The name of an entry may be split off: `Named` says that names in use
differ, and that a free entry with an old name is behind the one in use that has the
name now. It holds because Add takes the first free slot and FindIndex the first
match, and it is why a half-written directory never hides an older file.

`MarkedInv` says which file the ASSERT of Deallocate can fail for: every file whose
sectors are not all marked is the file of an interrupted Copy or Remove (`Explained`), by
name or, when the two sectors of its directory entry were torn, by its header; and one
that is complete under its name is marked unless a command of that very name was
interrupted (`Intact`). Like the parts of `IInv` it is stated along all the disks of a
call; `AbortsOnlyWhenTorn` is then what Remove finds at rest.

`KeptInv` adds the contents. Each file that is not at risk has its bytes on all the disks
of `After`; a call that writes ends with its bytes in the file; `Copied` says how
far the loop of Copy has come. `WriteAt` is shown to keep the bytes at both ends of the
range that it does not write, for every position and length (`NewSector` is what it
leaves in one sector). `FilesKept` compares what Print reads, a sequence of chunks of
`TransferSize` bytes, with the contents cut the same way; the prover cannot unfold the
fold that joins them.

**Context switch.** `SwitchInv` holds for any number of threads and any of the seven hosts.
It says where everything is. A thread that was switched away from has in its block, and
on the SPARC and the x86 also on its stack, the value that its code had in each register
(`AllSaved`). A thread that was forked and has not run has there what `StackAllocate`
wrote (`NotStarted`), and what its `ThreadRoot` has still to call stays in the registers or
the frame from which it will take it (`FramesKept`). The processor has the registers of
the current thread, in C code or in `ThreadRoot` (`ProcessorOK`), and the simulated machine
those of its user program (`UserOK`). The tables come first: on each host, that the slots
of a block do not overlap and lie inside it (`Fetch` then returns what was stored), that
the registers which SWITCH stores are those it loads, and that they are all that C code
expects to find again (on the SPARC the register windows are, on the stack). Then SWITCH:
it stores into the block and the stack of the old thread only, so every other thread
keeps its own (`LinkSwitches`, `StackSwitches`). Last, for each host, that what
`StackAllocate` wrote reaches the registers that `ThreadRoot` calls through
(`EveryHostRooted`). `ThreadsStartRight` follows from `CallsOK`: the calls of a ThreadRoot are a prefix of
ThreadBegin, the function with its argument, and ThreadFinish. Assumed are that `Main` is a
thread, that `"none"` is not, and that `Hosts` are among those of switch.S. The provers do
not know TLC's `:>` and `@@`; the module writes to the stacks with `Only` and `++` of its own.

Only model-checked: every liveness property (liveness under fairness is beyond the
prover); of the machine what instructions compute (`InstructionsExact`) and where a
program is loaded (`LoadedImage`); strings and numbers (`HandlersExact`), the hash table,
bitmap and stacks (`ContainersExact`), the user programs (`ProgramsExact`) and the
self-tests, where what is computed comes from folds and recursive functions whose
values for all inputs need induction over data; and the four properties that the code violates.

## 5. Where code and documentation disagree

Checked by a run each:

1. `threads_bad_pointer`: `Machine::RaiseException` ends with
   `setStatus(UserMode)`. When `ReadMem` or `WriteMem` raises it inside a system
   call, the handler of that call goes on as kernel code in UserMode, contrary
   to `machine/interrupt.h:43`.
2. `console_second_eof`: after the end of the input the first `GetChar` returns
   EOF and later ones wait for ever, since the handler schedules no further poll
   and `GetChar` restarts it only for a character; `synchconsole.cc:46` says
   "wait for EOF or a char to be available." A byte 0xFF in the input has the
   same effect, because `incoming` is a `char`.
3. `file_seek`: `SC_Seek` compares the descriptor with `index`, which counts
   opens and closes; a file in a high slot cannot be sought in after files in
   lower slots were closed (`syscall.h:187`).
4. `file_read_only`: SC_Write has a test that refuses, in the words of its comment, a
   file that is only read, "type quy uoc la 1" (`exception.cc:453`). Open of the stub
   file system forgets the type it is given, so the test never refuses: `copy` opens its
   destination with type 1 (`copy.c:25`) and writes to it. `concatenate` writes through a
   descriptor of type 0, and `openfile.h:87-89` gives the two types the other way
   round. If Open kept the type, `copy` would copy nothing; `ProgramsExact` is about the
   programs on the handler as it is.

Met while reading, modelled as the code does it, without a run of their own:

* *Files.* Remove returns 1 even if there is no file; Create and Close return 0
  where `syscall.h:162` and `193` say 1; a failed Open, the standard streams and
  the loaded program leave `index` too large.
* *Programs.* `copy` from a file to itself empties it. `concatenate` appends the
  *destination* to the *source*, and leaves the source open when there is no
  destination. `char *c` is not initialised. Exit is not handled by the kernel;
  its stub ends in Halt's.
* *Snapshot.* Only slot 2 can be sought in, since `index` stays 2; files in slots
  10 to 14 cannot be closed; a Write of no bytes and Remove leave the number of
  the call as the result.
* *Numbers and strings.* PrintNum(0) prints nothing, where `syscall.h:101` promises an
  integer; ReadNum reads a '-' with no digits as 0 and takes '-' in the middle
  (`HandlersExact` says nothing of these). It returns INT_MIN for what does not fit, and
  leaves the rest of a line unread when the result is -1, INT_MAX or INT_MIN. ReadString stores its first
  character even if that is the newline, and writes no terminator, so the tail of
  a longer string that was in the buffer stays.
* *Machine.* SRL and SRLV shift signed numbers; INT_MIN / -1 is left to the host.
  `ExceptionHandler` only prints the exceptions that are not system calls and
  steps over the instruction, which loses the branch of a delay slot. The comment
  on `valid` in `translate.h` says the opposite of the code.
* *coff2noff* refuses two `.bss` next to each other and rejects `.sbss`.
* *File system proper.* A stop between the writes of directory and free map leaves
  a file whose sectors are not marked; a later Remove of it fails an ASSERT. A stop
  between the two sectors of the directory can bring back a removed name. Allocate
  does not compare with `NumDirect`.
* *End of the file system.* `~FileSystem` of the latest snapshot (`filesys/filesys.h`)
  has `delete[] opened` inside its loop over the slots; it runs when the process
  ends, which the models do not.
* *Context switch.* A comment in the x86 part of `switch.S` says that eax points to
  the start-up function; the code uses ecx.
* *Devices.* `sendBusy` of the network device is tested and never set; the timer
  is always pending, so `Idle` never halts the machine. `Alarm::WaitUntil` is
  declared and not defined.

## 6. What is not modelled, and why

* **Undefined behaviour after an overrun**: a typed line longer than the kernel's
  buffer (ReadString), a file with more sectors than a header has room for
  (Allocate). What follows depends on the layout of the heap; the inputs that lead
  there are left out and named where they are (`MaxLine`, `FitsHeader`).
* **New files on a torn disk** (`NoMoreCreates`): they may be given the sectors of
  the half-created file, after which a header is read from data. The code warns of
  it ("it may corrupt the disk", `filesys.cc`).
* **Two threads in the file system proper**: `filesys.cc` "assumes there is no
  concurrent access" and no caller breaks it.
* **shell.c** needs Exec and Join, which the kernel does not handle; `help.c` and
  its like print a text.
* **What the assembler makes of `.ENTER` and `.LEAVE`** in the `ThreadRoot` of the
  PA-RISC; the return address that a call on the x86 pushes counts as part of the frame of
  the C code called.
* **Floating-point registers** of the hosts where `switch.S` does not save them; on the
  two PowerPC hosts, where it does, f14 to f31 are modelled.
* **Contents of packets**: identities are what the properties tell apart.
* **Formats of object files** beyond sections, segments and the order of bytes in a
  word; the debugger of the simulator, command line, debug flags.
* **Self-tests that only print**, and those of the file system commands. The tests of
  threads, lists, hash tables, bitmaps and the network are modelled.
* **code/** beyond its handler of system calls and its class `OpenFile`: the kernel
  as it was handed out, whose files are those of the latest snapshot.

## 7. Plan

Done: threads, interrupts and modes, semaphores (proved), lock and condition,
synchronized list, console, strings and numbers, disk and time, synchronous disk,
file system, network, file system calls of both snapshots, user programs, machine
and address spaces, containers, context switch.

Proved: threads, monitors, synchronized list, console, disk requests and time,
writes and restarts of the machine, network, linked lists, files of the host, both
tables of open files, the file system on its disk, and the context switch (section 4).

What may be proved next: the arithmetic of `InstructionsExact`; the bitmap and the hash table of
`ContainersExact`, as far as they do not need induction.

## 8. Running the checks

```
tlc -workers 2 -config KernelThreads.cfg MCKernelThreads.tla     # about a minute
tlc -workers 2 -config FileTable.cfg MCFileTable.tla             # the longest, three
tlapm KernelThreadsProofs.tla                                    # and the other *Proofs
```

PROJECT.json lists for each run its module and configuration, and for each
property a plausible fault in the code (an operator beside the one it replaces)
under which TLC finds the property violated.
