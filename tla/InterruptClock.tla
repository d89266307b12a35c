--------------------------- MODULE InterruptClock ---------------------------
(* Simulated time: the clock, the sorted list of pending interrupts and    *)
(* CheckIfDue (machine/interrupt.cc), the timer that slices time           *)
(* (machine/timer.cc, threads/alarm.cc), and the disk, whose latencies are *)
(* the irregular ones among the devices.                                   *)
(*                                                                         *)
(* What the threads do is abstract: the running one executes user          *)
(* instructions or kernel code, may ask the disk for a sector, or sleeps   *)
(* and leaves the machine idle.                                            *)
EXTENDS Integers, Sequences

-----------------------------------------------------------------------------
(* The time model of the simulated disk (machine/disk.cc): where the head  *)
(* is, what the track buffer holds, and how long a request takes.          *)
(*                                                                         *)
(* The head moves one track per SeekTime ticks and the disk turns one      *)
(* sector per RotationTime ticks, so at time x the sector at offset        *)
(* (x \div RotationTime) % SectorsPerTrack of the track passes the head.   *)
CONSTANTS SectorsPerTrack, NumTracks,   \* the geometry (disk.h)
          SeekTime, RotationTime        \* in ticks (stats.h)

ASSUME DiskHeadAssumption ==
  /\ SectorsPerTrack \in Nat \ {0} /\ NumTracks \in Nat \ {0}
  /\ SeekTime \in Nat /\ RotationTime \in Nat \ {0}

VARIABLES
  totalTicks,   \* Statistics::totalTicks, the clock
  lastSector,   \* Disk::lastSector, the sector requested last
  bufferInit,   \* Disk::bufferInit, when the track buffer began to fill
  busy,         \* Disk::active, is a request under way?
  last          \* the request made last: when, for what, until when, and how

headVars == <<lastSector, bufferInit, busy, last>>

DiskSector == 0 .. SectorsPerTrack * NumTracks - 1
Distance(a, b) == IF a > b THEN a - b ELSE b - a

Seek(sector) ==
  Distance(sector \div SectorsPerTrack, lastSector \div SectorsPerTrack) * SeekTime

(* Until the head is at a sector boundary, after the seek.                 *)
Rotation(sector) ==
  LET over == (totalTicks + Seek(sector)) % RotationTime
  IN  IF over > 0 THEN RotationTime - over ELSE 0

ModuloDiff(to, from) ==
  (((to % SectorsPerTrack) - (from % SectorsPerTrack)) + SectorsPerTrack) % SectorsPerTrack

TimeAfter(sector) == totalTicks + Seek(sector) + Rotation(sector)

(* Does a read find the sector in the track buffer?  (The faulty one says  *)
(* so while the sector is just coming by.)                                 *)
BufferedTooSoon(sector, writing) ==
  /\ ~writing /\ Seek(sector) = 0
  /\ (TimeAfter(sector) - bufferInit) \div RotationTime
       >= ModuloDiff(sector, bufferInit \div RotationTime)
Buffered(sector, writing) ==
  /\ ~writing /\ Seek(sector) = 0
  /\ (TimeAfter(sector) - bufferInit) \div RotationTime
       > ModuloDiff(sector, bufferInit \div RotationTime)

ComputeLatency(sector, writing) ==
  IF Buffered(sector, writing)
  THEN RotationTime
  ELSE Seek(sector) + Rotation(sector) + RotationTime
         + ModuloDiff(sector, TimeAfter(sector) \div RotationTime) * RotationTime

(* UpdateLast: a seek empties the buffer.                                  *)
BufferStart(sector) == IF Seek(sector) # 0 THEN TimeAfter(sector) ELSE bufferInit

HeadInit ==
  /\ totalTicks = 0 /\ lastSector = 0 /\ bufferInit = 0
  /\ busy = FALSE
  /\ last = [sector |-> 0, from |-> 0, until |-> 0, buffered |-> FALSE, seek |-> 0]

(* ReadRequest (writing = FALSE) and WriteRequest, but for the interrupt   *)
(* they schedule: compute the latency, remember the sector.                *)
StartRequest(sector, writing) ==
  /\ ~busy
  /\ last' = [sector |-> sector, from |-> totalTicks,
              until |-> totalTicks + ComputeLatency(sector, writing),
              buffered |-> Buffered(sector, writing), seek |-> Seek(sector)]
  /\ busy' = TRUE
  /\ bufferInit' = BufferStart(sector)
  /\ lastSector' = sector
  /\ UNCHANGED totalTicks

----------------------------------------------------------------------------
(* Properties of the last request.                                         *)

HeadTypeOK ==
  /\ totalTicks \in Nat
  /\ lastSector \in DiskSector
  /\ bufferInit \in Nat
  /\ busy \in BOOLEAN
  /\ last \in [sector : DiskSector, from : Nat, until : Nat, buffered : BOOLEAN, seek : Nat]

(* The sector at slot k (from k * RotationTime on) is the one asked for.   *)
PassesIn(k, sector) == k % SectorsPerTrack = sector % SectorsPerTrack

(* A request that is not served by the track buffer ends exactly when the  *)
(* sector it asked for has passed under the head (disk.cc, "how long it    *)
(* will take to rotate completely past newSector").                        *)
EndsBehindSector ==
  busy /\ ~last.buffered =>
    /\ last.until % RotationTime = 0
    /\ PassesIn(last.until \div RotationTime - 1, last.sector)

(* A read is answered by the track buffer only if its sector really went   *)
(* by between the arrival of the head on the track and the end of the      *)
(* request: the buffer never holds a sector of another track or one that   *)
(* has not been read yet.                                                  *)
BufferHoldsSector ==
  busy /\ last.buffered =>
    \E k \in 0 .. (last.until \div RotationTime) :
      /\ PassesIn(k, last.sector)
      /\ bufferInit <= k * RotationTime
      /\ (k + 1) * RotationTime <= last.until

(* No request takes longer than its seek and one turn beyond the partial   *)
(* sector, none is free, and the head is on the track again when it ends.  *)
LatencyBounded ==
  busy =>
    /\ last.until >= last.from + RotationTime
    /\ last.until < last.from + last.seek + RotationTime * (SectorsPerTrack + 1)
    /\ bufferInit <= last.until

-----------------------------------------------------------------------------
(* The clock, the pending interrupts and the devices that schedule them.   *)
CONSTANTS SystemTick, UserTick, TimerTicks,   \* stats.h
          MaxTime                             \* bound on the clock

ASSUME ClockAssumption ==
  /\ SystemTick \in Nat \ {0} /\ UserTick \in Nat \ {0} /\ TimerTicks \in Nat \ {0}
  /\ MaxTime \in Nat

VARIABLES
  pending,        \* Interrupt::pending: who is to be called, and when
  mode,           \* Interrupt::status
  at,             \* where the simulation stands: "run", or in CheckIfDue
                  \* ("fire") called from OneTick or Idle, or after it in OneTick
  yieldOnReturn,  \* Interrupt::yieldOnReturn
  randomize,      \* Timer::randomize
  slice           \* when the timer last called (or was started)

clockVars == <<headVars, totalTicks, pending, mode, at, yieldOnReturn, randomize, slice>>

Device == {"timer", "disk"}
PendingInterrupt(device, time) == [device |-> device, when |-> time]

(* SortedList::Insert with PendingCompare: in front of the first element   *)
(* that is due later.                                                      *)
Insert(list, e) ==
  LET earlier == {i \in DOMAIN list : list[i].when <= e.when}
      k == IF earlier = {} THEN 0 ELSE CHOOSE i \in earlier : \A j \in earlier : j <= i
  IN  SubSeq(list, 1, k) \o <<e>> \o SubSeq(list, k + 1, Len(list))

(* Schedule: at "now + fromNow".                                           *)
Schedule(list, device, fromNow) ==
  Insert(list, PendingInterrupt(device, totalTicks + fromNow))

(* Timer::SetInterrupt: a fixed delay, or one from 1 to twice as long.     *)
Delays == IF randomize THEN 1 .. 2 * TimerTicks ELSE {TimerTicks}

ClockInit ==
  /\ HeadInit
  /\ randomize \in BOOLEAN
  /\ \E d \in Delays : pending = Schedule(<<>>, "timer", d)
  /\ mode = "SystemMode" /\ at = "run"
  /\ yieldOnReturn = FALSE /\ slice = 0

Due(list, now) == list # <<>> /\ Head(list).when <= now

(* SetLevel(IntOn) in kernel code, or the end of a user instruction: the   *)
(* clock advances and CheckIfDue(FALSE) looks at the front of the list.    *)
OneTick ==
  /\ at = "run" /\ totalTicks < MaxTime
  /\ LET now == totalTicks + IF mode = "SystemMode" THEN SystemTick ELSE UserTick
     IN  /\ totalTicks' = now
         /\ at' = IF Due(pending, now) THEN "fire" ELSE "after"
  /\ UNCHANGED <<headVars, pending, mode, yieldOnReturn, randomize, slice>>

(* Sleep with nobody ready: Idle, and CheckIfDue(TRUE) moves the clock to  *)
(* the next pending interrupt.                                             *)
Idle ==
  /\ at = "run" /\ mode = "SystemMode" /\ totalTicks < MaxTime
  /\ pending # <<>>
  /\ mode' = "IdleMode"
  /\ totalTicks' = IF Head(pending).when > totalTicks THEN Head(pending).when ELSE totalTicks
  /\ at' = "fire"
  /\ UNCHANGED <<headVars, pending, yieldOnReturn, randomize, slice>>

(* Alarm::CallBack asks for a switch unless the machine idles.             *)
YieldWanted == mode # "IdleMode"

(* One turn of the loop of CheckIfDue: take the front interrupt off the    *)
(* list and call its device: Timer::CallBack ...                           *)
TimerFires ==
  /\ at = "fire" /\ Due(pending, totalTicks) /\ Head(pending).device = "timer"
  /\ yieldOnReturn' = (yieldOnReturn \/ YieldWanted)
  /\ \E d \in Delays : pending' = Schedule(Tail(pending), "timer", d)
  /\ slice' = totalTicks
  /\ UNCHANGED <<headVars, totalTicks, mode, at, randomize>>

(* ... or Disk::CallBack.                                                  *)
DiskFires ==
  /\ at = "fire" /\ Due(pending, totalTicks) /\ Head(pending).device = "disk"
  /\ pending' = Tail(pending)
  /\ busy' = FALSE
  /\ UNCHANGED <<lastSector, bufferInit, last, totalTicks, mode, at, yieldOnReturn,
                 randomize, slice>>

(* The loop goes on until the front interrupt is not due.                  *)
NoneDue == at = "fire" /\ ~Due(pending, totalTicks)

HandlersDone ==
  /\ NoneDue
  /\ IF mode = "IdleMode"
     THEN mode' = "SystemMode" /\ at' = "run"        \* return from Idle
     ELSE at' = "after" /\ UNCHANGED mode
  /\ UNCHANGED <<headVars, totalTicks, pending, yieldOnReturn, randomize, slice>>

(* The rest of OneTick: yield if a handler asked for it; the thread that   *)
(* runs next is in user or in kernel code.                                 *)
EndTick ==
  /\ at = "after"
  /\ yieldOnReturn' = FALSE
  /\ mode' \in {"SystemMode", "UserMode"}
  /\ at' = "run"
  /\ UNCHANGED <<headVars, totalTicks, pending, randomize, slice>>

(* Kernel code asks the disk for a sector.                                 *)
DiskRequest(sector, writing) ==
  /\ at = "run" /\ mode = "SystemMode"
  /\ StartRequest(sector, writing)
  /\ pending' = Schedule(pending, "disk", ComputeLatency(sector, writing))
  /\ UNCHANGED <<mode, at, yieldOnReturn, randomize, slice>>

ClockNext ==
  \/ OneTick \/ Idle \/ TimerFires \/ DiskFires \/ HandlersDone \/ EndTick
  \/ \E sector \in DiskSector, writing \in BOOLEAN : DiskRequest(sector, writing)

ClockSpec == ClockInit /\ [][ClockNext]_clockVars

----------------------------------------------------------------------------
(* Properties.                                                             *)

ClockTypeOK ==
  /\ HeadTypeOK
  /\ pending \in Seq([device : Device, when : Nat])
  /\ mode \in {"SystemMode", "UserMode", "IdleMode"}
  /\ at \in {"run", "fire", "after"}
  /\ yieldOnReturn \in BOOLEAN /\ randomize \in BOOLEAN
  /\ slice \in Nat

(* While threads run no interrupt is overdue: each tick has fired all that *)
(* were due, in the order of their times; the disk's is pending exactly    *)
(* while it is busy, and the timer's always, so Idle never runs out of     *)
(* interrupts ("there are *always* pending interrupts", interrupt.cc:233). *)
NothingOverdue ==
  /\ ClockTypeOK
  /\ \A i, j \in DOMAIN pending : i < j => pending[i].when <= pending[j].when
  /\ at # "fire" => \A i \in DOMAIN pending : pending[i].when > totalTicks
  /\ \E i \in DOMAIN pending : pending[i].device = "timer"
  /\ busy <=> \E i \in DOMAIN pending : pending[i] = [device |-> "disk", when |-> last.until]

(* Time slices: a thread runs at most one timer delay and a tick before    *)
(* the timer calls, and the switch asked for on its behalf is not left for *)
(* a thread that comes after it.                                           *)
LongestDelay == IF randomize THEN 2 * TimerTicks ELSE TimerTicks
LongestTick == IF SystemTick > UserTick THEN SystemTick ELSE UserTick
SliceBounded ==
  /\ at # "fire" => totalTicks - slice <= LongestDelay
  /\ totalTicks - slice < LongestDelay + LongestTick
  /\ yieldOnReturn => at # "run"

(* Simulated time is kept: interrupts fire in time, slices are bounded and *)
(* a request to the disk takes as long as its sector takes to pass.        *)
TimingExact ==
  NothingOverdue /\ SliceBounded /\ EndsBehindSector /\ BufferHoldsSector /\ LatencyBounded
=============================================================================
