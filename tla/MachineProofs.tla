---------------------------- MODULE MachineProofs ---------------------------
(* The simulated hardware of machine/: the time it keeps, on every disk    *)
(* geometry and with all lengths of ticks, seeks, sectors and timer delays *)
(* (InterruptClock); its disk from both sides, for any number of threads,  *)
(* sectors, calls and crashes (SynchDisk); and its processor, for any      *)
(* program, page table or TLB, and size of the memory (UserMachine).       *)
EXTENDS SynchDisk, InterruptClock, UserMachine, FiniteSetTheorems,
        WellFoundedInduction, SequenceTheorems, TLAPS

-----------------------------------------------------------------------------
(* Division by a number that is not known.                                 *)
LEMMA Division ==
  ASSUME NEW n \in Nat \ {0}, NEW a \in Nat
  PROVE  /\ a \div n \in Nat /\ a % n \in Nat /\ a % n < n
         /\ a = n * (a \div n) + (a % n)
OBVIOUS

LEMMA Quotient ==
  ASSUME NEW n \in Nat \ {0}, NEW k \in Nat, NEW r \in Nat, r < n
  PROVE  (n * k + r) \div n = k /\ (n * k + r) % n = r
OBVIOUS

LEMMA Multiple ==
  ASSUME NEW n \in Nat \ {0}, NEW k \in Nat
  PROVE  /\ n * k \in Nat /\ k * n = n * k
         /\ (n * k) \div n = k /\ (n * k) % n = 0
<1>1. n * k \in Nat /\ k * n = n * k /\ n * k = n * k + 0
  OBVIOUS
<1>2. 0 < n
  OBVIOUS
<1> QED BY <1>1, <1>2, Quotient

LEMMA Times ==
  ASSUME NEW n \in Nat, NEW a \in Nat, NEW b \in Nat, a <= b
  PROVE  n * a <= n * b
OBVIOUS

(* After the seek and the partial sector the head is at a boundary.        *)
LEMMA AtBoundary ==
  ASSUME NEW n \in Nat \ {0}, NEW x \in Nat,
         NEW rest \in Int, x % n > 0 => rest = n - (x % n), ~(x % n > 0) => rest = 0
  PROVE  /\ rest \in Nat /\ rest < n
         /\ \E k \in Nat : x + rest = n * k
<1>1. /\ x \div n \in Nat /\ x % n \in Nat /\ x % n < n
      /\ x = n * (x \div n) + (x % n)
  BY Division
<1>2. CASE x % n > 0
  <2>1. x + rest = n * (x \div n + 1)
    BY <1>1, <1>2
  <2>2. x \div n + 1 \in Nat /\ rest \in Nat /\ rest < n
    BY <1>1, <1>2
  <2> QED BY <2>1, <2>2
<1>3. CASE ~(x % n > 0)
  <2>1. rest = 0 /\ x % n = 0
    BY <1>1, <1>3
  <2>2. x + rest = n * (x \div n)
    BY <1>1, <2>1
  <2> QED BY <1>1, <2>1, <2>2
<1> QED BY <1>2, <1>3

(* ModuloDiff sectors after one passes the head, the other does.           *)
LEMMA NextPass ==
  ASSUME NEW to \in Nat, NEW from \in Nat
  PROVE  /\ ModuloDiff(to, from) \in 0 .. SectorsPerTrack - 1
         /\ (from + ModuloDiff(to, from)) % SectorsPerTrack = to % SectorsPerTrack
<1> DEFINE n == SectorsPerTrack
           t == to % n
           f == from % n
           q == from \div n
<1>0. n \in Nat \ {0}
  BY DiskHeadAssumption
<1>1. /\ t \in Nat /\ t < n /\ f \in Nat /\ f < n /\ q \in Nat
      /\ from = n * q + f
  BY <1>0, Division
<1>2. ModuloDiff(to, from) = ((t - f) + n) % n
  BY DEF ModuloDiff
<1> HIDE DEF n, t, f, q
<1>3. CASE t >= f
  <2>1. (t - f) + n = n * 1 + (t - f) /\ t - f \in Nat /\ t - f < n
    BY <1>0, <1>1, <1>3
  <2>2. (n * 1 + (t - f)) % n = t - f
    BY <1>0, <2>1, Quotient
  <2>3. ModuloDiff(to, from) = t - f
    BY <1>2, <2>1, <2>2
  <2>4. (n * q + t) % n = t /\ from + (t - f) = n * q + t
    BY <1>0, <1>1, Quotient
  <2> QED BY <1>0, <1>1, <2>1, <2>3, <2>4 DEF n, t
<1>4. CASE t < f
  <2>1. (t - f) + n = n * 0 + ((t - f) + n) /\ (t - f) + n \in Nat /\ (t - f) + n < n
    BY <1>0, <1>1, <1>4
  <2>2. (n * 0 + ((t - f) + n)) % n = (t - f) + n
    BY <1>0, <2>1, Quotient
  <2>3. ModuloDiff(to, from) = (t - f) + n
    BY <1>2, <2>1, <2>2
  <2>4. (n * (q + 1) + t) % n = t
    BY <1>0, <1>1, Quotient
  <2>5. from + ((t - f) + n) = n * (q + 1) + t
    BY <1>0, <1>1
  <2> QED BY <1>0, <1>1, <2>1, <2>3, <2>4, <2>5 DEF n, t
<1> QED BY <1>1, <1>3, <1>4

-----------------------------------------------------------------------------
(* The inductive invariant: TimingExact with four facts that it needs.     *)

(* The buffer began to fill at a sector boundary, before now.              *)
BufferAtBoundary ==
  /\ \E k \in Nat : bufferInit = RotationTime * k
  /\ ~busy => bufferInit <= totalTicks

(* One interrupt of the timer is pending, due within a delay of its last   *)
(* call, and one of the disk while it is busy.                             *)
Timer(time) == PendingInterrupt("timer", time)
Disk == PendingInterrupt("disk", last.until)
PendingExact ==
  \E time \in Nat :
    /\ time <= slice + LongestDelay
    /\ \/ ~busy /\ pending = <<Timer(time)>>
       \/ busy /\ pending = <<Timer(time), Disk>> /\ time <= last.until
       \/ busy /\ pending = <<Disk, Timer(time)>> /\ last.until <= time

NoneOverdue == at # "fire" => \A i \in DOMAIN pending : pending[i].when > totalTicks

(* The machine idles only while CheckIfDue fires what it waited for, and   *)
(* nobody asks for a switch then.                                          *)
Idling ==
  /\ mode = "IdleMode" => at = "fire" /\ ~yieldOnReturn
  /\ yieldOnReturn => at # "run"

RequestExact == EndsBehindSector /\ BufferHoldsSector /\ LatencyBounded

ClockInv ==
  /\ ClockTypeOK /\ RequestExact /\ BufferAtBoundary
  /\ PendingExact /\ NoneOverdue /\ Idling
  /\ totalTicks - slice < LongestDelay + LongestTick

(* When a request arrives: the time is a number of sectors once the head   *)
(* is on the track and at a boundary.                                      *)
LEMMA HeadArrives ==
  ASSUME HeadTypeOK, NEW sector \in DiskSector
  PROVE  /\ Seek(sector) \in Nat
         /\ Rotation(sector) \in Nat /\ Rotation(sector) < RotationTime
         /\ TimeAfter(sector) \in Nat
         /\ \E k \in Nat : TimeAfter(sector) = RotationTime * k
<1>1. Seek(sector) \in Nat
  <2>1. sector \in Nat /\ lastSector \in Nat
    BY DiskHeadAssumption DEF HeadTypeOK, DiskSector
  <2>2. sector \div SectorsPerTrack \in Nat /\ lastSector \div SectorsPerTrack \in Nat
    BY <2>1, DiskHeadAssumption, Division
  <2>3. Distance(sector \div SectorsPerTrack, lastSector \div SectorsPerTrack) \in Nat
    BY <2>2 DEF Distance
  <2> QED BY <2>3, DiskHeadAssumption DEF Seek
<1>2. totalTicks \in Nat /\ totalTicks + Seek(sector) \in Nat
  BY <1>1 DEF HeadTypeOK
<1> DEFINE x == totalTicks + Seek(sector)
           rest == Rotation(sector)
<1>3. /\ x % RotationTime > 0 => rest = RotationTime - (x % RotationTime)
      /\ ~(x % RotationTime > 0) => rest = 0
  BY DEF Rotation
<1>4. TimeAfter(sector) = x + rest
  BY DEF TimeAfter
<1>5. RotationTime \in Nat \ {0} /\ x \in Nat
  BY <1>2, DiskHeadAssumption
<1>6. rest \in Int
  <2>1. x % RotationTime \in Nat
    BY <1>5, Division
  <2> QED BY <1>3, <1>5, <2>1
<1> HIDE DEF x, rest
<1>7. rest \in Nat /\ rest < RotationTime /\ \E k \in Nat : x + rest = RotationTime * k
  BY <1>3, <1>5, <1>6, AtBoundary
<1> QED BY <1>1, <1>4, <1>5, <1>7 DEF rest

(* A request that is served by the track buffer: the sector passed between *)
(* the time the buffer began to fill and the end of the request.           *)
LEMMA BufferServes ==
  ASSUME NEW b \in Nat, NEW k \in Nat, NEW t \in Nat, NEW rest \in Nat,
         NEW sector \in Nat,
         RotationTime * b <= t, t + rest = RotationTime * k, rest < RotationTime,
         (RotationTime * k - RotationTime * b) \div RotationTime
           > ModuloDiff(sector, (RotationTime * b) \div RotationTime)
  PROVE  \E j \in 0 .. (t + RotationTime) \div RotationTime :
           /\ PassesIn(j, sector)
           /\ RotationTime * b <= j * RotationTime
           /\ (j + 1) * RotationTime <= t + RotationTime
<1> DEFINE md == ModuloDiff(sector, b)
           j == b + md
<1>0. RotationTime \in Nat \ {0} /\ SectorsPerTrack \in Nat \ {0}
  BY DiskHeadAssumption
<1>1. md \in 0 .. SectorsPerTrack - 1 /\ PassesIn(j, sector)
  BY NextPass DEF PassesIn
<1>2. md \in Nat /\ j \in Nat
  BY <1>0, <1>1
<1>3. ModuloDiff(sector, (RotationTime * b) \div RotationTime) = md
  <2>1. (RotationTime * b) \div RotationTime = b
    BY <1>0, Multiple
  <2> QED BY <2>1
<1> HIDE DEF md
<1>4. b <= k
  <2>1. RotationTime * b <= RotationTime * k /\ RotationTime * k \in Nat
    BY <1>0
  <2> SUFFICES ASSUME b >= k + 1 PROVE FALSE
    OBVIOUS
  <2>2. RotationTime * (k + 1) <= RotationTime * b
    BY <1>0, Times
  <2>3. RotationTime * (k + 1) = RotationTime * k + RotationTime
    BY <1>0
  <2> QED BY <1>0, <2>1, <2>2, <2>3
<1>5. md < k - b
  <2>1. RotationTime * k - RotationTime * b = RotationTime * (k - b) /\ k - b \in Nat
    BY <1>0, <1>4
  <2>2. (RotationTime * (k - b)) \div RotationTime = k - b
    BY <1>0, <2>1, Multiple
  <2> QED BY <1>3, <2>1, <2>2
<1>6. j + 1 <= k /\ b <= j
  BY <1>2, <1>5
<1> HIDE DEF j
<1>7. /\ RotationTime * b <= RotationTime * j
      /\ RotationTime * (j + 1) <= RotationTime * k
  BY <1>0, <1>2, <1>6, Times
<1>8. /\ j * RotationTime = RotationTime * j
      /\ (j + 1) * RotationTime = RotationTime * (j + 1)
  BY <1>0, <1>2
<1>9. RotationTime * k <= t + RotationTime
  BY <1>0
<1>10. (j + 1) * RotationTime <= t + RotationTime
  BY <1>0, <1>2, <1>7, <1>8, <1>9
<1>11. j \in 0 .. (t + RotationTime) \div RotationTime
  <2> DEFINE until == t + RotationTime
             d == until \div RotationTime
             m == until % RotationTime
  <2>1. /\ d \in Nat /\ m \in Nat /\ m < RotationTime
        /\ until = RotationTime * d + m
    BY <1>0, Division
  <2> HIDE DEF d, m
  <2>2. RotationTime * (j + 1) < RotationTime * (d + 1)
    <3>1. RotationTime * (d + 1) = RotationTime * d + RotationTime
      BY <1>0, <2>1
    <3> QED BY <1>0, <1>2, <1>8, <1>10, <2>1, <3>1
  <2>3. ~(d + 1 <= j + 1)
    <3> SUFFICES ASSUME d + 1 <= j + 1 PROVE FALSE
      OBVIOUS
    <3>1. RotationTime * (d + 1) <= RotationTime * (j + 1)
      BY <1>0, <1>2, <2>1, Times
    <3> QED BY <1>0, <1>2, <2>1, <2>2, <3>1
  <2>4. j \in 0 .. d
    BY <1>2, <2>1, <2>3
  <2> QED BY <2>4 DEF d
<1> QED BY <1>1, <1>7, <1>8, <1>10, <1>11 DEF j

(* A request that waits for the head: it ends when its sector has passed.  *)
LEMMA SectorPasses ==
  ASSUME NEW k \in Nat, NEW sector \in Nat,
         NEW until \in Nat,
         until = RotationTime * k + RotationTime
                   + ModuloDiff(sector, (RotationTime * k) \div RotationTime) * RotationTime
  PROVE  /\ until % RotationTime = 0
         /\ PassesIn(until \div RotationTime - 1, sector)
         /\ until <= RotationTime * k + RotationTime * SectorsPerTrack
<1> DEFINE md == ModuloDiff(sector, k)
<1>0. RotationTime \in Nat \ {0} /\ SectorsPerTrack \in Nat \ {0}
  BY DiskHeadAssumption
<1>1. md \in 0 .. SectorsPerTrack - 1 /\ PassesIn(k + md, sector)
  BY NextPass DEF PassesIn
<1>2. until = RotationTime * k + RotationTime + md * RotationTime
  <2>1. (RotationTime * k) \div RotationTime = k
    BY <1>0, Multiple
  <2> QED BY <2>1
<1> HIDE DEF md
<1>3. md \in Nat /\ md + 1 <= SectorsPerTrack
  BY <1>0, <1>1
<1>4. until = RotationTime * (k + md + 1) /\ k + md + 1 \in Nat
  BY <1>0, <1>2, <1>3
<1>5. until % RotationTime = 0 /\ until \div RotationTime = k + md + 1
  BY <1>0, <1>4, Multiple
<1>6. until \div RotationTime - 1 = k + md
  BY <1>3, <1>5
<1>7. until <= RotationTime * k + RotationTime * SectorsPerTrack
  <2>1. RotationTime * (md + 1) <= RotationTime * SectorsPerTrack
    BY <1>0, <1>3, Times
  <2>2. until = RotationTime * k + RotationTime * (md + 1)
    BY <1>0, <1>2, <1>3
  <2>3. /\ RotationTime * k \in Nat /\ RotationTime * (md + 1) \in Nat
        /\ RotationTime * SectorsPerTrack \in Nat
    BY <1>0, <1>3
  <2> QED BY <2>1, <2>2, <2>3
<1> QED BY <1>1, <1>5, <1>6, <1>7

(* What a request to the disk leaves behind.                               *)
LEMMA RequestKeeps ==
  ASSUME HeadTypeOK, BufferAtBoundary,
         NEW sector \in DiskSector, NEW writing \in BOOLEAN,
         StartRequest(sector, writing)
  PROVE  /\ HeadTypeOK' /\ RequestExact' /\ BufferAtBoundary'
         /\ last'.until = totalTicks + ComputeLatency(sector, writing)
         /\ last'.until > totalTicks
<1> DEFINE S == Seek(sector)
           rest == Rotation(sector)
           B == Buffered(sector, writing)
           L == ComputeLatency(sector, writing)
<1>0. /\ RotationTime \in Nat \ {0} /\ SectorsPerTrack \in Nat \ {0}
      /\ totalTicks \in Nat /\ bufferInit \in Nat /\ sector \in Nat
  BY DiskHeadAssumption DEF HeadTypeOK, DiskSector
<1>1. S \in Nat /\ rest \in Nat /\ rest < RotationTime /\ TimeAfter(sector) \in Nat
  BY HeadArrives
<1>2. PICK k \in Nat : TimeAfter(sector) = RotationTime * k
  BY HeadArrives
<1>3. TimeAfter(sector) = totalTicks + S + rest
  BY DEF TimeAfter
<1>4. PICK b \in Nat : bufferInit = RotationTime * b
  BY DEF BufferAtBoundary
<1>5. /\ last' = [sector |-> sector, from |-> totalTicks, until |-> totalTicks + L,
                  buffered |-> B, seek |-> S]
      /\ ~busy /\ busy' = TRUE /\ totalTicks' = totalTicks /\ lastSector' = sector
      /\ bufferInit' = IF S # 0 THEN TimeAfter(sector) ELSE bufferInit
  BY DEF StartRequest, BufferStart
<1>6. bufferInit <= totalTicks
  BY <1>5 DEF BufferAtBoundary
<1>7. B \in BOOLEAN
  BY DEF Buffered
<1>8. last'.until = totalTicks + L /\ last'.from = totalTicks /\ last'.buffered = B
      /\ last'.seek = S /\ last'.sector = sector
  BY <1>5
<1>9. bufferInit' \in Nat /\ \E i \in Nat : bufferInit' = RotationTime * i
  BY <1>0, <1>1, <1>2, <1>4, <1>5
<1>10. CASE B
  <2>1. /\ S = 0
        /\ (RotationTime * k - RotationTime * b) \div RotationTime
             > ModuloDiff(sector, (RotationTime * b) \div RotationTime)
    BY <1>2, <1>4, <1>10 DEF Buffered
  <2>2. L = RotationTime
    BY <1>10 DEF ComputeLatency
  <2> HIDE DEF L, B, S, rest
  <2>3. last'.until = totalTicks + RotationTime /\ bufferInit' = bufferInit
    BY <1>5, <1>8, <2>1, <2>2
  <2>4. \E j \in 0 .. (totalTicks + RotationTime) \div RotationTime :
          /\ PassesIn(j, sector)
          /\ RotationTime * b <= j * RotationTime
          /\ (j + 1) * RotationTime <= totalTicks + RotationTime
    <3>1. totalTicks + rest = RotationTime * k
      BY <1>0, <1>1, <1>2, <1>3, <2>1
    <3> QED BY <1>0, <1>1, <1>4, <1>6, <2>1, <3>1, BufferServes
  <2>5. EndsBehindSector' /\ BufferHoldsSector'
    BY <1>4, <1>8, <1>10, <2>3, <2>4 DEF EndsBehindSector, BufferHoldsSector, PassesIn
  <2>6. RotationTime * (SectorsPerTrack + 1) >= 2 * RotationTime
    BY <1>0
  <2>7. LatencyBounded'
    BY <1>0, <1>6, <1>8, <2>1, <2>3, <2>6 DEF LatencyBounded
  <2>8. HeadTypeOK'
    BY <1>0, <1>1, <1>5, <1>7, <1>9, <2>2 DEF HeadTypeOK, L
  <2>9. last'.until > totalTicks
    BY <1>0, <2>3
  <2> QED BY <1>0, <1>5, <1>8, <1>9, <2>5, <2>7, <2>8, <2>9
          DEF RequestExact, BufferAtBoundary, L
<1>11. CASE ~B
  <2> DEFINE md == ModuloDiff(sector, TimeAfter(sector) \div RotationTime)
  <2>1. L = S + rest + RotationTime + md * RotationTime
    BY <1>11 DEF ComputeLatency
  <2>2. md \in Nat
    <3>1. TimeAfter(sector) \div RotationTime \in Nat
      BY <1>0, <1>1, Division
    <3> QED BY <1>0, <3>1, NextPass
  <2>3. md = ModuloDiff(sector, (RotationTime * k) \div RotationTime)
    BY <1>2
  <2> HIDE DEF L, B, S, rest, md
  <2>4. L \in Nat /\ L >= RotationTime /\ md * RotationTime \in Nat
    BY <1>0, <1>1, <2>1, <2>2
  <2> DEFINE until == totalTicks + L
  <2>5. until \in Nat
        /\ until = RotationTime * k + RotationTime + md * RotationTime
    BY <1>0, <1>1, <1>2, <1>3, <2>1, <2>2, <2>4
  <2> HIDE DEF until
  <2>6. /\ until % RotationTime = 0
        /\ PassesIn(until \div RotationTime - 1, sector)
        /\ until <= RotationTime * k + RotationTime * SectorsPerTrack
    BY <1>0, <2>3, <2>5, SectorPasses
  <2>7. EndsBehindSector' /\ BufferHoldsSector'
    BY <1>8, <1>11, <2>6 DEF EndsBehindSector, BufferHoldsSector, PassesIn, until
  <2>8. /\ RotationTime * (SectorsPerTrack + 1) = RotationTime * SectorsPerTrack + RotationTime
        /\ RotationTime * SectorsPerTrack \in Nat
    BY <1>0
  <2>9. until < totalTicks + S + RotationTime * (SectorsPerTrack + 1)
    BY <1>0, <1>1, <1>2, <1>3, <2>5, <2>6, <2>8
  <2>10. bufferInit' <= until
    BY <1>0, <1>1, <1>2, <1>3, <1>5, <1>6, <2>4, <2>5 DEF until
  <2>11. LatencyBounded'
    BY <1>0, <1>8, <2>4, <2>9, <2>10 DEF LatencyBounded, until
  <2>12. HeadTypeOK'
    BY <1>0, <1>1, <1>5, <1>7, <1>9, <2>4 DEF HeadTypeOK
  <2> QED BY <1>0, <1>5, <1>8, <1>9, <2>4, <2>7, <2>11, <2>12
          DEF RequestExact, BufferAtBoundary, L
<1> QED BY <1>10, <1>11

-----------------------------------------------------------------------------
(* Insert into the lists that occur: with one interrupt per device, none   *)
(* is longer than two.                                                     *)
Entry == [device : Device, when : Nat]

LEMMA ShortLists ==
  ASSUME NEW x \in Entry, NEW e \in Entry
  PROVE  /\ SubSeq(<<x>>, 1, 0) = <<>> /\ SubSeq(<<x>>, 1, 1) = <<x>>
         /\ SubSeq(<<x>>, 2, 1) = <<>> /\ SubSeq(<<>>, 1, 0) = <<>>
         /\ <<x>> \o <<e>> \o <<>> = <<x, e>>
         /\ <<>> \o <<e>> \o <<x>> = <<e, x>>
         /\ <<>> \o <<e>> \o <<>> = <<e>>
<1>1. /\ <<>> \in Seq(Entry) /\ <<x>> \in Seq(Entry) /\ <<e>> \in Seq(Entry)
      /\ <<x, e>> \in Seq(Entry) /\ <<e, x>> \in Seq(Entry)
      /\ Len(<<x>>) = 1 /\ Len(<<e>>) = 1 /\ Len(<<x, e>>) = 2 /\ Len(<<e, x>>) = 2
  OBVIOUS
<1>2. /\ SubSeq(<<x>>, 1, 0) = <<>> /\ SubSeq(<<x>>, 2, 1) = <<>>
      /\ SubSeq(<<>>, 1, 0) = <<>>
  BY SubSeqEmpty
<1>3. SubSeq(<<x>>, 1, 1) = <<x>>
  BY <1>1, SubSeqFull
<1>4. ASSUME NEW a \in Entry, NEW b \in Entry PROVE <<a>> \o <<b>> = <<a, b>>
  <2>1. <<a>> \in Seq(Entry) /\ <<b>> \in Seq(Entry) /\ <<a, b>> \in Seq(Entry)
        /\ Len(<<a>>) = 1 /\ Len(<<b>>) = 1 /\ Len(<<a, b>>) = 2
    OBVIOUS
  <2> DEFINE c == <<a>> \o <<b>>
  <2>2. c \in Seq(Entry) /\ Len(c) = 2 /\ c[1] = a /\ c[2] = b
    BY <2>1, ConcatProperties
  <2> HIDE DEF c
  <2>3. \A i \in 1 .. Len(c) : c[i] = <<a, b>>[i]
    BY <2>2
  <2> QED BY <2>1, <2>2, <2>3, SeqEqual DEF c
<1>5. /\ <<x, e>> \o <<>> = <<x, e>> /\ <<>> \o <<e>> = <<e>> /\ <<e>> \o <<>> = <<e>>
  BY <1>1, ConcatEmptySeq
<1> QED BY <1>2, <1>3, <1>4, <1>5

LEMMA EntriesInSeq ==
  ASSUME NEW x \in Entry
  PROVE  <<x>> \in Seq(Entry) /\ \A y \in Entry : <<x, y>> \in Seq(Entry)
OBVIOUS

LEMMA InsertEmpty ==
  ASSUME NEW e \in Entry
  PROVE  Insert(<<>>, e) = <<e>>
<1>1. Insert(<<>>, e) = SubSeq(<<>>, 1, 0) \o <<e>> \o SubSeq(<<>>, 1, 0)
  <2>1. {i \in DOMAIN <<>> : <<>>[i].when <= e.when} = {} /\ Len(<<>>) = 0 /\ 0 + 1 = 1
    OBVIOUS
  <2> QED BY <2>1 DEF Insert
<1> QED BY <1>1, ShortLists

LEMMA InsertOne ==
  ASSUME NEW x \in Entry, NEW e \in Entry
  PROVE  Insert(<<x>>, e) = IF x.when <= e.when THEN <<x, e>> ELSE <<e, x>>
<1> DEFINE earlier == {i \in DOMAIN <<x>> : <<x>>[i].when <= e.when}
           k == IF earlier = {} THEN 0
                ELSE CHOOSE i \in earlier : \A j \in earlier : j <= i
<1>1. Insert(<<x>>, e) = SubSeq(<<x>>, 1, k) \o <<e>> \o SubSeq(<<x>>, k + 1, 1)
  <2>1. Len(<<x>>) = 1
    OBVIOUS
  <2>2. Insert(<<x>>, e) = SubSeq(<<x>>, 1, k) \o <<e>> \o SubSeq(<<x>>, k + 1, Len(<<x>>))
    BY Zenon DEF Insert
  <2> HIDE DEF k
  <2> QED BY <2>1, <2>2, Zenon
<1>2. CASE x.when <= e.when
  <2>1. earlier = {1}
    BY <1>2
  <2>2. k = 1 /\ k + 1 = 2
    BY <2>1
  <2> HIDE DEF k
  <2>3. Insert(<<x>>, e) = SubSeq(<<x>>, 1, 1) \o <<e>> \o SubSeq(<<x>>, 2, 1)
    BY <1>1, <2>2, Zenon
  <2> QED BY <1>2, <2>3, ShortLists
<1>3. CASE ~(x.when <= e.when)
  <2>1. earlier = {}
    BY <1>3
  <2>2. k = 0 /\ k + 1 = 1
    BY <2>1
  <2> HIDE DEF k
  <2>3. Insert(<<x>>, e) = SubSeq(<<x>>, 1, 0) \o <<e>> \o SubSeq(<<x>>, 1, 1)
    BY <1>1, <2>2, Zenon
  <2> QED BY <1>3, <2>3, ShortLists
<1> QED BY <1>2, <1>3

-----------------------------------------------------------------------------
LEMMA Lengths ==
  ASSUME randomize \in BOOLEAN
  PROVE  /\ LongestDelay \in Nat \ {0} /\ LongestTick \in Nat \ {0}
         /\ SystemTick \in Nat /\ UserTick \in Nat
         /\ SystemTick <= LongestTick /\ UserTick <= LongestTick
         /\ \A d \in Delays : d \in Nat \ {0} /\ d <= LongestDelay
BY ClockAssumption DEF LongestDelay, LongestTick, Delays

(* The front of the list is due first, and the timer is on the list.       *)
LEMMA FirstPending ==
  ASSUME ClockTypeOK, PendingExact
  PROVE  /\ pending # <<>>
         /\ \A i, j \in DOMAIN pending : i < j => pending[i].when <= pending[j].when
         /\ \A i \in DOMAIN pending : Head(pending).when <= pending[i].when
         /\ \E i \in DOMAIN pending : /\ pending[i].device = "timer"
                                      /\ pending[i].when <= slice + LongestDelay
         /\ busy <=> \E i \in DOMAIN pending : pending[i] = Disk
         /\ Head(pending).when \in Nat
<1>1. PICK time \in Nat :
        /\ time <= slice + LongestDelay
        /\ \/ ~busy /\ pending = <<Timer(time)>>
           \/ busy /\ pending = <<Timer(time), Disk>> /\ time <= last.until
           \/ busy /\ pending = <<Disk, Timer(time)>> /\ last.until <= time
  BY DEF PendingExact
<1>2. last.until \in Nat
  BY DEF ClockTypeOK, HeadTypeOK
<1>3. /\ Timer(time).when = time /\ Timer(time).device = "timer"
      /\ Disk.when = last.until /\ Disk # Timer(time)
  BY DEF Timer, Disk, PendingInterrupt
<1> HIDE DEF Timer, Disk
<1>4. CASE ~busy /\ pending = <<Timer(time)>>
  <2>1. DOMAIN pending = {1} /\ pending[1] = Timer(time) /\ Head(pending) = Timer(time)
    BY <1>4
  <2> QED BY <1>1, <1>3, <1>4, <2>1
<1>5. CASE busy /\ pending = <<Timer(time), Disk>> /\ time <= last.until
  <2>1. /\ DOMAIN pending = {1, 2} /\ pending[1] = Timer(time) /\ pending[2] = Disk
        /\ Head(pending) = Timer(time)
    BY <1>5
  <2> QED BY <1>1, <1>2, <1>3, <1>5, <2>1
<1>6. CASE busy /\ pending = <<Disk, Timer(time)>> /\ last.until <= time
  <2>1. /\ DOMAIN pending = {1, 2} /\ pending[1] = Disk /\ pending[2] = Timer(time)
        /\ Head(pending) = Disk
    BY <1>6
  <2> QED BY <1>1, <1>2, <1>3, <1>6, <2>1
<1> QED BY <1>1, <1>4, <1>5, <1>6

LEMMA InvariantSuffices == ClockInv => TimingExact
<1> SUFFICES ASSUME ClockInv PROVE TimingExact
  OBVIOUS
<1>1. ClockTypeOK /\ PendingExact /\ RequestExact /\ NoneOverdue /\ Idling
  BY DEF ClockInv
<1>2. NothingOverdue
  BY <1>1, FirstPending DEF NothingOverdue, NoneOverdue, Disk, PendingInterrupt
<1>3. SliceBounded
  <2>1. totalTicks - slice < LongestDelay + LongestTick
    BY DEF ClockInv
  <2>2. ASSUME at # "fire" PROVE totalTicks - slice <= LongestDelay
    <3>1. PICK i \in DOMAIN pending : pending[i].when <= slice + LongestDelay
      BY <1>1, FirstPending
    <3>2. pending[i].when > totalTicks
      BY <1>1, <2>2 DEF NoneOverdue
    <3>3. pending[i].when \in Nat /\ totalTicks \in Nat /\ slice \in Nat
      <4>1. pending \in Seq(Entry) /\ totalTicks \in Nat /\ slice \in Nat
        BY <1>1 DEF ClockTypeOK, HeadTypeOK, Entry
      <4>2. pending[i] \in Entry
        BY <4>1
      <4> QED BY <4>1, <4>2 DEF Entry
    <3>4. LongestDelay \in Nat
      BY <1>1, Lengths DEF ClockTypeOK
    <3> QED BY <3>1, <3>2, <3>3, <3>4
  <2> QED BY <1>1, <2>1, <2>2 DEF SliceBounded, Idling
<1> QED BY <1>1, <1>2, <1>3 DEF TimingExact, RequestExact

-----------------------------------------------------------------------------
(* What the invariant says of the disk survives while the disk is left     *)
(* alone and time goes on.                                                 *)
LEMMA DiskLeftAlone ==
  ASSUME ClockTypeOK, RequestExact, BufferAtBoundary, UNCHANGED headVars,
         totalTicks' \in Nat, totalTicks <= totalTicks'
  PROVE  RequestExact' /\ BufferAtBoundary' /\ HeadTypeOK'
<1>1. /\ lastSector' = lastSector /\ bufferInit' = bufferInit
      /\ busy' = busy /\ last' = last
  BY DEF headVars
<1>2. RequestExact'
  BY <1>1 DEF RequestExact, EndsBehindSector, BufferHoldsSector, LatencyBounded, PassesIn
<1>3. bufferInit \in Nat /\ totalTicks \in Nat
  BY DEF ClockTypeOK, HeadTypeOK
<1>4. BufferAtBoundary'
  BY <1>1, <1>3 DEF BufferAtBoundary
<1>5. HeadTypeOK'
  BY <1>1 DEF ClockTypeOK, HeadTypeOK
<1> QED BY <1>2, <1>4, <1>5

LEMMA PendingLeftAlone ==
  ASSUME PendingExact, UNCHANGED <<headVars, pending, randomize, slice>>
  PROVE  PendingExact' /\ LongestDelay' = LongestDelay
BY DEF PendingExact, headVars, LongestDelay, Timer, Disk, PendingInterrupt

LEMMA ClockStarts == ClockInit => ClockInv
<1> SUFFICES ASSUME ClockInit PROVE ClockInv
  OBVIOUS
<1>1. /\ totalTicks = 0 /\ lastSector = 0 /\ bufferInit = 0 /\ busy = FALSE
      /\ last = [sector |-> 0, from |-> 0, until |-> 0, buffered |-> FALSE, seek |-> 0]
      /\ randomize \in BOOLEAN /\ mode = "SystemMode" /\ at = "run"
      /\ yieldOnReturn = FALSE /\ slice = 0
  BY DEF ClockInit, HeadInit
<1>2. PICK d \in Delays : pending = Schedule(<<>>, "timer", d)
  BY DEF ClockInit
<1>3. /\ LongestDelay \in Nat \ {0} /\ LongestTick \in Nat \ {0}
      /\ d \in Nat \ {0} /\ d <= LongestDelay
  BY <1>1, Lengths
<1>4. pending = <<Timer(d)>> /\ Timer(d) \in Entry /\ Timer(d).when = d
  <2>1. PendingInterrupt("timer", totalTicks + d) = Timer(d)
    BY <1>1, <1>3 DEF Timer
  <2>2. Timer(d) \in Entry /\ Timer(d).when = d
    BY <1>3 DEF Timer, PendingInterrupt, Entry, Device
  <2> QED BY <1>2, <2>1, <2>2, InsertEmpty DEF Schedule
<1>5. HeadTypeOK
  <2>1. 0 \in DiskSector
    BY DiskHeadAssumption DEF DiskSector
  <2> QED BY <1>1, <2>1 DEF HeadTypeOK
<1>6. ClockTypeOK
  <2>1. pending \in Seq(Entry)
    BY <1>4
  <2> QED BY <1>1, <1>5, <2>1 DEF ClockTypeOK, Entry
<1>7. RequestExact /\ BufferAtBoundary
  <2>1. 0 = RotationTime * 0
    BY DiskHeadAssumption
  <2> QED BY <1>1, <2>1 DEF RequestExact, EndsBehindSector, BufferHoldsSector,
                            LatencyBounded, BufferAtBoundary
<1>8. PendingExact
  BY <1>1, <1>3, <1>4 DEF PendingExact
<1>9. NoneOverdue
  <2>1. DOMAIN pending = {1} /\ pending[1].when = d
    BY <1>4
  <2> QED BY <1>1, <1>3, <2>1 DEF NoneOverdue
<1>10. Idling /\ totalTicks - slice < LongestDelay + LongestTick
  BY <1>1, <1>3 DEF Idling
<1> QED BY <1>6, <1>7, <1>8, <1>9, <1>10 DEF ClockInv

(* Time passes: a tick, or the jump of Idle to the next interrupt.         *)
LEMMA TickKeeps ==
  ASSUME ClockInv, OneTick \/ Idle
  PROVE  ClockInv'
<1>1. /\ ClockTypeOK /\ PendingExact /\ RequestExact /\ BufferAtBoundary
      /\ NoneOverdue /\ Idling
  BY DEF ClockInv
<1>2. /\ totalTicks \in Nat /\ slice \in Nat /\ randomize \in BOOLEAN
      /\ pending \in Seq(Entry)
  BY <1>1 DEF ClockTypeOK, HeadTypeOK, Entry
<1>3. /\ LongestDelay \in Nat \ {0} /\ LongestTick \in Nat \ {0}
      /\ SystemTick \in Nat /\ UserTick \in Nat
      /\ SystemTick <= LongestTick /\ UserTick <= LongestTick
  BY <1>2, Lengths
<1>4. /\ at = "run" /\ UNCHANGED <<headVars, pending, randomize, slice, yieldOnReturn>>
      /\ LongestDelay' = LongestDelay /\ LongestTick' = LongestTick
  BY DEF OneTick, Idle, LongestDelay, LongestTick
<1>5. PICK i \in DOMAIN pending : /\ pending[i].device = "timer"
                                  /\ pending[i].when <= slice + LongestDelay
  BY <1>1, FirstPending
<1>6. /\ pending # <<>> /\ Head(pending).when \in Nat
      /\ \A j \in DOMAIN pending : Head(pending).when <= pending[j].when
  BY <1>1, FirstPending
<1>7. \A j \in DOMAIN pending : pending[j].when \in Nat /\ pending[j].when > totalTicks
  <2> SUFFICES ASSUME NEW j \in DOMAIN pending
               PROVE  pending[j].when \in Nat /\ pending[j].when > totalTicks
    OBVIOUS
  <2>1. pending[j] \in Entry
    BY <1>2
  <2> QED BY <1>1, <1>4, <2>1 DEF NoneOverdue, Entry
<1>8. Head(pending).when > totalTicks
  <2>1. 1 \in DOMAIN pending /\ Head(pending) = pending[1]
    BY <1>2, <1>6
  <2> QED BY <1>7, <2>1
<1>9. /\ totalTicks' \in Nat /\ totalTicks <= totalTicks'
      /\ totalTicks' - slice < LongestDelay + LongestTick
  <2>1. CASE OneTick
    <3>1. /\ totalTicks' \in Nat /\ totalTicks <= totalTicks'
          /\ totalTicks' <= totalTicks + LongestTick
      BY <1>2, <1>3, <2>1 DEF OneTick
    <3>2. totalTicks < slice + LongestDelay
      BY <1>2, <1>3, <1>5, <1>7
    <3>3. \A a, c, d, e, g \in Nat : a <= c + d /\ c < e + g => a - e < g + d
      OBVIOUS
    <3>4. totalTicks' - slice < LongestDelay + LongestTick
      BY <1>2, <1>3, <3>1, <3>2, <3>3
    <3> QED BY <3>1, <3>4
  <2>2. CASE Idle
    <3>1. totalTicks' = Head(pending).when
      BY <1>8, <2>2 DEF Idle
    <3>2. Head(pending).when <= slice + LongestDelay
      BY <1>2, <1>3, <1>5, <1>6, <1>7
    <3> QED BY <1>2, <1>3, <1>6, <1>8, <3>1, <3>2
  <2> QED BY <2>1, <2>2
<1>10. RequestExact' /\ BufferAtBoundary' /\ HeadTypeOK'
  BY <1>1, <1>4, <1>9, DiskLeftAlone
<1>11. PendingExact'
  BY <1>1, <1>4, PendingLeftAlone
<1>12. at' \in {"fire", "after"} /\ mode' \in {"SystemMode", "UserMode", "IdleMode"}
       /\ (mode' = "IdleMode" => at' = "fire")
  BY <1>1, <1>4 DEF OneTick, Idle, ClockTypeOK, Idling
<1>13. NoneOverdue'
  <2>1. CASE OneTick
    <3> SUFFICES ASSUME at' # "fire", NEW j \in DOMAIN pending
                 PROVE  pending[j].when > totalTicks'
      BY <1>4 DEF NoneOverdue
    <3>1. ~(Head(pending).when <= totalTicks')
      BY <1>6, <2>1 DEF OneTick, Due
    <3> QED BY <1>6, <1>7, <1>9, <3>1
  <2>2. CASE Idle
    BY <2>2 DEF Idle, NoneOverdue
  <2> QED BY <2>1, <2>2
<1>14. ClockTypeOK' /\ Idling'
  BY <1>1, <1>4, <1>10, <1>12 DEF ClockTypeOK, Idling
<1> QED BY <1>4, <1>9, <1>10, <1>11, <1>13, <1>14 DEF ClockInv

(* The timer comes off the list and is put back for its next call.         *)
LEMMA TimerKeeps ==
  ASSUME ClockInv, TimerFires
  PROVE  ClockInv'
<1>1. /\ ClockTypeOK /\ PendingExact /\ RequestExact /\ BufferAtBoundary /\ Idling
  BY DEF ClockInv
<1>2. /\ totalTicks \in Nat /\ last.until \in Nat /\ randomize \in BOOLEAN
  BY <1>1 DEF ClockTypeOK, HeadTypeOK
<1>3. /\ at = "fire" /\ UNCHANGED <<headVars, totalTicks, mode, at, randomize>>
      /\ slice' = totalTicks /\ yieldOnReturn' = (yieldOnReturn \/ YieldWanted)
      /\ LongestDelay' = LongestDelay /\ LongestTick' = LongestTick
      /\ Head(pending).device = "timer"
  BY DEF TimerFires, LongestDelay, LongestTick
<1>4. PICK d \in Delays : pending' = Schedule(Tail(pending), "timer", d)
  BY DEF TimerFires
<1>5. /\ LongestDelay \in Nat \ {0} /\ LongestTick \in Nat \ {0}
      /\ d \in Nat \ {0} /\ d <= LongestDelay
  BY <1>2, Lengths
<1> DEFINE next == totalTicks + d
<1>6. /\ next \in Nat /\ next <= slice' + LongestDelay'
      /\ pending' = Insert(Tail(pending), Timer(next))
  BY <1>2, <1>3, <1>4, <1>5 DEF Schedule, Timer
<1> HIDE DEF next
<1>7. /\ Timer(next) \in Entry /\ Timer(next).when = next
      /\ Disk \in Entry /\ Disk.when = last.until /\ Disk.device = "disk"
      /\ Disk' = Disk /\ busy' = busy /\ last' = last
  <2>1. busy' = busy /\ last' = last
    BY <1>3 DEF headVars
  <2>2. Timer(next) \in Entry /\ Timer(next).when = next
    BY <1>6 DEF Timer, PendingInterrupt, Entry, Device
  <2>3. /\ Disk \in Entry /\ Disk.when = last.until /\ Disk.device = "disk"
        /\ Disk' = Disk
    BY <1>2, <2>1 DEF Disk, PendingInterrupt, Entry, Device
  <2> QED BY <2>1, <2>2, <2>3
<1>8. \/ ~busy /\ pending' = <<Timer(next)>>
      \/ busy /\ pending' = <<Timer(next), Disk>> /\ next <= last.until
      \/ busy /\ pending' = <<Disk, Timer(next)>> /\ last.until <= next
  <2>1. PICK time \in Nat : \/ ~busy /\ pending = <<Timer(time)>>
                            \/ busy /\ pending = <<Timer(time), Disk>>
                            \/ busy /\ pending = <<Disk, Timer(time)>>
    BY <1>1 DEF PendingExact
  <2>2. ~(pending = <<Disk, Timer(time)>>)
    BY <1>3, <1>7
  <2>3. CASE ~busy /\ pending = <<Timer(time)>>
    <3>1. Tail(pending) = <<>>
      BY <2>3
    <3> QED BY <1>6, <1>7, <2>3, <3>1, InsertEmpty
  <2>4. CASE busy /\ pending = <<Timer(time), Disk>>
    <3>1. Tail(pending) = <<Disk>>
      BY <2>4
    <3>2. pending' = IF Disk.when <= Timer(next).when
                     THEN <<Disk, Timer(next)>> ELSE <<Timer(next), Disk>>
      BY <1>6, <1>7, <3>1, InsertOne
    <3> QED BY <1>2, <1>6, <1>7, <2>4, <3>2
  <2> QED BY <2>1, <2>2, <2>3, <2>4
<1>9. PendingExact'
  BY <1>3, <1>6, <1>7, <1>8 DEF PendingExact, Timer, PendingInterrupt
<1>10. RequestExact' /\ BufferAtBoundary' /\ HeadTypeOK'
  BY <1>1, <1>2, <1>3, DiskLeftAlone
<1>11. pending' \in Seq(Entry)
  BY <1>7, <1>8, EntriesInSeq
<1>12. ClockTypeOK'
  BY <1>1, <1>2, <1>3, <1>10, <1>11 DEF ClockTypeOK, YieldWanted, Entry
<1>13. NoneOverdue' /\ Idling'
  BY <1>1, <1>3 DEF NoneOverdue, Idling, YieldWanted
<1>14. totalTicks' - slice' < LongestDelay' + LongestTick'
  <2>1. totalTicks' - slice' = 0
    BY <1>2, <1>3
  <2> QED BY <1>3, <1>5, <2>1
<1> QED BY <1>9, <1>10, <1>12, <1>13, <1>14 DEF ClockInv

(* The disk's interrupt comes off the list: the request has ended.         *)
LEMMA DiskKeeps ==
  ASSUME ClockInv, DiskFires
  PROVE  ClockInv'
<1>1. /\ ClockTypeOK /\ PendingExact /\ RequestExact /\ BufferAtBoundary /\ Idling
      /\ totalTicks - slice < LongestDelay + LongestTick
  BY DEF ClockInv
<1>2. /\ totalTicks \in Nat /\ last.until \in Nat /\ bufferInit \in Nat
  BY <1>1 DEF ClockTypeOK, HeadTypeOK
<1>3. /\ at = "fire" /\ busy' = FALSE /\ pending' = Tail(pending)
      /\ UNCHANGED <<lastSector, bufferInit, last, totalTicks, mode, at, yieldOnReturn,
                     randomize, slice>>
      /\ LongestDelay' = LongestDelay /\ LongestTick' = LongestTick
      /\ Head(pending).device = "disk" /\ Head(pending).when <= totalTicks
  BY DEF DiskFires, LongestDelay, LongestTick, Due
<1>4. PICK time \in Nat :
        /\ time <= slice + LongestDelay
        /\ \/ ~busy /\ pending = <<Timer(time)>>
           \/ busy /\ pending = <<Timer(time), Disk>> /\ time <= last.until
           \/ busy /\ pending = <<Disk, Timer(time)>> /\ last.until <= time
  BY <1>1 DEF PendingExact
<1>5. /\ Timer(time) \in Entry /\ Timer(time).device = "timer"
      /\ Disk.when = last.until /\ Timer(time)' = Timer(time)
  BY DEF Timer, Disk, PendingInterrupt, Entry, Device
<1>6. busy /\ pending = <<Disk, Timer(time)>>
  <2>1. ASSUME NEW rest, pending = <<Timer(time)>> \/ pending = <<Timer(time), rest>>
        PROVE  FALSE
    BY <1>3, <1>5, <2>1
  <2> QED BY <1>4, <2>1
<1>7. pending' = <<Timer(time)>> /\ last.until <= totalTicks
  BY <1>3, <1>5, <1>6
<1>8. bufferInit <= totalTicks
  <2>1. bufferInit <= last.until
    BY <1>1, <1>6 DEF RequestExact, LatencyBounded
  <2> QED BY <1>2, <1>7, <2>1
<1>9. RequestExact' /\ BufferAtBoundary'
  BY <1>1, <1>3, <1>8 DEF RequestExact, EndsBehindSector, BufferHoldsSector,
     LatencyBounded, BufferAtBoundary
<1>10. PendingExact'
  BY <1>3, <1>4, <1>7 DEF PendingExact, Timer, PendingInterrupt
<1>11. pending' \in Seq(Entry)
  BY <1>5, <1>7
<1>12. ClockTypeOK'
  BY <1>1, <1>3, <1>11 DEF ClockTypeOK, HeadTypeOK, Entry
<1>13. NoneOverdue' /\ Idling'
  BY <1>1, <1>3 DEF NoneOverdue, Idling
<1> QED BY <1>1, <1>3, <1>9, <1>10, <1>12, <1>13 DEF ClockInv

(* The rest of CheckIfDue, Idle and OneTick.                               *)
LEMMA ReturnKeeps ==
  ASSUME ClockInv, HandlersDone \/ EndTick
  PROVE  ClockInv'
<1>1. /\ ClockTypeOK /\ PendingExact /\ RequestExact /\ BufferAtBoundary
      /\ NoneOverdue /\ Idling
      /\ totalTicks - slice < LongestDelay + LongestTick
  BY DEF ClockInv
<1>2. totalTicks \in Nat /\ pending \in Seq(Entry)
  BY <1>1 DEF ClockTypeOK, HeadTypeOK, Entry
<1>3. /\ UNCHANGED <<headVars, totalTicks, pending, randomize, slice>>
      /\ LongestDelay' = LongestDelay /\ LongestTick' = LongestTick
  BY DEF HandlersDone, EndTick, LongestDelay, LongestTick
<1>4. RequestExact' /\ BufferAtBoundary' /\ HeadTypeOK'
  BY <1>1, <1>2, <1>3, DiskLeftAlone
<1>5. PendingExact'
  BY <1>1, <1>3, PendingLeftAlone
<1>6. NoneOverdue'
  <2> SUFFICES ASSUME NEW i \in DOMAIN pending PROVE pending[i].when > totalTicks
    BY <1>3 DEF NoneOverdue
  <2>1. CASE HandlersDone
    <3>1. /\ pending # <<>> /\ Head(pending).when \in Nat
          /\ Head(pending).when <= pending[i].when
      BY <1>1, FirstPending
    <3>2. ~(Head(pending).when <= totalTicks)
      BY <2>1, <3>1 DEF HandlersDone, NoneDue, Due
    <3>3. pending[i] \in Entry
      BY <1>2
    <3>4. pending[i].when \in Nat
      BY <3>3 DEF Entry
    <3> QED BY <1>2, <3>1, <3>2, <3>4
  <2>2. CASE EndTick
    BY <1>1, <2>2 DEF EndTick, NoneOverdue
  <2> QED BY <2>1, <2>2
<1>7. ClockTypeOK' /\ Idling'
  <2>1. CASE HandlersDone
    <3>1. /\ yieldOnReturn' = yieldOnReturn /\ at' \in {"run", "after"} /\ at = "fire"
          /\ IF mode = "IdleMode" THEN mode' = "SystemMode" /\ at' = "run"
             ELSE at' = "after" /\ mode' = mode
      BY <2>1 DEF HandlersDone, NoneDue
    <3>2. Idling'
      BY <1>1, <3>1 DEF Idling
    <3>3. mode' \in {"SystemMode", "UserMode", "IdleMode"}
      BY <1>1, <3>1 DEF ClockTypeOK
    <3> QED BY <1>1, <1>3, <1>4, <3>1, <3>2, <3>3 DEF ClockTypeOK
  <2>2. CASE EndTick
    BY <1>1, <1>3, <1>4, <2>2 DEF EndTick, ClockTypeOK, Idling
  <2> QED BY <2>1, <2>2
<1> QED BY <1>1, <1>3, <1>4, <1>5, <1>6, <1>7 DEF ClockInv

(* A request to the disk, which was idle, puts its interrupt on the list.  *)
LEMMA DiskRequestKeeps ==
  ASSUME ClockInv, NEW sector \in DiskSector, NEW writing \in BOOLEAN,
         DiskRequest(sector, writing)
  PROVE  ClockInv'
<1>1. /\ ClockTypeOK /\ HeadTypeOK /\ PendingExact /\ BufferAtBoundary
      /\ NoneOverdue /\ Idling
      /\ totalTicks - slice < LongestDelay + LongestTick
  BY DEF ClockInv, ClockTypeOK
<1>2. /\ at = "run" /\ StartRequest(sector, writing) /\ ~busy /\ busy' = TRUE
      /\ pending' = Schedule(pending, "disk", ComputeLatency(sector, writing))
      /\ UNCHANGED <<totalTicks, mode, at, yieldOnReturn, randomize, slice>>
      /\ LongestDelay' = LongestDelay /\ LongestTick' = LongestTick
  BY DEF DiskRequest, StartRequest, LongestDelay, LongestTick
<1>3. /\ HeadTypeOK' /\ RequestExact' /\ BufferAtBoundary'
      /\ last'.until = totalTicks + ComputeLatency(sector, writing)
      /\ last'.until > totalTicks
  BY <1>1, <1>2, RequestKeeps
<1>4. last'.until \in Nat
  BY <1>3 DEF HeadTypeOK
<1>5. /\ pending' = Insert(pending, Disk') /\ Disk' \in Entry
      /\ Disk'.when = last'.until
  BY <1>2, <1>3, <1>4 DEF Schedule, Disk, PendingInterrupt, Entry, Device
<1>6. PICK time \in Nat : time <= slice + LongestDelay /\ pending = <<Timer(time)>>
  BY <1>1, <1>2 DEF PendingExact
<1>7. /\ Timer(time) \in Entry /\ Timer(time).when = time /\ Timer(time)' = Timer(time)
  BY DEF Timer, PendingInterrupt, Entry, Device
<1>8. \/ pending' = <<Timer(time), Disk'>> /\ time <= last'.until
      \/ pending' = <<Disk', Timer(time)>> /\ last'.until <= time
  <2> DEFINE D == Disk'
  <2> HIDE DEF D
  <2>1. D \in Entry /\ D.when = last'.until /\ pending' = Insert(<<Timer(time)>>, D)
    BY <1>5, <1>6 DEF D
  <2>2. pending' = IF Timer(time).when <= D.when
                   THEN <<Timer(time), D>> ELSE <<D, Timer(time)>>
    BY <1>7, <2>1, InsertOne
  <2>3. \/ pending' = <<Timer(time), D>> /\ time <= last'.until
        \/ pending' = <<D, Timer(time)>> /\ last'.until <= time
    BY <1>4, <1>7, <2>1, <2>2
  <2> QED BY <2>3 DEF D
<1>9. PendingExact'
  BY <1>2, <1>6, <1>7, <1>8 DEF PendingExact, Timer, PendingInterrupt
<1>10. pending' \in Seq(Entry)
  BY <1>5, <1>7, <1>8, EntriesInSeq
<1>11. NoneOverdue'
  <2>1. time > totalTicks
    <3>1. 1 \in DOMAIN pending /\ pending[1] = Timer(time)
      BY <1>6
    <3> QED BY <1>1, <1>2, <1>7, <3>1 DEF NoneOverdue
  <2> SUFFICES ASSUME NEW i \in DOMAIN pending' PROVE pending'[i].when > totalTicks
    BY <1>2 DEF NoneOverdue
  <2>2. pending'[i] \in {Timer(time), Disk'}
    BY <1>8
  <2> QED BY <1>3, <1>5, <1>7, <2>1, <2>2
<1>12. ClockTypeOK' /\ Idling'
  BY <1>1, <1>2, <1>3, <1>10 DEF ClockTypeOK, Idling, Entry
<1> QED BY <1>1, <1>2, <1>3, <1>9, <1>11, <1>12 DEF ClockInv

LEMMA ClockKeeps == ClockInv /\ [ClockNext]_clockVars => ClockInv'
<1> SUFFICES ASSUME ClockInv, [ClockNext]_clockVars PROVE ClockInv'
  OBVIOUS
<1>1. CASE OneTick \/ Idle
  BY <1>1, TickKeeps
<1>2. CASE TimerFires
  BY <1>2, TimerKeeps
<1>3. CASE DiskFires
  BY <1>3, DiskKeeps
<1>4. CASE HandlersDone \/ EndTick
  BY <1>4, ReturnKeeps
<1>5. ASSUME NEW sector \in DiskSector, NEW writing \in BOOLEAN,
             DiskRequest(sector, writing)
      PROVE  ClockInv'
  BY <1>5, DiskRequestKeeps
<1>6. CASE UNCHANGED clockVars
  BY <1>6 DEF clockVars, headVars, ClockInv, ClockTypeOK, HeadTypeOK, RequestExact,
     EndsBehindSector, BufferHoldsSector, LatencyBounded, PassesIn, BufferAtBoundary,
     PendingExact, Timer, Disk, PendingInterrupt, NoneOverdue, Idling, LongestDelay, LongestTick
<1> QED BY <1>1, <1>2, <1>3, <1>4, <1>5, <1>6 DEF ClockNext

(* Interrupts fire in time, slices are bounded, and a request to the disk  *)
(* takes as long as its sector takes to pass under the head.               *)
THEOREM TimeIsKept == ClockSpec => []TimingExact
<1>1. ClockInit => ClockInv
  BY ClockStarts
<1>2. ClockInv /\ [ClockNext]_clockVars => ClockInv'
  BY ClockKeeps
<1>3. ClockInv => TimingExact
  BY InvariantSuffices
<1> QED BY <1>1, <1>2, <1>3, PTL DEF ClockSpec

-----------------------------------------------------------------------------
(* One request at a time.                                                  *)
USE DEF device, waiting, calls

(* OneRequest is inductive: the lock lets one thread past Acquire, so the  *)
(* request under way, or the completion counted, is that thread's.         *)
LEMMA OneRequestInit == Init => OneRequest
<1> SUFFICES ASSUME Init PROVE OneRequest
  OBVIOUS
<1> USE SynchDiskAssumption DEF Init
<1>1. (CHOOSE s \in Sector : TRUE) \in Sector
  OBVIOUS
<1>2. request \in [Thread -> [sector : Sector, value : Value \cup {NoValue}]]
  BY <1>1
<1>3. requests \in 0 .. MaxRequests /\ crashes \in 0 .. MaxCrashes
  OBVIOUS
<1>4. TypeOK
  BY <1>2, <1>3 DEF TypeOK, Place
<1> QED BY <1>4 DEF OneRequest, Busy, Waits

(* The thread that holds the lock is alone past Acquire, and so the only   *)
(* one that may be waiting for the device.                                 *)
LEMMA BusyAlone ==
  ASSUME OneRequest, NEW t \in Thread, Busy(t)
  PROVE  /\ lock = t /\ \A u \in Thread \ {t} : ~Busy(u) /\ ~Waits(u)
         /\ Waits(t) <=> active \/ semaphore = 1
         /\ semaphore \in {0, 1} /\ active \in BOOLEAN /\ ~(active /\ semaphore = 1)
<1>1. TypeOK /\ (\A u \in Thread : Busy(u) => lock = u) /\ lock = t
  BY DEF OneRequest
<1>2. \A u \in Thread \ {t} : ~Busy(u) /\ ~Waits(u)
  BY <1>1 DEF Busy, Waits
<1>3. semaphore \in {0, 1} /\ active \in BOOLEAN /\ ~(active /\ semaphore = 1)
  BY <1>1 DEF OneRequest, TypeOK
<1>4. Waits(t) <=> active \/ semaphore = 1
  BY <1>2 DEF OneRequest
<1> QED BY <1>1, <1>2, <1>3, <1>4

(* Each step of a thread keeps the types.                                  *)
LEMMA TypeStep ==
  ASSUME OneRequest, NEW t \in Thread,
         \/ \E s \in Sector, v \in Value \cup {NoValue} : Call(t, s, v)
         \/ ThreadStep(t)
  PROVE  TypeOK'
<1> USE DEF TypeOK, Place, Goto
<1>0. TypeOK
  BY DEF OneRequest
<1>1. ASSUME NEW s \in Sector, NEW v \in Value \cup {NoValue}, Call(t, s, v) PROVE TypeOK'
  <2>1. [sector |-> s, value |-> v] \in [sector : Sector, value : Value \cup {NoValue}]
    OBVIOUS
  <2>2. /\ request' \in [Thread -> [sector : Sector, value : Value \cup {NoValue}]]
        /\ data' \in [Thread -> Value \cup {NoValue}] /\ pc' \in [Thread -> Place]
    BY <1>0, <1>1, <2>1 DEF Call
  <2>3. requests' \in 0 .. MaxRequests
    BY <1>0, <1>1, SynchDiskAssumption DEF Call
  <2> QED BY <1>0, <1>1, <2>2, <2>3 DEF Call
<1>2. CASE Acquire(t)
  BY <1>0, <1>2 DEF Acquire
<1>3. CASE ReadRequest(t)
  <2>1. request[t].sector \in Sector
    BY <1>0
  <2>2. sectors[request[t].sector] \in Value
    BY <1>0, <2>1
  <2> QED BY <1>0, <1>3, <2>2 DEF ReadRequest
<1>4. CASE WriteRequest(t)
  <2>1. request[t].sector \in Sector /\ request[t].value \in Value
    BY <1>0, <1>4 DEF WriteRequest
  <2>2. sectors' \in [Sector -> Value]
    BY <1>0, <1>4, <2>1 DEF WriteRequest, Written
  <2> QED BY <1>0, <1>4, <2>2 DEF WriteRequest
<1>5. CASE P(t)
  BY <1>0, <1>5 DEF P, Positive
<1>6. CASE Release(t)
  BY <1>0, <1>6 DEF Release
<1> QED BY <1>1, <1>2, <1>3, <1>4, <1>5, <1>6 DEF ThreadStep

LEMMA OneRequestStep == OneRequest /\ [Next]_vars => OneRequest'
<1> SUFFICES ASSUME OneRequest, [Next]_vars PROVE OneRequest'
  OBVIOUS
<1>0. /\ TypeOK /\ \A u \in Thread : Busy(u) => lock = u
      /\ semaphore \in {0, 1} /\ active \in BOOLEAN /\ ~(active /\ semaphore = 1)
      /\ (active \/ semaphore = 1) <=> \E u \in Thread : Waits(u)
  BY DEF OneRequest, TypeOK
<1>1. ASSUME NEW t \in Thread, NEW s \in Sector, NEW v \in Value \cup {NoValue}, Call(t, s, v)
      PROVE  OneRequest'
  <2>1. /\ pc[t] = "idle" /\ pc' = [pc EXCEPT ![t] = "acquire"] /\ UNCHANGED <<device, waiting>>
    BY <1>1 DEF Call, Goto
  <2>2. \A u \in Thread : (Busy(u)' <=> Busy(u)) /\ (Waits(u)' <=> Waits(u))
    BY <1>0, <2>1 DEF Busy, Waits, TypeOK
  <2>3. TypeOK'
    BY <1>1, TypeStep
  <2> QED BY <2>1, <2>2, <2>3 DEF OneRequest
<1>2. ASSUME NEW t \in Thread, Acquire(t) PROVE OneRequest'
  <2>1. /\ pc[t] = "acquire" /\ lock = NoThread /\ lock' = t
        /\ pc' = [pc EXCEPT ![t] = "start"] /\ UNCHANGED <<device, semaphore>>
    BY <1>2 DEF Acquire, LockFree, Goto
  <2>2. \A u \in Thread : ~Busy(u)
    BY <1>0, <2>1, SynchDiskAssumption
  <2>3. \A u \in Thread : (Busy(u)' <=> u = t) /\ (Waits(u)' <=> Waits(u))
    BY <1>0, <2>1, <2>2 DEF Busy, Waits, TypeOK
  <2>4. TypeOK'
    BY <1>2, TypeStep DEF ThreadStep
  <2> QED BY <2>1, <2>3, <2>4 DEF OneRequest
<1>3. ASSUME NEW t \in Thread, ReadRequest(t) \/ WriteRequest(t) PROVE OneRequest'
  <2>1. /\ pc[t] = "start" /\ active' = TRUE
        /\ pc' = [pc EXCEPT ![t] = "wait"] /\ UNCHANGED waiting
    BY <1>3 DEF ReadRequest, WriteRequest, Goto
  <2>2. Busy(t) /\ ~Waits(t)
    BY <2>1 DEF Busy, Waits
  <2>3. /\ lock = t /\ semaphore = 0
        /\ \A u \in Thread \ {t} : ~Busy(u) /\ ~Waits(u)
    BY <2>2, BusyAlone
  <2>4. \A u \in Thread : (Busy(u)' <=> u = t) /\ (Waits(u)' <=> u = t)
    BY <1>0, <2>1, <2>3 DEF Busy, Waits, TypeOK
  <2>5. TypeOK'
    BY <1>3, TypeStep DEF ThreadStep
  <2> QED BY <2>1, <2>3, <2>4, <2>5 DEF OneRequest
<1>4. ASSUME NEW t \in Thread, P(t) PROVE OneRequest'
  <2>1. /\ pc[t] = "wait" /\ semaphore > 0 /\ semaphore' = semaphore - 1
        /\ pc' = [pc EXCEPT ![t] = "release"] /\ UNCHANGED <<device, lock>>
    BY <1>4 DEF P, Positive, Goto
  <2>2. Busy(t) /\ semaphore = 1 /\ semaphore' = 0 /\ ~active
    BY <1>0, <2>1 DEF Busy
  <2>3. lock = t /\ \A u \in Thread \ {t} : ~Busy(u) /\ ~Waits(u)
    BY <2>2, BusyAlone
  <2>4. \A u \in Thread : (Busy(u)' <=> u = t) /\ ~Waits(u)'
    BY <1>0, <2>1, <2>3 DEF Busy, Waits, TypeOK
  <2>5. TypeOK'
    BY <1>4, TypeStep DEF ThreadStep
  <2> QED BY <2>1, <2>2, <2>3, <2>4, <2>5 DEF OneRequest
<1>5. ASSUME NEW t \in Thread, Release(t) PROVE OneRequest'
  <2>1. /\ pc[t] = "release" /\ lock' = NoThread
        /\ pc' = [pc EXCEPT ![t] = "idle"] /\ UNCHANGED <<device, semaphore>>
    BY <1>5 DEF Release, Goto
  <2>2. Busy(t) /\ ~Waits(t)
    BY <2>1 DEF Busy, Waits
  <2>3. \A u \in Thread \ {t} : ~Busy(u) /\ ~Waits(u)
    BY <2>2, BusyAlone
  <2>4. \A u \in Thread : ~Busy(u)' /\ ~Waits(u)'
    BY <1>0, <2>1, <2>3 DEF Busy, Waits, TypeOK
  <2>5. TypeOK' /\ ~active /\ semaphore = 0
    BY <1>0, <1>5, <2>2, <2>3, TypeStep DEF ThreadStep
  <2> QED BY <2>1, <2>4, <2>5 DEF OneRequest
<1>6. CASE CallBack
  <2>1. /\ active /\ active' = FALSE /\ semaphore' = semaphore + 1 /\ UNCHANGED <<lock, pc>>
    BY <1>6 DEF CallBack, NoLongerActive, Posted
  <2>2. semaphore' = 1
    BY <1>0, <2>1
  <2>3. TypeOK'
    <3>1. semaphore' \in Nat
      BY <2>2
    <3>2. active' \in BOOLEAN
      BY <2>1
    <3> QED BY <1>0, <1>6, <3>1, <3>2 DEF TypeOK, CallBack
  <2> QED BY <1>0, <2>1, <2>2, <2>3 DEF OneRequest, Busy, Waits
<1>7. CASE Crash
  <2>1. /\ active' = FALSE /\ lock' = NoThread /\ semaphore' = 0
        /\ pc' = [t \in Thread |-> "idle"]
    BY <1>7 DEF Crash
  <2>2. TypeOK'
    <3>1. crashes' \in 0 .. MaxCrashes
      BY <1>0, <1>7, SynchDiskAssumption DEF TypeOK, Crash
    <3>2. /\ pc' \in [Thread -> Place] /\ lock' \in Thread \cup {NoThread}
          /\ semaphore' \in Nat /\ active' \in BOOLEAN
      BY <2>1 DEF Place
    <3> QED BY <1>0, <1>7, <3>1, <3>2 DEF TypeOK, Crash
  <2> QED BY <2>1, <2>2 DEF OneRequest, Busy, Waits
<1>8. CASE UNCHANGED vars
  BY <1>8 DEF vars, OneRequest, TypeOK, Busy, Waits
<1> QED BY <1>1, <1>2, <1>3, <1>4, <1>5, <1>6, <1>7, <1>8 DEF Next, ThreadStep

(* The device is never asked while it is active (the ASSERT(!active) of    *)
(* disk.cc), and nobody returns on the interrupt of another's request.     *)
THEOREM OneRequestAtATime == Spec => []OneRequest
BY OneRequestInit, OneRequestStep, PTL DEF Spec

----------------------------------------------------------------------------
(* SynchDisk as a store of sectors.                                        *)

StageOf == [t \in Thread |-> Stage(t)]

(* A step of a thread, seen from its caller: the stage of its request goes *)
(* on or stays, and those of the others stay.                              *)
LEMMA StageStep ==
  ASSUME OneRequest, NEW t \in Thread, NEW place \in Place, Goto(t, place)
  PROVE  StageOf' = [StageOf EXCEPT ![t] =
                       CASE place = "idle" -> "none"
                         [] place \in {"acquire", "start"} -> "asked"
                         [] OTHER -> "served"]
<1>1. pc \in [Thread -> Place] /\ pc' = [pc EXCEPT ![t] = place]
  BY DEF OneRequest, TypeOK, Goto
<1>2. pc'[t] = place /\ \A u \in Thread \ {t} : pc'[u] = pc[u]
  BY <1>1
<1> QED BY <1>2 DEF StageOf, Stage

(* Reads and writes take effect at once between call and return, and a     *)
(* crash loses no write that returned.                                     *)
THEOREM SectorsAreImplemented == Spec => ImplementsSectors
<1> USE DEF Atomic!sectorVars, Atomic!Request
<1>1. Init => Atomic!SectorsInit
  <2> SUFFICES ASSUME Init PROVE Atomic!SectorsInit
    OBVIOUS
  <2>1. TypeOK
    BY OneRequestInit DEF OneRequest
  <2>2. StageOf = [t \in Thread |-> "none"]
    BY DEF Init, StageOf, Stage
  <2> QED BY <2>1, <2>2 DEF Atomic!SectorsInit, TypeOK, StageOf
<1>2. OneRequest /\ [Next]_vars => [Atomic!SectorsNext]_(Atomic!sectorVars)
  <2> SUFFICES ASSUME OneRequest, [Next]_vars
               PROVE  [Atomic!SectorsNext]_(Atomic!sectorVars)
    OBVIOUS
  <2> USE DEF Place
  <2>0. TypeOK
    BY DEF OneRequest
  <2>1. ASSUME NEW t \in Thread, NEW s \in Sector, NEW v \in Value \cup {NoValue}, Call(t, s, v)
        PROVE  Atomic!SectorsNext
    <3>1. StageOf' = [StageOf EXCEPT ![t] = "asked"] /\ StageOf[t] = "none"
      BY <2>1, StageStep DEF Call, StageOf, Stage
    <3>2. Atomic!Ask(t, [sector |-> s, value |-> v])
      BY <2>1, <3>1 DEF Call, Atomic!Ask, StageOf
    <3> QED BY <3>2 DEF Atomic!SectorsNext
  <2>2. ASSUME NEW t \in Thread, Acquire(t) PROVE UNCHANGED Atomic!sectorVars
    <3>1. StageOf' = [StageOf EXCEPT ![t] = "asked"] /\ StageOf[t] = "asked"
      BY <2>2, StageStep DEF Acquire, StageOf, Stage
    <3>2. StageOf' = StageOf
      BY <3>1 DEF StageOf
    <3> QED BY <2>2, <3>2 DEF Acquire, StageOf
  <2>3. ASSUME NEW t \in Thread, ReadRequest(t) \/ WriteRequest(t) PROVE Atomic!Serve(t)
    <3>1. StageOf' = [StageOf EXCEPT ![t] = "served"] /\ StageOf[t] = "asked"
      BY <2>3, StageStep DEF ReadRequest, WriteRequest, StageOf, Stage
    <3> QED BY <2>3, <3>1 DEF ReadRequest, WriteRequest, Written, Atomic!Serve, StageOf
  <2>4. ASSUME NEW t \in Thread, P(t) PROVE UNCHANGED Atomic!sectorVars
    <3>1. StageOf' = [StageOf EXCEPT ![t] = "served"] /\ StageOf[t] = "served"
      BY <2>4, StageStep DEF P, StageOf, Stage
    <3>2. StageOf' = StageOf
      BY <3>1 DEF StageOf
    <3> QED BY <2>4, <3>2 DEF P, StageOf
  <2>5. ASSUME NEW t \in Thread, Release(t) PROVE Atomic!Reply(t)
    <3>1. StageOf' = [StageOf EXCEPT ![t] = "none"] /\ StageOf[t] = "served"
      BY <2>5, StageStep DEF Release, StageOf, Stage
    <3> QED BY <2>5, <3>1 DEF Release, Atomic!Reply, StageOf
  <2>6. CASE Crash
    <3>1. StageOf' = [t \in Thread |-> "none"]
      BY <2>6 DEF Crash, StageOf, Stage
    <3> QED BY <2>6, <3>1 DEF Crash, Atomic!SectorsNext, Atomic!CrashAll, StageOf
  <2>7. CASE CallBack \/ UNCHANGED vars
    <3>1. StageOf' = StageOf
      BY <2>7 DEF CallBack, vars, StageOf, Stage
    <3> QED BY <2>7, <3>1 DEF CallBack, vars, StageOf
  <2>8. ASSUME NEW t \in Thread, Atomic!Serve(t) \/ Atomic!Reply(t) PROVE Atomic!SectorsNext
    BY <2>8 DEF Atomic!SectorsNext
  <2> QED BY <2>1, <2>2, <2>3, <2>4, <2>5, <2>6, <2>7, <2>8 DEF Next, ThreadStep
<1> QED BY <1>1, <1>2, OneRequestAtATime, PTL DEF Spec, ImplementsSectors, Atomic!SectorsSpec

-----------------------------------------------------------------------------
(* The processor.                                                          *)
(* A set of natural numbers that has an element has a least one.           *)
LEMMA Least ==
  ASSUME NEW T, T \subseteq Nat, T # {}
  PROVE  \E m \in T : \A x \in T : m <= x
<1> DEFINE R0 == {p \in Nat \X Nat : p[1] < p[2]}
<1>1. IsWellFoundedOn(R0, Nat)
  BY NatLessThanWellFounded DEF OpToRel
<1>2. \A x, y \in Nat : x < y => <<x, y>> \in R0
  OBVIOUS
<1> HIDE DEF R0
<1>3. PICK m \in T : \A x \in T : ~(<<x, m>> \in R0)
  BY <1>1, WFMin
<1>4. \A x \in T : ~(x < m)
  BY <1>2, <1>3
<1> QED BY <1>3, <1>4

(* The folds of the community modules: F is the function that a fold over  *)
(* the set S builds, which takes the elements in the order of C and joins  *)
(* each with what the others give (H).                                     *)
Folds(F, S, T, base, C, H) ==
  \A s \in SUBSET S :
    /\ s = {} => F[s] = base
    /\ s # {} /\ F[s \ {C[s]}] \in T => F[s] = H[<<C[s], F[s \ {C[s]}]>>]

FoldArguments(S, T, base, C, H) ==
  /\ IsFiniteSet(S) /\ base \in T
  /\ \A s \in SUBSET S : s # {} => C[s] \in s
  /\ \A x \in S, t \in T : H[<<x, t>>] \in T

LEMMA Smaller ==
  ASSUME NEW s, IsFiniteSet(s), NEW x \in s
  PROVE  /\ Cardinality(s) \in Nat /\ Cardinality(s \ {x}) \in Nat
         /\ Cardinality(s \ {x}) + 1 = Cardinality(s)
BY FS_CardinalityType, FS_RemoveElement, FS_Subset

(* ... has values of the type that base and H have,                        *)
LEMMA FoldTyped ==
  ASSUME NEW S, NEW T, NEW base, NEW C, NEW H, NEW F,
         FoldArguments(S, T, base, C, H), Folds(F, S, T, base, C, H)
  PROVE  \A s \in SUBSET S : F[s] \in T
<1> DEFINE wrong == {n \in Nat : \E s \in SUBSET S : Cardinality(s) = n /\ F[s] \notin T}
<1>1. \A s \in SUBSET S : IsFiniteSet(s) /\ Cardinality(s) \in Nat
  BY FS_Subset, FS_CardinalityType DEF FoldArguments
<1>2. wrong = {}
  <2> SUFFICES ASSUME wrong # {} PROVE FALSE
    OBVIOUS
  <2>1. PICK n \in wrong : \A k \in wrong : n <= k
    <3>1. wrong \subseteq Nat
      OBVIOUS
    <3> HIDE DEF wrong
    <3> QED BY <3>1, Least
  <2>2. PICK s \in SUBSET S : Cardinality(s) = n /\ F[s] \notin T
    BY <2>1
  <2>3. CASE s = {}
    BY <2>2, <2>3 DEF Folds, FoldArguments
  <2>4. CASE s # {}
    <3> DEFINE x == C[s]
    <3>1. x \in s
      BY <2>4 DEF FoldArguments
    <3>2. s \ {x} \in SUBSET S /\ Cardinality(s \ {x}) \in Nat /\ Cardinality(s \ {x}) < n
      <4> HIDE DEF x
      <4> QED BY <1>1, <2>2, <3>1, Smaller
    <3>3. F[s \ {x}] \in T
      <4> SUFFICES ASSUME F[s \ {x}] \notin T PROVE FALSE
        OBVIOUS
      <4>1. Cardinality(s \ {x}) \in wrong
        BY <3>2
      <4>2. n \in Nat
        OBVIOUS
      <4> HIDE DEF wrong, x
      <4> QED BY <2>1, <3>2, <4>1, <4>2
    <3>4. F[s] = H[<<x, F[s \ {x}]>>]
      BY <2>4, <3>3 DEF Folds
    <3>5. F[s] \in T
      <4> HIDE DEF x
      <4> QED BY <3>1, <3>3, <3>4 DEF FoldArguments
    <3> QED BY <2>2, <3>5
  <2> QED BY <2>3, <2>4
<1> QED BY <1>1, <1>2

(* ... and exists.                                                         *)
LEMMA FoldExists ==
  ASSUME NEW S, NEW T, NEW base, NEW C, NEW H, FoldArguments(S, T, base, C, H)
  PROVE  \E F \in [SUBSET S -> T] : Folds(F, S, T, base, C, H)
<1> DEFINE upto(n) == {s \in SUBSET S : Cardinality(s) <= n}
           good(n, F) == \A s \in upto(n) : F[s] = IF s = {} THEN base ELSE H[<<C[s], F[s \ {C[s]}]>>]
           wrong == {n \in Nat : ~ \E F \in [SUBSET S -> T] : good(n, F)}
<1>1. \A s \in SUBSET S : IsFiniteSet(s) /\ Cardinality(s) \in Nat
  BY FS_Subset, FS_CardinalityType DEF FoldArguments
<1>2. \A s \in SUBSET S : s # {} =>
        /\ C[s] \in s /\ s \ {C[s]} \in SUBSET S
        /\ Cardinality(s \ {C[s]}) \in Nat /\ Cardinality(s \ {C[s]}) + 1 = Cardinality(s)
  <2> TAKE s \in SUBSET S
  <2> HAVE s # {}
  <2>1. C[s] \in s
    BY DEF FoldArguments
  <2> QED BY <1>1, <2>1, Smaller
<1>3. wrong = {}
  <2> SUFFICES ASSUME wrong # {} PROVE FALSE
    OBVIOUS
  <2>1. PICK n \in wrong : \A k \in wrong : n <= k
    <3>1. wrong \subseteq Nat
      OBVIOUS
    <3> HIDE DEF wrong
    <3> QED BY <3>1, Least
  <2>2. CASE n = 0
    <3> DEFINE F == [s \in SUBSET S |-> base]
    <3>1. F \in [SUBSET S -> T]
      BY DEF FoldArguments
    <3>2. \A s \in upto(0) : s = {}
      <4> TAKE s \in upto(0)
      <4>1. Cardinality(s) = 0 /\ IsFiniteSet(s)
        BY <1>1
      <4> QED BY <4>1, FS_EmptySet
    <3>3. good(0, F)
      BY <3>2
    <3> QED BY <2>1, <2>2, <3>1, <3>3
  <2>3. CASE n # 0
    <3>1. n - 1 \in Nat /\ n - 1 \notin wrong
      <4>1. n \in Nat
        OBVIOUS
      <4> HIDE DEF wrong
      <4> QED BY <2>1, <2>3, <4>1
    <3>2. PICK G \in [SUBSET S -> T] : good(n - 1, G)
      BY <3>1
    <3> DEFINE F == [s \in SUBSET S |-> IF s = {} THEN base ELSE
                                        IF Cardinality(s) <= n - 1 THEN G[s] ELSE H[<<C[s], G[s \ {C[s]}]>>]]
    <3>3. F \in [SUBSET S -> T]
      <4>1. \A s \in SUBSET S : s # {} => H[<<C[s], G[s \ {C[s]}]>>] \in T
        BY <1>2 DEF FoldArguments
      <4> QED BY <4>1 DEF FoldArguments
    <3>4. \A s \in upto(n) : F[s] = IF s = {} THEN base ELSE H[<<C[s], F[s \ {C[s]}]>>]
      <4> TAKE s \in upto(n)
      <4>0. s \in SUBSET S /\ Cardinality(s) <= n
        OBVIOUS
      <4>1. CASE s = {}
        BY <4>1
      <4>2. CASE s # {}
        <5> DEFINE r == s \ {C[s]}
        <5>1. r \in SUBSET S /\ Cardinality(r) \in Nat /\ Cardinality(r) <= n - 1
          BY <1>2, <4>0, <4>2
        <5>2. r = {} => G[r] = base
          BY <5>1, <3>2
        <5>3. F[r] = G[r]
          BY <5>1, <5>2
        <5>4. Cardinality(s) <= n - 1 => G[s] = H[<<C[s], G[r]>>]
          BY <3>2, <4>2, <4>0
        <5> QED BY <5>3, <5>4, <4>2, <4>0
      <4> QED BY <4>1, <4>2
    <3>5. good(n, F)
      BY <3>4
    <3> QED BY <2>1, <3>3, <3>5
  <2> QED BY <2>2, <2>3
<1>4. Cardinality(S) \in Nat /\ Cardinality(S) \notin wrong
  BY <1>1, <1>3
<1>5. PICK F \in [SUBSET S -> T] : good(Cardinality(S), F)
  BY <1>4
<1>6. \A s \in SUBSET S : Cardinality(s) <= Cardinality(S)
  BY FS_Subset DEF FoldArguments
<1>7. Folds(F, S, T, base, C, H)
  BY <1>5, <1>6 DEF Folds
<1> QED BY <1>5, <1>7

(* Powers of two up to the width of a word, and of the bits of k bytes.    *)
LEMMA Powers == WordBits \in Nat /\ \A n \in 0 .. WordBits : 2^n \in Nat /\ 2^n > 0
BY MachineMemoryAssumption, PowersAssumption DEF WordBits

LEMMA Shifts == \A k \in 0 .. 4 : ByteBits * k \in 0 .. WordBits /\ 2^(ByteBits * k) \in Nat /\ 2^(ByteBits * k) > 0
<1> TAKE k \in 0 .. 4
<1>1. ByteBits * k \in 0 .. WordBits
  <2>1. k = 0 \/ k = 1 \/ k = 2 \/ k = 3 \/ k = 4
    OBVIOUS
  <2> QED BY <2>1, MachineMemoryAssumption DEF WordBits
<1> QED BY <1>1, Powers

(* The sums of the machine's model are integers: of powers of two,         *)
LEMMA OfBitsExact ==
  ASSUME NEW K \in SUBSET (0 .. WordBits - 1)
  PROVE  MapThenSumSet(LAMBDA k : 2^k, K) \in Int
<1> DEFINE C == [s \in SUBSET K |-> CHOOSE x \in s : TRUE]
           H == [p \in K \X Int |-> 2^p[1] + p[2]]
           sum(F) == [s \in SUBSET K |-> IF s = {} THEN 0
                        ELSE LET x == CHOOSE x \in s : TRUE IN 2^x + F[s \ {x}]]
           iter == CHOOSE F : F = sum(F)
<1>1. FoldArguments(K, Int, 0, C, H)
  <2>1. IsFiniteSet(K)
    <3>1. 0 \in Int /\ WordBits - 1 \in Int
      BY MachineMemoryAssumption DEF WordBits
    <3> QED BY <3>1, FS_Interval, FS_Subset
  <2>2. \A x \in K : 2^x \in Int
    BY MachineMemoryAssumption, PowersAssumption DEF WordBits
  <2> QED BY <2>1, <2>2 DEF FoldArguments
<1>2. ASSUME NEW F, Folds(F, K, Int, 0, C, H), \A s \in SUBSET K : F[s] \in Int
      PROVE  \A s \in SUBSET K : F[s] = sum(F)[s]
  BY <1>2, <1>1 DEF Folds, FoldArguments
<1>3. PICK F \in [SUBSET K -> Int] : Folds(F, K, Int, 0, C, H)
  <2> HIDE DEF C, H
  <2> QED BY <1>1, FoldExists
<1>4. F = sum(F)
  BY <1>2, <1>3
<1>5. iter = sum(iter)
  BY <1>4
<1>6. MapThenSumSet(LAMBDA k : 2^k, K) = iter[K]
  BY DEF MapThenSumSet, MapThenFoldSet
<1>7. Folds(iter, K, Int, 0, C, H)
  <2> HIDE DEF iter
  <2>1. \A s \in SUBSET K : iter[s] = sum(iter)[s]
    BY <1>5
  <2> QED BY <1>1, <2>1 DEF Folds, FoldArguments
<1>8. \A s \in SUBSET K : iter[s] \in Int
  <2> HIDE DEF C, H, iter
  <2> QED BY <1>1, <1>7, FoldTyped
<1> QED BY <1>6, <1>8

(* and of the bytes of a word.                                            *)
LEMMA BytesAtExact ==
  ASSUME NEW size \in {1, 2, 4}, NEW a \in Int, NEW memory,
         \A k \in 0 .. size - 1 : memory[a + k] \in Int
  PROVE  BytesAt(memory, a, size) \in Int
<1> DEFINE K == 0 .. size - 1
           C == [s \in SUBSET K |-> CHOOSE x \in s : TRUE]
           H == [p \in K \X Int |-> memory[a + p[1]] * 2^(ByteBits * p[1]) + p[2]]
           sum(F) == [s \in SUBSET K |-> IF s = {} THEN 0
                        ELSE LET x == CHOOSE x \in s : TRUE IN memory[a + x] * 2^(ByteBits * x) + F[s \ {x}]]
           iter == CHOOSE F : F = sum(F)
<1>1. FoldArguments(K, Int, 0, C, H)
  <2>1. IsFiniteSet(K)
    <3>1. 0 \in Int /\ size - 1 \in Int
      OBVIOUS
    <3> QED BY <3>1, FS_Interval, FS_Subset
  <2>2. \A x \in K : 2^(ByteBits * x) \in Int
    BY Shifts
  <2>3. \A x \in K : memory[a + x] * 2^(ByteBits * x) \in Int
    BY <2>2
  <2> QED BY <2>1, <2>3 DEF FoldArguments
<1>2. ASSUME NEW F, Folds(F, K, Int, 0, C, H), \A s \in SUBSET K : F[s] \in Int
      PROVE  \A s \in SUBSET K : F[s] = sum(F)[s]
  BY <1>2, <1>1 DEF Folds, FoldArguments
<1>3. PICK F \in [SUBSET K -> Int] : Folds(F, K, Int, 0, C, H)
  <2> HIDE DEF C, H
  <2> QED BY <1>1, FoldExists
<1>4. F = sum(F)
  BY <1>2, <1>3
<1>5. iter = sum(iter)
  <2> HIDE DEF sum
  <2> QED BY <1>4
<1>6. BytesAt(memory, a, size) = iter[K]
  BY DEF BytesAt, MapThenSumSet, MapThenFoldSet
<1>7. Folds(iter, K, Int, 0, C, H)
  <2> HIDE DEF iter
  <2>1. \A s \in SUBSET K : iter[s] = sum(iter)[s]
    BY <1>5
  <2> QED BY <1>1, <2>1 DEF Folds, FoldArguments
<1>8. \A s \in SUBSET K : iter[s] \in Int
  <2> HIDE DEF C, H, iter
  <2> QED BY <1>1, <1>7, FoldTyped
<1> QED BY <1>6, <1>8
(* Powers of two grow.                                                     *)
LEMMA PowersGrow == \A m, n \in 0 .. WordBits : m <= n => 2^m <= 2^n
<1> TAKE m \in 0 .. WordBits
<1> DEFINE wrong == {n \in m .. WordBits : 2^n < 2^m}
<1>1. wrong \subseteq Nat
  BY Powers
<1>2. wrong = {}
  <2> SUFFICES ASSUME wrong # {} PROVE FALSE
    OBVIOUS
  <2>1. PICK n \in wrong : \A x \in wrong : n <= x
    <3> HIDE DEF wrong
    <3> QED BY <1>1, Least
  <2>2. n \in m .. WordBits /\ n # m /\ 2^n < 2^m
    BY Powers
  <2>3. n - 1 \in m .. WordBits /\ n - 1 \in 0 .. 4 * ByteBits /\ (n - 1) + 1 = n
    BY <2>2, Powers DEF WordBits
  <2>4. 2^n = 2 * 2^(n - 1) /\ 2^(n - 1) \in Nat
    BY <2>3, PowersAssumption
  <2>5. n - 1 \in wrong
    BY <2>2, <2>3, <2>4, Powers
  <2> HIDE DEF wrong
  <2> QED BY <2>1, <2>2, <2>5, Powers
<1> QED BY <1>1, <1>2, Powers

LEMMA Remainder ==
  ASSUME NEW n \in Nat, n > 0, NEW x \in Int
  PROVE  x % n \in 0 .. n - 1 /\ x \div n \in Int
OBVIOUS

LEMMA HalfOfWord == 2^WordBits = 2 * 2^(WordBits - 1) /\ 2^(WordBits - 1) \in Nat /\ 2^(WordBits - 1) > 0
<1>1. WordBits - 1 \in 0 .. 4 * ByteBits /\ (WordBits - 1) + 1 = WordBits
  BY MachineMemoryAssumption DEF WordBits
<1> QED BY <1>1, PowersAssumption

(* Whatever its argument, a conversion to a word gives a word.             *)
LEMMA Wraps ==
  ASSUME NEW x \in Int
  PROVE  Unsigned(x) \in 0 .. 2^WordBits - 1 /\ Word(x) \in WordSet
<1>1. 2^WordBits \in Nat /\ 2^WordBits > 0
  BY Powers
<1>2. x % 2^WordBits \in 0 .. 2^WordBits - 1
  BY <1>1, Remainder
<1> QED BY <1>1, <1>2, HalfOfWord DEF Unsigned, Word, SignExtend, WordSet

(* So does the value of a byte, a half word or a word, signed or not.      *)
LEMMA Extends ==
  ASSUME NEW x \in Int, NEW size \in {1, 2, 4}
  PROVE  /\ SignExtend(x, ByteBits * size) \in WordSet
         /\ size # 4 => x % 2^(ByteBits * size) \in WordSet
<1> DEFINE n == ByteBits * size
<1>1. n \in 1 .. WordBits /\ n - 1 \in 0 .. WordBits - 1 /\ (size # 4 => n <= WordBits - 1)
  BY MachineMemoryAssumption DEF WordBits
<1>2. /\ 2^n \in Nat /\ 2^n > 0
      /\ 2^n = 2 * 2^(n - 1) /\ 2^(n - 1) \in Nat
  <2>1. n - 1 \in 0 .. 4 * ByteBits /\ (n - 1) + 1 = n
    BY <1>1, MachineMemoryAssumption DEF WordBits
  <2> HIDE DEF n
  <2> QED BY <2>1, <1>1, Powers, PowersAssumption
<1>3. 2^(n - 1) <= 2^(WordBits - 1) /\ (size # 4 => 2^n <= 2^(WordBits - 1))
  <2>1. WordBits - 1 \in 0 .. WordBits
    BY MachineMemoryAssumption DEF WordBits
  <2> HIDE DEF n
  <2> QED BY <2>1, <1>1, Powers, PowersGrow
<1>4. x % 2^n \in 0 .. 2^n - 1
  BY <1>2, Remainder
<1> HIDE DEF n
<1>5. SignExtend(x, n) \in WordSet
  BY <1>2, <1>3, <1>4, HalfOfWord DEF SignExtend, WordSet
<1>6. size # 4 => x % 2^n \in WordSet
  BY <1>2, <1>3, <1>4, HalfOfWord DEF WordSet
<1> QED BY <1>5, <1>6 DEF n

LEMMA WordsAreInts == WordSet \subseteq Int
BY HalfOfWord DEF WordSet

----------------------------------------------------------------------------
(* What the instructions put into registers.                               *)
LEMMA BitsExact ==
  ASSUME NEW a \in Int, NEW b \in Int
  PROVE  BitAnd(a, b) \in WordSet /\ BitOr(a, b) \in WordSet /\ BitXor(a, b) \in WordSet
<1>1. Bits(a) \in SUBSET (0 .. WordBits - 1) /\ Bits(b) \in SUBSET (0 .. WordBits - 1)
  BY DEF Bits
<1>2. \A K \in SUBSET (0 .. WordBits - 1) : OfBits(K) \in WordSet
  BY OfBitsExact, Wraps DEF OfBits
<1> QED BY <1>1, <1>2 DEF BitAnd, BitOr, BitXor

LEMMA InstructionFields ==
  ASSUME NEW i \in Instruction
  PROVE  /\ i.rs \in GPReg /\ i.rt \in GPReg /\ i.rd \in GPReg /\ i.extra \in Int
         /\ i.op \in RFormat => i.extra \in 0 .. WordBits - 1
         /\ i.op \in JFormat => i.extra \in Nat
         /\ i.op \in IFormat \cup RFormat \cup JFormat
<1>1. ImmBits \in 0 .. WordBits /\ ImmBits - 1 \in 0 .. WordBits /\ JumpBits \in 0 .. WordBits
  BY MachineMemoryAssumption, MipsAssumption DEF ImmBits, WordBits
<1>2. 2^(ImmBits - 1) \in Int /\ 2^JumpBits \in Int
  BY <1>1, Powers
<1>3. RFormat \cap (IFormat \cup JFormat) = {} /\ JFormat \cap IFormat = {}
  BY DEF RFormat, IFormat, JFormat, Loads, Stores, Unaligned, Branches, Immediates, Illegal, Results, HiLoOps
<1> QED BY <1>2, <1>3, MipsAssumption DEF Instruction, Decoded

LEMMA ResultExact ==
  ASSUME NEW i \in Instruction, i.op \in Immediates \cup Results,
         NEW rs \in WordSet, NEW rt \in WordSet, NEW r, r[HiReg] \in WordSet, r[LoReg] \in WordSet
  PROVE  Word(ResultOf(i, rs, rt, r)) \in WordSet
<1> DEFINE imm == i.extra % 2^ImmBits
           count == IF i.op \in {"SLL", "SRL", "SRA"} THEN i.extra ELSE rs % 2^ShiftBits
<1>0. i.extra \in Int /\ rs \in Int /\ rt \in Int /\ r[HiReg] \in Int /\ r[LoReg] \in Int
  BY InstructionFields, WordsAreInts
<1>1. ImmBits \in 0 .. WordBits /\ 2^ImmBits \in Nat /\ 2^ImmBits > 0
  BY MachineMemoryAssumption, Powers DEF ImmBits, WordBits
<1>2. imm \in Int
  BY <1>0, <1>1, Remainder
<1>3. count \in 0 .. WordBits
  <2>1. WordBits \in Nat /\ WordBits > 0
    BY MachineMemoryAssumption DEF WordBits
  <2>2. rs % 2^ShiftBits \in 0 .. WordBits - 1
    BY <1>0, <2>1, Remainder, MipsAssumption
  <2>3. i.op \in {"SLL", "SRL", "SRA"} => i.extra \in 0 .. WordBits - 1
    BY InstructionFields DEF RFormat, Results
  <2> QED BY <2>1, <2>2, <2>3
<1>4. 2^count \in Nat /\ 2^count > 0
  <2> HIDE DEF count
  <2> QED BY <1>3, Powers
<1>5. rt * 2^count \in Int /\ rt \div 2^count \in Int /\ i.extra * 2^ImmBits \in Int
  <2> HIDE DEF count
  <2> QED BY <1>0, <1>1, <1>4
<1>6. /\ BitAnd(rs, rt) \in Int /\ BitAnd(rs, imm) \in Int
      /\ BitOr(rs, rt) \in Int /\ BitOr(rs, imm) \in Int
      /\ BitXor(rs, rt) \in Int /\ BitXor(rs, imm) \in Int
  <2> HIDE DEF imm
  <2> QED BY <1>0, <1>2, BitsExact, WordsAreInts
<1>7. /\ Flag(rs < rt) \in Int /\ Flag(rs < i.extra) \in Int
      /\ Flag(Unsigned(rs) < Unsigned(rt)) \in Int
      /\ Flag(Unsigned(rs) < Unsigned(i.extra)) \in Int
  BY DEF Flag
<1>8. /\ rs + rt \in Int /\ rs + i.extra \in Int /\ rs - rt \in Int
      /\ -1 - BitOr(rs, rt) \in Int
  BY <1>0, <1>6
<1>9. ResultOf(i, rs, rt, r) \in Int
  <2> DEFINE v == ResultOf(i, rs, rt, r)
  <2>1. /\ i.op \in {"ADD", "ADDU"} => v = rs + rt
        /\ i.op \in {"ADDI", "ADDIU"} => v = rs + i.extra
        /\ i.op \in {"SUB", "SUBU"} => v = rs - rt
    BY DEF ResultOf
  <2>2. /\ i.op = "AND" => v = BitAnd(rs, rt)
        /\ i.op = "ANDI" => v = BitAnd(rs, imm)
        /\ i.op = "OR" => v = BitOr(rs, rt)
        /\ i.op = "ORI" => v = BitOr(rs, imm)
        /\ i.op = "XOR" => v = BitXor(rs, rt)
        /\ i.op = "XORI" => v = BitXor(rs, imm)
        /\ i.op = "NOR" => v = -1 - BitOr(rs, rt)
        /\ i.op = "LUI" => v = i.extra * 2^ImmBits
    BY DEF ResultOf
  <2>3. /\ i.op \in {"SLL", "SLLV"} => v = rt * 2^count
        /\ i.op \in {"SRA", "SRAV", "SRL", "SRLV"} => v = rt \div 2^count
    BY DEF ResultOf
  <2>4. /\ i.op = "SLT" => v = Flag(rs < rt)
        /\ i.op = "SLTI" => v = Flag(rs < i.extra)
        /\ i.op = "SLTU" => v = Flag(Unsigned(rs) < Unsigned(rt))
        /\ i.op = "SLTIU" => v = Flag(Unsigned(rs) < Unsigned(i.extra))
        /\ i.op = "MFHI" => v = r[HiReg]
        /\ i.op = "MFLO" => v = r[LoReg]
    BY DEF ResultOf
  <2> HIDE DEF v, imm, count
  <2> QED BY <1>0, <1>5, <1>6, <1>7, <1>8, <2>1, <2>2, <2>3, <2>4 DEF Immediates, Results, v
<1> QED BY <1>9, Wraps

(* One turn of the loop of Mult, and all of them.                          *)
Doubleword == 0 .. 2^WordBits - 1
MultState == [a : Int, bLo : Doubleword, bHi : Doubleword, hi : Doubleword, lo : Doubleword]

LEMMA MultStepExact ==
  ASSUME NEW s \in MultState, NEW k
  PROVE  MultStep(s, k) \in MultState
<1> DEFINE lo == Unsigned(s.lo + s.bLo)
           sum == [s EXCEPT !.lo = lo, !.hi = Unsigned(@ + Flag(lo < s.bLo) + s.bHi)]
           t == IF s.a % 2 = 1 THEN sum ELSE s
<1>0. Doubleword \subseteq Int
  BY Powers DEF Doubleword
<1>1. \A x \in Int : Unsigned(x) \in Doubleword
  BY Wraps DEF Doubleword
<1>10. /\ s.a \in Int /\ s.bLo \in Doubleword /\ s.bHi \in Doubleword
      /\ s.hi \in Doubleword /\ s.lo \in Doubleword
  BY DEF MultState
<1>2. lo \in Doubleword /\ Flag(lo < s.bLo) \in Int
  <2>1. s.lo + s.bLo \in Int
    BY <1>10, Powers DEF Doubleword
  <2>2. Flag(lo < s.bLo) \in Int
    BY DEF Flag
  <2> QED BY <1>1, <2>1, <2>2
<1>3. sum \in MultState
  <2>1. Unsigned(s.hi + Flag(lo < s.bLo) + s.bHi) \in Doubleword
    <3>1. s.hi + Flag(lo < s.bLo) + s.bHi \in Int
      <4> HIDE DEF lo
      <4> QED BY <1>0, <1>10, <1>2, Powers DEF Doubleword
    <3> QED BY <1>1, <3>1
  <2> HIDE DEF lo
  <2> QED BY <2>1, <1>2 DEF MultState
<1>4. t \in MultState
  BY <1>3
<1> HIDE DEF t
<1>5. t.bLo \div 2^(WordBits - 1) \in Int
  BY <1>0, <1>4, HalfOfWord, Remainder DEF MultState
<1>6. /\ Unsigned(2 * t.bHi + t.bLo \div 2^(WordBits - 1)) \in Doubleword
      /\ Unsigned(2 * t.bLo) \in Doubleword /\ t.a \div 2 \in Int
  <2>1. /\ t.a \in Int /\ t.bLo \in Int /\ t.bHi \in Int
    BY <1>0, <1>4 DEF MultState
  <2>2. 2 * t.bHi + t.bLo \div 2^(WordBits - 1) \in Int /\ 2 * t.bLo \in Int /\ t.a \div 2 \in Int
    BY <2>1, <1>5, Remainder
  <2> QED BY <1>1, <2>2
<1>7. s.bLo = t.bLo
  BY DEF t, MultState
<1>8. MultStep(s, k) = [t EXCEPT !.bHi = Unsigned(2 * t.bHi + s.bLo \div 2^(WordBits - 1)),
                                 !.bLo = Unsigned(2 * t.bLo), !.a = t.a \div 2]
  BY <1>4 DEF MultStep, t, MultState
<1> QED BY <1>4, <1>6, <1>7, <1>8 DEF MultState
LEMMA MaxExact ==
  ASSUME NEW n \in Nat, NEW S \in SUBSET (1 .. n), S # {}
  PROVE  Max(S) \in S
<1> DEFINE below == {n - x : x \in S}
<1>1. below \subseteq Nat /\ below # {}
  <2>1. PICK x \in S : TRUE
    OBVIOUS
  <2>2. n - x \in below
    OBVIOUS
  <2> QED BY <2>2
<1>2. PICK d \in below : \A e \in below : d <= e
  <2> HIDE DEF below
  <2> QED BY <1>1, Least
<1>3. PICK x \in S : d = n - x
  BY <1>2
<1>4. \A y \in S : n - y \in below
  OBVIOUS
<1>5. \A y \in S : x >= y
  <2> HIDE DEF below
  <2> QED BY <1>2, <1>3, <1>4
<1> QED BY <1>5 DEF Max

LEMMA LoopExact ==
  ASSUME NEW start \in MultState
  PROVE  FoldLeft(MultStep, start, [k \in 1 .. WordBits |-> k]) \in MultState
<1> DEFINE K == 1 .. WordBits
           seq == [k \in K |-> k]
           C == [s \in SUBSET K |-> Max(s)]
           H == [p \in K \X MultState |-> MultStep(p[2], seq[p[1]])]
           turns(F) == [s \in SUBSET K |-> IF s = {} THEN start
                          ELSE LET x == Max(s) IN MultStep(F[s \ {x}], seq[x])]
           iter == CHOOSE F : F = turns(F)
<1>1. FoldArguments(K, MultState, start, C, H)
  <2>1. IsFiniteSet(K)
    BY Powers, FS_Interval
  <2>2. \A s \in SUBSET K : s # {} => Max(s) \in s
    BY MaxExact, Powers
  <2>3. \A x \in K, t \in MultState : MultStep(t, seq[x]) \in MultState
    BY MultStepExact
  <2> HIDE DEF MultState
  <2> QED BY <2>1, <2>2, <2>3 DEF FoldArguments
<1>2. ASSUME NEW F, Folds(F, K, MultState, start, C, H), \A s \in SUBSET K : F[s] \in MultState
      PROVE  \A s \in SUBSET K : F[s] = turns(F)[s]
  <2> HIDE DEF MultState
  <2> QED BY <1>2, <1>1 DEF Folds, FoldArguments
<1>3. PICK F \in [SUBSET K -> MultState] : Folds(F, K, MultState, start, C, H)
  <2> HIDE DEF C, H, MultState
  <2> QED BY <1>1, FoldExists
<1>4. F = turns(F)
  BY <1>2, <1>3
<1>5. iter = turns(iter)
  <2> HIDE DEF turns
  <2> QED BY <1>4
<1>6. FoldLeft(MultStep, start, seq) = iter[K]
  <2>1. DOMAIN seq = K
    OBVIOUS
  <2> QED BY <2>1 DEF FoldLeft, MapThenFoldSet
<1>7. Folds(iter, K, MultState, start, C, H)
  <2> HIDE DEF iter, MultState
  <2>1. \A s \in SUBSET K : iter[s] = turns(iter)[s]
    BY <1>5
  <2> QED BY <1>1, <2>1 DEF Folds, FoldArguments
<1>8. \A s \in SUBSET K : iter[s] \in MultState
  <2> HIDE DEF C, H, iter, MultState
  <2> QED BY <1>1, <1>7, FoldTyped
<1> QED BY <1>6, <1>8

LEMMA ProductExists ==
  ASSUME NEW a \in WordSet, NEW b \in WordSet, NEW signed \in BOOLEAN
  PROVE  Mult(a, b, signed)[1] \in WordSet /\ Mult(a, b, signed)[2] \in WordSet
<1> DEFINE negative == signed /\ ~SameSign(a, b)
           magnitude(x) == IF signed /\ x < 0 THEN Word(-x) ELSE x
           start == [a |-> magnitude(a), bLo |-> Unsigned(magnitude(b)), bHi |-> 0, hi |-> 0, lo |-> 0]
           p == FoldLeft(MultStep, start, [k \in 1 .. WordBits |-> k])
           lo == Unsigned(-p.lo)
<1>0. WordSet \subseteq Int /\ 0 \in WordSet
  BY WordsAreInts, HalfOfWord DEF WordSet
<1>1. \A x \in WordSet : magnitude(x) \in WordSet
  <2> TAKE x \in WordSet
  <2>1. -x \in Int
    BY <1>0
  <2> QED BY <2>1, Wraps
<1>2. start \in MultState
  <2>1. magnitude(a) \in Int /\ magnitude(b) \in Int
    BY <1>0, <1>1
  <2>2. Unsigned(magnitude(b)) \in Doubleword /\ 0 \in Doubleword
    <3> HIDE DEF magnitude
    <3> QED BY <2>1, Wraps, Powers DEF Doubleword
  <2> HIDE DEF magnitude
  <2> QED BY <2>1, <2>2 DEF MultState
<1>3. p.hi \in Int /\ p.lo \in Int
  <2>1. p \in MultState
    <3> HIDE DEF start
    <3> QED BY <1>2, LoopExact
  <2> HIDE DEF p
  <2> QED BY <2>1, Powers DEF MultState, Doubleword
<1> HIDE DEF p
<1>4. lo \in Int
  <2>1. -p.lo \in Int
    BY <1>3
  <2> QED BY <2>1, Wraps, Powers
<1> HIDE DEF lo
<1>5. -1 - p.hi + Flag(lo = 0) \in Int
  <2>1. Flag(lo = 0) \in Int
    BY DEF Flag
  <2> QED BY <2>1, <1>3
<1>6. /\ Word(-1 - p.hi + Flag(lo = 0)) \in WordSet /\ Word(lo) \in WordSet
      /\ Word(p.hi) \in WordSet /\ Word(p.lo) \in WordSet
  BY <1>3, <1>4, <1>5, Wraps
<1>7. Mult(a, b, signed) = IF a = 0 \/ b = 0 THEN <<0, 0>>
        ELSE IF negative THEN <<Word(-1 - p.hi + Flag(lo = 0)), Word(lo)>>
        ELSE <<Word(p.hi), Word(p.lo)>>
  BY DEF Mult, p, lo
<1> HIDE DEF negative
<1> QED BY <1>0, <1>6, <1>7

LEMMA QuotientExists ==
  ASSUME NEW a \in Int, NEW b \in Int
  PROVE  Divided(a, b)[1] \in WordSet /\ Divided(a, b)[2] \in WordSet
<1> DEFINE abs(x) == IF x < 0 THEN -x ELSE x
<1>1. CASE b = 0
  BY <1>1, HalfOfWord DEF Divided, WordSet
<1>2. CASE b # 0
  <2>1. abs(a) \in Nat /\ abs(b) \in Nat /\ abs(b) > 0
    BY <1>2
  <2>2. abs(a) \div abs(b) \in Int
    <3> HIDE DEF abs
    <3> QED BY <2>1, Remainder
  <2>3. Truncated(a, b) \in Int
    <3>1. -(abs(a) \div abs(b)) \in Int
      <4> HIDE DEF abs
      <4> QED BY <2>2
    <3> QED BY <2>2, <3>1 DEF Truncated
  <2>4. a - b * Truncated(a, b) \in Int
    BY <2>3
  <2> QED BY <1>2, <2>3, <2>4, Wraps DEF Divided
<1> QED BY <1>1, <1>2

LEMMA HiLoExact ==
  ASSUME NEW i, i.op \in HiLoOps, NEW rs \in WordSet, NEW rt \in WordSet,
         NEW r, r[HiReg] \in WordSet, r[LoReg] \in WordSet
  PROVE  HiLo(i, rs, rt, r)[1] \in WordSet /\ HiLo(i, rs, rt, r)[2] \in WordSet
<1>1. rs \in Int /\ rt \in Int /\ Unsigned(rs) \in Int /\ Unsigned(rt) \in Int
  BY WordsAreInts, Wraps, Powers
<1>2. /\ i.op = "MTHI" => HiLo(i, rs, rt, r) = <<rs, r[LoReg]>>
      /\ i.op = "MTLO" => HiLo(i, rs, rt, r) = <<r[HiReg], rs>>
      /\ i.op = "MULT" => HiLo(i, rs, rt, r) = Mult(rs, rt, TRUE)
      /\ i.op = "MULTU" => HiLo(i, rs, rt, r) = Mult(rs, rt, FALSE)
      /\ i.op = "DIV" => HiLo(i, rs, rt, r) = Divided(rs, rt)
      /\ i.op = "DIVU" => HiLo(i, rs, rt, r) = Divided(Unsigned(rs), Unsigned(rt))
  BY DEF HiLo
<1>3. /\ Mult(rs, rt, TRUE)[1] \in WordSet /\ Mult(rs, rt, TRUE)[2] \in WordSet
      /\ Mult(rs, rt, FALSE)[1] \in WordSet /\ Mult(rs, rt, FALSE)[2] \in WordSet
  BY ProductExists
<1>4. /\ Divided(rs, rt)[1] \in WordSet /\ Divided(rs, rt)[2] \in WordSet
      /\ Divided(Unsigned(rs), Unsigned(rt))[1] \in WordSet
      /\ Divided(Unsigned(rs), Unsigned(rt))[2] \in WordSet
  BY <1>1, QuotientExists
<1>5. <<rs, r[LoReg]>>[1] \in WordSet /\ <<rs, r[LoReg]>>[2] \in WordSet
      /\ <<r[HiReg], rs>>[1] \in WordSet /\ <<r[HiReg], rs>>[2] \in WordSet
  OBVIOUS
<1>6. i.op = "MTHI" \/ i.op = "MTLO" \/ i.op = "MULT" \/ i.op = "MULTU" \/ i.op = "DIV" \/ i.op = "DIVU"
  BY DEF HiLoOps
<1> QED BY <1>2, <1>3, <1>4, <1>5, <1>6, Zenon

----------------------------------------------------------------------------
(* Registers and memory.                                                   *)
LEMMA RegisterNames ==
  /\ {HiReg, LoReg, PCReg, NextPCReg, PrevPCReg, LoadReg, LoadValueReg, BadVAddrReg} \subseteq Register
  /\ GPReg \subseteq Register /\ 0 \in GPReg /\ 31 \in GPReg
  /\ {HiReg, LoReg, PCReg, NextPCReg, PrevPCReg, LoadReg, LoadValueReg, BadVAddrReg} \cap GPReg = {}
BY MachineMemoryAssumption
   DEF Register, HiReg, LoReg, PCReg, NextPCReg, PrevPCReg, LoadReg, LoadValueReg, BadVAddrReg

LEMMA RegisterSet ==
  ASSUME NEW r \in RegisterFile, NEW x \in Register, x # LoadReg, NEW v \in WordSet
  PROVE  [r EXCEPT ![x] = v] \in RegisterFile
BY RegisterNames DEF RegisterFile

LEMMA RegisterWord ==
  ASSUME NEW r \in RegisterFile, NEW x \in Register, x # LoadReg
  PROVE  r[x] \in WordSet /\ r[x] \in Int
BY WordsAreInts DEF RegisterFile

LEMMA ZeroIsWord == 0 \in WordSet /\ 4 \in WordSet
<1>1. /\ WordBits - 2 \in 0 .. 4 * ByteBits /\ (WordBits - 2) + 1 = WordBits - 1
      /\ WordBits - 3 \in 0 .. 4 * ByteBits /\ (WordBits - 3) + 1 = WordBits - 2
      /\ WordBits - 4 \in 0 .. 4 * ByteBits /\ (WordBits - 4) + 1 = WordBits - 3
  BY MachineMemoryAssumption DEF WordBits
<1>2. /\ 2^(WordBits - 1) = 2 * 2^(WordBits - 2)
      /\ 2^(WordBits - 2) = 2 * 2^(WordBits - 3)
      /\ 2^(WordBits - 3) = 2 * 2^(WordBits - 4)
      /\ 2^(WordBits - 4) \in Nat /\ 2^(WordBits - 4) > 0
  BY <1>1, PowersAssumption
<1> QED BY <1>2 DEF WordSet

LEMMA DelayedLoadExact ==
  ASSUME NEW r \in RegisterFile, NEW reg \in GPReg, NEW v \in WordSet
  PROVE  DelayedLoad(r, reg, v) \in RegisterFile
<1> DEFINE a == [r EXCEPT ![r[LoadReg]] = r[LoadValueReg]]
           b == [a EXCEPT ![LoadReg] = reg]
           c == [b EXCEPT ![LoadValueReg] = v]
<1>1. r[LoadReg] \in Register /\ r[LoadReg] # LoadReg /\ r[LoadValueReg] \in WordSet
  BY RegisterNames DEF RegisterFile, LoadReg, LoadValueReg
<1>2. a \in RegisterFile
  BY <1>1, RegisterSet
<1> HIDE DEF a
<1>3. b \in RegisterFile
  BY <1>2, RegisterNames DEF RegisterFile
<1> HIDE DEF b
<1>4. c \in RegisterFile
  BY <1>3, RegisterNames, RegisterSet DEF LoadReg, LoadValueReg
<1> HIDE DEF c
<1>5. [c EXCEPT ![0] = 0] \in RegisterFile
  BY <1>4, RegisterNames, RegisterSet, ZeroIsWord DEF LoadReg
<1> QED BY <1>5 DEF DelayedLoad, a, b, c

LEMMA RaiseExact ==
  ASSUME NEW n, NEW m \in Machine(n), NEW which \in ExceptionType, NEW addr \in WordSet
  PROVE  /\ RaiseException(m, which, addr) \in Machine(n)
         /\ RaiseException(m, which, addr).trap = which
         /\ RaiseException(m, which, addr).mainMemory = m.mainMemory
         /\ RaiseException(m, which, addr).table = m.table
         /\ RaiseException(m, which, addr).tlb = m.tlb
<1> DEFINE r == [m.registers EXCEPT ![BadVAddrReg] = addr]
<1>1. r \in RegisterFile
  <2>1. m.registers \in RegisterFile
    BY DEF Machine
  <2> QED BY <2>1, RegisterSet, RegisterNames DEF BadVAddrReg, LoadReg
<1> HIDE DEF r
<1>2. DelayedLoad(r, 0, 0) \in RegisterFile
  BY <1>1, DelayedLoadExact, RegisterNames, ZeroIsWord
<1>3. RaiseException(m, which, addr) = [m EXCEPT !.registers = DelayedLoad(r, 0, 0), !.trap = which]
  BY DEF RaiseException, Machine, r
<1> HIDE DEF RaiseException, DelayedLoad
<1> QED BY <1>2, <1>3 DEF Machine

LEMMA Whole ==
  ASSUME NEW n \in Nat, n > 0, NEW x \in Int
  PROVE  \E j \in Int : x % n = x - n * j /\ x % n \in 0 .. n - 1
<1>1. x = n * (x \div n) + (x % n) /\ x \div n \in Int /\ x % n \in 0 .. n - 1
  OBVIOUS
<1> DEFINE j == x \div n
<1>2. n * j \in Int /\ j \in Int
  BY <1>1
<1>3. x % n = x - n * j
  BY <1>1, <1>2
<1> HIDE DEF j
<1> QED BY <1>1, <1>2, <1>3

(* The bytes of an aligned access lie in one page.                         *)
LEMMA InsidePage ==
  ASSUME NEW addr \in Int, NEW size \in {1, 2, 4}, ~Misaligned(addr, size)
  PROVE  Unsigned(addr) % PageSize \in 0 .. PageSize - size
<1> DEFINE u == Unsigned(addr)
           off == u % PageSize
<1>1. PICK q \in Nat : 2^WordBits = 4 * q /\ q > 0
  <2>1. WordBits - 1 \in 0 .. 4 * ByteBits /\ WordBits - 2 \in 0 .. 4 * ByteBits
        /\ (WordBits - 1) + 1 = WordBits /\ (WordBits - 2) + 1 = WordBits - 1
    BY MachineMemoryAssumption DEF WordBits
  <2>2. 2^WordBits = 2 * 2^(WordBits - 1) /\ 2^(WordBits - 1) = 2 * 2^(WordBits - 2)
        /\ 2^(WordBits - 2) \in Nat /\ 2^(WordBits - 2) > 0
    BY <2>1, PowersAssumption
  <2> QED BY <2>2
<1>2. PICK p \in Nat : PageSize = 4 * p /\ p > 0
  <2>1. PageSize \in Nat /\ PageSize > 0 /\ PageSize % 4 = 0
    BY MachineMemoryAssumption
  <2> QED BY <2>1
<1>3. PICK k \in Int : addr = size * k
  BY DEF Misaligned
<1>4. PICK j \in Int : u = addr - (4 * q) * j
  <2>1. 4 * q \in Nat /\ 4 * q > 0 /\ u = addr % (4 * q)
    BY <1>1 DEF Unsigned
  <2> HIDE DEF u
  <2> QED BY <2>1, Whole
<1>5. (4 * q) * j = 4 * (q * j) /\ q * j \in Int
  BY <1>1, <1>4
<1>6. PICK l \in Int : off = u - (4 * p) * l /\ off \in 0 .. 4 * p - 1
  <2>1. 4 * p \in Nat /\ 4 * p > 0 /\ u \in Int
    BY <1>2, Wraps, Powers
  <2>2. off = u % (4 * p)
    BY <1>2
  <2> HIDE DEF u, off
  <2> QED BY <2>1, <2>2, Whole
<1>7. (4 * p) * l = 4 * (p * l) /\ p * l \in Int
  BY <1>2, <1>6
<1> HIDE DEF off, u
<1>8. off = size * k - 4 * (q * j) - 4 * (p * l)
  BY <1>3, <1>4, <1>5, <1>6, <1>7
<1>9. off <= 4 * p - size
  <2> DEFINE x == q * j  y == p * l
  <2>1. off = size * k - 4 * x - 4 * y /\ x \in Int /\ y \in Int /\ off \in 0 .. 4 * p - 1
    BY <1>5, <1>6, <1>7, <1>8
  <2> HIDE DEF x, y
  <2> QED BY <2>1, <1>2
<1> QED BY <1>2, <1>6, <1>9 DEF off, u

(* The entry that translates an address, if there is one.                  *)
EntryOf(m, addr) == CHOOSE e \in Entries(m, Unsigned(addr) \div PageSize) : TRUE

LEMMA EntriesExact ==
  ASSUME NEW n \in Nat, NEW m \in Machine(n), NEW page
  PROVE  Entries(m, page) \subseteq DOMAIN m.table
<1> DEFINE hits == {i \in DOMAIN m.table : m.table[i].valid /\ m.table[i].virtualPage = page}
<1>1. hits \subseteq DOMAIN m.table /\ DOMAIN m.table \subseteq Nat
  BY DEF Machine
<1>2. hits # {} => Min(hits) \in hits
  <2> HIDE DEF hits
  <2> QED BY <1>1, Least DEF Min
<1>3. ASSUME m.tlb PROVE Entries(m, page) = IF hits = {} THEN {} ELSE {Min(hits)}
  BY <1>3 DEF Entries
<1>4. ASSUME ~m.tlb PROVE Entries(m, page) = {page} \cap DOMAIN m.table
  BY <1>4 DEF Entries
<1> HIDE DEF hits
<1> QED BY <1>1, <1>2, <1>3, <1>4

(* What a program may reach through an entry, and the marks this leaves.   *)
Usable(entry, writing) ==
  entry.valid /\ ~(entry.readOnly /\ writing) /\ entry.physicalPage < NumPhysPages

LEMMA MarkedExact ==
  ASSUME NEW n, NEW m \in Machine(n), NEW e \in DOMAIN m.table, NEW writing \in BOOLEAN
  PROVE  Marked(m.table, e, writing) \in [0 .. n - 1 -> TranslationEntry]
<1>1. m.table \in [0 .. n - 1 -> TranslationEntry] /\ m.table[e] \in TranslationEntry
  BY DEF Machine
<1> DEFINE marked == [m.table[e] EXCEPT !.use = TRUE, !.dirty = @ \/ writing]
<1>2. marked \in TranslationEntry
  BY <1>1 DEF TranslationEntry
<1>3. Marked(m.table, e, writing) = [m.table EXCEPT ![e] = marked]
  BY DEF Marked
<1> HIDE DEF marked
<1> QED BY <1>1, <1>2, <1>3

LEMMA FaultExact ==
  ASSUME NEW n \in Nat, NEW m \in Machine(n), NEW addr \in WordSet, NEW size, NEW writing \in BOOLEAN
  PROVE  /\ Fault(m, addr, size, writing) \in ExceptionType
         /\ Fault(m, addr, size, writing) = "None" =>
              /\ ~Misaligned(addr, size)
              /\ EntryOf(m, addr) \in DOMAIN m.table
              /\ Usable(m.table[EntryOf(m, addr)], writing)
<1> DEFINE found == Entries(m, Unsigned(addr) \div PageSize)
           e == CHOOSE e \in found : TRUE
<1>1. found # {} => e \in found
  OBVIOUS
<1>2. found \subseteq DOMAIN m.table
  BY EntriesExact
<1>3. /\ EntryFault(m.table[e], writing) \in ExceptionType
      /\ e \in DOMAIN m.table /\ EntryFault(m.table[e], writing) = "None" => Usable(m.table[e], writing)
  <2> HIDE DEF e
  <2>1. e \in DOMAIN m.table => m.table[e] \in TranslationEntry
    BY DEF Machine
  <2>2. m.table[e] \in TranslationEntry => m.table[e].physicalPage \in Nat
    BY DEF TranslationEntry
  <2>3. EntryFault(m.table[e], writing) \in {"PageFault", "ReadOnly", "BusError", "None"}
    BY DEF EntryFault
  <2>4. EntryFault(m.table[e], writing) = "None" =>
          /\ m.table[e].valid /\ MayAccess(m.table[e], writing)
          /\ ~(m.table[e].physicalPage >= NumPhysPages)
    BY DEF EntryFault
  <2>5. e \in DOMAIN m.table /\ ~(m.table[e].physicalPage >= NumPhysPages)
          => m.table[e].physicalPage < NumPhysPages
    BY <2>1, <2>2, MachineMemoryAssumption
  <2> QED BY <2>3, <2>4, <2>5 DEF MayAccess, Usable, ExceptionType
<1>4. Fault(m, addr, size, writing) =
        IF Misaligned(addr, size) THEN "AddressError"
        ELSE IF found = {} THEN IF m.tlb THEN "PageFault" ELSE "AddressError"
        ELSE EntryFault(m.table[e], writing)
  BY DEF Fault
<1>5. EntryOf(m, addr) = e
  BY DEF EntryOf
<1>6. /\ "AddressError" # "None" /\ "PageFault" # "None"
      /\ "AddressError" \in ExceptionType /\ "PageFault" \in ExceptionType
  BY DEF ExceptionType
<1> HIDE DEF found, e
<1>7. CASE Misaligned(addr, size)
  BY <1>4, <1>6, <1>7
<1>8. CASE ~Misaligned(addr, size) /\ found = {}
  BY <1>4, <1>6, <1>8
<1>9. CASE ~Misaligned(addr, size) /\ found # {}
  <2>1. Fault(m, addr, size, writing) = EntryFault(m.table[e], writing)
    BY <1>4, <1>9
  <2>2. e \in DOMAIN m.table
    BY <1>1, <1>2, <1>9
  <2> QED BY <1>3, <1>5, <1>9, <2>1, <2>2
<1> QED BY <1>7, <1>8, <1>9

LEMMA FrameFits ==
  ASSUME NEW p \in Nat, p < NumPhysPages
  PROVE  p * PageSize \in Nat /\ p * PageSize + PageSize <= MemorySize
<1>1. NumPhysPages \in Nat /\ PageSize \in Nat
  BY MachineMemoryAssumption
<1>2. PICK d \in Nat : NumPhysPages = p + 1 + d
  <2>1. NumPhysPages - p - 1 \in Nat
    BY <1>1
  <2> QED BY <2>1, <1>1
<1>3. (p + 1 + d) * PageSize = p * PageSize + PageSize + d * PageSize
  BY <1>1
<1>4. d * PageSize \in Nat /\ p * PageSize \in Nat
  BY <1>1
<1> QED BY <1>1, <1>2, <1>3, <1>4 DEF MemorySize

(* Machine::Translate: an exception, or an address inside one frame that   *)
(* the entry allows.                                                       *)
LEMMA TranslateExact ==
  ASSUME NEW n \in Nat, NEW m \in Machine(n), NEW addr \in WordSet, NEW size \in {1, 2, 4},
         NEW writing \in BOOLEAN
  PROVE  LET t == Translate(m, addr, size, writing)
             fault == Fault(m, addr, size, writing)
             e == EntryOf(m, addr)
         IN  /\ t.m \in Machine(n)
             /\ fault # "None" => t.m = RaiseException(m, fault, addr)
             /\ fault = "None" =>
                  /\ t.m = [m EXCEPT !.table = Marked(m.table, e, writing)]
                  /\ m.table[e].physicalPage \in Nat
                  /\ t.physAddr \in Nat
                  /\ t.physAddr >= m.table[e].physicalPage * PageSize
                  /\ t.physAddr + size <= m.table[e].physicalPage * PageSize + PageSize
                  /\ t.physAddr + size <= MemorySize
<1> DEFINE t == Translate(m, addr, size, writing)
           fault == Fault(m, addr, size, writing)
           e == EntryOf(m, addr)
<1>1. t = Translated(m, addr, writing, e, fault)
  BY DEF Translate, EntryOf
<1>2. fault \in ExceptionType
  BY FaultExact
<1>3. CASE fault # "None"
  <2> HIDE DEF fault
  <2>1. t.m = RaiseException(m, fault, addr)
    BY <1>1, <1>3 DEF Translated
  <2> HIDE DEF t, e
  <2> QED BY <2>1, <1>2, <1>3, RaiseExact DEF t, fault, e
<1>4. CASE fault = "None"
  <2>1. ~Misaligned(addr, size) /\ e \in DOMAIN m.table /\ Usable(m.table[e], writing)
    BY <1>4, FaultExact
  <2> HIDE DEF fault, e
  <2>2. /\ t.m = [m EXCEPT !.table = Marked(m.table, e, writing)]
        /\ t.physAddr = m.table[e].physicalPage * PageSize + (Unsigned(addr) % PageSize)
    BY <1>1, <1>4 DEF Translated
  <2> HIDE DEF t
  <2>3. t.m \in Machine(n)
    <3>1. Marked(m.table, e, writing) \in [0 .. n - 1 -> TranslationEntry]
      BY <2>1, MarkedExact
    <3> QED BY <2>2, <3>1 DEF Machine
  <2>4. m.table[e].physicalPage \in Nat /\ m.table[e].physicalPage < NumPhysPages
    BY <2>1 DEF Machine, TranslationEntry, Usable
  <2>5. Unsigned(addr) % PageSize \in 0 .. PageSize - size
    BY <2>1, InsidePage, WordsAreInts
  <2>6. /\ t.physAddr \in Nat
        /\ t.physAddr >= m.table[e].physicalPage * PageSize
        /\ t.physAddr + size <= m.table[e].physicalPage * PageSize + PageSize
        /\ t.physAddr + size <= MemorySize
    <3> DEFINE base == m.table[e].physicalPage * PageSize
               off == Unsigned(addr) % PageSize
    <3>1. base \in Nat /\ base + PageSize <= MemorySize
      BY <2>4, FrameFits
    <3>2. off \in Nat /\ off + size <= PageSize /\ PageSize \in Nat /\ MemorySize \in Nat
      BY <2>5, MachineMemoryAssumption DEF MemorySize
    <3>3. t.physAddr = base + off
      BY <2>2
    <3> HIDE DEF base, off
    <3>4. /\ t.physAddr \in Nat /\ t.physAddr >= base
          /\ t.physAddr + size <= base + PageSize /\ t.physAddr + size <= MemorySize
      BY <3>1, <3>2, <3>3
    <3> QED BY <3>4 DEF base
  <2> QED BY <1>4, <2>2, <2>3, <2>4, <2>6 DEF t, fault, e
<1> QED BY <1>3, <1>4

(* The ASSERT at the end of Machine::Translate (0 <= physAddr and          *)
(* physAddr + size <= MemorySize): what a translation lets through lies in *)
(* memory, whatever the entries of the page table or the TLB say.          *)
THEOREM TranslationStaysInside ==
  ASSUME NEW n \in Nat, NEW m \in Machine(n), NEW addr \in WordSet, NEW size \in {1, 2, 4},
         NEW writing \in BOOLEAN, Fault(m, addr, size, writing) = "None"
  PROVE  /\ Translate(m, addr, size, writing).physAddr \in Nat
         /\ Translate(m, addr, size, writing).physAddr + size <= MemorySize
BY TranslateExact

(* Machine::ReadMem and WriteMem.                                          *)
ReadsThrough(n, m, addr, size, read) ==
  /\ read.m \in Machine(n)
  /\ read.m.mainMemory = m.mainMemory
  /\ read.m.trap = Fault(m, addr, size, FALSE)
  /\ read.m.trap # "None" => read.m = RaiseException(m, read.m.trap, addr)
  /\ read.m.trap = "None" =>
       /\ EntryOf(m, addr) \in DOMAIN m.table
       /\ read.m = [m EXCEPT !.table = Marked(m.table, EntryOf(m, addr), FALSE)]
       /\ read.value \in Int

LEMMA ReadExact ==
  ASSUME NEW n \in Nat, NEW m \in Machine(n), m.trap = "None",
         NEW addr \in WordSet, NEW size \in {1, 2, 4}
  PROVE  ReadsThrough(n, m, addr, size, ReadMem(m, addr, size))
<1> DEFINE w == FALSE
           t == Translate(m, addr, size, w)
           fault == Fault(m, addr, size, w)
           e == EntryOf(m, addr)
           read == ReadMem(m, addr, size)
<1>0. w \in BOOLEAN
  OBVIOUS
<1> HIDE DEF w
<1>1. /\ t.m \in Machine(n) /\ fault \in ExceptionType
      /\ fault # "None" => t.m = RaiseException(m, fault, addr)
      /\ fault = "None" => /\ t.m = [m EXCEPT !.table = Marked(m.table, e, w)]
                           /\ t.physAddr \in Nat /\ t.physAddr + size <= MemorySize
                           /\ e \in DOMAIN m.table
  BY <1>0, TranslateExact, FaultExact
<1>2. read = [m |-> t.m, value |-> Extended(BytesAt(t.m.mainMemory, t.physAddr, size), size)]
  BY DEF ReadMem, ReadAt, w
<1> HIDE DEF t, fault, e
<1>3. read.m = t.m
  BY <1>2
<1>4. CASE fault # "None"
  <2>1. t.m.trap = fault /\ t.m = RaiseException(m, fault, addr) /\ t.m.mainMemory = m.mainMemory
    BY <1>1, <1>4, RaiseExact
  <2> HIDE DEF read
  <2>2. /\ read.m \in Machine(n) /\ read.m.mainMemory = m.mainMemory
        /\ read.m.trap = fault /\ read.m.trap # "None" /\ read.m = RaiseException(m, read.m.trap, addr)
    BY <1>1, <1>3, <1>4, <2>1
  <2> QED BY <2>2 DEF read, fault, w, ReadsThrough
<1>5. CASE fault = "None"
  <2>1. t.m.mainMemory = m.mainMemory /\ t.m.trap = "None"
    BY <1>1, <1>5 DEF Machine
  <2>2. \A k \in 0 .. size - 1 : m.mainMemory[t.physAddr + k] \in Int
    <3> TAKE k \in 0 .. size - 1
    <3>1. t.physAddr + k \in 0 .. MemorySize - 1
      BY <1>1, <1>5, MachineMemoryAssumption DEF MemorySize
    <3>2. 0 .. 2^ByteBits - 1 \subseteq Int
      OBVIOUS
    <3>3. m.mainMemory \in [0 .. MemorySize - 1 -> 0 .. 2^ByteBits - 1]
      BY DEF Machine
    <3> QED BY <3>1, <3>2, <3>3
  <2>3. BytesAt(t.m.mainMemory, t.physAddr, size) \in Int
    BY <1>1, <1>5, <2>1, <2>2, BytesAtExact
  <2>4. read.value \in Int
    <3> DEFINE b == BytesAt(t.m.mainMemory, t.physAddr, size)
    <3>1. b \in Int
      BY <2>3
    <3> HIDE DEF b
    <3>2. Extended(b, size) \in Int
      BY <3>1, Extends, WordsAreInts DEF Extended
    <3>3. read.value = Extended(b, size)
      BY <1>2 DEF b
    <3> QED BY <3>2, <3>3
  <2> QED BY <1>1, <1>3, <1>5, <2>1, <2>4 DEF t, fault, e, w, ReadsThrough
<1> QED BY <1>4, <1>5

WritesThrough(n, m, addr, size, x) ==
  /\ x \in Machine(n)
  /\ x.trap = Fault(m, addr, size, TRUE)
  /\ x.trap # "None" => x = RaiseException(m, x.trap, addr)
  /\ x.trap = "None" =>
       /\ EntryOf(m, addr) \in DOMAIN m.table
       /\ m.table[EntryOf(m, addr)].physicalPage \in Nat
       /\ Usable(m.table[EntryOf(m, addr)], TRUE)
       /\ x.table = Marked(m.table, EntryOf(m, addr), TRUE)
       /\ x.registers = m.registers
       /\ LET base == m.table[EntryOf(m, addr)].physicalPage * PageSize
          IN  \A a \in 0 .. MemorySize - 1 :
                a < base \/ a >= base + PageSize => x.mainMemory[a] = m.mainMemory[a]

LEMMA WriteExact ==
  ASSUME NEW n \in Nat, NEW m \in Machine(n), m.trap = "None",
         NEW addr \in WordSet, NEW size \in {1, 2, 4}, NEW value \in Int
  PROVE  WritesThrough(n, m, addr, size, WriteMem(m, addr, size, value))
<1> DEFINE w == TRUE
           t == Translate(m, addr, size, w)
           fault == Fault(m, addr, size, w)
           e == EntryOf(m, addr)
           page == m.table[e].physicalPage
           x == WriteMem(m, addr, size, value)
           bytes == [a \in DOMAIN t.m.mainMemory |-> IF a \in t.physAddr .. t.physAddr + size - 1
                              THEN (value \div 2^(ByteBits * (a - t.physAddr))) % 2^ByteBits
                              ELSE t.m.mainMemory[a]]
<1>0. w \in BOOLEAN
  OBVIOUS
<1> HIDE DEF w
<1>1. /\ t.m \in Machine(n) /\ fault \in ExceptionType
      /\ fault # "None" => t.m = RaiseException(m, fault, addr)
      /\ fault = "None" => /\ t.m = [m EXCEPT !.table = Marked(m.table, e, w)]
                           /\ page \in Nat /\ t.physAddr \in Nat
                           /\ t.physAddr >= page * PageSize
                           /\ t.physAddr + size <= page * PageSize + PageSize
                           /\ t.physAddr + size <= MemorySize
                           /\ e \in DOMAIN m.table /\ Usable(m.table[e], w)
  BY <1>0, TranslateExact, FaultExact
<1>2. x = IF t.m.trap # "None" THEN t.m ELSE [t.m EXCEPT !.mainMemory = bytes]
  BY DEF WriteMem, WriteAt, w
<1> HIDE DEF t, fault, e, x, w, WritesThrough
<1>3. CASE fault # "None"
  <2>1. t.m.trap = fault /\ t.m = RaiseException(m, fault, addr)
    BY <1>1, <1>3, RaiseExact
  <2> HIDE DEF bytes
  <2> QED BY <1>1, <1>2, <1>3, <2>1 DEF t, fault, e, x, w, WritesThrough
<1>4. CASE fault = "None"
  <2>1. t.m.mainMemory = m.mainMemory /\ t.m.trap = "None" /\ t.m.registers = m.registers
        /\ t.m.table = Marked(m.table, e, w)
    BY <1>1, <1>4 DEF Machine
  <2>2. m.mainMemory \in [0 .. MemorySize - 1 -> 0 .. 2^ByteBits - 1]
    BY DEF Machine
  <2>3. MemorySize \in Nat /\ PageSize \in Nat /\ 2^ByteBits \in Nat /\ 2^ByteBits > 0
    BY Powers, MachineMemoryAssumption DEF WordBits, MemorySize
  <2>4. \A a \in 0 .. MemorySize - 1 : a \in t.physAddr .. t.physAddr + size - 1 =>
          (value \div 2^(ByteBits * (a - t.physAddr))) % 2^ByteBits \in 0 .. 2^ByteBits - 1
    <3> TAKE a \in 0 .. MemorySize - 1
    <3> HAVE a \in t.physAddr .. t.physAddr + size - 1
    <3> DEFINE k == a - t.physAddr
    <3>1. k \in 0 .. 4
      BY <1>1, <1>4
    <3> HIDE DEF k
    <3>2. 2^(ByteBits * k) \in Nat /\ 2^(ByteBits * k) > 0
      BY <3>1, Shifts
    <3>3. value \div 2^(ByteBits * k) \in Int
      BY <3>2, Remainder
    <3>4. (value \div 2^(ByteBits * k)) % 2^ByteBits \in 0 .. 2^ByteBits - 1
      BY <2>3, <3>3, Remainder
    <3> QED BY <3>4 DEF k
  <2>5. bytes \in [0 .. MemorySize - 1 -> 0 .. 2^ByteBits - 1]
    BY <2>1, <2>2, <2>4
  <2>6. \A a \in 0 .. MemorySize - 1 :
          a < page * PageSize \/ a >= page * PageSize + PageSize => bytes[a] = m.mainMemory[a]
    <3> TAKE a \in 0 .. MemorySize - 1
    <3> HAVE a < page * PageSize \/ a >= page * PageSize + PageSize
    <3>1. a \notin t.physAddr .. t.physAddr + size - 1
      <4> DEFINE base == page * PageSize
      <4>1. base \in Nat /\ t.physAddr \in Nat /\ t.physAddr >= base
            /\ t.physAddr + size <= base + PageSize /\ (a < base \/ a >= base + PageSize)
        BY <1>1, <1>4, <2>3
      <4> HIDE DEF base
      <4> QED BY <4>1, <2>3
    <3>2. a \in DOMAIN t.m.mainMemory
      BY <2>1, <2>2
    <3> QED BY <2>1, <3>1, <3>2
  <2> HIDE DEF bytes
  <2>7. x = [t.m EXCEPT !.mainMemory = bytes]
    BY <1>2, <2>1
  <2>8. x \in Machine(n) /\ x.mainMemory = bytes /\ x.trap = "None"
        /\ x.registers = m.registers /\ x.table = Marked(m.table, e, w)
    BY <1>1, <2>1, <2>5, <2>7 DEF Machine
  <2> QED BY <1>1, <1>4, <2>6, <2>8 DEF t, fault, e, x, w, WritesThrough
<1> QED BY <1>3, <1>4

(* The end of an instruction.                                              *)
LEMMA CompleteExact ==
  ASSUME NEW n, NEW m \in Machine(n), NEW reg \in GPReg, NEW v \in WordSet, NEW counter \in WordSet
  PROVE  /\ Complete(m, reg, v, counter) \in Machine(n)
         /\ Complete(m, reg, v, counter).mainMemory = m.mainMemory
         /\ Complete(m, reg, v, counter).table = m.table
         /\ Complete(m, reg, v, counter).trap = m.trap
<1> DEFINE r == DelayedLoad(m.registers, reg, v)
           a == [r EXCEPT ![PrevPCReg] = r[PCReg]]
           b == [a EXCEPT ![PCReg] = r[NextPCReg]]
           c == [b EXCEPT ![NextPCReg] = counter]
<1>1. r \in RegisterFile
  BY DelayedLoadExact DEF Machine
<1> HIDE DEF r
<1>2. r[PCReg] \in WordSet /\ r[NextPCReg] \in WordSet
  BY <1>1, RegisterNames, RegisterWord DEF PCReg, NextPCReg, LoadReg
<1>3. a \in RegisterFile
  BY <1>1, <1>2, RegisterNames, RegisterSet DEF PrevPCReg, LoadReg
<1> HIDE DEF a
<1>4. b \in RegisterFile
  BY <1>2, <1>3, RegisterNames, RegisterSet DEF PCReg, LoadReg
<1> HIDE DEF b
<1>5. c \in RegisterFile
  BY <1>4, RegisterNames, RegisterSet DEF NextPCReg, LoadReg
<1>6. Complete(m, reg, v, counter) = [m EXCEPT !.registers = c]
  BY DEF Complete, r, a, b
<1> HIDE DEF c
<1> QED BY <1>5, <1>6 DEF Machine

LEMMA SequentialExact ==
  ASSUME NEW n, NEW m \in Machine(n)
  PROVE  Sequential(m) \in WordSet
<1>1. m.registers[NextPCReg] \in Int
  BY RegisterWord, RegisterNames DEF Machine, NextPCReg, LoadReg
<1> QED BY <1>1, Wraps DEF Sequential

LEMMA DoneExact ==
  ASSUME NEW n, NEW m \in Machine(n)
  PROVE  /\ Done(m) \in Machine(n) /\ Done(m).mainMemory = m.mainMemory
         /\ Done(m).table = m.table /\ Done(m).trap = m.trap
BY CompleteExact, SequentialExact, RegisterNames, ZeroIsWord DEF Done

----------------------------------------------------------------------------
(* Every instruction leaves a machine, and those that only compute leave   *)
(* the memory.                                                             *)
Kept(n, m, x) == x \in Machine(n) /\ x.mainMemory = m.mainMemory

(* Register 0 stays 0, and a fault of the page table leaves, but for the   *)
(* marks, what RaiseException makes of the machine before the instruction. *)
Restartable == {"PageFault", "ReadOnly", "BusError"}
Ends(n, m, x) ==
  /\ m.registers[0] = 0 => x.registers[0] = 0
  /\ x.trap \in Restartable =>
       \E t \in [0 .. n - 1 -> TranslationEntry], a \in WordSet :
         x = RaiseException([m EXCEPT !.table = t], x.trap, a)

LEMMA CompleteEnds ==
  ASSUME NEW n, NEW m, NEW y \in Machine(n), y.trap \notin Restartable,
         NEW reg \in GPReg, NEW v \in WordSet, NEW counter \in WordSet
  PROVE  Ends(n, m, Complete(y, reg, v, counter))
<1> DEFINE r == DelayedLoad(y.registers, reg, v)
           c == [r EXCEPT ![PrevPCReg] = r[PCReg], ![PCReg] = r[NextPCReg], ![NextPCReg] = counter]
           x == Complete(y, reg, v, counter)
<1>1. y.registers \in RegisterFile
  BY DEF Machine
<1>2. r[0] = 0
  BY <1>1, RegisterNames DEF DelayedLoad, RegisterFile
<1>3. r \in RegisterFile
  BY <1>1, DelayedLoadExact
<1> HIDE DEF r
<1>4. c[0] = 0
  BY <1>2, <1>3, RegisterNames DEF RegisterFile, PrevPCReg, PCReg, NextPCReg
<1>5. x = [y EXCEPT !.registers = c]
  BY DEF Complete, r
<1> HIDE DEF c
<1>6. x.registers[0] = 0
  BY <1>4, <1>5 DEF Machine
<1>7. x.trap = y.trap
  BY CompleteExact
<1> HIDE DEF x
<1> QED BY <1>6, <1>7 DEF Ends, x

LEMMA DoneEnds ==
  ASSUME NEW n, NEW m, NEW y \in Machine(n), y.trap \notin Restartable
  PROVE  Ends(n, m, Done(y))
BY CompleteEnds, SequentialExact, RegisterNames, ZeroIsWord DEF Done

LEMMA RaiseEnds ==
  ASSUME NEW n, NEW m \in Machine(n), NEW which \in ExceptionType, NEW addr \in WordSet
  PROVE  Ends(n, m, RaiseException(m, which, addr))
<1> DEFINE r == [m.registers EXCEPT ![BadVAddrReg] = addr]
           s == DelayedLoad(r, 0, 0)
           x == RaiseException(m, which, addr)
<1>1. r \in RegisterFile
  <2>1. m.registers \in RegisterFile
    BY DEF Machine
  <2> QED BY <2>1, RegisterSet, RegisterNames DEF BadVAddrReg, LoadReg
<1> HIDE DEF r
<1>2. s[0] = 0
  BY <1>1, RegisterNames DEF DelayedLoad, RegisterFile
<1>3. x = [m EXCEPT !.registers = s, !.trap = which]
  BY DEF RaiseException, Machine, r
<1> HIDE DEF s
<1>4. x.registers[0] = 0
  <2> HIDE DEF x
  <2> QED BY <1>2, <1>3 DEF Machine
<1>5. x.trap = which
  BY RaiseExact
<1>6. m = [m EXCEPT !.table = m.table] /\ m.table \in [0 .. n - 1 -> TranslationEntry]
  BY DEF Machine
<1>7. \E t \in [0 .. n - 1 -> TranslationEntry] : x = RaiseException([m EXCEPT !.table = t], x.trap, addr)
  BY <1>5, <1>6
<1> HIDE DEF x
<1> QED BY <1>4, <1>7 DEF Ends, x

LEMMA EndsThrough ==
  ASSUME NEW n, NEW m \in Machine(n), NEW f \in Machine(n),
         NEW t \in [0 .. n - 1 -> TranslationEntry], f = [m EXCEPT !.table = t],
         NEW x, Ends(n, f, x)
  PROVE  Ends(n, m, x)
<1>1. f.registers = m.registers
  BY DEF Machine
<1>2. \A u : [f EXCEPT !.table = u] = [m EXCEPT !.table = u]
  BY DEF Machine
<1>3. ASSUME NEW u \in [0 .. n - 1 -> TranslationEntry], NEW a \in WordSet,
             x = RaiseException([f EXCEPT !.table = u], x.trap, a)
      PROVE  x = RaiseException([m EXCEPT !.table = u], x.trap, a)
  BY <1>2, <1>3
<1> QED BY <1>1, <1>3 DEF Ends

LEMMA RegisterKept ==
  ASSUME NEW n, NEW m \in Machine(n), NEW x \in Register, x # LoadReg, NEW v \in WordSet
  PROVE  /\ Kept(n, m, [m EXCEPT !.registers[x] = v])
         /\ [m EXCEPT !.registers[x] = v].trap = m.trap
<1>1. [m.registers EXCEPT ![x] = v] \in RegisterFile
  BY RegisterSet DEF Machine
<1> DEFINE r == [m.registers EXCEPT ![x] = v]
<1>2. [m EXCEPT !.registers[x] = v] = [m EXCEPT !.registers = r]
  BY DEF Machine
<1> HIDE DEF r
<1> QED BY <1>1, <1>2 DEF Machine, Kept, r

LEMMA ComputeKept ==
  ASSUME NEW n, NEW m \in Machine(n), m.trap = "None",
         NEW i \in Instruction, i.op \in Immediates \cup Results
  PROVE  Kept(n, m, Compute(m, i)) /\ Ends(n, m, Compute(m, i))
<1> DEFINE r == m.registers
           rd == IF i.op \in Immediates THEN i.rt ELSE i.rd
           v == Word(ResultOf(i, r[i.rs], r[i.rt], r))
           x == [m EXCEPT !.registers[rd] = v]
<1>1. r \in RegisterFile
  BY DEF Machine
<1>2. i.rs \in GPReg /\ i.rt \in GPReg /\ rd \in GPReg
  BY InstructionFields
<1>3. /\ r[i.rs] \in WordSet /\ r[i.rt] \in WordSet /\ r[HiReg] \in WordSet /\ r[LoReg] \in WordSet
      /\ rd \in Register /\ rd # LoadReg
  <2>1. \A y \in GPReg \cup {HiReg, LoReg} : y \in Register /\ y # LoadReg
    BY RegisterNames DEF HiReg, LoReg, LoadReg
  <2> QED BY <1>1, <1>2, <2>1, RegisterWord
<1>4. v \in WordSet
  BY <1>3, ResultExact
<1>5. Compute(m, i) = IF Overflows(i, r[i.rs], r[i.rt]) THEN RaiseException(m, "Overflow", 0)
                      ELSE Done(x)
  BY DEF Compute
<1> HIDE DEF v, rd, r
<1>6. Kept(n, m, x) /\ x.trap = "None"
  BY <1>3, <1>4, RegisterKept
<1> HIDE DEF x
<1>7. Kept(n, m, Done(x)) /\ Ends(n, m, Done(x))
  BY <1>6, DoneExact, DoneEnds DEF Kept, Restartable
<1>8. Kept(n, m, RaiseException(m, "Overflow", 0)) /\ Ends(n, m, RaiseException(m, "Overflow", 0))
  BY RaiseExact, RaiseEnds, ZeroIsWord DEF Kept, ExceptionType
<1> QED BY <1>5, <1>7, <1>8

LEMMA ComputeHiLoKept ==
  ASSUME NEW n, NEW m \in Machine(n), m.trap = "None", NEW i \in Instruction, i.op \in HiLoOps
  PROVE  Kept(n, m, ComputeHiLo(m, i)) /\ Ends(n, m, ComputeHiLo(m, i))
<1> DEFINE r == m.registers
           hiLo == HiLo(i, r[i.rs], r[i.rt], r)
           x == [m EXCEPT !.registers[HiReg] = hiLo[1]]
           y == [x EXCEPT !.registers[LoReg] = hiLo[2]]
           stopped == [m EXCEPT !.trap = "SIGFPE"]
<1>1. r \in RegisterFile
  BY DEF Machine
<1>2. /\ r[i.rs] \in WordSet /\ r[i.rt] \in WordSet /\ r[HiReg] \in WordSet /\ r[LoReg] \in WordSet
      /\ HiReg \in Register /\ HiReg # LoadReg /\ LoReg \in Register /\ LoReg # LoadReg
  <2>1. \A z \in GPReg \cup {HiReg, LoReg} : z \in Register /\ z # LoadReg
    BY RegisterNames DEF HiReg, LoReg, LoadReg
  <2> QED BY <1>1, <2>1, RegisterWord, InstructionFields
<1>3. hiLo[1] \in WordSet /\ hiLo[2] \in WordSet
  BY <1>2, HiLoExact
<1>4. [m EXCEPT !.registers[HiReg] = hiLo[1], !.registers[LoReg] = hiLo[2]] = y
  BY DEF Machine
<1>5. ComputeHiLo(m, i) = stopped \/ ComputeHiLo(m, i) = Done(y)
  BY <1>4 DEF ComputeHiLo
<1> HIDE DEF hiLo, r
<1>6. Kept(n, m, stopped) /\ Ends(n, m, stopped)
  <2>1. Kept(n, m, stopped)
    BY DEF Kept, Machine, ExceptionType
  <2>2. stopped.registers = m.registers /\ stopped.trap = "SIGFPE"
    BY DEF Machine
  <2> HIDE DEF stopped
  <2> QED BY <2>1, <2>2 DEF Ends, Restartable
<1>7. Kept(n, m, x) /\ x.trap = "None"
  BY <1>2, <1>3, RegisterKept
<1> HIDE DEF x
<1>8. Kept(n, x, y) /\ y.trap = "None"
  BY <1>2, <1>3, <1>7, RegisterKept DEF Kept
<1> HIDE DEF y, stopped
<1>9. Kept(n, m, Done(y)) /\ Ends(n, m, Done(y))
  BY <1>7, <1>8, DoneExact, DoneEnds DEF Kept, Restartable
<1> QED BY <1>5, <1>6, <1>9

LEMMA LinkedKept ==
  ASSUME NEW n, NEW m \in Machine(n), NEW i \in Instruction
  PROVE  Kept(n, m, Linked(m, i)) /\ Linked(m, i).trap = m.trap
<1> DEFINE link == IF i.op = "JALR" THEN i.rd ELSE 31
           x == [m EXCEPT !.registers[link] = Sequential(m)]
<1>1. Linked(m, i) = x \/ Linked(m, i) = m
  BY DEF Linked
<1>2. link \in Register /\ link # LoadReg
  BY InstructionFields, RegisterNames
<1> HIDE DEF link
<1>3. Kept(n, m, x) /\ x.trap = m.trap
  BY <1>2, SequentialExact, RegisterKept
<1> HIDE DEF x
<1> QED BY <1>1, <1>3 DEF Kept

LEMMA BranchKept ==
  ASSUME NEW n, NEW m \in Machine(n), m.trap = "None", NEW i \in Instruction
  PROVE  Kept(n, m, Branch(m, i)) /\ Ends(n, m, Branch(m, i))
<1> DEFINE x == Linked(m, i)
           r == x.registers
           taken == Taken(i, r[i.rs], r[i.rt])
           away == Word(r[NextPCReg] + 4 * i.extra)
           next == IF taken THEN away ELSE Sequential(m)
<1>1. Branch(m, i) = Complete(x, 0, 0, next)
  BY DEF Branch
<1>2. Kept(n, m, x) /\ x.trap = "None"
  BY LinkedKept
<1>3. r[NextPCReg] \in Int
  BY <1>2, RegisterWord, RegisterNames DEF Kept, Machine, NextPCReg, LoadReg
<1> HIDE DEF x, r
<1>4. away \in WordSet
  BY <1>3, InstructionFields, Wraps
<1> HIDE DEF away, taken
<1>5. next \in WordSet
  BY <1>4, SequentialExact
<1> HIDE DEF next
<1>6. x \in Machine(n) /\ x.mainMemory = m.mainMemory /\ x.trap \notin Restartable
  BY <1>2 DEF Kept, Restartable
<1> HIDE DEF x
<1>7. 0 \in GPReg /\ 0 \in WordSet
  BY RegisterNames, ZeroIsWord
<1>8. Complete(x, 0, 0, next) \in Machine(n) /\ Complete(x, 0, 0, next).mainMemory = x.mainMemory
  BY <1>5, <1>6, <1>7, CompleteExact
<1>9. Ends(n, m, Complete(x, 0, 0, next))
  BY <1>5, <1>6, <1>7, CompleteEnds
<1> QED BY <1>1, <1>6, <1>8, <1>9 DEF Kept

LEMMA JumpKept ==
  ASSUME NEW n, NEW m \in Machine(n), m.trap = "None", NEW i \in Instruction
  PROVE  Kept(n, m, Jump(m, i)) /\ Ends(n, m, Jump(m, i))
<1> DEFINE region == 2^(JumpBits + 2)
           x == Linked(m, i)
           there == (Unsigned(Sequential(m)) \div region) * region + 4 * i.extra
           next == IF i.op \in JFormat THEN Word(there) ELSE x.registers[i.rs]
<1>1. Jump(m, i) = Complete(x, 0, 0, next)
  BY DEF Jump
<1>2. Kept(n, m, x) /\ x.trap = "None"
  BY LinkedKept
<1>3. x.registers[i.rs] \in WordSet
  BY <1>2, RegisterWord, RegisterNames, InstructionFields DEF Kept, Machine, LoadReg
<1>4. Word(there) \in WordSet
  <2>1. region \in Nat /\ region > 0
    <3>1. JumpBits + 2 \in 0 .. WordBits
      BY MipsAssumption, Powers
    <3> QED BY <3>1, Powers
  <2>2. Unsigned(Sequential(m)) \in Int
    <3>1. Sequential(m) \in Int
      BY SequentialExact, WordsAreInts
    <3>2. Unsigned(Sequential(m)) \in 0 .. 2^WordBits - 1
      BY <3>1, Wraps
    <3> QED BY <3>2
  <2> HIDE DEF region
  <2>3. Unsigned(Sequential(m)) \div region \in Int
    BY <2>1, <2>2, Remainder
  <2>4. there \in Int
    BY <2>1, <2>3, InstructionFields
  <2> HIDE DEF there
  <2> QED BY <2>4, Wraps
<1> HIDE DEF x, there
<1>5. next \in WordSet
  BY <1>3, <1>4
<1> HIDE DEF next
<1>6. x \in Machine(n) /\ x.mainMemory = m.mainMemory /\ x.trap \notin Restartable
  BY <1>2 DEF Kept, Restartable
<1> HIDE DEF x
<1>7. 0 \in GPReg /\ 0 \in WordSet
  BY RegisterNames, ZeroIsWord
<1>8. Complete(x, 0, 0, next) \in Machine(n) /\ Complete(x, 0, 0, next).mainMemory = x.mainMemory
  BY <1>5, <1>6, <1>7, CompleteExact
<1>9. Ends(n, m, Complete(x, 0, 0, next))
  BY <1>5, <1>6, <1>7, CompleteEnds
<1> QED BY <1>1, <1>6, <1>8, <1>9 DEF Kept

LEMMA ReadKept ==
  ASSUME NEW n \in Nat, NEW m \in Machine(n), m.trap = "None",
         NEW addr \in WordSet, NEW size \in {1, 2, 4}
  PROVE  /\ ReadMem(m, addr, size).m \in Machine(n)
         /\ ReadMem(m, addr, size).m.mainMemory = m.mainMemory
         /\ ReadMem(m, addr, size).m.trap = "None" => ReadMem(m, addr, size).value \in Int
         /\ ReadMem(m, addr, size).m.trap # "None" => Ends(n, m, ReadMem(m, addr, size).m)
<1> DEFINE read == ReadMem(m, addr, size)
<1>1. ReadsThrough(n, m, addr, size, read)
  BY ReadExact
<1> HIDE DEF read
<1>2. read.m \in Machine(n) /\ read.m.mainMemory = m.mainMemory
  BY <1>1 DEF ReadsThrough
<1>3. read.m.trap = "None" => read.value \in Int
  BY <1>1 DEF ReadsThrough
<1>4. read.m.trap # "None" => Ends(n, m, read.m)
  <2>1. read.m.trap \in ExceptionType
    BY <1>2 DEF Machine
  <2>2. Ends(n, m, RaiseException(m, read.m.trap, addr))
    BY <2>1, RaiseEnds
  <2> QED BY <1>1, <2>2 DEF ReadsThrough
<1> QED BY <1>2, <1>3, <1>4 DEF read

(* The addresses and sizes of the accesses to memory, and the two halves   *)
(* of an unaligned word.                                                   *)
LEMMA AddressExact ==
  ASSUME NEW n, NEW m \in Machine(n), NEW i \in Instruction
  PROVE  Address(m, i) \in WordSet /\ Address(m, i) \in Int
<1>1. m.registers[i.rs] \in Int
  BY InstructionFields, RegisterWord, RegisterNames DEF Machine, LoadReg
<1>2. m.registers[i.rs] + i.extra \in Int
  BY <1>1, InstructionFields
<1> QED BY <1>2, Wraps, WordsAreInts DEF Address

LEMMA AlignedExact ==
  ASSUME NEW a \in WordSet
  PROVE  a % 4 \in 0 .. 3 /\ a - (a % 4) \in WordSet
<1> DEFINE p == 2^(WordBits - 3)
           h == 2^(WordBits - 1)
<1>1. WordBits \in Nat /\ WordBits >= 4
  BY MachineMemoryAssumption DEF WordBits
<1>2. WordBits - 3 \in 0 .. WordBits /\ WordBits - 2 \in 0 .. WordBits
  BY <1>1
<1>3. /\ p \in Nat /\ 2^(WordBits - 2) \in Nat
      /\ 2^(WordBits - 3 + 1) = 2 * p /\ 2^(WordBits - 2 + 1) = 2 * 2^(WordBits - 2)
  BY <1>2, PowersAssumption DEF WordBits
<1>4. WordBits - 3 + 1 = WordBits - 2 /\ WordBits - 2 + 1 = WordBits - 1
  BY <1>1
<1>5. h = 4 * p
  BY <1>3, <1>4
<1> HIDE DEF p, h
<1>6. a \in Int /\ -h <= a /\ a <= h - 1 /\ WordSet = -h .. h - 1
  BY WordsAreInts DEF WordSet, h
<1>7. PICK j \in Int : a % 4 = a - 4 * j /\ a % 4 \in 0 .. 3
  BY <1>6, Whole
<1> QED BY <1>3, <1>5, <1>6, <1>7

LEMMA SizeExact ==
  ASSUME NEW i, i.op \in Loads \cup Stores
  PROVE  Size(i) \in {1, 2, 4} /\ (i.op \in {"LBU", "LHU"} => Size(i) # 4)
<1>1. i.op \in {"LB", "LBU", "LH", "LHU", "LW", "SB", "SH", "SW"}
  BY DEF Loads, Stores
<1>2. CASE i.op \in {"LB", "LBU", "SB"}
  <2>1. Size(i) = 1
    BY <1>2 DEF Size
  <2> QED BY <2>1
<1>3. CASE i.op \in {"LH", "LHU", "SH"}
  <2>1. Size(i) = 2
    BY <1>3 DEF Size
  <2> QED BY <2>1
<1>4. CASE i.op \in {"LW", "SW"}
  <2>1. Size(i) = 4
    BY <1>4 DEF Size
  <2> QED BY <2>1, <1>4
<1> QED BY <1>1, <1>2, <1>3, <1>4

LEMMA HalfExact ==
  ASSUME NEW i, i.op \in Unaligned, NEW old \in Int, NEW new \in Int, NEW byte \in 0 .. 3
  PROVE  Half(i, old, new, byte) \in WordSet
<1>1. ASSUME NEW k \in 0 .. 3
      PROVE  UpperFrom(old, new, ByteBits * k) \in WordSet
             /\ LowerFrom(old, new, ByteBits * k) \in WordSet
  <2> DEFINE q == 2^(ByteBits * k)
             kept == 2^(WordBits - ByteBits * k)
  <2>1. q \in Nat /\ q > 0 /\ ByteBits * k \in 0 .. WordBits
    BY Shifts
  <2>2. kept \in Nat /\ kept > 0
    <3>1. WordBits - ByteBits * k \in 0 .. WordBits
      BY <2>1, Powers
    <3> QED BY <3>1, Powers
  <2>3. /\ UpperFrom(old, new, ByteBits * k) = Word((old % q) + new * q)
        /\ LowerFrom(old, new, ByteBits * k) =
             Word((Unsigned(old) \div kept) * kept + Unsigned(new) \div q)
    BY DEF UpperFrom, LowerFrom
  <2> HIDE DEF q, kept
  <2>4. (old % q) + new * q \in Int
    BY <2>1
  <2>5. Unsigned(old) \in Int /\ Unsigned(new) \in Int
    <3>1. Unsigned(old) \in 0 .. 2^WordBits - 1 /\ Unsigned(new) \in 0 .. 2^WordBits - 1
      BY Wraps
    <3> QED BY <3>1
  <2>6. Unsigned(old) \div kept \in Int /\ Unsigned(new) \div q \in Int
    BY <2>1, <2>2, <2>5, Remainder
  <2>7. (Unsigned(old) \div kept) * kept + Unsigned(new) \div q \in Int
    BY <2>2, <2>6
  <2> QED BY <2>3, <2>4, <2>7, Wraps
<1>2. byte \in 0 .. 3 /\ 3 - byte \in 0 .. 3
  OBVIOUS
<1>3. i.op \in {"LWL", "LWR", "SWL", "SWR"}
  BY DEF Unaligned
<1>4. CASE i.op = "LWL"
  <2>1. Half(i, old, new, byte) = UpperFrom(old, new, ByteBits * (3 - byte))
    BY <1>4 DEF Half
  <2> QED BY <1>1, <1>2, <2>1
<1>5. CASE i.op = "SWR"
  <2>1. Half(i, old, new, byte) = UpperFrom(old, new, ByteBits * byte)
    BY <1>5 DEF Half
  <2> QED BY <1>1, <1>2, <2>1
<1>6. CASE i.op = "LWR"
  <2>1. Half(i, old, new, byte) = LowerFrom(old, new, ByteBits * byte)
    BY <1>6 DEF Half
  <2> QED BY <1>1, <1>2, <2>1
<1>7. CASE i.op = "SWL"
  <2>1. Half(i, old, new, byte) = LowerFrom(old, new, ByteBits * (3 - byte))
    BY <1>7 DEF Half
  <2> QED BY <1>1, <1>2, <2>1
<1> QED BY <1>3, <1>4, <1>5, <1>6, <1>7

LEMMA LoadKept ==
  ASSUME NEW n \in Nat, NEW m \in Machine(n), m.trap = "None",
         NEW i \in Instruction, i.op \in Loads
  PROVE  Kept(n, m, Load(m, i)) /\ Ends(n, m, Load(m, i))
<1> DEFINE addr == Address(m, i)
           size == Size(i)
           read == ReadMem(m, addr, size)
           v == IF i.op \in {"LBU", "LHU"} THEN read.value % 2^(ByteBits * size)
                                           ELSE SignExtend(read.value, ByteBits * size)
           x == Complete(read.m, i.rt, v, Sequential(read.m))
<1>1. addr \in WordSet /\ size \in {1, 2, 4} /\ (i.op \in {"LBU", "LHU"} => size # 4)
  BY AddressExact, SizeExact
<1>3. Load(m, i) = IF read.m.trap # "None" THEN read.m ELSE x
  BY DEF Load, LoadRead
<1> HIDE DEF addr, size, v, x
<1>2. /\ read.m \in Machine(n) /\ read.m.mainMemory = m.mainMemory
      /\ read.m.trap = "None" => read.value \in Int
      /\ read.m.trap # "None" => Ends(n, m, read.m)
  BY <1>1, ReadKept
<1> HIDE DEF read
<1>4. CASE read.m.trap = "None"
  <2>1. v \in WordSet
    BY <1>1, <1>2, <1>4, Extends DEF v
  <2>2. Sequential(read.m) \in WordSet /\ i.rt \in GPReg
    BY <1>2, SequentialExact, InstructionFields
  <2>3. x \in Machine(n) /\ x.mainMemory = read.m.mainMemory
    BY <1>2, <2>1, <2>2, CompleteExact DEF x
  <2>4. Ends(n, m, x)
    BY <1>2, <1>4, <2>1, <2>2, CompleteEnds DEF x, Restartable
  <2> QED BY <1>2, <1>3, <1>4, <2>3, <2>4 DEF Kept
<1>5. CASE read.m.trap # "None"
  BY <1>2, <1>3, <1>5 DEF Kept
<1> QED BY <1>4, <1>5

LEMMA LoadHalfKept ==
  ASSUME NEW n \in Nat, NEW m \in Machine(n), m.trap = "None",
         NEW i \in Instruction, i.op \in {"LWL", "LWR"}
  PROVE  Kept(n, m, LoadHalf(m, i)) /\ Ends(n, m, LoadHalf(m, i))
<1> DEFINE byte == Address(m, i) % 4
           addr == Address(m, i) - byte
           read == ReadMem(m, addr, 4)
           old == Forwarded(read.m, i)
           v == Half(i, old, read.value, byte)
           x == Complete(read.m, i.rt, v, Sequential(read.m))
<1>1. addr \in WordSet /\ byte \in 0 .. 3
  BY AddressExact, AlignedExact
<1>6. i.op \in Unaligned
  BY DEF Unaligned
<1>2. LoadHalf(m, i) = IF read.m.trap # "None" THEN read.m ELSE x
  BY DEF LoadHalf, HalfRead
<1> HIDE DEF addr, byte, old, v, x
<1>3. /\ read.m \in Machine(n) /\ read.m.mainMemory = m.mainMemory
      /\ read.m.trap = "None" => read.value \in Int
      /\ read.m.trap # "None" => Ends(n, m, read.m)
  BY <1>1, ReadKept
<1> HIDE DEF read
<1>4. CASE read.m.trap = "None"
  <2>1. old \in Int
    BY <1>3, RegisterWord, RegisterNames, InstructionFields
    DEF Machine, Forwarded, LoadReg, LoadValueReg, old
  <2>2. v \in WordSet
    BY <1>1, <1>3, <1>4, <1>6, <2>1, HalfExact DEF v
  <2>4. Sequential(read.m) \in WordSet /\ i.rt \in GPReg
    BY <1>3, SequentialExact, InstructionFields
  <2>3. x \in Machine(n) /\ x.mainMemory = read.m.mainMemory
    BY <1>3, <2>2, <2>4, CompleteExact DEF x
  <2>5. Ends(n, m, x)
    BY <1>3, <1>4, <2>2, <2>4, CompleteEnds DEF x, Restartable
  <2> QED BY <1>2, <1>3, <1>4, <2>3, <2>5 DEF Kept
<1>5. CASE read.m.trap # "None"
  BY <1>2, <1>3, <1>5 DEF Kept
<1> QED BY <1>4, <1>5

----------------------------------------------------------------------------
(* A change of memory goes through one entry of the table, which allows    *)
(* it: x is what is left of m.                                             *)
Through(m, x, e) ==
  /\ x.trap = "None"
  /\ e \in DOMAIN m.table
  /\ m.table[e].physicalPage \in Nat
  /\ Usable(m.table[e], TRUE)
  /\ x.table = Marked(m.table, e, TRUE)
  /\ LET base == m.table[e].physicalPage * PageSize
     IN  \A a \in 0 .. MemorySize - 1 :
           a < base \/ a >= base + PageSize => x.mainMemory[a] = m.mainMemory[a]

Authorised(n, m, x) ==
  x \in Machine(n) /\ (x.mainMemory = m.mainMemory \/ \E e \in DOMAIN m.table : Through(m, x, e))

LEMMA WriteAuthorised ==
  ASSUME NEW n \in Nat, NEW m \in Machine(n), m.trap = "None",
         NEW addr \in WordSet, NEW size \in {1, 2, 4}, NEW value \in Int
  PROVE  LET x == Stored(WriteMem(m, addr, size, value))
         IN  /\ x \in Machine(n) /\ Ends(n, m, x)
             /\ x.mainMemory = m.mainMemory \/ Through(m, x, EntryOf(m, addr))
<1> DEFINE w == WriteMem(m, addr, size, value)
           x == Stored(w)
<1>1. WritesThrough(n, m, addr, size, w)
  BY WriteExact
<1>2. x = IF w.trap # "None" THEN w ELSE Done(w)
  BY DEF Stored
<1> HIDE DEF w, x
<1>3. CASE w.trap = "None"
  <2>1. w \in Machine(n)
    BY <1>1 DEF WritesThrough
  <2>2. x \in Machine(n) /\ x.mainMemory = w.mainMemory /\ x.table = w.table /\ x.trap = w.trap
    BY <1>2, <1>3, <2>1, DoneExact
  <2>3. Through(m, x, EntryOf(m, addr))
    BY <1>1, <1>3, <2>2 DEF WritesThrough, Through
  <2>4. Ends(n, m, x)
    BY <1>2, <1>3, <2>1, DoneEnds DEF Restartable
  <2> QED BY <2>2, <2>3, <2>4 DEF x, w
<1>4. CASE w.trap # "None"
  <2>1. w \in Machine(n) /\ w.trap \in ExceptionType /\ w = RaiseException(m, w.trap, addr)
    BY <1>1, <1>4 DEF WritesThrough, Machine
  <2>2. w.mainMemory = m.mainMemory
    BY <2>1, RaiseExact
  <2>3. Ends(n, m, w)
    <3>1. Ends(n, m, RaiseException(m, w.trap, addr))
      BY <2>1, RaiseEnds
    <3> QED BY <2>1, <3>1
  <2> QED BY <1>2, <1>4, <2>1, <2>2, <2>3 DEF x, w
<1> QED BY <1>3, <1>4

(* The marks change nothing that decides a translation, and a second mark  *)
(* of an entry covers the first.                                           *)
LEMMA MarkedSame ==
  ASSUME NEW n \in Nat, NEW m \in Machine(n), NEW c \in DOMAIN m.table
  PROVE  LET t == Marked(m.table, c, FALSE)
         IN  /\ DOMAIN t = DOMAIN m.table
             /\ \A e \in DOMAIN m.table :
                  /\ t[e].valid = m.table[e].valid
                  /\ t[e].virtualPage = m.table[e].virtualPage
                  /\ t[e].physicalPage = m.table[e].physicalPage
                  /\ t[e].readOnly = m.table[e].readOnly
             /\ Marked(t, c, TRUE) = Marked(m.table, c, TRUE)
<1>1. m.table \in [0 .. n - 1 -> TranslationEntry] /\ m.table[c] \in TranslationEntry
  BY DEF Machine
<1> DEFINE old == m.table
           one == [old[c] EXCEPT !.use = TRUE, !.dirty = @ \/ FALSE]
           t == [old EXCEPT ![c] = one]
<1>2. Marked(old, c, FALSE) = t
  BY DEF Marked
<1>3. one.valid = old[c].valid /\ one.virtualPage = old[c].virtualPage
      /\ one.physicalPage = old[c].physicalPage /\ one.readOnly = old[c].readOnly
  BY <1>1 DEF TranslationEntry
<1>4. [one EXCEPT !.use = TRUE, !.dirty = @ \/ TRUE] = [old[c] EXCEPT !.use = TRUE, !.dirty = @ \/ TRUE]
  BY <1>1 DEF TranslationEntry
<1> DEFINE two == [old[c] EXCEPT !.use = TRUE, !.dirty = @ \/ TRUE]
<1>5. Marked(old, c, TRUE) = [old EXCEPT ![c] = two]
  BY DEF Marked
<1>6. t[c] = one /\ DOMAIN t = DOMAIN old
  BY <1>1
<1>7. Marked(t, c, TRUE) = [t EXCEPT ![c] = two]
  <2> HIDE DEF t
  <2>1. Marked(t, c, TRUE) = [t EXCEPT ![c] = [t[c] EXCEPT !.use = TRUE, !.dirty = @ \/ TRUE]]
    BY DEF Marked
  <2> QED BY <1>4, <1>6, <2>1
<1> HIDE DEF one, two
<1>8. [t EXCEPT ![c] = two] = [old EXCEPT ![c] = two]
  BY <1>1
<1>9. \A e \in DOMAIN old : /\ t[e].valid = old[e].valid /\ t[e].virtualPage = old[e].virtualPage
                            /\ t[e].physicalPage = old[e].physicalPage
                            /\ t[e].readOnly = old[e].readOnly
  BY <1>1, <1>3
<1> HIDE DEF t
<1> QED BY <1>2, <1>5, <1>6, <1>7, <1>8, <1>9

LEMMA SameEntry ==
  ASSUME NEW n \in Nat, NEW m \in Machine(n), NEW c \in DOMAIN m.table, NEW addr
  PROVE  EntryOf([m EXCEPT !.table = Marked(m.table, c, FALSE)], addr) = EntryOf(m, addr)
<1> DEFINE t == Marked(m.table, c, FALSE)
           x == [m EXCEPT !.table = t]
           page == Unsigned(addr) \div PageSize
<1>1. /\ DOMAIN t = DOMAIN m.table
      /\ \A e \in DOMAIN m.table : t[e].valid = m.table[e].valid /\ t[e].virtualPage = m.table[e].virtualPage
  BY MarkedSame
<1>2. x.table = t /\ x.tlb = m.tlb
  BY DEF Machine
<1> HIDE DEF t, x, page
<1>3. {i \in DOMAIN x.table : x.table[i].valid /\ x.table[i].virtualPage = page} =
      {i \in DOMAIN m.table : m.table[i].valid /\ m.table[i].virtualPage = page}
  BY <1>1, <1>2
<1>4. Entries(x, page) = Entries(m, page)
  BY <1>1, <1>2, <1>3 DEF Entries
<1> QED BY <1>4 DEF EntryOf, x, t, page

LEMMA StoreAuthorised ==
  ASSUME NEW n \in Nat, NEW m \in Machine(n), m.trap = "None",
         NEW i \in Instruction, i.op \in Stores
  PROVE  Authorised(n, m, Store(m, i)) /\ Ends(n, m, Store(m, i))
<1> DEFINE addr == Address(m, i)
           size == Size(i)
           value == m.registers[i.rt]
           x == Stored(WriteMem(m, addr, size, value))
<1>1. addr \in WordSet /\ size \in {1, 2, 4}
  BY AddressExact, SizeExact
<1>2. value \in Int
  BY InstructionFields, RegisterWord, RegisterNames DEF Machine, LoadReg
<1>3. Store(m, i) = x
  BY DEF Store
<1> HIDE DEF addr, size, value
<1>4. /\ x \in Machine(n) /\ (x.mainMemory = m.mainMemory \/ Through(m, x, EntryOf(m, addr)))
      /\ Ends(n, m, x)
  BY <1>1, <1>2, WriteAuthorised
<1> HIDE DEF x
<1>5. Through(m, x, EntryOf(m, addr)) => EntryOf(m, addr) \in DOMAIN m.table
  BY DEF Through
<1> QED BY <1>3, <1>4, <1>5 DEF Authorised

LEMMA StoreHalfAuthorised ==
  ASSUME NEW n \in Nat, NEW m \in Machine(n), m.trap = "None",
         NEW i \in Instruction, i.op \in {"SWL", "SWR"}
  PROVE  Authorised(n, m, StoreHalf(m, i)) /\ Ends(n, m, StoreHalf(m, i))
<1> DEFINE byte == Address(m, i) % 4
           addr == Address(m, i) - byte
           read == ReadMem(m, addr, 4)
           p == read.m
           new == p.registers[i.rt]
           value == Half(i, read.value, new, byte)
           x == Stored(WriteMem(p, addr, 4, value))
           e == EntryOf(m, addr)
<1>1. addr \in WordSet /\ byte \in 0 .. 3
  BY AddressExact, AlignedExact
<1>2. StoreHalf(m, i) = IF p.trap # "None" THEN p ELSE x
  BY DEF StoreHalf, HalfWritten
<1>3. i.op \in Unaligned
  BY DEF Unaligned
<1> HIDE DEF byte, addr
<1>4. ReadsThrough(n, m, addr, 4, read)
  BY <1>1, ReadExact
<1> HIDE DEF read
<1>5. p \in Machine(n) /\ p.mainMemory = m.mainMemory
  BY <1>4 DEF ReadsThrough
<1>6. CASE p.trap # "None"
  <2>1. p = RaiseException(m, p.trap, addr) /\ p.trap \in ExceptionType
    BY <1>4, <1>5, <1>6 DEF ReadsThrough, Machine
  <2>2. Ends(n, m, RaiseException(m, p.trap, addr))
    BY <1>1, <2>1, RaiseEnds
  <2>3. Ends(n, m, p)
    BY <2>1, <2>2
  <2> QED BY <1>2, <1>5, <1>6, <2>3 DEF Authorised
<1>7. CASE p.trap = "None"
  <2>1. e \in DOMAIN m.table /\ p = [m EXCEPT !.table = Marked(m.table, e, FALSE)] /\ read.value \in Int
    BY <1>4, <1>7 DEF ReadsThrough
  <2>2. EntryOf(p, addr) = e
    <3> HIDE DEF p, e
    <3>1. EntryOf([m EXCEPT !.table = Marked(m.table, e, FALSE)], addr) = EntryOf(m, addr)
      BY <2>1, SameEntry
    <3> QED BY <2>1, <3>1 DEF e
  <2> HIDE DEF p, e
  <2>3. new \in Int
    BY <1>5, InstructionFields, RegisterWord, RegisterNames DEF Machine, LoadReg
  <2> HIDE DEF new
  <2>4. value \in Int
    BY <1>1, <1>3, <2>1, <2>3, HalfExact, WordsAreInts
  <2> HIDE DEF value
  <2>5. /\ x \in Machine(n) /\ (x.mainMemory = p.mainMemory \/ Through(p, x, e))
        /\ Ends(n, p, x)
    BY <1>1, <1>5, <1>7, <2>2, <2>4, WriteAuthorised
  <2> HIDE DEF x
  <2>6. Through(p, x, e) => Through(m, x, e)
    <3>1. p.table = Marked(m.table, e, FALSE)
      BY <2>1 DEF Machine
    <3>2. /\ p.table[e].valid = m.table[e].valid
          /\ p.table[e].physicalPage = m.table[e].physicalPage
          /\ p.table[e].readOnly = m.table[e].readOnly
          /\ Marked(p.table, e, TRUE) = Marked(m.table, e, TRUE)
      <4> DEFINE t == Marked(m.table, e, FALSE)
      <4>1. \A f \in DOMAIN m.table : /\ t[f].valid = m.table[f].valid
                                      /\ t[f].physicalPage = m.table[f].physicalPage
                                      /\ t[f].readOnly = m.table[f].readOnly
        BY <2>1, MarkedSame
      <4>2. Marked(t, e, TRUE) = Marked(m.table, e, TRUE)
        BY <2>1, MarkedSame
      <4> HIDE DEF t
      <4>3. p.table = t
        BY <3>1 DEF t
      <4> QED BY <2>1, <4>1, <4>2, <4>3
    <3>3. Usable(p.table[e], TRUE) = Usable(m.table[e], TRUE)
      BY <3>2 DEF Usable
    <3> QED BY <1>5, <2>1, <3>2, <3>3 DEF Through
  <2>7. Ends(n, m, x)
    <3>1. Marked(m.table, e, FALSE) \in [0 .. n - 1 -> TranslationEntry]
      <4> DEFINE f == FALSE
      <4>1. f \in BOOLEAN
        OBVIOUS
      <4> HIDE DEF f
      <4>2. Marked(m.table, e, f) \in [0 .. n - 1 -> TranslationEntry]
        BY <2>1, <4>1, MarkedExact
      <4> QED BY <4>2 DEF f
    <3> DEFINE t == Marked(m.table, e, FALSE)
    <3>2. t \in [0 .. n - 1 -> TranslationEntry] /\ p = [m EXCEPT !.table = t]
      BY <2>1, <3>1
    <3> HIDE DEF t
    <3> QED BY <1>5, <2>5, <3>2, EndsThrough
  <2> QED BY <1>2, <1>5, <1>7, <2>1, <2>5, <2>6, <2>7 DEF Authorised
<1> QED BY <1>6, <1>7

(* The arms of Execute are disjoint.                                       *)
LEMMA ExecuteCases ==
  ASSUME NEW i \in Instruction
  PROVE  \/ i.op \in Immediates \cup Results /\ \A x : Execute(x, i) = Compute(x, i)
         \/ i.op \in HiLoOps /\ \A x : Execute(x, i) = ComputeHiLo(x, i)
         \/ i.op \in Branches /\ \A x : Execute(x, i) = Branch(x, i)
         \/ i.op \in JFormat \cup {"JR", "JALR"} /\ \A x : Execute(x, i) = Jump(x, i)
         \/ i.op \in Loads /\ \A x : Execute(x, i) = Load(x, i)
         \/ i.op \in Stores /\ \A x : Execute(x, i) = Store(x, i)
         \/ i.op \in {"LWL", "LWR"} /\ \A x : Execute(x, i) = LoadHalf(x, i)
         \/ i.op \in {"SWL", "SWR"} /\ \A x : Execute(x, i) = StoreHalf(x, i)
         \/ i.op = "SYSCALL" /\ \A x : Execute(x, i) = RaiseException(x, "Syscall", 0)
         \/ i.op \in Illegal /\ \A x : Execute(x, i) = RaiseException(x, "IllegalInstr", 0)
<1>1. \/ i.op \in Immediates \cup Results
      \/ i.op \in HiLoOps
      \/ i.op \in Branches
      \/ i.op \in JFormat \cup {"JR", "JALR"}
      \/ i.op \in Loads
      \/ i.op \in Stores
      \/ i.op \in {"LWL", "LWR"}
      \/ i.op \in {"SWL", "SWR"}
      \/ i.op = "SYSCALL"
      \/ i.op \in Illegal
  BY InstructionFields DEF IFormat, RFormat, Unaligned
<1>2. CASE i.op \in Immediates \cup Results
  <2>1. /\ i.op \notin HiLoOps
        /\ i.op \notin Branches
        /\ i.op \notin JFormat \cup {"JR", "JALR"}
        /\ i.op \notin Loads
        /\ i.op \notin Stores
        /\ i.op \notin {"LWL", "LWR"}
        /\ i.op \notin {"SWL", "SWR"}
        /\ i.op # "SYSCALL"
        /\ i.op \notin Illegal
    BY <1>2 DEF Immediates, Results, HiLoOps, Branches, JFormat, Loads, Stores, Illegal
  <2>2. \A x : Execute(x, i) = Compute(x, i)
    BY <1>2, <2>1 DEF Execute
  <2> QED BY <1>2, <2>2
<1>3. CASE i.op \in HiLoOps
  <2>1. /\ i.op \notin Immediates \cup Results
        /\ i.op \notin Branches
        /\ i.op \notin JFormat \cup {"JR", "JALR"}
        /\ i.op \notin Loads
        /\ i.op \notin Stores
        /\ i.op \notin {"LWL", "LWR"}
        /\ i.op \notin {"SWL", "SWR"}
        /\ i.op # "SYSCALL"
        /\ i.op \notin Illegal
    BY <1>3 DEF Immediates, Results, HiLoOps, Branches, JFormat, Loads, Stores, Illegal
  <2>2. \A x : Execute(x, i) = ComputeHiLo(x, i)
    BY <1>3, <2>1 DEF Execute
  <2> QED BY <1>3, <2>2
<1>4. CASE i.op \in Branches
  <2>1. /\ i.op \notin Immediates \cup Results
        /\ i.op \notin HiLoOps
        /\ i.op \notin JFormat \cup {"JR", "JALR"}
        /\ i.op \notin Loads
        /\ i.op \notin Stores
        /\ i.op \notin {"LWL", "LWR"}
        /\ i.op \notin {"SWL", "SWR"}
        /\ i.op # "SYSCALL"
        /\ i.op \notin Illegal
    BY <1>4 DEF Immediates, Results, HiLoOps, Branches, JFormat, Loads, Stores, Illegal
  <2>2. \A x : Execute(x, i) = Branch(x, i)
    BY <1>4, <2>1 DEF Execute
  <2> QED BY <1>4, <2>2
<1>5. CASE i.op \in JFormat \cup {"JR", "JALR"}
  <2>1. /\ i.op \notin Immediates \cup Results
        /\ i.op \notin HiLoOps
        /\ i.op \notin Branches
        /\ i.op \notin Loads
        /\ i.op \notin Stores
        /\ i.op \notin {"LWL", "LWR"}
        /\ i.op \notin {"SWL", "SWR"}
        /\ i.op # "SYSCALL"
        /\ i.op \notin Illegal
    BY <1>5 DEF Immediates, Results, HiLoOps, Branches, JFormat, Loads, Stores, Illegal
  <2>2. \A x : Execute(x, i) = Jump(x, i)
    BY <1>5, <2>1 DEF Execute
  <2> QED BY <1>5, <2>2
<1>6. CASE i.op \in Loads
  <2>1. /\ i.op \notin Immediates \cup Results
        /\ i.op \notin HiLoOps
        /\ i.op \notin Branches
        /\ i.op \notin JFormat \cup {"JR", "JALR"}
        /\ i.op \notin Stores
        /\ i.op \notin {"LWL", "LWR"}
        /\ i.op \notin {"SWL", "SWR"}
        /\ i.op # "SYSCALL"
        /\ i.op \notin Illegal
    BY <1>6 DEF Immediates, Results, HiLoOps, Branches, JFormat, Loads, Stores, Illegal
  <2>2. \A x : Execute(x, i) = Load(x, i)
    BY <1>6, <2>1 DEF Execute
  <2> QED BY <1>6, <2>2
<1>7. CASE i.op \in Stores
  <2>1. /\ i.op \notin Immediates \cup Results
        /\ i.op \notin HiLoOps
        /\ i.op \notin Branches
        /\ i.op \notin JFormat \cup {"JR", "JALR"}
        /\ i.op \notin Loads
        /\ i.op \notin {"LWL", "LWR"}
        /\ i.op \notin {"SWL", "SWR"}
        /\ i.op # "SYSCALL"
        /\ i.op \notin Illegal
    BY <1>7 DEF Immediates, Results, HiLoOps, Branches, JFormat, Loads, Stores, Illegal
  <2>2. \A x : Execute(x, i) = Store(x, i)
    BY <1>7, <2>1 DEF Execute
  <2> QED BY <1>7, <2>2
<1>8. CASE i.op \in {"LWL", "LWR"}
  <2>1. /\ i.op \notin Immediates \cup Results
        /\ i.op \notin HiLoOps
        /\ i.op \notin Branches
        /\ i.op \notin JFormat \cup {"JR", "JALR"}
        /\ i.op \notin Loads
        /\ i.op \notin Stores
        /\ i.op \notin {"SWL", "SWR"}
        /\ i.op # "SYSCALL"
        /\ i.op \notin Illegal
    BY <1>8 DEF Immediates, Results, HiLoOps, Branches, JFormat, Loads, Stores, Illegal
  <2>2. \A x : Execute(x, i) = LoadHalf(x, i)
    BY <1>8, <2>1 DEF Execute
  <2> QED BY <1>8, <2>2
<1>9. CASE i.op \in {"SWL", "SWR"}
  <2>1. /\ i.op \notin Immediates \cup Results
        /\ i.op \notin HiLoOps
        /\ i.op \notin Branches
        /\ i.op \notin JFormat \cup {"JR", "JALR"}
        /\ i.op \notin Loads
        /\ i.op \notin Stores
        /\ i.op \notin {"LWL", "LWR"}
        /\ i.op # "SYSCALL"
        /\ i.op \notin Illegal
    BY <1>9 DEF Immediates, Results, HiLoOps, Branches, JFormat, Loads, Stores, Illegal
  <2>2. \A x : Execute(x, i) = StoreHalf(x, i)
    BY <1>9, <2>1 DEF Execute
  <2> QED BY <1>9, <2>2
<1>10. CASE i.op = "SYSCALL"
  <2>1. /\ i.op \notin Immediates \cup Results
        /\ i.op \notin HiLoOps
        /\ i.op \notin Branches
        /\ i.op \notin JFormat \cup {"JR", "JALR"}
        /\ i.op \notin Loads
        /\ i.op \notin Stores
        /\ i.op \notin {"LWL", "LWR"}
        /\ i.op \notin {"SWL", "SWR"}
        /\ i.op \notin Illegal
    BY <1>10 DEF Immediates, Results, HiLoOps, Branches, JFormat, Loads, Stores, Illegal
  <2>2. \A x : Execute(x, i) = RaiseException(x, "Syscall", 0)
    BY <1>10, <2>1 DEF Execute
  <2> QED BY <1>10, <2>2
<1>11. CASE i.op \in Illegal
  <2>1. /\ i.op \notin Immediates \cup Results
        /\ i.op \notin HiLoOps
        /\ i.op \notin Branches
        /\ i.op \notin JFormat \cup {"JR", "JALR"}
        /\ i.op \notin Loads
        /\ i.op \notin Stores
        /\ i.op \notin {"LWL", "LWR"}
        /\ i.op \notin {"SWL", "SWR"}
        /\ i.op # "SYSCALL"
    BY <1>11 DEF Immediates, Results, HiLoOps, Branches, JFormat, Loads, Stores, Illegal
  <2>2. \A x : Execute(x, i) = RaiseException(x, "IllegalInstr", 0)
    BY <1>11, <2>1 DEF Execute
  <2> QED BY <1>11, <2>2
<1> QED BY <1>1, <1>2, <1>3, <1>4, <1>5, <1>6, <1>7, <1>8, <1>9, <1>10, <1>11

LEMMA ExecuteAuthorised ==
  ASSUME NEW n \in Nat, NEW m \in Machine(n), m.trap = "None", NEW i \in Instruction
  PROVE  Authorised(n, m, Execute(m, i)) /\ Ends(n, m, Execute(m, i))
<1> DEFINE x == Execute(m, i)
<1>1. \A y : Kept(n, m, y) => Authorised(n, m, y)
  BY DEF Kept, Authorised
<1>2. \A which \in ExceptionType :
        Kept(n, m, RaiseException(m, which, 0)) /\ Ends(n, m, RaiseException(m, which, 0))
  BY RaiseExact, RaiseEnds, ZeroIsWord DEF Kept
<1>3. CASE i.op \in Immediates \cup Results /\ x = Compute(m, i)
  BY <1>1, <1>3, ComputeKept
<1>4. CASE i.op \in HiLoOps /\ x = ComputeHiLo(m, i)
  BY <1>1, <1>4, ComputeHiLoKept
<1>5. CASE i.op \in Branches /\ x = Branch(m, i)
  BY <1>1, <1>5, BranchKept
<1>6. CASE i.op \in JFormat \cup {"JR", "JALR"} /\ x = Jump(m, i)
  BY <1>1, <1>6, JumpKept
<1>7. CASE i.op \in Loads /\ x = Load(m, i)
  BY <1>1, <1>7, LoadKept
<1>8. CASE i.op \in Stores /\ x = Store(m, i)
  BY <1>1, <1>8, StoreAuthorised
<1>9. CASE i.op \in {"LWL", "LWR"} /\ x = LoadHalf(m, i)
  BY <1>1, <1>9, LoadHalfKept
<1>10. CASE i.op \in {"SWL", "SWR"} /\ x = StoreHalf(m, i)
  BY <1>1, <1>10, StoreHalfAuthorised
<1>11. CASE x = RaiseException(m, "Syscall", 0)
  BY <1>1, <1>2, <1>11 DEF ExceptionType
<1>12. CASE x = RaiseException(m, "IllegalInstr", 0)
  BY <1>1, <1>2, <1>12 DEF ExceptionType
<1> QED BY <1>3, <1>4, <1>5, <1>6, <1>7, <1>8, <1>9, <1>10, <1>11, <1>12, ExecuteCases

(* Machine::OneInstruction: the fetch marks its own entry first.           *)
FetchedThrough(m, x, c, e) ==
  LET f == [m EXCEPT !.table = Marked(m.table, c, FALSE)]
  IN  c \in DOMAIN m.table /\ Through(f, x, e)

LEMMA InstructionAuthorised ==
  ASSUME NEW n \in Nat, NEW m \in Machine(n), m.trap = "None", NEW i \in Instruction
  PROVE  LET x == OneInstruction(m, i)
         IN  /\ x \in Machine(n) /\ Ends(n, m, x)
             /\ \/ x.mainMemory = m.mainMemory
                \/ \E e \in DOMAIN m.table : FetchedThrough(m, x, EntryOf(m, m.registers[PCReg]), e)
<1> DEFINE counter == m.registers[PCReg]
           read == ReadMem(m, counter, 4)
           f == read.m
           c == EntryOf(m, counter)
           x == OneInstruction(m, i)
<1>1. counter \in WordSet
  BY RegisterWord, RegisterNames DEF Machine, PCReg, LoadReg
<1>2. x = IF f.trap # "None" THEN f ELSE Execute(f, i)
  BY DEF OneInstruction, Fetched
<1> HIDE DEF counter
<1>3. ReadsThrough(n, m, counter, 4, read)
  BY <1>1, ReadExact
<1> HIDE DEF read
<1>4. f \in Machine(n) /\ f.mainMemory = m.mainMemory
  BY <1>3 DEF ReadsThrough
<1>5. CASE f.trap # "None"
  <2>1. f = RaiseException(m, f.trap, counter) /\ f.trap \in ExceptionType
    BY <1>3, <1>4, <1>5 DEF ReadsThrough, Machine
  <2>2. Ends(n, m, RaiseException(m, f.trap, counter))
    BY <1>1, <2>1, RaiseEnds
  <2>3. Ends(n, m, f)
    BY <2>1, <2>2
  <2> HIDE DEF x
  <2>4. x \in Machine(n) /\ x.mainMemory = m.mainMemory /\ Ends(n, m, x)
    BY <1>2, <1>4, <1>5, <2>3
  <2> QED BY <2>4 DEF x
<1>6. CASE f.trap = "None"
  <2>1. c \in DOMAIN m.table /\ f = [m EXCEPT !.table = Marked(m.table, c, FALSE)]
    BY <1>3, <1>6 DEF ReadsThrough
  <2> HIDE DEF x, c, f
  <2>2. Authorised(n, f, Execute(f, i)) /\ Ends(n, f, Execute(f, i))
    BY <1>4, <1>6, ExecuteAuthorised
  <2>3. x = Execute(f, i)
    BY <1>2, <1>6
  <2>4. DOMAIN f.table = DOMAIN m.table
    <3>1. f.table \in [0 .. n - 1 -> TranslationEntry] /\ m.table \in [0 .. n - 1 -> TranslationEntry]
      BY <1>4 DEF Machine
    <3> QED BY <3>1
  <2>5. ASSUME NEW e \in DOMAIN f.table, Through(f, x, e)
        PROVE  e \in DOMAIN m.table /\ FetchedThrough(m, x, c, e)
    BY <2>1, <2>4, <2>5 DEF FetchedThrough
  <2>7. Ends(n, m, x)
    <3>1. Marked(m.table, c, FALSE) \in [0 .. n - 1 -> TranslationEntry]
      <4> DEFINE w == FALSE
      <4>1. w \in BOOLEAN
        OBVIOUS
      <4> HIDE DEF w
      <4>2. Marked(m.table, c, w) \in [0 .. n - 1 -> TranslationEntry]
        BY <2>1, <4>1, MarkedExact
      <4> QED BY <4>2 DEF w
    <3> DEFINE t == Marked(m.table, c, FALSE)
    <3>2. t \in [0 .. n - 1 -> TranslationEntry] /\ f = [m EXCEPT !.table = t]
      BY <2>1, <3>1
    <3> HIDE DEF t
    <3> QED BY <1>4, <2>2, <2>3, <3>2, EndsThrough
  <2>6. /\ x \in Machine(n) /\ Ends(n, m, x)
        /\ x.mainMemory = m.mainMemory \/ \E e \in DOMAIN m.table : FetchedThrough(m, x, c, e)
    BY <1>4, <2>2, <2>3, <2>5, <2>7 DEF Authorised
  <2> QED BY <2>6 DEF x, c, counter
<1> QED BY <1>5, <1>6

(* A byte is in one frame only.                                            *)
LEMMA OneFrame ==
  ASSUME NEW p \in Nat, NEW q \in Nat, NEW a \in Nat,
         p * PageSize <= a, a < p * PageSize + PageSize,
         q * PageSize <= a, a < q * PageSize + PageSize
  PROVE  p = q
<1>1. PageSize \in Nat /\ PageSize > 0
  BY MachineMemoryAssumption
<1>2. \A k, l \in Nat : k < l => k * PageSize + PageSize <= l * PageSize
  <2> TAKE k, l \in Nat
  <2> HAVE k < l
  <2>1. PICK d \in Nat : l = k + 1 + d
    <3>1. l - k - 1 \in Nat
      OBVIOUS
    <3> QED BY <3>1
  <2>2. (k + 1 + d) * PageSize = k * PageSize + PageSize + d * PageSize
    BY <1>1
  <2>3. d * PageSize \in Nat /\ k * PageSize \in Nat
    BY <1>1
  <2> QED BY <1>1, <2>1, <2>2, <2>3
<1>3. p * PageSize \in Nat /\ q * PageSize \in Nat
  BY <1>1
<1>4. ~(p < q) /\ ~(q < p)
  <2> DEFINE b == p * PageSize  c == q * PageSize
  <2>1. (p < q => b + PageSize <= c) /\ (q < p => c + PageSize <= b)
    BY <1>2
  <2>2. b \in Nat /\ c \in Nat /\ b <= a /\ a < b + PageSize /\ c <= a /\ a < c + PageSize
    BY <1>3
  <2> HIDE DEF b, c
  <2> QED BY <1>1, <2>1, <2>2
<1> QED BY <1>4

----------------------------------------------------------------------------
(* The steps of UserMachine.                                               *)
LEMMA PowerOnExact == PowerOn \in Machine(0)
<1> DEFINE r == [x \in Register |-> 0]
           memory == [a \in 0 .. MemorySize - 1 |-> 0]
<1>1. r \in RegisterFile
  BY ZeroIsWord, RegisterNames DEF RegisterFile
<1>2. memory \in [0 .. MemorySize - 1 -> 0 .. 2^ByteBits - 1]
  <2>1. 0 \in 0 .. 2^ByteBits - 1
    <3>1. ByteBits \in 0 .. WordBits
      BY MachineMemoryAssumption DEF WordBits
    <3>2. 2^ByteBits \in Nat /\ 2^ByteBits > 0
      BY <3>1, Powers
    <3> QED BY <3>2
  <2> QED BY <2>1
<1>3. <<>> \in [0 .. 0 - 1 -> TranslationEntry]
  <2>1. 0 .. 0 - 1 = {} /\ DOMAIN <<>> = {}
    OBVIOUS
  <2> QED BY <2>1
<1>4. PowerOn = [registers |-> r, mainMemory |-> memory, tlb |-> FALSE, table |-> <<>>, trap |-> "None"]
  BY DEF PowerOn
<1> HIDE DEF r, memory
<1> QED BY <1>1, <1>2, <1>3, <1>4 DEF Machine, ExceptionType

LEMMA IncreasePCExact ==
  ASSUME NEW n, NEW m \in Machine(n)
  PROVE  IncreasePC(m) \in Machine(n) /\ IncreasePC(m).mainMemory = m.mainMemory
<1> DEFINE counter == m.registers[PCReg]
           a == [m.registers EXCEPT ![PrevPCReg] = counter]
           b == [a EXCEPT ![PCReg] = Word(counter + 4)]
           c == [b EXCEPT ![NextPCReg] = Word(counter + 8)]
<1>1. m.registers \in RegisterFile /\ counter \in WordSet /\ counter \in Int
  BY RegisterWord, RegisterNames DEF Machine, PCReg, LoadReg
<1>2. IncreasePC(m) = [m EXCEPT !.trap = "None", !.registers = c]
  BY DEF IncreasePC, Machine
<1> HIDE DEF counter
<1>3. Word(counter + 4) \in WordSet /\ Word(counter + 8) \in WordSet
  BY <1>1, Wraps
<1>4. /\ PrevPCReg \in Register /\ PrevPCReg # LoadReg /\ PCReg \in Register /\ PCReg # LoadReg
      /\ NextPCReg \in Register /\ NextPCReg # LoadReg
  BY RegisterNames DEF PrevPCReg, PCReg, NextPCReg, LoadReg
<1>5. a \in RegisterFile
  BY <1>1, <1>4, RegisterSet
<1> HIDE DEF a
<1>6. b \in RegisterFile
  BY <1>3, <1>4, <1>5, RegisterSet
<1> HIDE DEF b
<1>7. c \in RegisterFile
  BY <1>3, <1>4, <1>6, RegisterSet
<1> HIDE DEF c
<1> QED BY <1>2, <1>7 DEF Machine, ExceptionType

LEMMA SkipExact ==
  ASSUME NEW n \in Nat, machine \in Machine(n), Skip
  PROVE  machine' \in Machine(n) /\ machine'.mainMemory = machine.mainMemory
<1>1. PICK r2 \in {machine.registers[2]} \cup {-1} :
        machine' = IncreasePC([machine EXCEPT !.registers[2] = r2])
  BY DEF Skip
<1> DEFINE x == [machine EXCEPT !.registers[2] = r2]
<1>2. x \in Machine(n) /\ x.mainMemory = machine.mainMemory
  <2>1. CASE 2 \in Register
    <3>1. 2 # LoadReg /\ machine.registers \in RegisterFile
      BY DEF LoadReg, Machine
    <3>2. -1 \in WordSet
      BY HalfOfWord DEF WordSet
    <3>3. r2 \in WordSet
      BY <2>1, <3>1, <3>2, RegisterWord
    <3> QED BY <2>1, <3>1, <3>3, RegisterKept DEF Kept
  <2>2. CASE 2 \notin Register
    <3>1. DOMAIN machine.registers = Register
      BY DEF Machine, RegisterFile
    <3>2. [machine.registers EXCEPT ![2] = r2] = machine.registers
      BY <2>2, <3>1 DEF Machine, RegisterFile
    <3>3. x = [machine EXCEPT !.registers = [machine.registers EXCEPT ![2] = r2]]
      OBVIOUS
    <3>4. x = machine
      BY <3>2, <3>3 DEF Machine
    <3> QED BY <3>4
  <2> QED BY <2>1, <2>2
<1> HIDE DEF x
<1>3. machine' = IncreasePC(x)
  BY <1>1 DEF x
<1> QED BY <1>2, <1>3, IncreasePCExact

(* The state of the simulated machine always has its type, and register 0  *)
(* stays 0.                                                                *)
MachineSound == IsMachine(machine) /\ machine.registers[0] = 0

LEMMA PowerOnZero == PowerOn.registers[0] = 0
BY RegisterNames DEF PowerOn

LEMMA ExecutionZero ==
  ASSUME NEW noff
  PROVE  Execution(PowerOn, noff).registers[0] = 0
<1> DEFINE pages == NumPages(noff)
           m == Loaded(Zeroed(PowerOn), noff)
           r == [x \in Register |-> CASE x = NextPCReg -> 4
                                      [] x = StackReg -> Word(pages * PageSize - StackMargin)
                                      [] OTHER -> 0]
           p == [m EXCEPT !.registers = r]
           t == [i \in 0 .. pages - 1 |-> Identity(i)]
<1>1. "registers" \in DOMAIN m
  <2>1. DOMAIN Zeroed(PowerOn) = DOMAIN PowerOn
    BY DEF Zeroed
  <2>2. DOMAIN m = DOMAIN Zeroed(PowerOn)
    BY DEF Loaded
  <2>3. "registers" \in DOMAIN PowerOn
    BY DEF PowerOn
  <2> QED BY <2>1, <2>2, <2>3
<1>2. r[0] = 0
  <2>1. 0 \in Register /\ 0 # NextPCReg /\ 0 # StackReg
    BY RegisterNames, AddrSpaceAssumption DEF NextPCReg
  <2> QED BY <2>1
<1>3. Execution(PowerOn, noff) = [p EXCEPT !.table = t]
  BY DEF Execution, RestoreState, InitRegisters
<1> HIDE DEF m, r, t
<1> QED BY <1>1, <1>2, <1>3

LEMMA SoundAtFirst == MachineInit => MachineSound
<1> SUFFICES ASSUME MachineInit PROVE MachineSound
  OBVIOUS
<1>1. machine = PowerOn \/ machine \in Preset \cup Operands
  BY DEF MachineInit
<1>2. IsMachine(PowerOn) /\ PowerOn.registers[0] = 0
  BY PowerOnExact, PowerOnZero, MachineMemoryAssumption DEF IsMachine
<1> QED BY <1>1, <1>2, UserMachineAssumption DEF MachineSound

LEMMA SoundKept == MachineSound /\ [MachineNext]_machineVars => MachineSound'
<1> SUFFICES ASSUME MachineSound, [MachineNext]_machineVars
             PROVE  IsMachine(machine') /\ machine'.registers[0] = 0
  BY DEF MachineSound
<1>1. PICK n \in 0 .. NumPhysPages : machine \in Machine(n)
  BY DEF MachineSound, IsMachine
<1>2. n \in Nat
  BY <1>1
<1>3. \A x : x \in Machine(n) => IsMachine(x)
  BY <1>1 DEF IsMachine
<1>9. machine.registers[0] = 0
  BY DEF MachineSound
<1>4. CASE Exec
  BY <1>4, UserMachineAssumption, ExecutionZero DEF Exec
<1>5. CASE Run
  <2>1. PICK i \in Program : machine' = OneInstruction(machine, i)
    BY <1>5 DEF Run
  <2>2. machine.trap = "None" /\ i \in Instruction
    BY <1>5, UserMachineAssumption DEF Run
  <2>3. OneInstruction(machine, i) \in Machine(n) /\ Ends(n, machine, OneInstruction(machine, i))
    BY <1>1, <1>2, <2>2, InstructionAuthorised
  <2> QED BY <1>3, <1>9, <2>1, <2>3 DEF Ends
<1>6. CASE Skip
  <2>1. machine.registers \in RegisterFile /\ machine \in Machine(n)
    BY <1>1 DEF Machine
  <2>2. machine'.registers[0] = 0
    BY <1>6, <1>9, <2>1, RegisterNames
    DEF Skip, IncreasePC, Machine, RegisterFile, PrevPCReg, PCReg, NextPCReg
  <2> QED BY <1>1, <1>2, <1>3, <1>6, <2>2, SkipExact
<1>7. CASE Restart
  <2>1. PICK t \in Tables : machine' = [machine EXCEPT !.trap = "None", !.table = t]
    BY <1>7 DEF Restart
  <2>2. PICK k \in 0 .. NumPhysPages : [PowerOn EXCEPT !.table = t] \in Machine(k)
    BY UserMachineAssumption DEF IsMachine
  <2>3. t \in [0 .. k - 1 -> TranslationEntry]
    BY <2>2 DEF PowerOn, Machine
  <2>4. machine' \in Machine(k)
    BY <1>1, <2>1, <2>3 DEF Machine, ExceptionType
  <2>5. machine'.registers = machine.registers
    BY <1>1, <2>1 DEF Machine
  <2> QED BY <1>9, <2>4, <2>5 DEF IsMachine
<1>8. CASE UNCHANGED machineVars
  BY <1>1, <1>3, <1>8, <1>9 DEF machineVars
<1> QED BY <1>4, <1>5, <1>6, <1>7, <1>8 DEF MachineNext

(* The machine that UserMachine runs has, at every moment, registers that  *)
(* hold words, the first of them 0 ("and always make sure R0 stays zero"), *)
(* memory that holds bytes and a table of page entries.                    *)
THEOREM MachineIsSound == MachineSpec => []MachineSound
BY SoundAtFirst, SoundKept, PTL DEF MachineSpec

(* What a step of the simulator may do to memory.                          *)
Permitted ==
  machine # PowerOn =>
    \A p \in Changed : \E e \in DOMAIN machine.table :
      LET entry == machine.table[e]
      IN  /\ machine'.trap = "None"
          /\ entry.physicalPage = p /\ entry.valid /\ ~entry.readOnly
          /\ machine'.table = [machine.table EXCEPT ![e] =
               [entry EXCEPT !.use = TRUE, !.dirty = TRUE],
               ![CHOOSE c \in Entries(machine, Unsigned(R[PCReg]) \div PageSize) : TRUE].use = TRUE]

(* The two marks of an instruction that stores, as the property has them.  *)
LEMMA TwoMarks ==
  ASSUME NEW n \in Nat, NEW t \in [0 .. n - 1 -> TranslationEntry],
         NEW c \in DOMAIN t, NEW e \in DOMAIN t
  PROVE  Marked(Marked(t, c, FALSE), e, TRUE) =
           [t EXCEPT ![e] = [t[e] EXCEPT !.use = TRUE, !.dirty = TRUE],
                     ![c].use = TRUE]
<1> DEFINE fetched == [t[c] EXCEPT !.use = TRUE, !.dirty = @ \/ FALSE]
           first == [t EXCEPT ![c] = fetched]
           stored == [first[e] EXCEPT !.use = TRUE, !.dirty = @ \/ TRUE]
           dirty == [t[e] EXCEPT !.use = TRUE, !.dirty = TRUE]
           begun == [t EXCEPT ![e] = dirty]
           used == [begun[c] EXCEPT !.use = TRUE]
<1>1. t[c] \in TranslationEntry /\ t[e] \in TranslationEntry
  OBVIOUS
<1>2. Marked(Marked(t, c, FALSE), e, TRUE) = [first EXCEPT ![e] = stored]
  BY DEF Marked
<1>3. [t EXCEPT ![e] = dirty, ![c].use = TRUE] = [begun EXCEPT ![c] = used]
  OBVIOUS
<1>4. fetched = [t[c] EXCEPT !.use = TRUE]
  BY <1>1 DEF TranslationEntry
<1>5. CASE c = e
  <2>1. stored = dirty
    <3>1. first[e] = fetched
      BY <1>5
    <3> HIDE DEF first
    <3> QED BY <1>1, <1>4, <1>5, <3>1 DEF TranslationEntry
  <2>2. used = dirty
    <3>1. begun[c] = dirty
      BY <1>5
    <3> HIDE DEF begun
    <3> QED BY <1>1, <1>5, <3>1 DEF TranslationEntry
  <2> HIDE DEF fetched, stored, dirty, used
  <2>3. [first EXCEPT ![e] = stored] = [begun EXCEPT ![c] = used]
    BY <1>5, <2>1, <2>2
  <2> QED BY <1>2, <1>3, <2>3 DEF dirty
<1>6. CASE c # e
  <2>1. first[e] = t[e] /\ begun[c] = t[c]
    BY <1>6
  <2>2. used = fetched
    <3> HIDE DEF begun
    <3> QED BY <1>4, <2>1
  <2>3. stored = dirty
    <3> HIDE DEF first
    <3> QED BY <1>1, <2>1 DEF TranslationEntry
  <2> HIDE DEF fetched, stored, dirty, used
  <2>4. [first EXCEPT ![e] = stored] = [begun EXCEPT ![c] = used]
    BY <1>6, <2>2, <2>3
  <2> QED BY <1>2, <1>3, <2>4 DEF dirty
<1> QED BY <1>5, <1>6

LEMMA RunPermitted ==
  ASSUME NEW n \in Nat, machine \in Machine(n), Run
  PROVE  Permitted
<1>1. PICK i \in Program : machine' = OneInstruction(machine, i)
  BY DEF Run
<1>2. machine.trap = "None" /\ i \in Instruction
  BY UserMachineAssumption DEF Run
<1> DEFINE c == EntryOf(machine, machine.registers[PCReg])
           f == [machine EXCEPT !.table = Marked(machine.table, c, FALSE)]
<1>3. \/ machine'.mainMemory = machine.mainMemory
      \/ \E e \in DOMAIN machine.table : FetchedThrough(machine, machine', c, e)
  BY <1>1, <1>2, InstructionAuthorised
<1>4. CASE machine'.mainMemory = machine.mainMemory
  BY <1>4 DEF Permitted, Changed
<1>5. ASSUME NEW e \in DOMAIN machine.table, FetchedThrough(machine, machine', c, e)
      PROVE  Permitted
  <2> DEFINE entry == machine.table[e]
  <2>1. c \in DOMAIN machine.table /\ Through(f, machine', e)
    BY <1>5 DEF FetchedThrough
  <2> HIDE DEF c
  <2>2. f.table = Marked(machine.table, c, FALSE) /\ f.mainMemory = machine.mainMemory
    BY DEF Machine
  <2>3. f.table[e].valid = entry.valid /\ f.table[e].physicalPage = entry.physicalPage
        /\ f.table[e].readOnly = entry.readOnly
    <3> DEFINE t == Marked(machine.table, c, FALSE)
    <3>1. \A d \in DOMAIN machine.table : /\ t[d].valid = machine.table[d].valid
                                          /\ t[d].physicalPage = machine.table[d].physicalPage
                                          /\ t[d].readOnly = machine.table[d].readOnly
      BY <2>1, MarkedSame
    <3> HIDE DEF t
    <3>2. f.table = t
      BY <2>2 DEF t
    <3> HIDE DEF f
    <3> QED BY <3>1, <3>2
  <2> HIDE DEF f
  <2>4. machine'.trap = "None" /\ entry.valid /\ ~entry.readOnly
        /\ entry.physicalPage \in Nat /\ entry.physicalPage < NumPhysPages
    BY <2>1, <2>3 DEF Through, Usable
  <2>5. machine'.table = [machine.table EXCEPT ![e] = [entry EXCEPT !.use = TRUE, !.dirty = TRUE],
                                               ![c].use = TRUE]
    <3>1. machine'.table = Marked(Marked(machine.table, c, FALSE), e, TRUE)
      BY <2>1, <2>2 DEF Through
    <3>2. machine.table \in [0 .. n - 1 -> TranslationEntry]
      BY DEF Machine
    <3> QED BY <2>1, <3>1, <3>2, TwoMarks
  <2>6. ASSUME NEW p \in Changed PROVE entry.physicalPage = p
    <3> DEFINE base == entry.physicalPage * PageSize
    <3>1. PICK a \in p * PageSize .. (p + 1) * PageSize - 1 :
            machine.mainMemory[a] # machine'.mainMemory[a]
      BY <2>6 DEF Changed
    <3>2. p \in Nat /\ p < NumPhysPages
      BY <2>6, MachineMemoryAssumption DEF Changed
    <3>3. PageSize \in Nat /\ (p + 1) * PageSize = p * PageSize + PageSize
          /\ p * PageSize \in Nat /\ p * PageSize + PageSize <= MemorySize
      BY <3>2, MachineMemoryAssumption, FrameFits
    <3>4. a \in Nat /\ a \in 0 .. MemorySize - 1 /\ p * PageSize <= a /\ a < p * PageSize + PageSize
      <4> DEFINE low == p * PageSize
                 high == (p + 1) * PageSize
      <4>1. low \in Nat /\ high = low + PageSize /\ low + PageSize <= MemorySize /\ a \in low .. high - 1
        BY <3>1, <3>3
      <4>2. MemorySize \in Nat
        BY MachineMemoryAssumption DEF MemorySize
      <4> HIDE DEF low, high
      <4>3. a \in Nat /\ a \in 0 .. MemorySize - 1 /\ low <= a /\ a < low + PageSize
        BY <3>3, <4>1, <4>2
      <4> QED BY <4>3 DEF low
    <3>5. ~(a < base \/ a >= base + PageSize)
      BY <2>1, <2>2, <2>3, <3>1, <3>4 DEF Through
    <3>6. base \in Nat
      BY <2>4, <3>3
    <3> HIDE DEF base
    <3>7. base <= a /\ a < base + PageSize
      BY <3>3, <3>4, <3>5, <3>6
    <3> QED BY <2>4, <3>2, <3>4, <3>7, OneFrame DEF base
  <2>7. c = CHOOSE d \in Entries(machine, Unsigned(R[PCReg]) \div PageSize) : TRUE
    BY DEF c, EntryOf, R
  <2> QED BY <2>4, <2>5, <2>6, <2>7 DEF Permitted
<1> HIDE DEF c
<1> QED BY <1>3, <1>4, <1>5

LEMMA StepPermitted ==
  ASSUME MachineSound, [MachineNext]_machineVars
  PROVE  [Permitted]_machineVars
<1>1. PICK n \in 0 .. NumPhysPages : machine \in Machine(n)
  BY DEF MachineSound, IsMachine
<1>2. n \in Nat
  BY <1>1
<1>3. machine'.mainMemory = machine.mainMemory => Permitted
  BY DEF Permitted, Changed
<1>4. CASE Exec
  BY <1>4 DEF Exec, Permitted
<1>5. CASE Run
  BY <1>1, <1>2, <1>5, RunPermitted
<1>6. CASE Skip
  BY <1>1, <1>2, <1>3, <1>6, SkipExact
<1>7. CASE Restart
  <2>1. PICK t \in Tables : machine' = [machine EXCEPT !.trap = "None", !.table = t]
    BY <1>7 DEF Restart
  <2>2. machine'.mainMemory = machine.mainMemory
    BY <1>1, <2>1 DEF Machine
  <2> QED BY <1>3, <2>2
<1> QED BY <1>4, <1>5, <1>6, <1>7 DEF MachineNext

(* Machine::WriteMem and Machine::Translate: a step of the simulator       *)
(* changes memory only in a frame that an entry of the table maps, valid   *)
(* and writable, and leaves that entry marked dirty, whatever the program, *)
(* the page tables and the size of the machine.                            *)
THEOREM MachineWritesAuthorised == MachineSpec => WritesAuthorised
<1>1. MachineSound /\ [MachineNext]_machineVars => [Permitted]_machineVars
  BY StepPermitted
<1>2. WritesAuthorised <=> [][Permitted]_machineVars
  BY PTL DEF WritesAuthorised, Permitted
<1> QED BY <1>1, <1>2, MachineIsSound, PTL DEF MachineSpec

-----------------------------------------------------------------------------
(* Restarting an instruction that faulted (FaultsRestartable).  The trap   *)
(* has finished the pending load, so that the instruction runs again on a  *)
(* machine that differs from the first: in the register that was being     *)
(* loaded and in the two that describe the load.  Two machines are Alike   *)
(* up to the registers in hidden when they differ in these only and the    *)
(* end of the pending load makes them equal.                               *)
Finished(r) == DelayedLoad(r, 0, 0)
Names(hidden) == {LoadReg, LoadValueReg} \subseteq hidden /\ hidden \subseteq Register
                 /\ 0 \notin hidden /\ BadVAddrReg \notin hidden
                 /\ PCReg \notin hidden /\ NextPCReg \notin hidden /\ PrevPCReg \notin hidden
                 /\ HiReg \notin hidden /\ LoReg \notin hidden
Meets(r, s, hidden) ==
  /\ r \in RegisterFile /\ s \in RegisterFile
  /\ r[LoadReg] \in hidden \cup {0} /\ s[LoadReg] \in hidden \cup {0}
  /\ \A x \in Register \ hidden : s[x] = r[x]
  /\ Finished(s) = Finished(r)
Alike(n, m, g, hidden) ==
  /\ m \in Machine(n) /\ g \in Machine(n)
  /\ g = [m EXCEPT !.registers = g.registers]
  /\ Meets(m.registers, g.registers, hidden)

LEMMA SpecialRegisters ==
  /\ {0, HiReg, LoReg, PCReg, NextPCReg, PrevPCReg, BadVAddrReg} \subseteq Register \ {LoadReg, LoadValueReg}
  /\ LoadReg \in Register /\ LoadValueReg \in Register /\ LoadReg # LoadValueReg
  /\ GPReg \subseteq Register \ {LoadReg, LoadValueReg} /\ 0 \in GPReg
BY RegisterNames DEF HiReg, LoReg, PCReg, NextPCReg, PrevPCReg, BadVAddrReg, LoadReg, LoadValueReg

(* What DelayedLoad leaves in each register.                               *)
LEMMA DelayedLoadAt ==
  ASSUME NEW r \in RegisterFile, NEW k, NEW w
  PROVE  /\ DOMAIN DelayedLoad(r, k, w) = Register
         /\ DelayedLoad(r, k, w) = [x \in Register |-> DelayedLoad(r, k, w)[x]]
         /\ \A x \in Register : DelayedLoad(r, k, w)[x] =
              IF x = 0 THEN 0 ELSE IF x = LoadValueReg THEN w ELSE IF x = LoadReg THEN k
              ELSE IF x = r[LoadReg] THEN r[LoadValueReg] ELSE r[x]
<1>1. r = [x \in Register |-> r[x]]
  BY DEF RegisterFile
<1>2. 0 # LoadReg /\ 0 # LoadValueReg /\ LoadReg # LoadValueReg /\ 0 \in Register
      /\ LoadReg \in Register /\ LoadValueReg \in Register
  BY SpecialRegisters
<1>3. r[LoadReg] \in Register /\ r[LoadReg] # LoadReg /\ r[LoadReg] # LoadValueReg
  BY SpecialRegisters DEF RegisterFile
<1> DEFINE l == r[LoadReg]
           v == r[LoadValueReg]
           a == [r EXCEPT ![l] = v]
           b == [a EXCEPT ![LoadReg] = k]
           c == [b EXCEPT ![LoadValueReg] = w]
           d == [c EXCEPT ![0] = 0]
<1>4. DelayedLoad(r, k, w) = d
  BY DEF DelayedLoad
<1>5. d = [x \in Register |-> IF x = 0 THEN 0 ELSE IF x = LoadValueReg THEN w
                              ELSE IF x = LoadReg THEN k ELSE IF x = l THEN v ELSE r[x]]
  <2> HIDE DEF l, v
  <2>1. a = [x \in Register |-> IF x = l THEN v ELSE r[x]]
    BY <1>1
  <2> HIDE DEF a
  <2>2. b = [x \in Register |-> IF x = LoadReg THEN k ELSE IF x = l THEN v ELSE r[x]]
    BY <2>1
  <2> HIDE DEF b
  <2>3. c = [x \in Register |-> IF x = LoadValueReg THEN w ELSE IF x = LoadReg THEN k
                                ELSE IF x = l THEN v ELSE r[x]]
    BY <2>2
  <2> HIDE DEF c
  <2> QED BY <2>3
<1> HIDE DEF d
<1>6. DelayedLoad(r, k, w) = [x \in Register |-> IF x = 0 THEN 0 ELSE IF x = LoadValueReg THEN w
                              ELSE IF x = LoadReg THEN k ELSE IF x = l THEN v ELSE r[x]]
  BY <1>4, <1>5
<1> HIDE DEF DelayedLoad
<1> QED BY <1>6

(* Whatever load comes next, the end of the pending one makes them equal.  *)
LEMMA NextLoadMeets ==
  ASSUME NEW r \in RegisterFile, NEW s \in RegisterFile, Finished(s) = Finished(r), NEW k, NEW w
  PROVE  DelayedLoad(s, k, w) = DelayedLoad(r, k, w)
<1>1. \A x \in Register : DelayedLoad(s, 0, 0)[x] = DelayedLoad(r, 0, 0)[x]
  BY DEF Finished
<1>2. \A x \in Register : DelayedLoad(s, k, w)[x] = DelayedLoad(r, k, w)[x]
  <2> TAKE x \in Register
  <2>1. /\ DelayedLoad(s, 0, 0)[x] = IF x = 0 THEN 0 ELSE IF x = LoadValueReg THEN 0 ELSE IF x = LoadReg THEN 0
                                     ELSE IF x = s[LoadReg] THEN s[LoadValueReg] ELSE s[x]
        /\ DelayedLoad(r, 0, 0)[x] = IF x = 0 THEN 0 ELSE IF x = LoadValueReg THEN 0 ELSE IF x = LoadReg THEN 0
                                     ELSE IF x = r[LoadReg] THEN r[LoadValueReg] ELSE r[x]
    BY DelayedLoadAt
  <2>2. /\ DelayedLoad(s, k, w)[x] = IF x = 0 THEN 0 ELSE IF x = LoadValueReg THEN w ELSE IF x = LoadReg THEN k
                                     ELSE IF x = s[LoadReg] THEN s[LoadValueReg] ELSE s[x]
        /\ DelayedLoad(r, k, w)[x] = IF x = 0 THEN 0 ELSE IF x = LoadValueReg THEN w ELSE IF x = LoadReg THEN k
                                     ELSE IF x = r[LoadReg] THEN r[LoadValueReg] ELSE r[x]
    BY DelayedLoadAt
  <2> HIDE DEF DelayedLoad
  <2> QED BY <1>1, <2>1, <2>2
<1>3. /\ DelayedLoad(s, k, w) = [x \in Register |-> DelayedLoad(s, k, w)[x]]
      /\ DelayedLoad(r, k, w) = [x \in Register |-> DelayedLoad(r, k, w)[x]]
  BY DelayedLoadAt
<1> DEFINE f == DelayedLoad(s, k, w)
           g == DelayedLoad(r, k, w)
<1>4. f = [x \in Register |-> f[x]] /\ g = [x \in Register |-> g[x]] /\ \A x \in Register : f[x] = g[x]
  BY <1>2, <1>3
<1> HIDE DEF f, g
<1>5. f = g
  BY <1>4
<1> QED BY <1>5 DEF f, g

(* A register that both have is set to the same value.                     *)
LEMMA MeetSet ==
  ASSUME NEW r, NEW s, NEW hidden, Names(hidden), Meets(r, s, hidden),
         NEW x \in Register \ hidden, NEW v \in WordSet
  PROVE  Meets([r EXCEPT ![x] = v], [s EXCEPT ![x] = v], hidden)
<1> DEFINE a == [r EXCEPT ![x] = v]
           b == [s EXCEPT ![x] = v]
<1>1. r \in RegisterFile /\ s \in RegisterFile /\ x # LoadReg /\ x # LoadValueReg /\ x \in Register
      /\ LoadReg \in Register /\ LoadValueReg \in Register
  BY DEF Meets, Names
<1>2. a \in RegisterFile /\ b \in RegisterFile
  BY <1>1, RegisterSet
<1>3. \A y \in Register : a[y] = (IF y = x THEN v ELSE r[y]) /\ b[y] = (IF y = x THEN v ELSE s[y])
  BY <1>1 DEF RegisterFile
<1> HIDE DEF a, b
<1>4. a[LoadReg] = r[LoadReg] /\ b[LoadReg] = s[LoadReg]
      /\ a[LoadValueReg] = r[LoadValueReg] /\ b[LoadValueReg] = s[LoadValueReg]
  BY <1>1, <1>3
<1>5. \A y \in Register \ hidden : b[y] = a[y]
  BY <1>3 DEF Meets
<1>6. \A y \in Register : Finished(b)[y] = Finished(a)[y]
  <2> TAKE y \in Register
  <2>1. /\ Finished(s)[y] = IF y = 0 THEN 0 ELSE IF y = LoadValueReg THEN 0 ELSE IF y = LoadReg THEN 0
                            ELSE IF y = s[LoadReg] THEN s[LoadValueReg] ELSE s[y]
        /\ Finished(r)[y] = IF y = 0 THEN 0 ELSE IF y = LoadValueReg THEN 0 ELSE IF y = LoadReg THEN 0
                            ELSE IF y = r[LoadReg] THEN r[LoadValueReg] ELSE r[y]
    BY <1>1, DelayedLoadAt DEF Finished
  <2>2. /\ Finished(b)[y] = IF y = 0 THEN 0 ELSE IF y = LoadValueReg THEN 0 ELSE IF y = LoadReg THEN 0
                            ELSE IF y = b[LoadReg] THEN b[LoadValueReg] ELSE b[y]
        /\ Finished(a)[y] = IF y = 0 THEN 0 ELSE IF y = LoadValueReg THEN 0 ELSE IF y = LoadReg THEN 0
                            ELSE IF y = a[LoadReg] THEN a[LoadValueReg] ELSE a[y]
    BY <1>2, DelayedLoadAt DEF Finished
  <2>3. Finished(s)[y] = Finished(r)[y]
    BY DEF Meets
  <2>4. x # 0 => x # r[LoadReg] /\ x # s[LoadReg]
    BY DEF Meets
  <2>5. CASE y = x
    <3>1. a[y] = v /\ b[y] = v
      BY <1>3, <2>5
    <3> QED BY <1>1, <1>4, <2>2, <2>4, <2>5, <3>1
  <2>6. CASE y # x
    <3>1. a[y] = r[y] /\ b[y] = s[y]
      BY <1>3, <2>6
    <3>2. Finished(b)[y] = Finished(s)[y] /\ Finished(a)[y] = Finished(r)[y]
      BY <1>4, <2>1, <2>2, <3>1
    <3> QED BY <2>3, <3>2
  <2> QED BY <2>5, <2>6
<1>7. Finished(b) = Finished(a)
  <2>1. /\ Finished(b) = [y \in Register |-> Finished(b)[y]]
        /\ Finished(a) = [y \in Register |-> Finished(a)[y]]
    BY <1>2, DelayedLoadAt DEF Finished
  <2> DEFINE p == Finished(b)
             q == Finished(a)
  <2>2. p = [y \in Register |-> p[y]] /\ q = [y \in Register |-> q[y]] /\ \A y \in Register : p[y] = q[y]
    BY <1>6, <2>1
  <2> HIDE DEF p, q
  <2>3. p = q
    BY <2>2
  <2> QED BY <2>3 DEF p, q
<1>8. a[LoadReg] \in hidden \cup {0} /\ b[LoadReg] \in hidden \cup {0}
  BY <1>4 DEF Meets
<1> QED BY <1>2, <1>5, <1>7, <1>8 DEF a, b, Meets

(* A machine and the same one with its pending load finished.              *)
Hidden(r) == {LoadReg, LoadValueReg} \cup ({r[LoadReg]} \ {0})

LEMMA SettledMeets ==
  ASSUME NEW r \in RegisterFile, r[0] = 0
  PROVE  Names(Hidden(r)) /\ Meets(r, Finished(r), Hidden(r))
<1> DEFINE s == Finished(r)
<1>1. s \in RegisterFile
  BY DelayedLoadExact, RegisterNames, ZeroIsWord DEF Finished
<1>2. r[LoadReg] \in GPReg
  BY DEF RegisterFile
<1>3. Names(Hidden(r))
  <2>1. {HiReg, LoReg, PCReg, NextPCReg, PrevPCReg, BadVAddrReg} \cap GPReg = {}
    BY RegisterNames
  <2> QED BY <1>2, <2>1, SpecialRegisters DEF Names, Hidden
<1>4. \A x \in Register : s[x] =
         IF x = 0 THEN 0 ELSE IF x = LoadValueReg THEN 0 ELSE IF x = LoadReg THEN 0
         ELSE IF x = r[LoadReg] THEN r[LoadValueReg] ELSE r[x]
  BY DelayedLoadAt DEF Finished
<1> HIDE DEF s
<1>5. s[LoadReg] = 0 /\ s[LoadValueReg] = 0 /\ s[0] = 0
  BY <1>4, SpecialRegisters
<1>6. \A x \in Register \ Hidden(r) : s[x] = r[x]
  BY <1>4 DEF Hidden
<1>7. r[LoadReg] \in Hidden(r) \cup {0} /\ s[LoadReg] \in Hidden(r) \cup {0}
  BY <1>5 DEF Hidden
<1>8. Finished(s) = Finished(r)
  <2>1. /\ Finished(s) = [x \in Register |-> Finished(s)[x]]
        /\ s = [x \in Register |-> s[x]]
    BY <1>1, DelayedLoadAt DEF Finished, RegisterFile
  <2>2. \A x \in Register : Finished(s)[x] =
         IF x = 0 THEN 0 ELSE IF x = LoadValueReg THEN 0 ELSE IF x = LoadReg THEN 0
         ELSE IF x = s[LoadReg] THEN s[LoadValueReg] ELSE s[x]
    BY <1>1, DelayedLoadAt DEF Finished
  <2>3. \A x \in Register : Finished(s)[x] = s[x]
    BY <1>5, <2>2
  <2>4. Finished(s) = s
    BY <2>1, <2>3
  <2> QED BY <2>4 DEF s
<1> QED BY <1>1, <1>3, <1>6, <1>7, <1>8 DEF Meets, s

(* Machines that are Alike translate, fault, read and write alike.         *)
LEMMA AlikeSettled ==
  ASSUME NEW n, NEW m \in Machine(n), m.registers[0] = 0
  PROVE  Names(Hidden(m.registers)) /\ Alike(n, m, Settled(m), Hidden(m.registers))
<1> DEFINE r == m.registers
           s == Finished(r)
<1>1. r \in RegisterFile
  BY DEF Machine
<1>2. Settled(m) = [m EXCEPT !.registers = s]
  BY DEF Settled, Finished
<1> HIDE DEF r
<1>3. r[0] = 0
  BY DEF r
<1>4. Names(Hidden(r)) /\ Meets(r, s, Hidden(r))
  BY <1>1, <1>3, SettledMeets
<1> HIDE DEF s
<1>5. s \in RegisterFile
  BY <1>4 DEF Meets
<1>6. Settled(m) \in Machine(n) /\ Settled(m).registers = s
  BY <1>2, <1>5 DEF Machine
<1> HIDE DEF Settled
<1> QED BY <1>2, <1>4, <1>6 DEF Alike, r

LEMMA AlikeParts ==
  ASSUME NEW n, NEW m, NEW g, NEW hidden, Names(hidden), Alike(n, m, g, hidden)
  PROVE  /\ m \in Machine(n) /\ g \in Machine(n)
         /\ m.table = g.table /\ m.tlb = g.tlb /\ m.mainMemory = g.mainMemory /\ m.trap = g.trap
         /\ \A x \in Register \ hidden : g.registers[x] = m.registers[x] /\ g.registers[x] \in WordSet
         /\ m.registers \in RegisterFile /\ g.registers \in RegisterFile
         /\ Meets(m.registers, g.registers, hidden)
<1>1. m \in Machine(n) /\ g \in Machine(n) /\ g = [m EXCEPT !.registers = g.registers]
      /\ Meets(m.registers, g.registers, hidden)
  BY DEF Alike
<1> DEFINE s == g.registers
<1>2. g = [m EXCEPT !.registers = s]
  BY <1>1
<1> HIDE DEF s
<1>3. m.table = g.table /\ m.tlb = g.tlb /\ m.mainMemory = g.mainMemory /\ m.trap = g.trap
  BY <1>1, <1>2 DEF Machine
<1>4. m.registers \in RegisterFile /\ g.registers \in RegisterFile
      /\ \A x \in Register \ hidden : g.registers[x] = m.registers[x]
  BY <1>1 DEF Meets
<1>5. \A x \in Register \ hidden : x \in Register /\ x # LoadReg
  BY DEF Names
<1>6. \A x \in Register \ hidden : g.registers[x] \in WordSet
  BY <1>4, <1>5, RegisterWord
<1> QED BY <1>1, <1>3, <1>4, <1>6

(* A machine is its registers, memory, tlb flag, table and trap.           *)
LEMMA Assembled ==
  ASSUME NEW n, NEW m \in Machine(n), NEW g \in Machine(n),
         m.table = g.table, m.tlb = g.tlb, m.mainMemory = g.mainMemory, m.trap = g.trap
  PROVE  g = [m EXCEPT !.registers = g.registers]
BY DEF Machine

LEMMA AlikeIf ==
  ASSUME NEW n, NEW m \in Machine(n), NEW g \in Machine(n), NEW hidden,
         m.table = g.table, m.tlb = g.tlb, m.mainMemory = g.mainMemory, m.trap = g.trap,
         Meets(m.registers, g.registers, hidden)
  PROVE  Alike(n, m, g, hidden)
BY Assembled DEF Alike

LEMMA AlikeSet ==
  ASSUME NEW n, NEW m, NEW g, NEW hidden, Names(hidden), Alike(n, m, g, hidden),
         NEW x \in Register \ hidden, NEW v \in WordSet
  PROVE  Alike(n, [m EXCEPT !.registers[x] = v], [g EXCEPT !.registers[x] = v], hidden)
<1> DEFINE r == [m.registers EXCEPT ![x] = v]
           s == [g.registers EXCEPT ![x] = v]
           p == [m EXCEPT !.registers = r]
           q == [g EXCEPT !.registers = s]
<1>1. /\ m \in Machine(n) /\ g \in Machine(n)
      /\ m.table = g.table /\ m.tlb = g.tlb /\ m.mainMemory = g.mainMemory /\ m.trap = g.trap
      /\ Meets(m.registers, g.registers, hidden)
  BY AlikeParts
<1>2. Meets(r, s, hidden)
  BY <1>1, MeetSet
<1>3. [m EXCEPT !.registers[x] = v] = p /\ [g EXCEPT !.registers[x] = v] = q
  BY <1>1 DEF Machine
<1> HIDE DEF r, s
<1>4. r \in RegisterFile /\ s \in RegisterFile
  BY <1>2 DEF Meets
<1>5. /\ p \in Machine(n) /\ q \in Machine(n) /\ p.registers = r /\ q.registers = s
      /\ p.table = q.table /\ p.tlb = q.tlb /\ p.mainMemory = q.mainMemory /\ p.trap = q.trap
  BY <1>1, <1>4 DEF Machine
<1> HIDE DEF p, q
<1>6. Alike(n, p, q, hidden)
  BY <1>2, <1>5, AlikeIf
<1> QED BY <1>3, <1>6

LEMMA AlikeTable ==
  ASSUME NEW n, NEW m, NEW g, NEW hidden, Names(hidden), Alike(n, m, g, hidden),
         NEW t \in [0 .. n - 1 -> TranslationEntry]
  PROVE  Alike(n, [m EXCEPT !.table = t], [g EXCEPT !.table = t], hidden)
<1> DEFINE p == [m EXCEPT !.table = t]
           q == [g EXCEPT !.table = t]
<1>1. /\ m \in Machine(n) /\ g \in Machine(n)
      /\ m.table = g.table /\ m.tlb = g.tlb /\ m.mainMemory = g.mainMemory /\ m.trap = g.trap
      /\ Meets(m.registers, g.registers, hidden)
  BY AlikeParts
<1>2. /\ p \in Machine(n) /\ q \in Machine(n) /\ p.registers = m.registers /\ q.registers = g.registers
      /\ p.table = q.table /\ p.tlb = q.tlb /\ p.mainMemory = q.mainMemory /\ p.trap = q.trap
  BY <1>1 DEF Machine
<1> HIDE DEF p, q
<1>3. Alike(n, p, q, hidden)
  BY <1>1, <1>2, AlikeIf
<1> QED BY <1>3 DEF p, q

LEMMA AlikeComplete ==
  ASSUME NEW n, NEW m, NEW g, NEW hidden, Names(hidden), Alike(n, m, g, hidden), NEW k, NEW w, NEW c
  PROVE  Complete(m, k, w, c) = Complete(g, k, w, c)
<1> DEFINE r == DelayedLoad(m.registers, k, w)
           s == DelayedLoad(g.registers, k, w)
           after == [r EXCEPT ![PrevPCReg] = r[PCReg], ![PCReg] = r[NextPCReg], ![NextPCReg] = c]
<1>1. /\ m \in Machine(n) /\ g \in Machine(n) /\ Meets(m.registers, g.registers, hidden)
      /\ m.table = g.table /\ m.tlb = g.tlb /\ m.mainMemory = g.mainMemory /\ m.trap = g.trap
  BY AlikeParts
<1>2. s = r
  BY <1>1, NextLoadMeets DEF Meets
<1>3. /\ Complete(m, k, w, c) = [m EXCEPT !.registers = after]
      /\ Complete(g, k, w, c) = [g EXCEPT !.registers = after]
  BY <1>2 DEF Complete
<1> HIDE DEF after, Complete
<1>4. [m EXCEPT !.registers = after] = [g EXCEPT !.registers = after]
  BY <1>1 DEF Machine
<1> QED BY <1>3, <1>4

LEMMA AlikeRaise ==
  ASSUME NEW n, NEW m, NEW g, NEW hidden, Names(hidden), Alike(n, m, g, hidden),
         NEW which, NEW addr \in WordSet
  PROVE  RaiseException(m, which, addr) = RaiseException(g, which, addr)
<1> DEFINE r == [m.registers EXCEPT ![BadVAddrReg] = addr]
           s == [g.registers EXCEPT ![BadVAddrReg] = addr]
           p == Finished(r)
           q == Finished(s)
<1>1. /\ m \in Machine(n) /\ g \in Machine(n) /\ Meets(m.registers, g.registers, hidden)
      /\ m.table = g.table /\ m.tlb = g.tlb /\ m.mainMemory = g.mainMemory /\ m.trap = g.trap
  BY AlikeParts
<1>2. BadVAddrReg \in Register \ hidden
  BY SpecialRegisters DEF Names
<1>3. Meets(r, s, hidden)
  BY <1>1, <1>2, MeetSet
<1>4. /\ RaiseException(m, which, addr) = [m EXCEPT !.registers = p, !.trap = which]
      /\ RaiseException(g, which, addr) = [g EXCEPT !.registers = q, !.trap = which]
  BY <1>1 DEF RaiseException, Machine, Finished
<1> HIDE DEF r, s
<1>5. p = q
  BY <1>3 DEF Meets
<1> HIDE DEF p, q, RaiseException
<1>6. [m EXCEPT !.registers = p, !.trap = which] = [g EXCEPT !.registers = p, !.trap = which]
  BY <1>1 DEF Machine
<1> QED BY <1>4, <1>5, <1>6

LEMMA AlikeFault ==
  ASSUME NEW n, NEW m, NEW g, NEW hidden, Names(hidden), Alike(n, m, g, hidden),
         NEW addr, NEW size, NEW writing
  PROVE  /\ EntryOf(m, addr) = EntryOf(g, addr)
         /\ Fault(m, addr, size, writing) = Fault(g, addr, size, writing)
<1>1. m.table = g.table /\ m.tlb = g.tlb
  BY AlikeParts
<1>2. \A page : Entries(m, page) = Entries(g, page)
  BY <1>1 DEF Entries
<1>3. EntryOf(m, addr) = EntryOf(g, addr)
  BY <1>2 DEF EntryOf
<1>4. Fault(m, addr, size, writing) = Fault(g, addr, size, writing)
  <2> DEFINE page == Unsigned(addr) \div PageSize
             found == Entries(m, page)
             other == Entries(g, page)
             e == CHOOSE c \in found : TRUE
             d == CHOOSE c \in other : TRUE
  <2>1. /\ Fault(m, addr, size, writing) =
             IF Misaligned(addr, size) THEN "AddressError"
             ELSE IF found = {} THEN IF m.tlb THEN "PageFault" ELSE "AddressError"
             ELSE EntryFault(m.table[e], writing)
        /\ Fault(g, addr, size, writing) =
             IF Misaligned(addr, size) THEN "AddressError"
             ELSE IF other = {} THEN IF g.tlb THEN "PageFault" ELSE "AddressError"
             ELSE EntryFault(g.table[d], writing)
    BY DEF Fault
  <2>2. found = other
    BY <1>2
  <2>3. e = d
    BY <2>2
  <2> HIDE DEF found, other, e, d
  <2> QED BY <1>1, <2>1, <2>2, <2>3
<1> QED BY <1>3, <1>4

LEMMA AlikeTranslate ==
  ASSUME NEW n \in Nat, NEW m, NEW g, NEW hidden, Names(hidden), Alike(n, m, g, hidden),
         NEW addr \in WordSet, NEW size, NEW writing \in BOOLEAN
  PROVE  LET a == Translate(m, addr, size, writing)
             b == Translate(g, addr, size, writing)
         IN  /\ a.physAddr = b.physAddr
             /\ Fault(m, addr, size, writing) # "None" =>
                  a.m = b.m /\ a.m = RaiseException(m, Fault(m, addr, size, writing), addr)
             /\ Fault(m, addr, size, writing) = "None" => Alike(n, a.m, b.m, hidden)
<1> DEFINE fault == Fault(m, addr, size, writing)
           e == EntryOf(m, addr)
           a == Translate(m, addr, size, writing)
           b == Translate(g, addr, size, writing)
           t == Marked(m.table, e, writing)
<1>1. m \in Machine(n) /\ m.table = g.table
  BY AlikeParts
<1>2. /\ a = Translated(m, addr, writing, e, fault)
      /\ b = Translated(g, addr, writing, e, fault)
  <2>1. /\ a = Translated(m, addr, writing, EntryOf(m, addr), Fault(m, addr, size, writing))
        /\ b = Translated(g, addr, writing, EntryOf(g, addr), Fault(g, addr, size, writing))
    BY DEF Translate, EntryOf
  <2>2. EntryOf(m, addr) = EntryOf(g, addr) /\ Fault(m, addr, size, writing) = Fault(g, addr, size, writing)
    BY AlikeFault
  <2> QED BY <2>1, <2>2
<1>3. fault = "None" => e \in DOMAIN m.table
  BY <1>1, FaultExact
<1>4. CASE fault # "None"
  <2>1. /\ a = [m |-> RaiseException(m, fault, addr), physAddr |-> 0]
        /\ b = [m |-> RaiseException(g, fault, addr), physAddr |-> 0]
    BY <1>2, <1>4 DEF Translated
  <2>2. RaiseException(m, fault, addr) = RaiseException(g, fault, addr)
    BY AlikeRaise
  <2> QED BY <1>4, <2>1, <2>2
<1>5. CASE fault = "None"
  <2> HIDE DEF fault, e
  <2>1. t \in [0 .. n - 1 -> TranslationEntry]
    BY <1>1, <1>3, <1>5, MarkedExact
  <2>2. /\ a.m = [m EXCEPT !.table = t] /\ b.m = [g EXCEPT !.table = t]
        /\ a.physAddr = b.physAddr
    BY <1>1, <1>2, <1>5 DEF Translated
  <2>3. Alike(n, [m EXCEPT !.table = t], [g EXCEPT !.table = t], hidden)
    BY <2>1, AlikeTable
  <2> QED BY <1>5, <2>2, <2>3 DEF fault
<1> QED BY <1>4, <1>5

ReadsAlike(n, a, b, hidden) ==
  /\ a.m.trap = b.m.trap
  /\ a.m.trap # "None" => a.m = b.m
  /\ a.m.trap = "None" => Alike(n, a.m, b.m, hidden) /\ a.value = b.value /\ a.value \in Int

LEMMA AlikeRead ==
  ASSUME NEW n \in Nat, NEW m, NEW g, NEW hidden, Names(hidden), Alike(n, m, g, hidden),
         m.trap = "None", NEW addr \in WordSet, NEW size \in {1, 2, 4}
  PROVE  ReadsAlike(n, ReadMem(m, addr, size), ReadMem(g, addr, size), hidden)
<1> DEFINE w == FALSE
           a == Translate(m, addr, size, w)
           b == Translate(g, addr, size, w)
           p == ReadMem(m, addr, size)
           q == ReadMem(g, addr, size)
           fault == Fault(m, addr, size, w)
<1>0. w \in BOOLEAN
  OBVIOUS
<1>1. p = ReadAt(a, size) /\ q = ReadAt(b, size)
  BY DEF ReadMem
<1>2. m \in Machine(n)
  BY AlikeParts
<1>3. ReadsThrough(n, m, addr, size, p)
  BY <1>2, ReadExact
<1> HIDE DEF p, q
<1>4. p.m.trap = fault /\ (p.m.trap = "None" => p.value \in Int)
  BY <1>3 DEF ReadsThrough
<1> HIDE DEF w
<1>5. /\ a.physAddr = b.physAddr /\ (fault # "None" => a.m = b.m)
      /\ (fault = "None" => Alike(n, a.m, b.m, hidden))
  BY <1>0, AlikeTranslate
<1> HIDE DEF a, b, fault
<1>6. p.m = a.m /\ q.m = b.m
      /\ p.value = Extended(BytesAt(a.m.mainMemory, a.physAddr, size), size)
      /\ q.value = Extended(BytesAt(b.m.mainMemory, b.physAddr, size), size)
  BY <1>1 DEF ReadAt
<1>7. CASE fault # "None"
  BY <1>4, <1>5, <1>6, <1>7 DEF ReadsAlike, p, q
<1>8. CASE fault = "None"
  <2>1. a.m.trap = b.m.trap /\ a.m.mainMemory = b.m.mainMemory
    BY <1>5, <1>8, AlikeParts
  <2>2. p.value = q.value
    BY <1>5, <1>6, <2>1
  <2> QED BY <1>4, <1>5, <1>6, <1>8, <2>1, <2>2 DEF ReadsAlike, p, q
<1> QED BY <1>7, <1>8

WritesAlike(n, x, y, hidden) ==
  /\ x.trap = y.trap
  /\ x.trap # "None" => x = y
  /\ x.trap = "None" => Alike(n, x, y, hidden)

LEMMA AlikeWrite ==
  ASSUME NEW n \in Nat, NEW m, NEW g, NEW hidden, Names(hidden), Alike(n, m, g, hidden),
         m.trap = "None", NEW addr \in WordSet, NEW size \in {1, 2, 4}, NEW value \in Int
  PROVE  WritesAlike(n, WriteMem(m, addr, size, value), WriteMem(g, addr, size, value), hidden)
<1> DEFINE w == TRUE
           a == Translate(m, addr, size, w)
           b == Translate(g, addr, size, w)
           x == WriteMem(m, addr, size, value)
           y == WriteMem(g, addr, size, value)
           fault == Fault(m, addr, size, w)
           bytes(t) == [c \in DOMAIN t.m.mainMemory |-> IF c \in t.physAddr .. t.physAddr + size - 1
                              THEN (value \div 2^(ByteBits * (c - t.physAddr))) % 2^ByteBits
                              ELSE t.m.mainMemory[c]]
<1>0. w \in BOOLEAN
  OBVIOUS
<1>1. /\ x = IF a.m.trap # "None" THEN a.m ELSE [a.m EXCEPT !.mainMemory = bytes(a)]
      /\ y = IF b.m.trap # "None" THEN b.m ELSE [b.m EXCEPT !.mainMemory = bytes(b)]
  BY DEF WriteMem, WriteAt
<1>2. m \in Machine(n) /\ g \in Machine(n) /\ g.trap = "None"
  BY AlikeParts
<1>3. WritesThrough(n, m, addr, size, x) /\ WritesThrough(n, g, addr, size, y)
  BY <1>2, WriteExact
<1> HIDE DEF x, y
<1>4. x.trap = fault /\ x \in Machine(n) /\ y \in Machine(n)
  BY <1>3 DEF WritesThrough
<1> HIDE DEF w
<1>5. /\ a.physAddr = b.physAddr
      /\ (fault # "None" => a.m = b.m /\ a.m = RaiseException(m, fault, addr))
      /\ (fault = "None" => Alike(n, a.m, b.m, hidden))
  BY <1>0, AlikeTranslate
<1>6. fault \in ExceptionType
  BY <1>0, <1>2, FaultExact
<1> HIDE DEF a, b, fault
<1>7. CASE fault # "None"
  <2>1. a.m.trap = fault
    BY <1>2, <1>5, <1>6, <1>7, RaiseExact
  <2> HIDE DEF bytes
  <2>2. x = a.m /\ y = b.m
    BY <1>1, <1>5, <1>7, <2>1
  <2> QED BY <1>5, <1>7, <2>1, <2>2 DEF WritesAlike, x, y
<1>8. CASE fault = "None"
  <2>1. /\ a.m \in Machine(n) /\ b.m \in Machine(n)
        /\ a.m.table = b.m.table /\ a.m.tlb = b.m.tlb /\ a.m.mainMemory = b.m.mainMemory
        /\ a.m.trap = b.m.trap /\ Meets(a.m.registers, b.m.registers, hidden)
    BY <1>5, <1>8, AlikeParts
  <2>2. bytes(a) = bytes(b)
    BY <1>5, <2>1
  <2> DEFINE memory == bytes(a)
  <2>3. /\ x = IF a.m.trap # "None" THEN a.m ELSE [a.m EXCEPT !.mainMemory = memory]
        /\ y = IF a.m.trap # "None" THEN b.m ELSE [b.m EXCEPT !.mainMemory = memory]
    BY <1>1, <2>1, <2>2
  <2> HIDE DEF memory, bytes
  <2>4. a.m.trap = "None"
    <3>1. CASE a.m.trap # "None"
      BY <1>4, <1>8, <2>3, <3>1
    <3> QED BY <3>1
  <2>5. x = [a.m EXCEPT !.mainMemory = memory] /\ y = [b.m EXCEPT !.mainMemory = memory]
    BY <2>3, <2>4
  <2>6. /\ x.table = y.table /\ x.tlb = y.tlb /\ x.mainMemory = y.mainMemory /\ x.trap = y.trap
        /\ x.registers = a.m.registers /\ y.registers = b.m.registers
    BY <2>1, <2>5 DEF Machine
  <2>7. Alike(n, x, y, hidden)
    BY <1>4, <2>1, <2>6, AlikeIf
  <2> QED BY <1>4, <1>8, <2>6, <2>7 DEF WritesAlike, x, y
<1> QED BY <1>7, <1>8

(* The instruction keeps off the hidden registers.                         *)
Free(i, hidden) ==
  /\ {i.rs, i.rd, 31} \subseteq Register \ hidden
  /\ i.op \notin {"LWL", "LWR"} => i.rt \in Register \ hidden

LEMMA FreeOfHidden ==
  ASSUME NEW r \in RegisterFile, NEW i \in Instruction, KeepsOff(i, r[LoadReg])
  PROVE  Free(i, Hidden(r))
<1>1. {i.rs, i.rt, i.rd, 31} \subseteq Register \ {LoadReg, LoadValueReg}
  BY InstructionFields, RegisterNames, SpecialRegisters
<1>2. r[LoadReg] # 0 => /\ i.rs # r[LoadReg] /\ i.rd # r[LoadReg] /\ 31 # r[LoadReg]
                        /\ i.op \notin {"LWL", "LWR"} => i.rt # r[LoadReg]
  <2>1. CASE i.op \in {"LWL", "LWR"}
    BY <2>1 DEF KeepsOff
  <2>2. CASE i.op \notin {"LWL", "LWR"}
    BY <2>2 DEF KeepsOff
  <2> QED BY <2>1, <2>2
<1> QED BY <1>1, <1>2 DEF Free, Hidden

(* The registers an instruction reads are the same in both, and so is the  *)
(* counter that follows.                                                   *)
LEMMA SameOperands ==
  ASSUME NEW n, NEW m, NEW g, NEW hidden, Names(hidden), Alike(n, m, g, hidden)
  PROVE  /\ \A x \in Register \ hidden : g.registers[x] = m.registers[x] /\ m.registers[x] \in WordSet
         /\ Sequential(g) = Sequential(m) /\ Sequential(m) \in WordSet
         /\ g.registers[HiReg] = m.registers[HiReg] /\ g.registers[LoReg] = m.registers[LoReg]
         /\ m.registers[HiReg] \in WordSet /\ m.registers[LoReg] \in WordSet
         /\ g.registers[PCReg] = m.registers[PCReg] /\ m.registers[PCReg] \in WordSet
         /\ g.registers[NextPCReg] = m.registers[NextPCReg] /\ m.registers[NextPCReg] \in WordSet
<1>1. \A x \in Register \ hidden : g.registers[x] = m.registers[x] /\ m.registers[x] \in WordSet
  BY AlikeParts
<1>2. {HiReg, LoReg, PCReg, NextPCReg} \subseteq Register \ hidden
  BY SpecialRegisters DEF Names
<1>3. Sequential(g) = Sequential(m)
  BY <1>1, <1>2 DEF Sequential
<1>4. Sequential(m) \in WordSet
  BY AlikeParts, SequentialExact
<1> QED BY <1>1, <1>2, <1>3, <1>4

LEMMA AlikeDone ==
  ASSUME NEW n, NEW m, NEW g, NEW hidden, Names(hidden), Alike(n, m, g, hidden)
  PROVE  Done(m) = Done(g)
BY AlikeComplete, SameOperands DEF Done

LEMMA SameResult ==
  ASSUME NEW i, NEW a, NEW b, NEW r, NEW s, r[HiReg] = s[HiReg], r[LoReg] = s[LoReg]
  PROVE  ResultOf(i, a, b, r) = ResultOf(i, a, b, s) /\ HiLo(i, a, b, r) = HiLo(i, a, b, s)
BY DEF ResultOf, HiLo

LEMMA ComputeAlike ==
  ASSUME NEW n, NEW m, NEW g, NEW hidden, Names(hidden), Alike(n, m, g, hidden),
         NEW i \in Instruction, i.op \in Immediates \cup Results, Free(i, hidden)
  PROVE  Compute(m, i) = Compute(g, i)
<1> DEFINE r == m.registers
           s == g.registers
           rd == IF i.op \in Immediates THEN i.rt ELSE i.rd
           a == r[i.rs]
           b == r[i.rt]
           v == Word(ResultOf(i, a, b, r))
           p == [m EXCEPT !.registers[rd] = v]
           q == [g EXCEPT !.registers[rd] = v]
<1>1. i.rs \in Register \ hidden /\ i.rt \in Register \ hidden /\ rd \in Register \ hidden
  <2>1. i.op \notin {"LWL", "LWR"}
    BY DEF Immediates, Results
  <2> QED BY <2>1 DEF Free
<1>2. s[i.rs] = a /\ s[i.rt] = b /\ a \in WordSet /\ b \in WordSet
      /\ s[HiReg] = r[HiReg] /\ s[LoReg] = r[LoReg] /\ r[HiReg] \in WordSet /\ r[LoReg] \in WordSet
  BY <1>1, SameOperands
<1>3. v \in WordSet
  BY <1>2, ResultExact
<1>4. ResultOf(i, a, b, s) = ResultOf(i, a, b, r)
  BY <1>2, SameResult
<1>5. /\ Compute(m, i) = IF Overflows(i, a, b) THEN RaiseException(m, "Overflow", 0) ELSE Done(p)
      /\ Compute(g, i) = IF Overflows(i, a, b) THEN RaiseException(g, "Overflow", 0) ELSE Done(q)
  BY <1>2, <1>4 DEF Compute
<1> HIDE DEF rd, v, a, b
<1>6. Alike(n, p, q, hidden)
  BY <1>1, <1>3, AlikeSet
<1> HIDE DEF p, q
<1>7. Done(p) = Done(q)
  BY <1>6, AlikeDone
<1>8. RaiseException(m, "Overflow", 0) = RaiseException(g, "Overflow", 0)
  BY AlikeRaise, ZeroIsWord
<1> QED BY <1>5, <1>7, <1>8

(* A simulator that is stopped shows no pending load.                      *)
LEMMA AlikeStopped ==
  ASSUME NEW n, NEW m, NEW g, NEW hidden, Names(hidden), Alike(n, m, g, hidden)
  PROVE  Visible([m EXCEPT !.trap = "SIGFPE"]) = Visible([g EXCEPT !.trap = "SIGFPE"])
<1> DEFINE x == [m EXCEPT !.trap = "SIGFPE"]
           y == [g EXCEPT !.trap = "SIGFPE"]
           r == Finished(m.registers)
           s == Finished(g.registers)
<1>1. /\ m \in Machine(n) /\ g \in Machine(n) /\ Meets(m.registers, g.registers, hidden)
      /\ m.table = g.table /\ m.tlb = g.tlb /\ m.mainMemory = g.mainMemory
  BY AlikeParts
<1>2. r = s
  BY <1>1 DEF Meets
<1>3. x.trap = "SIGFPE" /\ y.trap = "SIGFPE" /\ x.registers = m.registers /\ y.registers = g.registers
  BY <1>1 DEF Machine
<1>4. Settled(x) = [x EXCEPT !.registers = r] /\ Settled(y) = [y EXCEPT !.registers = s]
  BY <1>3 DEF Settled, Finished
<1>5. Visible(x) = Settled(x) /\ Visible(y) = Settled(y)
  <2> HIDE DEF x, y
  <2> QED BY <1>3 DEF Visible
<1> HIDE DEF r, s
<1>6. [x EXCEPT !.registers = r] = [y EXCEPT !.registers = r]
  BY <1>1 DEF Machine
<1> QED BY <1>2, <1>4, <1>5, <1>6

LEMMA ComputeHiLoAlike ==
  ASSUME NEW n, NEW m, NEW g, NEW hidden, Names(hidden), Alike(n, m, g, hidden),
         NEW i \in Instruction, i.op \in HiLoOps, Free(i, hidden)
  PROVE  Visible(ComputeHiLo(m, i)) = Visible(ComputeHiLo(g, i))
<1> DEFINE r == m.registers
           s == g.registers
           a == r[i.rs]
           b == r[i.rt]
           hiLo == HiLo(i, a, b, r)
           p == [m EXCEPT !.registers[HiReg] = hiLo[1]]
           q == [g EXCEPT !.registers[HiReg] = hiLo[1]]
           x == [p EXCEPT !.registers[LoReg] = hiLo[2]]
           y == [q EXCEPT !.registers[LoReg] = hiLo[2]]
           fails == i.op = "DIV" /\ b = -1 /\ a = -(2^(WordBits - 1))
<1>1. i.rs \in Register \ hidden /\ i.rt \in Register \ hidden
      /\ HiReg \in Register \ hidden /\ LoReg \in Register \ hidden
  <2>1. i.op \notin {"LWL", "LWR"}
    BY DEF HiLoOps
  <2> QED BY <2>1, SpecialRegisters DEF Free, Names
<1>2. s[i.rs] = a /\ s[i.rt] = b /\ a \in WordSet /\ b \in WordSet
      /\ s[HiReg] = r[HiReg] /\ s[LoReg] = r[LoReg] /\ r[HiReg] \in WordSet /\ r[LoReg] \in WordSet
  BY <1>1, SameOperands
<1>3. hiLo[1] \in WordSet /\ hiLo[2] \in WordSet
  BY <1>2, HiLoExact
<1>4. HiLo(i, a, b, s) = hiLo
  BY <1>2, SameResult
<1>5. /\ [m EXCEPT !.registers[HiReg] = hiLo[1], !.registers[LoReg] = hiLo[2]] = x
      /\ [g EXCEPT !.registers[HiReg] = hiLo[1], !.registers[LoReg] = hiLo[2]] = y
  BY AlikeParts DEF Machine
<1>6. /\ ComputeHiLo(m, i) = IF fails THEN [m EXCEPT !.trap = "SIGFPE"] ELSE Done(x)
      /\ ComputeHiLo(g, i) = IF fails THEN [g EXCEPT !.trap = "SIGFPE"] ELSE Done(y)
  BY <1>2, <1>4, <1>5 DEF ComputeHiLo
<1> HIDE DEF hiLo, a, b, fails
<1>7. Alike(n, p, q, hidden)
  BY <1>1, <1>3, AlikeSet
<1> HIDE DEF p, q
<1>8. Alike(n, x, y, hidden)
  BY <1>1, <1>3, <1>7, AlikeSet
<1> HIDE DEF x, y
<1>9. Done(x) = Done(y)
  BY <1>8, AlikeDone
<1>10. CASE fails
  BY <1>6, <1>10, AlikeStopped
<1>11. CASE ~fails
  BY <1>6, <1>9, <1>11
<1> QED BY <1>10, <1>11

LEMMA LinkedAlike ==
  ASSUME NEW n, NEW m, NEW g, NEW hidden, Names(hidden), Alike(n, m, g, hidden),
         NEW i \in Instruction, Free(i, hidden)
  PROVE  Alike(n, Linked(m, i), Linked(g, i), hidden)
<1> DEFINE link == IF i.op = "JALR" THEN i.rd ELSE 31
           v == Sequential(m)
<1>1. link \in Register \ hidden
  BY DEF Free
<1>2. Sequential(g) = v /\ v \in WordSet
  BY SameOperands
<1>3. CASE i.op \in {"BLTZAL", "BGEZAL", "JAL", "JALR"}
  <2>1. /\ Linked(m, i) = [m EXCEPT !.registers[link] = v]
        /\ Linked(g, i) = [g EXCEPT !.registers[link] = v]
    BY <1>2, <1>3 DEF Linked
  <2> HIDE DEF link, v
  <2> QED BY <1>1, <1>2, <2>1, AlikeSet
<1>4. CASE i.op \notin {"BLTZAL", "BGEZAL", "JAL", "JALR"}
  BY <1>4 DEF Linked
<1> QED BY <1>3, <1>4

LEMMA BranchAlike ==
  ASSUME NEW n, NEW m, NEW g, NEW hidden, Names(hidden), Alike(n, m, g, hidden),
         NEW i \in Instruction, i.op \in Branches, Free(i, hidden)
  PROVE  Branch(m, i) = Branch(g, i)
<1> DEFINE p == Linked(m, i)
           q == Linked(g, i)
           r == p.registers
           s == q.registers
           next == IF Taken(i, r[i.rs], r[i.rt]) THEN Word(r[NextPCReg] + 4 * i.extra)
                                                 ELSE Sequential(m)
<1>1. Alike(n, p, q, hidden)
  BY LinkedAlike
<1>2. i.rs \in Register \ hidden /\ i.rt \in Register \ hidden
  <2>1. i.op \notin {"LWL", "LWR"}
    BY DEF Branches
  <2> QED BY <2>1 DEF Free
<1>3. Sequential(g) = Sequential(m)
  BY SameOperands
<1>4. s[i.rs] = r[i.rs] /\ s[i.rt] = r[i.rt] /\ s[NextPCReg] = r[NextPCReg]
  <2> HIDE DEF p, q
  <2> QED BY <1>1, <1>2, SameOperands
<1>5. Branch(m, i) = Complete(p, 0, 0, next) /\ Branch(g, i) = Complete(q, 0, 0, next)
  BY <1>3, <1>4 DEF Branch
<1> HIDE DEF p, q, next
<1>6. Complete(p, 0, 0, next) = Complete(q, 0, 0, next)
  BY <1>1, AlikeComplete
<1> QED BY <1>5, <1>6

LEMMA JumpAlike ==
  ASSUME NEW n, NEW m, NEW g, NEW hidden, Names(hidden), Alike(n, m, g, hidden),
         NEW i \in Instruction, Free(i, hidden)
  PROVE  Jump(m, i) = Jump(g, i)
<1> DEFINE region == 2^(JumpBits + 2)
           p == Linked(m, i)
           q == Linked(g, i)
           next == IF i.op \in JFormat
                   THEN Word((Unsigned(Sequential(m)) \div region) * region + 4 * i.extra)
                   ELSE p.registers[i.rs]
<1>1. Alike(n, p, q, hidden)
  BY LinkedAlike
<1>2. Sequential(g) = Sequential(m)
  BY SameOperands
<1>3. q.registers[i.rs] = p.registers[i.rs]
  <2> HIDE DEF p, q
  <2> QED BY <1>1, SameOperands DEF Free
<1>4. Jump(m, i) = Complete(p, 0, 0, next) /\ Jump(g, i) = Complete(q, 0, 0, next)
  BY <1>2, <1>3 DEF Jump
<1> HIDE DEF p, q, next
<1>5. Complete(p, 0, 0, next) = Complete(q, 0, 0, next)
  BY <1>1, AlikeComplete
<1> QED BY <1>4, <1>5

LEMMA SameAddress ==
  ASSUME NEW n, NEW m, NEW g, NEW hidden, Names(hidden), Alike(n, m, g, hidden),
         NEW i \in Instruction, Free(i, hidden)
  PROVE  Address(g, i) = Address(m, i) /\ Address(m, i) \in WordSet
<1>1. g.registers[i.rs] = m.registers[i.rs]
  BY SameOperands DEF Free
<1>2. m \in Machine(n)
  BY AlikeParts
<1> QED BY <1>1, <1>2, AddressExact DEF Address

LEMMA LoadAlike ==
  ASSUME NEW n \in Nat, NEW m, NEW g, NEW hidden, Names(hidden), Alike(n, m, g, hidden),
         m.trap = "None", NEW i \in Instruction, i.op \in Loads, Free(i, hidden)
  PROVE  Load(m, i) = Load(g, i)
<1> DEFINE addr == Address(m, i)
           size == Size(i)
           a == ReadMem(m, addr, size)
           b == ReadMem(g, addr, size)
           v(read) == IF i.op \in {"LBU", "LHU"} THEN read.value % 2^(ByteBits * size)
                                                 ELSE SignExtend(read.value, ByteBits * size)
<1>1. Address(g, i) = addr /\ addr \in WordSet /\ size \in {1, 2, 4}
  BY SameAddress, SizeExact
<1>2. /\ Load(m, i) = IF a.m.trap # "None" THEN a.m ELSE Complete(a.m, i.rt, v(a), Sequential(a.m))
      /\ Load(g, i) = IF b.m.trap # "None" THEN b.m ELSE Complete(b.m, i.rt, v(b), Sequential(b.m))
  BY <1>1 DEF Load, LoadRead
<1> HIDE DEF addr, size
<1>3. ReadsAlike(n, a, b, hidden)
  BY <1>1, AlikeRead
<1> HIDE DEF a, b
<1>4. CASE a.m.trap # "None"
  BY <1>2, <1>3, <1>4 DEF ReadsAlike
<1>5. CASE a.m.trap = "None"
  <2>1. Alike(n, a.m, b.m, hidden) /\ a.value = b.value /\ b.m.trap = "None"
    BY <1>3, <1>5 DEF ReadsAlike
  <2>2. v(a) = v(b)
    BY <2>1
  <2>3. Sequential(b.m) = Sequential(a.m)
    BY <2>1, SameOperands
  <2> DEFINE w == v(a)
             c == Sequential(a.m)
  <2>4. Load(m, i) = Complete(a.m, i.rt, w, c) /\ Load(g, i) = Complete(b.m, i.rt, w, c)
    BY <1>2, <1>5, <2>1, <2>2, <2>3
  <2> HIDE DEF w, c
  <2>5. Complete(a.m, i.rt, w, c) = Complete(b.m, i.rt, w, c)
    BY <2>1, AlikeComplete
  <2> QED BY <2>4, <2>5
<1> QED BY <1>4, <1>5

(* What LWL and LWR merge with is what the register will hold once the     *)
(* pending load has taken effect.                                          *)
LEMMA ForwardedValue ==
  ASSUME NEW n, NEW m \in Machine(n), NEW i \in Instruction, i.rt # 0
  PROVE  Forwarded(m, i) = Finished(m.registers)[i.rt]
<1> DEFINE r == m.registers
<1>1. r \in RegisterFile
  BY DEF Machine
<1>2. i.rt \in Register /\ i.rt # LoadReg /\ i.rt # LoadValueReg
  BY InstructionFields, SpecialRegisters
<1> HIDE DEF r
<1>3. Finished(r)[i.rt] =
        IF i.rt = 0 THEN 0 ELSE IF i.rt = LoadValueReg THEN 0 ELSE IF i.rt = LoadReg THEN 0
        ELSE IF i.rt = r[LoadReg] THEN r[LoadValueReg] ELSE r[i.rt]
  BY <1>1, <1>2, DelayedLoadAt DEF Finished
<1>4. Forwarded(m, i) = IF r[LoadReg] = i.rt THEN r[LoadValueReg] ELSE r[i.rt]
  BY DEF Forwarded, r
<1> QED BY <1>2, <1>3, <1>4 DEF r

(* A load into register 0 cannot be seen.                                  *)
LEMMA LoadOfZero ==
  ASSUME NEW n, NEW m \in Machine(n), NEW v \in WordSet, NEW w \in WordSet, NEW c \in WordSet
  PROVE  Visible(Complete(m, 0, v, c)) = Visible(Complete(m, 0, w, c))
<1> DEFINE f(x) == DelayedLoad(m.registers, 0, x)
           after(x) == [f(x) EXCEPT ![PrevPCReg] = f(x)[PCReg], ![PCReg] = f(x)[NextPCReg],
                                    ![NextPCReg] = c]
           a(x) == [f(x) EXCEPT ![PrevPCReg] = f(x)[PCReg]]
           b(x) == [a(x) EXCEPT ![PCReg] = f(x)[NextPCReg]]
           done(x) == Complete(m, 0, x, c)
           shown(x) == Finished(after(x))
<1>1. m.registers \in RegisterFile
  BY DEF Machine
<1>2. ASSUME NEW x \in WordSet
      PROVE  /\ after(x) \in RegisterFile /\ after(x)[LoadReg] = 0
             /\ \A y \in Register \ {LoadValueReg} : after(x)[y] =
                  IF y = NextPCReg THEN c ELSE IF y = PCReg THEN f(0)[NextPCReg]
                  ELSE IF y = PrevPCReg THEN f(0)[PCReg] ELSE f(0)[y]
  <2>1. f(x) \in RegisterFile
    BY <1>1, DelayedLoadExact, RegisterNames
  <2>2. \A y \in Register : f(x)[y] =
          IF y = 0 THEN 0 ELSE IF y = LoadValueReg THEN x ELSE IF y = LoadReg THEN 0
          ELSE IF y = m.registers[LoadReg] THEN m.registers[LoadValueReg] ELSE m.registers[y]
    BY <1>1, DelayedLoadAt
  <2>3. \A y \in Register : f(0)[y] =
          IF y = 0 THEN 0 ELSE IF y = LoadValueReg THEN 0 ELSE IF y = LoadReg THEN 0
          ELSE IF y = m.registers[LoadReg] THEN m.registers[LoadValueReg] ELSE m.registers[y]
    BY <1>1, DelayedLoadAt
  <2> HIDE DEF f
  <2>4. \A y \in Register \ {LoadValueReg} : f(x)[y] = f(0)[y]
    BY <2>2, <2>3
  <2>5. f(x)[LoadReg] = 0
    BY <2>2, SpecialRegisters
  <2>6. /\ PrevPCReg \in Register \ {LoadReg, LoadValueReg} /\ PCReg \in Register \ {LoadReg, LoadValueReg}
        /\ NextPCReg \in Register \ {LoadReg, LoadValueReg} /\ LoadReg \in Register
    BY SpecialRegisters
  <2>7. f(x)[PCReg] \in WordSet /\ f(x)[NextPCReg] \in WordSet
    BY <2>1, <2>6, RegisterWord
  <2>8. a(x) \in RegisterFile
    BY <2>1, <2>6, <2>7, RegisterSet
  <2>9. \A y \in Register : a(x)[y] = IF y = PrevPCReg THEN f(x)[PCReg] ELSE f(x)[y]
    BY <2>1, <2>6 DEF RegisterFile
  <2> HIDE DEF a
  <2>10. b(x) \in RegisterFile
    BY <2>8, <2>6, <2>7, RegisterSet
  <2>11. \A y \in Register : b(x)[y] = IF y = PCReg THEN f(x)[NextPCReg] ELSE a(x)[y]
    BY <2>8, <2>6 DEF RegisterFile
  <2>12. after(x) = [b(x) EXCEPT ![NextPCReg] = c]
    BY DEF a
  <2> HIDE DEF b, after
  <2>13. after(x) \in RegisterFile
    BY <2>10, <2>12, <2>6, RegisterSet
  <2>14. \A y \in Register : after(x)[y] = IF y = NextPCReg THEN c ELSE b(x)[y]
    BY <2>10, <2>12, <2>6 DEF RegisterFile
  <2>15. LoadReg # PrevPCReg /\ LoadReg # PCReg /\ LoadReg # NextPCReg
    BY <2>6
  <2>16. after(x)[LoadReg] = 0
    BY <2>5, <2>6, <2>9, <2>11, <2>14, <2>15
  <2>17. \A y \in Register \ {LoadValueReg} : after(x)[y] =
                  IF y = NextPCReg THEN c ELSE IF y = PCReg THEN f(0)[NextPCReg]
                  ELSE IF y = PrevPCReg THEN f(0)[PCReg] ELSE f(0)[y]
    BY <2>4, <2>6, <2>9, <2>11, <2>14
  <2> QED BY <2>13, <2>16, <2>17 DEF after
<1>3. ASSUME NEW x \in WordSet
      PROVE  Visible(done(x)) = [m EXCEPT !.registers = shown(x)]
  <2> DEFINE r == after(x)
  <2>1. done(x) = [m EXCEPT !.registers = r]
    BY DEF Complete
  <2>2. r[LoadReg] = 0
    BY <1>2
  <2> HIDE DEF r, done
  <2>3. done(x).registers = r
    BY <2>1 DEF Machine
  <2>4. Settled(done(x)) = [done(x) EXCEPT !.registers = Finished(r)]
    BY <2>3 DEF Settled, Finished
  <2>5. Visible(done(x)) = Settled(done(x))
    BY <2>2, <2>3 DEF Visible
  <2>6. [done(x) EXCEPT !.registers = Finished(r)] = [m EXCEPT !.registers = Finished(r)]
    <3> HIDE DEF Finished
    <3> QED BY <2>1 DEF Machine
  <2> QED BY <2>4, <2>5, <2>6 DEF r
<1>4. shown(v) = shown(w)
  <2> DEFINE p == after(v)
             q == after(w)
  <2>1. /\ p \in RegisterFile /\ p[LoadReg] = 0 /\ q \in RegisterFile /\ q[LoadReg] = 0
        /\ \A y \in Register \ {LoadValueReg} : p[y] = q[y]
    BY <1>2
  <2> HIDE DEF p, q
  <2>2. /\ Finished(p) = [y \in Register |-> Finished(p)[y]]
        /\ Finished(q) = [y \in Register |-> Finished(q)[y]]
        /\ \A y \in Register : Finished(p)[y] =
             IF y = 0 THEN 0 ELSE IF y = LoadValueReg THEN 0 ELSE IF y = LoadReg THEN 0
             ELSE IF y = p[LoadReg] THEN p[LoadValueReg] ELSE p[y]
        /\ \A y \in Register : Finished(q)[y] =
             IF y = 0 THEN 0 ELSE IF y = LoadValueReg THEN 0 ELSE IF y = LoadReg THEN 0
             ELSE IF y = q[LoadReg] THEN q[LoadValueReg] ELSE q[y]
    BY <2>1, DelayedLoadAt DEF Finished
  <2>3. \A y \in Register : Finished(p)[y] = Finished(q)[y]
    BY <2>1, <2>2
  <2> HIDE DEF Finished
  <2> DEFINE left == Finished(p)
             right == Finished(q)
  <2>4. left = [y \in Register |-> left[y]] /\ right = [y \in Register |-> right[y]]
        /\ \A y \in Register : left[y] = right[y]
    BY <2>2, <2>3
  <2> HIDE DEF left, right
  <2>5. left = right
    BY <2>4
  <2> QED BY <2>5 DEF left, right, p, q
<1> HIDE DEF shown, done
<1>5. Visible(done(v)) = Visible(done(w))
  BY <1>3, <1>4
<1> QED BY <1>5 DEF done

LEMMA LoadHalfAlike ==
  ASSUME NEW n \in Nat, NEW m, NEW g, NEW hidden, Names(hidden), Alike(n, m, g, hidden),
         m.trap = "None", NEW i \in Instruction, i.op \in {"LWL", "LWR"}, Free(i, hidden)
  PROVE  Visible(LoadHalf(m, i)) = Visible(LoadHalf(g, i))
<1> DEFINE byte == Address(m, i) % 4
           addr == Address(m, i) - byte
           a == ReadMem(m, addr, 4)
           b == ReadMem(g, addr, 4)
           v == Half(i, Forwarded(a.m, i), a.value, byte)
           w == Half(i, Forwarded(b.m, i), b.value, byte)
<1>1. Address(g, i) = Address(m, i) /\ Address(m, i) \in WordSet
  BY SameAddress
<1>2. addr \in WordSet /\ byte \in 0 .. 3 /\ i.op \in Unaligned
  BY <1>1, AlignedExact DEF Unaligned
<1>3. /\ LoadHalf(m, i) = IF a.m.trap # "None" THEN a.m ELSE Complete(a.m, i.rt, v, Sequential(a.m))
      /\ LoadHalf(g, i) = IF b.m.trap # "None" THEN b.m ELSE Complete(b.m, i.rt, w, Sequential(b.m))
  BY <1>1 DEF LoadHalf, HalfRead
<1> HIDE DEF addr, byte
<1>4. ReadsAlike(n, a, b, hidden)
  BY <1>2, AlikeRead
<1> HIDE DEF a, b
<1>5. CASE a.m.trap # "None"
  BY <1>3, <1>4, <1>5 DEF ReadsAlike
<1>6. CASE a.m.trap = "None"
  <2>1. /\ Alike(n, a.m, b.m, hidden) /\ a.value = b.value /\ a.value \in Int /\ b.m.trap = "None"
        /\ a.m \in Machine(n) /\ b.m \in Machine(n)
        /\ Meets(a.m.registers, b.m.registers, hidden)
    BY <1>4, <1>6, AlikeParts DEF ReadsAlike
  <2> DEFINE c == Sequential(a.m)
  <2>2. Sequential(b.m) = c /\ c \in WordSet
    BY <2>1, SameOperands
  <2>3. v \in WordSet /\ w \in WordSet
    <3>1. Forwarded(a.m, i) \in Int /\ Forwarded(b.m, i) \in Int
      BY <2>1, RegisterWord, RegisterNames, InstructionFields
      DEF Machine, Forwarded, LoadReg, LoadValueReg
    <3> QED BY <1>2, <2>1, <3>1, HalfExact
  <2>4. i.rt # 0 => v = w
    <3>1. i.rt # 0 => Forwarded(a.m, i) = Forwarded(b.m, i)
      BY <2>1, ForwardedValue DEF Meets
    <3> QED BY <2>1, <3>1
  <2>5. LoadHalf(m, i) = Complete(a.m, i.rt, v, c) /\ LoadHalf(g, i) = Complete(b.m, i.rt, w, c)
    BY <1>3, <1>6, <2>1, <2>2
  <2> HIDE DEF v, w, c
  <2>6. Complete(a.m, i.rt, w, c) = Complete(b.m, i.rt, w, c)
    BY <2>1, AlikeComplete
  <2>7. CASE i.rt # 0
    BY <2>4, <2>5, <2>6, <2>7
  <2>8. CASE i.rt = 0
    <3>1. Visible(Complete(a.m, 0, v, c)) = Visible(Complete(a.m, 0, w, c))
      BY <2>1, <2>2, <2>3, LoadOfZero
    <3> QED BY <2>5, <2>6, <2>8, <3>1
  <2> QED BY <2>7, <2>8
<1> QED BY <1>5, <1>6

LEMMA WritesEqual ==
  ASSUME NEW n, NEW x, NEW y, NEW hidden, Names(hidden), WritesAlike(n, x, y, hidden)
  PROVE  Stored(x) = Stored(y)
<1>1. CASE x.trap # "None"
  BY <1>1 DEF WritesAlike
<1>2. CASE x.trap = "None"
  <2>1. Alike(n, x, y, hidden) /\ y.trap = "None"
    BY <1>2 DEF WritesAlike
  <2>2. Done(x) = Done(y)
    BY <2>1, AlikeDone
  <2> QED BY <1>2, <2>1, <2>2 DEF Stored
<1> QED BY <1>1, <1>2

LEMMA StoreAlike ==
  ASSUME NEW n \in Nat, NEW m, NEW g, NEW hidden, Names(hidden), Alike(n, m, g, hidden),
         m.trap = "None", NEW i \in Instruction, i.op \in Stores, Free(i, hidden)
  PROVE  Store(m, i) = Store(g, i)
<1> DEFINE addr == Address(m, i)
           size == Size(i)
           value == m.registers[i.rt]
<1>1. Address(g, i) = addr /\ addr \in WordSet /\ size \in {1, 2, 4}
  BY SameAddress, SizeExact
<1>2. i.rt \in Register \ hidden
  <2>1. i.op \notin {"LWL", "LWR"}
    BY DEF Stores
  <2> QED BY <2>1 DEF Free
<1>3. g.registers[i.rt] = value /\ value \in WordSet
  BY <1>2, SameOperands
<1>4. value \in Int
  BY <1>3, WordsAreInts
<1>5. /\ Store(m, i) = Stored(WriteMem(m, addr, size, value))
      /\ Store(g, i) = Stored(WriteMem(g, addr, size, value))
  BY <1>1, <1>3 DEF Store
<1> HIDE DEF addr, size, value
<1>6. WritesAlike(n, WriteMem(m, addr, size, value), WriteMem(g, addr, size, value), hidden)
  BY <1>1, <1>4, AlikeWrite
<1> QED BY <1>5, <1>6, WritesEqual

LEMMA StoreHalfAlike ==
  ASSUME NEW n \in Nat, NEW m, NEW g, NEW hidden, Names(hidden), Alike(n, m, g, hidden),
         m.trap = "None", NEW i \in Instruction, i.op \in {"SWL", "SWR"}, Free(i, hidden)
  PROVE  StoreHalf(m, i) = StoreHalf(g, i)
<1> DEFINE byte == Address(m, i) % 4
           addr == Address(m, i) - byte
           a == ReadMem(m, addr, 4)
           b == ReadMem(g, addr, 4)
           v == Half(i, a.value, a.m.registers[i.rt], byte)
           w == Half(i, b.value, b.m.registers[i.rt], byte)
<1>1. Address(g, i) = Address(m, i) /\ Address(m, i) \in WordSet
  BY SameAddress
<1>2. addr \in WordSet /\ byte \in 0 .. 3 /\ i.op \in Unaligned
  BY <1>1, AlignedExact DEF Unaligned
<1>3. /\ StoreHalf(m, i) = IF a.m.trap # "None" THEN a.m ELSE Stored(WriteMem(a.m, addr, 4, v))
      /\ StoreHalf(g, i) = IF b.m.trap # "None" THEN b.m ELSE Stored(WriteMem(b.m, addr, 4, w))
  BY <1>1 DEF StoreHalf, HalfWritten
<1> HIDE DEF addr, byte
<1>4. ReadsAlike(n, a, b, hidden)
  BY <1>2, AlikeRead
<1>5. i.rt \in Register \ hidden
  <2>1. i.op \notin {"LWL", "LWR"}
    OBVIOUS
  <2> QED BY <2>1 DEF Free
<1> HIDE DEF a, b
<1>6. CASE a.m.trap # "None"
  BY <1>3, <1>4, <1>6 DEF ReadsAlike
<1>7. CASE a.m.trap = "None"
  <2>1. Alike(n, a.m, b.m, hidden) /\ a.value = b.value /\ a.value \in Int /\ b.m.trap = "None"
    BY <1>4, <1>7 DEF ReadsAlike
  <2>2. b.m.registers[i.rt] = a.m.registers[i.rt] /\ a.m.registers[i.rt] \in WordSet
    BY <1>5, <2>1, SameOperands
  <2>3. v = w /\ v \in Int
    BY <1>2, <2>1, <2>2, HalfExact, WordsAreInts
  <2> HIDE DEF v, w
  <2>4. WritesAlike(n, WriteMem(a.m, addr, 4, v), WriteMem(b.m, addr, 4, v), hidden)
    BY <1>2, <1>7, <2>1, <2>3, AlikeWrite
  <2>5. Stored(WriteMem(a.m, addr, 4, v)) = Stored(WriteMem(b.m, addr, 4, v))
    BY <2>4, WritesEqual
  <2> QED BY <1>3, <1>7, <2>1, <2>3, <2>5
<1> QED BY <1>6, <1>7

LEMMA ExecuteAlike ==
  ASSUME NEW n \in Nat, NEW m, NEW g, NEW hidden, Names(hidden), Alike(n, m, g, hidden),
         m.trap = "None", NEW i \in Instruction, Free(i, hidden)
  PROVE  Visible(Execute(m, i)) = Visible(Execute(g, i))
<1>1. CASE i.op \in Immediates \cup Results /\ \A x : Execute(x, i) = Compute(x, i)
  <2>1. Compute(m, i) = Compute(g, i)
    BY <1>1, ComputeAlike
  <2> QED BY <1>1, <2>1
<1>2. CASE i.op \in HiLoOps /\ \A x : Execute(x, i) = ComputeHiLo(x, i)
  <2>1. Visible(ComputeHiLo(m, i)) = Visible(ComputeHiLo(g, i))
    BY <1>2, ComputeHiLoAlike
  <2> QED BY <1>2, <2>1
<1>3. CASE i.op \in Branches /\ \A x : Execute(x, i) = Branch(x, i)
  <2>1. Branch(m, i) = Branch(g, i)
    BY <1>3, BranchAlike
  <2> QED BY <1>3, <2>1
<1>4. CASE i.op \in JFormat \cup {"JR", "JALR"} /\ \A x : Execute(x, i) = Jump(x, i)
  <2>1. Jump(m, i) = Jump(g, i)
    BY <1>4, JumpAlike
  <2> QED BY <1>4, <2>1
<1>5. CASE i.op \in Loads /\ \A x : Execute(x, i) = Load(x, i)
  <2>1. Load(m, i) = Load(g, i)
    BY <1>5, LoadAlike
  <2> QED BY <1>5, <2>1
<1>6. CASE i.op \in Stores /\ \A x : Execute(x, i) = Store(x, i)
  <2>1. Store(m, i) = Store(g, i)
    BY <1>6, StoreAlike
  <2> QED BY <1>6, <2>1
<1>7. CASE i.op \in {"LWL", "LWR"} /\ \A x : Execute(x, i) = LoadHalf(x, i)
  <2>1. Visible(LoadHalf(m, i)) = Visible(LoadHalf(g, i))
    BY <1>7, LoadHalfAlike
  <2> QED BY <1>7, <2>1
<1>8. CASE i.op \in {"SWL", "SWR"} /\ \A x : Execute(x, i) = StoreHalf(x, i)
  <2>1. StoreHalf(m, i) = StoreHalf(g, i)
    BY <1>8, StoreHalfAlike
  <2> QED BY <1>8, <2>1
<1>9. \A which : RaiseException(m, which, 0) = RaiseException(g, which, 0)
  BY AlikeRaise, ZeroIsWord
<1>10. CASE \A x : Execute(x, i) = RaiseException(x, "Syscall", 0)
  BY <1>9, <1>10
<1>11. CASE \A x : Execute(x, i) = RaiseException(x, "IllegalInstr", 0)
  BY <1>9, <1>11
<1> QED BY <1>1, <1>2, <1>3, <1>4, <1>5, <1>6, <1>7, <1>8, <1>10, <1>11, ExecuteCases

LEMMA InstructionAlike ==
  ASSUME NEW n \in Nat, NEW m, NEW g, NEW hidden, Names(hidden), Alike(n, m, g, hidden),
         m.trap = "None", NEW i \in Instruction, Free(i, hidden)
  PROVE  Visible(OneInstruction(m, i)) = Visible(OneInstruction(g, i))
<1> DEFINE counter == m.registers[PCReg]
           a == ReadMem(m, counter, 4)
           b == ReadMem(g, counter, 4)
<1>1. g.registers[PCReg] = counter /\ counter \in WordSet
  BY SameOperands
<1>2. /\ OneInstruction(m, i) = IF a.m.trap # "None" THEN a.m ELSE Execute(a.m, i)
      /\ OneInstruction(g, i) = IF b.m.trap # "None" THEN b.m ELSE Execute(b.m, i)
  BY <1>1 DEF OneInstruction, Fetched
<1> HIDE DEF counter
<1>3. ReadsAlike(n, a, b, hidden)
  BY <1>1, AlikeRead
<1> HIDE DEF a, b
<1>4. CASE a.m.trap # "None"
  BY <1>2, <1>3, <1>4 DEF ReadsAlike
<1>5. CASE a.m.trap = "None"
  <2>1. Alike(n, a.m, b.m, hidden) /\ b.m.trap = "None"
    BY <1>3, <1>5 DEF ReadsAlike
  <2>2. Visible(Execute(a.m, i)) = Visible(Execute(b.m, i))
    BY <1>5, <2>1, ExecuteAlike
  <2> QED BY <1>2, <1>5, <2>1, <2>2
<1> QED BY <1>4, <1>5

(* Repairing the table after the fault, and before the instruction: the    *)
(* first machine is the second with its pending load finished.             *)
LEMMA RepairedExact ==
  ASSUME NEW n \in Nat, NEW m \in Machine(n)
  PROVE  /\ Repaired(m) \in Machine(NumPhysPages)
         /\ Repaired(m).trap = "None"
         /\ Repaired(m).registers = [m.registers EXCEPT ![BadVAddrReg] = 0]
         /\ m.registers[0] = 0 => Repaired(m).registers[0] = 0
         /\ Repaired(m).registers[LoadReg] = m.registers[LoadReg]
<1> DEFINE t == [p \in 0 .. NumPhysPages - 1 |-> Identity(p)]
           r == [m.registers EXCEPT ![BadVAddrReg] = 0]
<1>1. Repaired(m) = [m EXCEPT !.trap = "None", !.registers = r, !.table = t]
  BY DEF Repaired, Machine
<1>2. t \in [0 .. NumPhysPages - 1 -> TranslationEntry]
  BY MachineMemoryAssumption DEF Identity, TranslationEntry
<1>3. m.registers \in RegisterFile
  BY DEF Machine
<1>4. r \in RegisterFile
  BY <1>3, RegisterSet, RegisterNames, ZeroIsWord DEF BadVAddrReg, LoadReg
<1>5. (m.registers[0] = 0 => r[0] = 0) /\ r[LoadReg] = m.registers[LoadReg]
  BY <1>3 DEF RegisterFile, BadVAddrReg, LoadReg
<1>6. Repaired(m).registers = r /\ Repaired(m).trap = "None"
  <2> HIDE DEF r, t, Repaired
  <2> QED BY <1>1 DEF Machine
<1>7. Repaired(m) \in Machine(NumPhysPages)
  <2> HIDE DEF r, t, Repaired
  <2> QED BY <1>1, <1>2, <1>4 DEF Machine, ExceptionType
<1> QED BY <1>5, <1>6, <1>7

LEMMA FaultSettles ==
  ASSUME NEW n \in Nat, NEW m \in Machine(n), NEW t \in [0 .. n - 1 -> TranslationEntry],
         NEW which \in ExceptionType, NEW addr \in WordSet
  PROVE  Repaired(RaiseException([m EXCEPT !.table = t], which, addr)) = Settled(Repaired(m))
<1> DEFINE f == [m EXCEPT !.table = t]
           x == RaiseException(f, which, addr)
           q == [m.registers EXCEPT ![BadVAddrReg] = addr]
           r == [m.registers EXCEPT ![BadVAddrReg] = 0]
           s == Finished(q)
           u == [s EXCEPT ![BadVAddrReg] = 0]
           v == Finished(r)
           table == [p \in 0 .. NumPhysPages - 1 |-> Identity(p)]
<1>1. f \in Machine(n) /\ f.registers = m.registers
  BY DEF Machine
<1>2. x = [f EXCEPT !.registers = s, !.trap = which]
  BY <1>1 DEF RaiseException, Machine, Finished
<1>3. m.registers \in RegisterFile
  BY DEF Machine
<1>4. BadVAddrReg \in Register \ {LoadReg, LoadValueReg} /\ BadVAddrReg # 0
      /\ LoadReg \in Register /\ LoadValueReg \in Register /\ LoadReg # LoadValueReg
  BY SpecialRegisters DEF BadVAddrReg
<1>5. q \in RegisterFile /\ r \in RegisterFile
  BY <1>3, <1>4, RegisterSet, ZeroIsWord
<1>6. s \in RegisterFile /\ v \in RegisterFile
  BY <1>5, DelayedLoadExact, RegisterNames, ZeroIsWord DEF Finished
<1>7. m.registers[LoadReg] # BadVAddrReg
  BY <1>3, RegisterNames DEF RegisterFile
<1>8. u = v
  <2>1. /\ \A y \in Register : q[y] = IF y = BadVAddrReg THEN addr ELSE m.registers[y]
        /\ \A y \in Register : r[y] = IF y = BadVAddrReg THEN 0 ELSE m.registers[y]
    BY <1>3 DEF RegisterFile
  <2> HIDE DEF q, r
  <2>2. /\ \A y \in Register : s[y] =
             IF y = 0 THEN 0 ELSE IF y = LoadValueReg THEN 0 ELSE IF y = LoadReg THEN 0
             ELSE IF y = q[LoadReg] THEN q[LoadValueReg] ELSE q[y]
        /\ \A y \in Register : v[y] =
             IF y = 0 THEN 0 ELSE IF y = LoadValueReg THEN 0 ELSE IF y = LoadReg THEN 0
             ELSE IF y = r[LoadReg] THEN r[LoadValueReg] ELSE r[y]
    BY <1>5, DelayedLoadAt DEF Finished
  <2> HIDE DEF s, v
  <2>3. \A y \in Register : u[y] = IF y = BadVAddrReg THEN 0 ELSE s[y]
    BY <1>6 DEF RegisterFile
  <2>4. u = [y \in Register |-> u[y]] /\ v = [y \in Register |-> v[y]]
    BY <1>6 DEF RegisterFile
  <2> HIDE DEF u
  <2>5. q[LoadReg] = m.registers[LoadReg] /\ r[LoadReg] = m.registers[LoadReg]
        /\ q[LoadValueReg] = m.registers[LoadValueReg] /\ r[LoadValueReg] = m.registers[LoadValueReg]
    BY <1>4, <2>1
  <2>6. \A y \in Register : u[y] = v[y]
    BY <1>4, <1>7, <2>1, <2>2, <2>3, <2>5
  <2> QED BY <2>4, <2>6
<1>9. x.registers = s /\ x.mainMemory = m.mainMemory /\ x.tlb = m.tlb
      /\ x = [registers |-> s, mainMemory |-> m.mainMemory, tlb |-> m.tlb, table |-> t, trap |-> which]
  <2> HIDE DEF s, x
  <2> QED BY <1>2 DEF Machine
<1>10. Repaired(x) = [registers |-> u, mainMemory |-> m.mainMemory, tlb |-> m.tlb,
                      table |-> table, trap |-> "None"]
  <2>1. Repaired(x) = [x EXCEPT !.trap = "None", !.registers = [x.registers EXCEPT ![BadVAddrReg] = 0],
                              !.table = table]
    <3> HIDE DEF x
    <3>1. x = [registers |-> x.registers, mainMemory |-> x.mainMemory, tlb |-> x.tlb,
               table |-> x.table, trap |-> x.trap]
      BY <1>9
    <3> QED BY <3>1 DEF Repaired
  <2>2. [x.registers EXCEPT ![BadVAddrReg] = 0] = u
    BY <1>9
  <2> HIDE DEF s, x, u, table
  <2> QED BY <1>9, <2>1, <2>2
<1>11. Repaired(m) = [registers |-> r, mainMemory |-> m.mainMemory, tlb |-> m.tlb,
                      table |-> table, trap |-> "None"]
  <2>1. Repaired(m) = [m EXCEPT !.trap = "None", !.registers = r, !.table = table]
    BY DEF Repaired, Machine
  <2> HIDE DEF r, table
  <2> QED BY <2>1 DEF Machine
<1>12. Settled(Repaired(m)) = [registers |-> v, mainMemory |-> m.mainMemory, tlb |-> m.tlb,
                               table |-> table, trap |-> "None"]
  <2> HIDE DEF r, table, Repaired
  <2> QED BY <1>11 DEF Settled, Finished
<1> HIDE DEF u, v, table
<1> QED BY <1>8, <1>10, <1>12

(* Run again on the repaired machine, the instruction leaves what can be   *)
(* seen of it as if it had not faulted.                                    *)
LEMMA RestartSame ==
  ASSUME NEW n \in Nat, NEW m \in Machine(n), m.trap = "None", m.registers[0] = 0,
         NEW i \in Instruction, OneInstruction(m, i).trap \in Restartable,
         KeepsOff(i, m.registers[LoadReg])
  PROVE  Visible(OneInstruction(Repaired(OneInstruction(m, i)), i)) =
           Visible(OneInstruction(Repaired(m), i))
<1> DEFINE x == OneInstruction(m, i)
           g == Repaired(m)
           hidden == Hidden(g.registers)
<1>1. x \in Machine(n) /\ Ends(n, m, x)
  BY InstructionAuthorised
<1> HIDE DEF x
<1>2. PICK t \in [0 .. n - 1 -> TranslationEntry], a \in WordSet :
        x = RaiseException([m EXCEPT !.table = t], x.trap, a)
  BY <1>1 DEF Ends, x
<1>3. x.trap \in ExceptionType
  BY <1>1 DEF Machine
<1>4. Repaired(RaiseException([m EXCEPT !.table = t], x.trap, a)) = Settled(g)
  BY <1>3, FaultSettles
<1>5. Repaired(x) = Settled(g)
  BY <1>2, <1>4
<1>6. /\ g \in Machine(NumPhysPages) /\ g.trap = "None" /\ g.registers[0] = 0
      /\ g.registers[LoadReg] = m.registers[LoadReg]
  BY RepairedExact
<1> HIDE DEF g
<1>7. Names(hidden) /\ Alike(NumPhysPages, g, Settled(g), hidden)
  BY <1>6, AlikeSettled
<1>8. Free(i, hidden)
  <2>1. g.registers \in RegisterFile
    BY <1>6 DEF Machine
  <2> QED BY <1>6, <2>1, FreeOfHidden
<1> HIDE DEF hidden
<1>9. Visible(OneInstruction(g, i)) = Visible(OneInstruction(Settled(g), i))
  BY <1>6, <1>7, <1>8, InstructionAlike, MachineMemoryAssumption
<1> QED BY <1>5, <1>9 DEF g, x

LEMMA SoundRestarts == MachineSound => FaultsRestartable
<1> SUFFICES ASSUME MachineSound, NEW i \in Probe, Ready,
                    After(i).trap \in {"PageFault", "ReadOnly", "BusError"},
                    KeepsOff(i, R[LoadReg])
             PROVE  Cardinality({Visible(OneInstruction(m, i)) :
                                   m \in {Repaired(After(i)), Repaired(machine)}}) = 1
  BY Zenon DEF FaultsRestartable
<1> DEFINE x == After(i)
           y == Visible(OneInstruction(Repaired(machine), i))
           again == {Visible(OneInstruction(m, i)) : m \in {Repaired(x), Repaired(machine)}}
<1>1. PICK n \in 0 .. NumPhysPages : machine \in Machine(n)
  BY DEF MachineSound, IsMachine
<1>2. n \in Nat /\ machine.trap = "None" /\ machine.registers[0] = 0
  BY <1>1 DEF MachineSound, Ready
<1>3. i \in Instruction
  BY UserMachineAssumption
<1>4. x = OneInstruction(machine, i) /\ KeepsOff(i, machine.registers[LoadReg])
      /\ OneInstruction(machine, i).trap \in Restartable
  BY DEF After, R, Restartable
<1>5. Visible(OneInstruction(Repaired(OneInstruction(machine, i)), i)) = y
  BY <1>1, <1>2, <1>3, <1>4, RestartSame
<1>6. Visible(OneInstruction(Repaired(x), i)) = y
  BY <1>4, <1>5
<1>7. again = {y}
  <2> HIDE DEF x
  <2> QED BY <1>6
<1>8. Cardinality({y}) = 1
  BY FS_Singleton
<1> QED BY <1>7, <1>8

(* OneInstruction: "This allows us to re-start the instruction execution   *)
(* from the beginning".  On every machine, with a page table or a TLB, an  *)
(* instruction that faults and runs again once the kernel has repaired the *)
(* table leaves what it would have left without the fault.                 *)
THEOREM FaultsRestart == MachineSpec => []FaultsRestartable
BY MachineIsSound, SoundRestarts, PTL
=============================================================================
