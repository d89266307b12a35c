--------------------------- MODULE MonitorProofs ----------------------------
(* What holds of a lock, of a condition used with it, and of a list        *)
(* protected by both, for any number of threads.                           *)
EXTENDS SynchList, FiniteSetTheorems, TLAPS

----------------------------------------------------------------------------
(* Queues in which nobody stands twice: what appending to them and         *)
(* removing from them does to the set of those who wait.                   *)

(* Appending something new to a queue.                                     *)
LEMMA RangeAppend ==
  ASSUME NEW S, NEW q \in Seq(S), NEW x \in S, IsInjective(q), x \notin Range(q)
  PROVE  /\ IsInjective(Append(q, x))
         /\ \A y : y \in Range(Append(q, x)) <=> y \in Range(q) \/ y = x
<1> DEFINE r == Append(q, x)
<1>1. /\ r \in Seq(S) /\ Len(r) = Len(q) + 1 /\ r[Len(q) + 1] = x
      /\ \A i \in 1 .. Len(q) : r[i] = q[i]
  OBVIOUS
<1>2. Len(q) \in Nat /\ DOMAIN q = 1 .. Len(q) /\ DOMAIN r = 1 .. Len(r)
  OBVIOUS
<1>3. \A i \in 1 .. Len(q) : q[i] # x
  BY <1>2 DEF Range
<1>4. IsInjective(r)
  <2> SUFFICES ASSUME NEW i \in 1 .. Len(r), NEW j \in 1 .. Len(r), r[i] = r[j]
               PROVE  i = j
    BY DEF IsInjective
  <2> HIDE DEF r
  <2> QED BY <1>1, <1>2, <1>3 DEF IsInjective
<1>5. \A y : y \in Range(r) <=> y \in Range(q) \/ y = x
  <2> HIDE DEF r
  <2>1. ASSUME NEW y, y \in Range(r) PROVE y \in Range(q) \/ y = x
    <3>1. PICK i \in 1 .. Len(r) : r[i] = y
      BY <2>1, <1>2 DEF Range
    <3>2. i \in 1 .. Len(q) \/ i = Len(q) + 1
      BY <1>1, <1>2
    <3> QED BY <3>1, <3>2, <1>1, <1>2 DEF Range
  <2>2. ASSUME NEW y, y \in Range(q) PROVE y \in Range(r)
    <3>1. PICK i \in 1 .. Len(q) : q[i] = y
      BY <2>2, <1>2 DEF Range
    <3>2. i \in 1 .. Len(r) /\ r[i] = y
      BY <3>1, <1>1, <1>2
    <3> QED BY <3>2, <1>2 DEF Range
  <2>3. x \in Range(r)
    <3>1. Len(q) + 1 \in 1 .. Len(r)
      BY <1>1, <1>2
    <3> QED BY <3>1, <1>1, <1>2 DEF Range
  <2> QED BY <2>1, <2>2, <2>3
<1> QED BY <1>4, <1>5

(* Taking the front of a queue.                                            *)
LEMMA RangeTail ==
  ASSUME NEW S, NEW q \in Seq(S), q # <<>>, IsInjective(q)
  PROVE  /\ Head(q) \in Range(q) /\ IsInjective(Tail(q))
         /\ \A y : y \in Range(Tail(q)) <=> y \in Range(q) /\ y # Head(q)
<1> DEFINE r == Tail(q)
<1>1. /\ r \in Seq(S) /\ Len(q) \in Nat \ {0} /\ Len(r) = Len(q) - 1
      /\ \A i \in 1 .. Len(r) : r[i] = q[i + 1]
  OBVIOUS
<1>2. Head(q) = q[1] /\ DOMAIN q = 1 .. Len(q) /\ DOMAIN r = 1 .. Len(r)
  OBVIOUS
<1>3. Head(q) \in Range(q)
  BY <1>1, <1>2 DEF Range
<1> HIDE DEF r
<1>4. IsInjective(r)
  <2> SUFFICES ASSUME NEW i \in 1 .. Len(r), NEW j \in 1 .. Len(r), r[i] = r[j]
               PROVE  i = j
    BY DEF IsInjective
  <2>1. i + 1 \in 1 .. Len(q) /\ j + 1 \in 1 .. Len(q) /\ q[i + 1] = q[j + 1]
    BY <1>1
  <2> QED BY <2>1 DEF IsInjective
<1>5. ASSUME NEW y, y \in Range(r) PROVE y \in Range(q) /\ y # Head(q)
  <2>1. PICK i \in 1 .. Len(r) : r[i] = y
    BY <1>5, <1>2 DEF Range
  <2>2. i + 1 \in 1 .. Len(q) /\ q[i + 1] = y /\ 1 \in 1 .. Len(q) /\ i + 1 # 1
    BY <2>1, <1>1
  <2> QED BY <2>2, <1>2 DEF Range, IsInjective
<1>6. ASSUME NEW y, y \in Range(q), y # Head(q) PROVE y \in Range(r)
  <2>1. PICK i \in 1 .. Len(q) : q[i] = y
    BY <1>6, <1>2 DEF Range
  <2>2. i # 1
    BY <2>1, <1>2, <1>6
  <2>3. i - 1 \in 1 .. Len(r) /\ r[i - 1] = y
    BY <2>1, <2>2, <1>1
  <2> QED BY <2>3, <1>2 DEF Range
<1> QED BY <1>3, <1>4, <1>5, <1>6 DEF r

----------------------------------------------------------------------------
USE DEF lock, condition

(* MutualExclusion without counting: the value of the lock's semaphore is  *)
(* one and nobody owns the lock, or zero and one thread does.              *)
OneOwner ==
  \/ lockValue = 1 /\ \A t \in Thread : t \notin Owners
  \/ lockValue = 0 /\ \E t \in Owners : \A u \in Owners : u = t

(* The inductive invariant.  A release hands the lock on only because the  *)
(* queue is exact; a signal finds a thread inside Wait only because the    *)
(* wait queue is; and the two queues never hold the same thread.           *)
MonInv == MonTypeOK /\ OneOwner /\ HolderExact /\ LockHandedOn /\ SignalNotMissed

LEMMA MonInvInit == MonInit => MonInv
<1> SUFFICES ASSUME MonInit PROVE MonInv
  OBVIOUS
<1> USE NoThreadAssumption DEF MonInit
<1>1. MonTypeOK
  BY DEF MonTypeOK, Place
<1>2. OneOwner /\ HolderExact
  BY DEF OneOwner, HolderExact, Owners
<1>3. IsInjective(<<>>) /\ Range(<<>>) = {}
  BY DEF IsInjective, Range
<1>4. LockHandedOn
  BY <1>3 DEF LockHandedOn
<1>5. SignalNotMissed
  BY <1>3 DEF SignalNotMissed, InWait
<1> QED BY <1>1, <1>2, <1>4, <1>5 DEF MonInv

(* The owner is who the invariant says it is.                              *)
LEMMA TheOwner ==
  ASSUME MonInv, NEW t \in Thread, at[t] \in {"acquired", "inside", "broadcasting"}
  PROVE  /\ lockValue = 0
         /\ \A u \in Thread \ {t} : at[u] \notin {"acquired", "inside", "broadcasting"}
BY DEF MonInv, OneOwner, Owners

(* Release, alone or in Wait: the lock becomes free, and who has slept     *)
(* longest for it tests again.                                             *)
LEMMA UnlockKeeps ==
  ASSUME MonInv, NEW t \in Thread, at[t] = "inside",
         NEW p \in {"outside", "waiting"}, Unlock(t, p)
  PROVE  /\ MonTypeOK' <=> waitQueue' \in Seq(Thread) /\ waiterValue' \in [Thread -> Nat]
         /\ OneOwner' /\ HolderExact' /\ LockHandedOn'
         /\ at'[t] = p
         /\ \A u \in Thread \ {t} : u \in InWait' <=> u \in InWait
         /\ \A u \in Thread \ {t} : at'[u] = "waiting" <=> at[u] = "waiting"
         /\ \A u \in Thread \ {t} : at'[u] = "outside" <=> at[u] = "outside"
<1> USE DEF MonInv
<1>0. /\ MonTypeOK /\ HolderExact /\ LockHandedOn /\ lockValue = 0 /\ lockHolder = t
      /\ \A u \in Thread \ {t} : at[u] \notin {"acquired", "inside", "broadcasting"}
  BY TheOwner DEF HolderExact
<1>1. CASE lockQueue = <<>>
  <2>1. /\ at' = [at EXCEPT ![t] = p] /\ lockQueue' = lockQueue
        /\ lockValue' = 1 /\ lockHolder' = NoThread
    BY <1>0, <1>1 DEF Unlock, ClearedHolder
  <2>2. OneOwner' /\ HolderExact'
    BY <1>0, <2>1, NoThreadAssumption DEF OneOwner, Owners, HolderExact, MonTypeOK
  <2>3. LockHandedOn'
    BY <1>0, <1>1, <2>1 DEF LockHandedOn, MonTypeOK
  <2> QED BY <1>0, <2>1, <2>2, <2>3 DEF MonTypeOK, Place, InWait
<1>2. CASE lockQueue # <<>>
  <2> DEFINE h == Head(lockQueue)
  <2>1. /\ at' = [at EXCEPT ![t] = p, ![h] = "acquiring"] /\ lockQueue' = Tail(lockQueue)
        /\ lockValue' = 1 /\ lockHolder' = NoThread
    BY <1>0, <1>2 DEF Unlock, ClearedHolder, BackToTest
  <2>2. lockQueue \in Seq(Thread) /\ Tail(lockQueue) \in Seq(Thread)
    BY <1>0, <1>2 DEF MonTypeOK
  <2>3. /\ h \in Range(lockQueue) /\ IsInjective(Tail(lockQueue))
        /\ \A y : y \in Range(Tail(lockQueue)) <=> y \in Range(lockQueue) /\ y # h
    BY <1>0, <1>2, <2>2, RangeTail DEF LockHandedOn
  <2>4. h \in Thread /\ at[h] = "lockQueued" /\ h # t
    BY <1>0, <2>3 DEF LockHandedOn
  <2> HIDE DEF h
  <2>5. /\ at'[t] = p /\ at'[h] = "acquiring"
        /\ \A u \in Thread \ {t, h} : at'[u] = at[u]
        /\ at' \in [Thread -> Place]
    BY <1>0, <2>1, <2>4 DEF MonTypeOK, Place
  <2>6. OneOwner' /\ HolderExact'
    BY <1>0, <2>1, <2>4, <2>5, NoThreadAssumption DEF OneOwner, Owners, HolderExact
  <2>7. LockHandedOn'
    <3>1. Range(lockQueue') = {u \in Thread : at'[u] = "lockQueued"}
      BY <1>0, <2>1, <2>3, <2>4, <2>5 DEF LockHandedOn
    <3> QED BY <2>1, <2>3, <2>4, <2>5, <3>1 DEF LockHandedOn
  <2> QED BY <1>0, <2>1, <2>2, <2>4, <2>5, <2>6, <2>7 DEF MonTypeOK, InWait
<1> QED BY <1>1, <1>2

(* Signal: the first waiter's semaphore lets it through, whether it sleeps *)
(* there already or not.                                                   *)
LEMMA SignalKeeps ==
  ASSUME MonInv, NEW t \in Thread, at[t] \in {"inside", "broadcasting"},
         NEW p \in {"inside", "broadcasting"}, SignalFirst(t, p), UNCHANGED lock
  PROVE  MonInv'
<1> USE DEF MonInv
<1>0. MonTypeOK /\ HolderExact /\ LockHandedOn /\ SignalNotMissed
  OBVIOUS
<1>1. CASE waitQueue = <<>>
  <2>1. /\ at' = [at EXCEPT ![t] = p] /\ UNCHANGED <<lock, condition>>
    BY <1>1 DEF SignalFirst
  <2>2. MonTypeOK'
    BY <1>0, <2>1 DEF MonTypeOK, Place
  <2>3. OneOwner' /\ HolderExact'
    BY <1>0, <2>1 DEF OneOwner, Owners, HolderExact, MonTypeOK
  <2>4. LockHandedOn'
    BY <1>0, <2>1 DEF LockHandedOn, MonTypeOK
  <2>5. SignalNotMissed'
    BY <1>0, <2>1 DEF SignalNotMissed, MonTypeOK, InWait
  <2> QED BY <2>2, <2>3, <2>4, <2>5
<1>2. CASE waitQueue # <<>>
  <2> DEFINE w == Head(waitQueue)
  <2>1. /\ at' = [at EXCEPT ![t] = p, ![w] = Readied(w)] /\ waitQueue' = Tail(waitQueue)
        /\ waiterValue' = [waiterValue EXCEPT ![w] = waiterValue[w] + 1]
    BY <1>2 DEF SignalFirst, WakeFirst, PostWaiter
  <2>2. waitQueue \in Seq(Thread) /\ Tail(waitQueue) \in Seq(Thread)
    BY <1>0, <1>2 DEF MonTypeOK
  <2>3. /\ w \in Range(waitQueue) /\ IsInjective(Tail(waitQueue))
        /\ \A y : y \in Range(Tail(waitQueue)) <=> y \in Range(waitQueue) /\ y # w
    BY <1>0, <1>2, <2>2, RangeTail DEF SignalNotMissed
  <2>4. \A x \in Range(waitQueue) : x \in Thread
    BY <2>2 DEF Range
  <2>5. w \in Thread /\ w \in InWait /\ waiterValue[w] = 0 /\ w # t
    BY <1>0, <2>3, <2>4 DEF SignalNotMissed, InWait
  <2> HIDE DEF w
  <2>6. Readied(w) = "waiting"
    BY <2>5 DEF Readied, InWait
  <2>7. /\ at'[t] = p /\ at'[w] = "waiting" /\ \A u \in Thread \ {t, w} : at'[u] = at[u]
        /\ waiterValue'[w] = 1 /\ \A u \in Thread \ {w} : waiterValue'[u] = waiterValue[u]
        /\ at' \in [Thread -> Place] /\ waiterValue' \in [Thread -> Nat]
    BY <1>0, <2>1, <2>5, <2>6 DEF MonTypeOK, Place
  <2>8. MonTypeOK'
    BY <1>0, <2>1, <2>2, <2>7 DEF MonTypeOK
  <2>9. OneOwner' /\ HolderExact'
    BY <1>0, <2>5, <2>7 DEF OneOwner, Owners, HolderExact, InWait
  <2>10. LockHandedOn'
    BY <1>0, <2>5, <2>7 DEF LockHandedOn, InWait
  <2>11. SignalNotMissed'
    <3>1. ASSUME NEW u \in Thread
          PROVE  u \in Range(waitQueue') <=> u \in InWait' /\ waiterValue'[u] = 0
      BY <1>0, <2>1, <2>3, <2>5, <2>7 DEF SignalNotMissed, InWait
    <3>2. ASSUME NEW u \in Thread, waiterValue'[u] > 0
          PROVE  at'[u] = "waiting" /\ waiterValue'[u] = 1
      BY <3>2, <1>0, <2>5, <2>7 DEF SignalNotMissed
    <3> QED BY <2>1, <2>3, <3>1, <3>2 DEF SignalNotMissed
  <2> QED BY <2>8, <2>9, <2>10, <2>11
<1> QED BY <1>1, <1>2

(* Every step of a thread inside the monitor keeps the invariant.          *)
LEMMA MonInvRuns ==
  ASSUME MonInv, NEW t \in Thread, MonRuns(t)
  PROVE  MonInv'
<1> USE DEF MonInv
<1>0. MonTypeOK /\ OneOwner /\ HolderExact /\ LockHandedOn /\ SignalNotMissed
  OBVIOUS
<1>1. CASE CallAcquire(t) \/ CallBroadcast(t)
  <2>1. /\ UNCHANGED <<lock, condition>>
        /\ \/ at[t] = "outside" /\ at' = [at EXCEPT ![t] = "acquiring"]
           \/ at[t] = "inside" /\ at' = [at EXCEPT ![t] = "broadcasting"]
    BY <1>1 DEF CallAcquire, CallBroadcast
  <2>2. MonTypeOK'
    BY <1>0, <2>1 DEF MonTypeOK, Place
  <2>3. OneOwner' /\ HolderExact'
    BY <1>0, <2>1 DEF OneOwner, Owners, HolderExact, MonTypeOK
  <2>4. LockHandedOn'
    BY <1>0, <2>1 DEF LockHandedOn, MonTypeOK
  <2>5. SignalNotMissed'
    BY <1>0, <2>1 DEF SignalNotMissed, MonTypeOK, InWait
  <2> QED BY <2>2, <2>3, <2>4, <2>5
<1>2. CASE LockP(t)
  <2>0. at[t] = "acquiring" /\ UNCHANGED <<lockHolder, condition>>
    BY <1>2 DEF LockP
  <2>1. CASE LockBusy
    <3>1. /\ lockQueue' = Append(lockQueue, t) /\ lockValue = 0 /\ lockValue' = 0
          /\ at' = [at EXCEPT ![t] = "lockQueued"]
      BY <1>2, <2>1 DEF LockP, LockBusy
    <3>2. lockQueue \in Seq(Thread) /\ t \notin Range(lockQueue)
      BY <1>0, <2>0 DEF LockHandedOn, MonTypeOK
    <3>3. /\ IsInjective(lockQueue')
          /\ \A y : y \in Range(lockQueue') <=> y \in Range(lockQueue) \/ y = t
      BY <1>0, <3>1, <3>2, RangeAppend DEF LockHandedOn
    <3>4. MonTypeOK'
      BY <1>0, <2>0, <3>1, <3>2 DEF MonTypeOK, Place
    <3>5. OneOwner' /\ HolderExact'
      BY <1>0, <2>0, <3>1 DEF OneOwner, Owners, HolderExact, MonTypeOK
    <3>6. LockHandedOn'
      <4>1. Range(lockQueue') = {u \in Thread : at'[u] = "lockQueued"}
        BY <1>0, <3>1, <3>3 DEF LockHandedOn, MonTypeOK
      <4> QED BY <3>1, <3>3, <4>1 DEF LockHandedOn
    <3>7. SignalNotMissed'
      BY <1>0, <2>0, <3>1 DEF SignalNotMissed, MonTypeOK, InWait
    <3> QED BY <3>4, <3>5, <3>6, <3>7
  <2>2. CASE ~LockBusy
    <3>1. /\ lockQueue' = lockQueue /\ lockValue = 1 /\ lockValue' = 0
          /\ at' = [at EXCEPT ![t] = "acquired"]
      BY <1>0, <1>2, <2>2 DEF LockP, LockBusy, OneOwner
    <3>2. MonTypeOK'
      BY <1>0, <2>0, <3>1 DEF MonTypeOK, Place
    <3>3. OneOwner' /\ HolderExact'
      BY <1>0, <2>0, <3>1 DEF OneOwner, Owners, HolderExact, MonTypeOK
    <3>4. LockHandedOn'
      BY <1>0, <2>0, <3>1 DEF LockHandedOn, MonTypeOK
    <3>5. SignalNotMissed'
      BY <1>0, <2>0, <3>1 DEF SignalNotMissed, MonTypeOK, InWait
    <3> QED BY <3>2, <3>3, <3>4, <3>5
  <2> QED BY <2>1, <2>2
<1>3. CASE TakeOwnership(t)
  <2>1. /\ at[t] = "acquired" /\ lockHolder' = t /\ at' = [at EXCEPT ![t] = "inside"]
        /\ UNCHANGED <<lockValue, lockQueue, condition>>
    BY <1>3 DEF TakeOwnership
  <2>2. MonTypeOK'
    BY <1>0, <2>1 DEF MonTypeOK, Place
  <2>3. OneOwner' /\ HolderExact'
    BY <1>0, <2>1 DEF OneOwner, Owners, HolderExact, MonTypeOK
  <2>4. LockHandedOn'
    BY <1>0, <2>1 DEF LockHandedOn, MonTypeOK
  <2>5. SignalNotMissed'
    BY <1>0, <2>1 DEF SignalNotMissed, MonTypeOK, InWait
  <2> QED BY <2>2, <2>3, <2>4, <2>5
<1>4. CASE CallRelease(t)
  <2>1. at[t] = "inside" /\ Unlock(t, "outside") /\ UNCHANGED condition
    BY <1>4 DEF CallRelease
  <2>2. /\ MonTypeOK' <=> waitQueue' \in Seq(Thread) /\ waiterValue' \in [Thread -> Nat]
        /\ OneOwner' /\ HolderExact' /\ LockHandedOn' /\ at'[t] = "outside"
        /\ \A u \in Thread \ {t} : u \in InWait' <=> u \in InWait
        /\ \A u \in Thread \ {t} : at'[u] = "waiting" <=> at[u] = "waiting"
    BY <2>1, UnlockKeeps
  <2>3. MonTypeOK'
    BY <1>0, <2>1, <2>2 DEF MonTypeOK
  <2>4. SignalNotMissed'
    BY <1>0, <2>1, <2>2 DEF SignalNotMissed, InWait
  <2> QED BY <2>2, <2>3, <2>4
<1>5. CASE CallWait(t)
  <2>1. /\ at[t] = "inside" /\ Unlock(t, "waiting") /\ waitQueue' = Append(waitQueue, t)
        /\ waiterValue' = [waiterValue EXCEPT ![t] = 0]
    BY <1>5 DEF CallWait
  <2>2. /\ MonTypeOK' <=> waitQueue' \in Seq(Thread) /\ waiterValue' \in [Thread -> Nat]
        /\ OneOwner' /\ HolderExact' /\ LockHandedOn' /\ at'[t] = "waiting"
        /\ \A u \in Thread \ {t} : u \in InWait' <=> u \in InWait
        /\ \A u \in Thread \ {t} : at'[u] = "waiting" <=> at[u] = "waiting"
    BY <2>1, UnlockKeeps
  <2>3. waitQueue \in Seq(Thread) /\ t \notin Range(waitQueue)
    BY <1>0, <2>1 DEF SignalNotMissed, MonTypeOK, InWait
  <2>4. /\ IsInjective(waitQueue')
        /\ \A y : y \in Range(waitQueue') <=> y \in Range(waitQueue) \/ y = t
    BY <1>0, <2>1, <2>3, RangeAppend DEF SignalNotMissed
  <2>5. MonTypeOK'
    BY <1>0, <2>1, <2>2, <2>3 DEF MonTypeOK
  <2>6. /\ waiterValue'[t] = 0
        /\ \A u \in Thread \ {t} : waiterValue'[u] = waiterValue[u]
    BY <1>0, <2>1 DEF MonTypeOK
  <2>7. SignalNotMissed'
    <3>1. ASSUME NEW u \in Thread
          PROVE  u \in Range(waitQueue') <=> u \in InWait' /\ waiterValue'[u] = 0
      <4>1. t \in InWait'
        BY <2>2 DEF InWait
      <4> QED BY <1>0, <2>2, <2>4, <2>6, <4>1 DEF SignalNotMissed
    <3>2. ASSUME NEW u \in Thread, waiterValue'[u] > 0
          PROVE  at'[u] = "waiting" /\ waiterValue'[u] = 1
      BY <3>2, <1>0, <2>2, <2>6 DEF SignalNotMissed
    <3> QED BY <2>4, <3>1, <3>2 DEF SignalNotMissed
  <2> QED BY <2>2, <2>5, <2>7
<1>6. CASE WaiterP(t)
  <2>0. at[t] = "waiting" /\ UNCHANGED <<lock, waitQueue>>
    BY <1>6 DEF WaiterP
  <2>1. \/ /\ waiterValue[t] = 0 /\ at' = [at EXCEPT ![t] = "asleep"]
           /\ waiterValue' = waiterValue
        \/ /\ waiterValue[t] = 1 /\ at' = [at EXCEPT ![t] = "acquiring"]
           /\ waiterValue' = [waiterValue EXCEPT ![t] = 0]
    BY <1>0, <1>6 DEF WaiterP, SignalNotMissed, MonTypeOK
  <2>2. PICK p \in {"asleep", "acquiring"} : at' = [at EXCEPT ![t] = p]
    BY <2>1
  <2>3. MonTypeOK'
    <3>1. waiterValue' \in [Thread -> Nat]
      BY <1>0, <2>1 DEF MonTypeOK
    <3> QED BY <1>0, <2>0, <2>2, <3>1 DEF MonTypeOK, Place
  <2>4. OneOwner' /\ HolderExact'
    BY <1>0, <2>0, <2>2 DEF OneOwner, Owners, HolderExact, MonTypeOK
  <2>5. LockHandedOn'
    BY <1>0, <2>0, <2>2 DEF LockHandedOn, MonTypeOK
  <2>6. SignalNotMissed'
    <3>1. CASE waiterValue[t] = 0
      BY <1>0, <2>0, <2>1, <3>1 DEF SignalNotMissed, MonTypeOK, InWait
    <3>2. CASE waiterValue[t] = 1
      <4>1. /\ at'[t] = "acquiring" /\ waiterValue'[t] = 0 /\ t \notin Range(waitQueue)
            /\ \A u \in Thread \ {t} : at'[u] = at[u] /\ waiterValue'[u] = waiterValue[u]
        BY <1>0, <2>0, <2>1, <3>2 DEF SignalNotMissed, MonTypeOK
      <4>2. \A u \in Thread : u \in InWait' <=> u \in InWait /\ u # t
        BY <4>1 DEF InWait
      <4> QED BY <1>0, <2>0, <4>1, <4>2 DEF SignalNotMissed
    <3> QED BY <2>1, <3>1, <3>2
  <2> QED BY <2>3, <2>4, <2>5, <2>6
<1>7. CASE CallSignal(t)
  BY <1>7, SignalKeeps DEF CallSignal
<1>8. CASE BroadcastStep(t)
  BY <1>8, SignalKeeps DEF BroadcastStep
<1> QED BY <1>1, <1>2, <1>3, <1>4, <1>5, <1>6, <1>7, <1>8
        DEF MonRuns, MonStep, AcquireStep

LEMMA MonInvStep == MonInv /\ [MonNext]_monVars => MonInv'
<1> SUFFICES ASSUME MonInv, [MonNext]_monVars PROVE MonInv'
  OBVIOUS
<1>1. CASE MonNext
  BY <1>1, MonInvRuns DEF MonNext
<1>2. CASE UNCHANGED monVars
  BY <1>2 DEF monVars, MonInv, MonTypeOK, OneOwner, Owners, HolderExact,
              LockHandedOn, SignalNotMissed, InWait
<1> QED BY <1>1, <1>2

(* Counting the owners.                                                    *)
LEMMA OwnersCounted == MonInv => LockExact
<1> SUFFICES ASSUME MonInv PROVE MutualExclusion
  BY DEF MonInv, LockExact
<1>1. CASE lockValue = 1 /\ \A t \in Thread : t \notin Owners
  <2>1. Owners = {}
    BY <1>1 DEF Owners
  <2> QED BY <1>1, <2>1, FS_EmptySet DEF MutualExclusion
<1>2. CASE lockValue = 0 /\ \E t \in Owners : \A u \in Owners : u = t
  <2>1. PICK t : Owners = {t}
    BY <1>2
  <2> QED BY <1>2, <2>1, FS_Singleton DEF MutualExclusion
<1> QED BY <1>1, <1>2 DEF MonInv, OneOwner

(* The lock lets in one thread at a time and knows which (the ASSERTs on   *)
(* IsHeldByCurrentThread in synch.cc), for any number of threads.          *)
THEOREM LockIsExact == MonSpec => []LockExact
<1>1. MonSpec => []MonInv
  BY MonInvInit, MonInvStep, PTL DEF MonSpec
<1> QED BY <1>1, OwnersCounted, PTL

(* Neither the lock nor the condition forgets a thread: no signal is       *)
(* missed between the release of the lock in Wait and the P that follows.  *)
THEOREM NobodyIsMissed == MonSpec => []NobodyMissed
<1>1. MonSpec => []MonInv
  BY MonInvInit, MonInvStep, PTL DEF MonSpec
<1>2. MonInv => NobodyMissed
  BY DEF MonInv, NobodyMissed
<1> QED BY <1>1, <1>2, PTL

----------------------------------------------------------------------------
(* The lock as a mutex.                                                    *)

Wanting == {t \in Thread : at[t] \in {"acquiring", "lockQueued"}}

(* Each step of a thread inside the monitor is one of the mutex, or        *)
(* nothing that its users can see.                                         *)
LEMMA MutexSteps ==
  ASSUME MonInv, NEW t \in Thread, MonRuns(t)
  PROVE  \/ t \notin Wanting \cup Owners /\ Wanting' = Wanting \cup {t} /\ Owners' = Owners
         \/ t \in Wanting /\ Owners = {} /\ Wanting' = Wanting \ {t} /\ Owners' = {t}
         \/ Owners = {t} /\ Owners' = {} /\ Wanting' = Wanting
         \/ Wanting' = Wanting /\ Owners' = Owners
<1> USE DEF MonInv
<1>0. MonTypeOK /\ OneOwner /\ LockHandedOn /\ SignalNotMissed
  OBVIOUS
<1>1. ASSUME NEW p \in {"outside", "waiting"}, at[t] = "inside", Unlock(t, p)
      PROVE  Owners = {t} /\ Owners' = {} /\ Wanting' = Wanting
  <2>0. \A u \in Thread \ {t} : at[u] \notin {"acquired", "inside", "broadcasting"}
    BY <1>1, TheOwner
  <2>1. CASE lockQueue = <<>>
    <3>1. at' = [at EXCEPT ![t] = p]
      BY <1>1, <2>1 DEF Unlock
    <3> QED BY <1>0, <1>1, <2>0, <3>1 DEF Owners, Wanting, MonTypeOK
  <2>2. CASE lockQueue # <<>>
    <3> DEFINE h == Head(lockQueue)
    <3>1. at' = [at EXCEPT ![t] = p, ![h] = "acquiring"]
      BY <1>1, <2>2 DEF Unlock, BackToTest
    <3>2. h \in Range(lockQueue)
      BY <1>0, <2>2, RangeTail DEF LockHandedOn, MonTypeOK
    <3>3. h \in Thread /\ at[h] = "lockQueued" /\ h # t
      BY <1>0, <1>1, <3>2 DEF LockHandedOn
    <3> QED BY <1>0, <1>1, <2>0, <3>1, <3>3 DEF Owners, Wanting, MonTypeOK
  <2> QED BY <2>1, <2>2
<1>2. ASSUME NEW p \in {"inside", "broadcasting"}, at[t] \in {"inside", "broadcasting"},
             SignalFirst(t, p)
      PROVE  Wanting' = Wanting /\ Owners' = Owners
  <2>1. CASE waitQueue = <<>>
    BY <1>0, <1>2, <2>1 DEF SignalFirst, Owners, Wanting, MonTypeOK
  <2>2. CASE waitQueue # <<>>
    <3> DEFINE w == Head(waitQueue)
    <3>1. at' = [at EXCEPT ![t] = p, ![w] = Readied(w)]
      BY <1>2, <2>2 DEF SignalFirst, WakeFirst
    <3>2. w \in Range(waitQueue) /\ w \in Thread
      BY <1>0, <2>2, RangeTail DEF SignalNotMissed, MonTypeOK
    <3>3. w \in InWait /\ w # t /\ Readied(w) = "waiting"
      BY <1>0, <1>2, <3>2 DEF SignalNotMissed, InWait, Readied
    <3> QED BY <1>0, <1>2, <3>1, <3>2, <3>3 DEF Owners, Wanting, InWait, MonTypeOK
  <2> QED BY <2>1, <2>2
<1>3. CASE CallAcquire(t)
  BY <1>0, <1>3 DEF CallAcquire, Owners, Wanting, MonTypeOK
<1>4. CASE CallBroadcast(t) \/ TakeOwnership(t)
  BY <1>0, <1>4 DEF CallBroadcast, TakeOwnership, Owners, Wanting, MonTypeOK
<1>5. CASE LockP(t)
  <2>1. CASE LockBusy
    BY <1>0, <1>5, <2>1 DEF LockP, Owners, Wanting, MonTypeOK
  <2>2. CASE ~LockBusy
    <3>1. Owners = {}
      BY <1>0, <2>2 DEF LockBusy, OneOwner, Owners
    <3> QED BY <1>0, <1>5, <2>2, <3>1 DEF LockP, Owners, Wanting, MonTypeOK
  <2> QED BY <2>1, <2>2
<1>6. CASE CallRelease(t) \/ CallWait(t)
  BY <1>1, <1>6 DEF CallRelease, CallWait
<1>7. CASE WaiterP(t)
  <2>1. PICK p \in {"asleep", "acquiring"} : at' = [at EXCEPT ![t] = p]
    BY <1>7 DEF WaiterP
  <2>2. at[t] = "waiting"
    BY <1>7 DEF WaiterP
  <2> QED BY <1>0, <2>1, <2>2 DEF Owners, Wanting, MonTypeOK
<1>8. CASE CallSignal(t) \/ BroadcastStep(t)
  BY <1>2, <1>8 DEF CallSignal, BroadcastStep
<1> QED BY <1>3, <1>4, <1>5, <1>6, <1>7, <1>8 DEF MonRuns, MonStep, AcquireStep

(* Acquire and Release implement a mutex, also around Wait.                *)
THEOREM MutexIsImplemented == MonSpec => ImplementsMutex
<1>1. MonInit => Mutex!MutexInit
  BY DEF MonInit, Mutex!MutexInit, Owners
<1>2. MonInv /\ [MonNext]_monVars => [Mutex!MutexNext]_(Mutex!mutexVars)
  <2> SUFFICES ASSUME MonInv, [MonNext]_monVars
               PROVE  [Mutex!MutexNext]_(Mutex!mutexVars)
    OBVIOUS
  <2>1. ASSUME NEW t \in Thread, MonRuns(t) PROVE [Mutex!MutexNext]_(Mutex!mutexVars)
    BY <2>1, MutexSteps
       DEF Wanting, Mutex!MutexNext, Mutex!mutexVars, Mutex!Want, Mutex!Enter, Mutex!Leave
  <2>2. CASE UNCHANGED monVars
    BY <2>2 DEF monVars, Mutex!mutexVars, Owners
  <2> QED BY <2>1, <2>2 DEF MonNext
<1>3. MonSpec => []MonInv
  BY MonInvInit, MonInvStep, PTL DEF MonSpec
<1> QED BY <1>1, <1>2, <1>3, PTL DEF MonSpec, ImplementsMutex, Mutex!MutexSpec

----------------------------------------------------------------------------
(* The synchronized list.                                                  *)

(* Where a thread is in an operation of the list, and what it holds.       *)
Operations ==
  \A t \in Thread :
    /\ at[t] = "outside" <=> op[t] = "none"
    /\ t \in InWait => op[t] = "remove"
    /\ op[t] = "append" => item[t] \in Item
    /\ op[t] \in {"none", "remove", "apply"} => item[t] = NoItem

(* Awake consumers: ItemsSpokenFor says that they are enough.              *)
Awake == Removers \ Range(waitQueue)

(* The inductive invariant of the list: that of its monitor, with consumers*)
(* who sleep only while there are enough awake for the items.              *)
ListInv ==
  /\ MonInv /\ Operations /\ ListTypeOK /\ IsFiniteSet(Removers)
  /\ waitQueue # <<>> => Len(list) =< Cardinality(Awake)

(* What the steps of the monitor do to the waiters of the list: only Wait  *)
(* adds one, and only a signal removes one.                                *)
LEMMA WaitersOfStep ==
  ASSUME MonInv, NEW t \in Thread, MonStep(t)
  PROVE  /\ Range(waitQueue') \subseteq Range(waitQueue)
         /\ waitQueue = <<>> => waitQueue' = <<>>
         /\ \A u \in Thread : /\ u \in InWait' => u \in InWait
                              /\ at'[u] = "outside" <=> at[u] = "outside"
<1> USE DEF MonInv
<1>0. MonTypeOK /\ SignalNotMissed
  OBVIOUS
<1>1. CASE LockP(t) \/ TakeOwnership(t)
  BY <1>0, <1>1 DEF LockP, TakeOwnership, InWait, MonTypeOK
<1>2. CASE WaiterP(t)
  <2>1. PICK p \in {"asleep", "acquiring"} : at' = [at EXCEPT ![t] = p]
    BY <1>2 DEF WaiterP
  <2>2. at[t] = "waiting" /\ waitQueue' = waitQueue
    BY <1>2 DEF WaiterP
  <2> QED BY <1>0, <2>1, <2>2 DEF InWait, MonTypeOK
<1>3. CASE BroadcastStep(t)
  <2>0. at[t] = "broadcasting"
    BY <1>3 DEF BroadcastStep
  <2>1. CASE waitQueue = <<>>
    BY <1>0, <1>3, <2>0, <2>1 DEF BroadcastStep, SignalFirst, InWait, MonTypeOK
  <2>2. CASE waitQueue # <<>>
    <3> DEFINE w == Head(waitQueue)
    <3>1. /\ waitQueue' = Tail(waitQueue)
          /\ at' = [at EXCEPT ![t] = "broadcasting", ![w] = Readied(w)]
      BY <1>3, <2>2 DEF BroadcastStep, SignalFirst, WakeFirst
    <3>2. w \in Range(waitQueue) /\ w \in Thread
          /\ \A y : y \in Range(Tail(waitQueue)) => y \in Range(waitQueue)
      BY <1>0, <2>2, RangeTail DEF SignalNotMissed, MonTypeOK
    <3>3. w \in InWait /\ w # t /\ Readied(w) = "waiting"
      BY <1>0, <2>0, <3>2 DEF SignalNotMissed, InWait, Readied
    <3> QED BY <1>0, <2>0, <2>2, <3>1, <3>2, <3>3 DEF InWait, MonTypeOK
  <2> QED BY <2>1, <2>2
<1> QED BY <1>1, <1>2, <1>3 DEF MonStep, AcquireStep

LEMMA ListInvInit == ListInit => ListInv
<1> SUFFICES ASSUME ListInit PROVE ListInv
  OBVIOUS
<1>1. MonInv
  BY MonInvInit DEF ListInit
<1>2. ListTypeOK /\ Operations
  BY <1>1, ItemAssumption DEF ListInit, MonInit, ListTypeOK, MonInv, Op, Operations, InWait
<1>3. Removers = {} /\ waitQueue = <<>>
  BY DEF ListInit, MonInit, Removers
<1> QED BY <1>1, <1>2, <1>3, FS_EmptySet DEF ListInv

(* Every step of a thread in an operation of the list keeps it.            *)
LEMMA ListInvRuns ==
  ASSUME ListInv, NEW t \in Thread, ListRuns(t)
  PROVE  ListInv'
<1> USE DEF ListInv
<1>0. /\ MonInv /\ Operations /\ ListTypeOK /\ IsFiniteSet(Removers) /\ SignalNotMissed
      /\ MonTypeOK
  BY DEF MonInv
<1>1. ASSUME NEW o \in {"append", "remove", "apply"}, NEW i, Start(t, o, i),
             \/ o = "append" /\ i \in Item
             \/ o # "append" /\ i = NoItem
      PROVE  ListInv'
  <2>1. /\ op[t] = "none" /\ at[t] = "outside" /\ list' = list
        /\ at' = [at EXCEPT ![t] = "acquiring"] /\ UNCHANGED <<lock, condition>>
        /\ op' = [op EXCEPT ![t] = o] /\ item' = [item EXCEPT ![t] = i]
    BY <1>1 DEF Start, CallAcquire
  <2>2. MonInv'
    BY <1>1, MonInvRuns DEF Start, MonRuns
  <2>3. ListTypeOK'
    BY <1>0, <1>1, <2>1, <2>2 DEF ListTypeOK, MonInv, Op
  <2>4. Operations'
    BY <1>0, <1>1, <2>1 DEF Operations, InWait, ListTypeOK, MonTypeOK
  <2>5. Removers \subseteq Removers' /\ Removers' \subseteq Removers \cup {t}
    BY <1>0, <2>1 DEF Removers, ListTypeOK
  <2>6. IsFiniteSet(Removers') /\ IsFiniteSet(Awake') /\ Awake \subseteq Awake'
    <3>1. IsFiniteSet(Removers \cup {t})
      BY <1>0, FS_AddElement
    <3>2. IsFiniteSet(Removers')
      BY <2>5, <3>1, FS_Subset
    <3> QED BY <2>1, <2>5, <3>2, FS_Subset DEF Awake
  <2>7. Cardinality(Awake) =< Cardinality(Awake')
        /\ Cardinality(Awake) \in Nat /\ Cardinality(Awake') \in Nat
    BY <2>6, FS_Subset, FS_CardinalityType
  <2>8. Len(list) \in Nat
    BY <1>0 DEF ListTypeOK
  <2>9. waitQueue' # <<>> => Len(list') =< Cardinality(Awake')
    <3> HIDE DEF Awake
    <3> QED BY <2>1, <2>7, <2>8
  <2> QED BY <2>2, <2>3, <2>4, <2>6, <2>9
<1>2. CASE MonStep(t) /\ UNCHANGED <<list, op, item>>
  <2>1. MonInv'
    BY <1>2, MonInvRuns DEF MonRuns
  <2>2. /\ Range(waitQueue') \subseteq Range(waitQueue)
        /\ waitQueue = <<>> => waitQueue' = <<>>
        /\ \A u \in Thread : /\ u \in InWait' => u \in InWait
                             /\ at'[u] = "outside" <=> at[u] = "outside"
    BY <1>2, WaitersOfStep
  <2>3. ListTypeOK' /\ Operations'
    <3>1. ListTypeOK'
      BY <1>0, <1>2, <2>1 DEF ListTypeOK, MonInv
    <3>2. UNCHANGED <<op, item>>
      BY <1>2
    <3> QED BY <1>0, <2>2, <3>1, <3>2 DEF Operations
  <2>4. Removers' = Removers
    BY <1>2 DEF Removers
  <2>5. Awake \subseteq Awake' /\ IsFiniteSet(Awake')
    BY <1>0, <2>2, <2>4, FS_Subset DEF Awake
  <2>6. Cardinality(Awake) =< Cardinality(Awake')
        /\ Cardinality(Awake) \in Nat /\ Cardinality(Awake') \in Nat
    BY <2>5, FS_Subset, FS_CardinalityType
  <2>7. Len(list) \in Nat
    BY <1>0 DEF ListTypeOK
  <2>8. waitQueue' # <<>> => Len(list') =< Cardinality(Awake')
    <3> HIDE DEF Awake
    <3> QED BY <1>2, <2>2, <2>6, <2>7
  <2> QED BY <1>0, <2>1, <2>3, <2>4, <2>8
<1>3. CASE AppendItem(t)
  <2>1. /\ op[t] = "append" /\ at[t] = "inside" /\ list' = Append(list, item[t])
        /\ SignalFirst(t, "inside") /\ UNCHANGED lock
        /\ op' = [op EXCEPT ![t] = "appended"] /\ item' = item
    BY <1>3 DEF AppendItem, CallSignal, PutLast
  <2>2. MonInv'
    BY <1>3, MonInvRuns DEF AppendItem, MonRuns
  <2>3. ListTypeOK'
    BY <1>0, <2>1, <2>2 DEF ListTypeOK, MonInv, Op, Operations
  <2>4. Removers' = Removers
    BY <1>0, <2>1 DEF Removers, ListTypeOK
  <2>5. CASE waitQueue = <<>>
    <3>1. at' = [at EXCEPT ![t] = "inside"] /\ waitQueue' = waitQueue
      BY <2>1, <2>5 DEF SignalFirst
    <3>2. Operations'
      BY <1>0, <2>1, <3>1 DEF Operations, ListTypeOK, MonTypeOK, InWait
    <3> QED BY <1>0, <2>2, <2>3, <2>4, <2>5, <3>1, <3>2
  <2>6. CASE waitQueue # <<>>
    <3> DEFINE w == Head(waitQueue)
    <3>1. /\ waitQueue' = Tail(waitQueue)
          /\ at' = [at EXCEPT ![t] = "inside", ![w] = Readied(w)]
      BY <2>1, <2>6 DEF SignalFirst, WakeFirst
    <3>2. /\ w \in Range(waitQueue) /\ w \in Thread
          /\ \A y : y \in Range(Tail(waitQueue)) <=> y \in Range(waitQueue) /\ y # w
      BY <1>0, <2>6, RangeTail DEF SignalNotMissed, MonTypeOK
    <3>3. w \in InWait /\ w # t /\ Readied(w) = "waiting"
      BY <1>0, <2>1, <3>2 DEF SignalNotMissed, InWait, Readied
    <3>4. Operations'
      BY <1>0, <2>1, <3>1, <3>2, <3>3 DEF Operations, ListTypeOK, MonTypeOK, InWait
    <3>5. w \in Removers
      BY <1>0, <3>2, <3>3 DEF Operations, Removers
    <3>6. Awake' = Awake \cup {w} /\ w \notin Awake
      BY <2>4, <3>1, <3>2, <3>5 DEF Awake
    <3>7. IsFiniteSet(Awake)
      BY <1>0, FS_Subset DEF Awake
    <3>8. Cardinality(Awake') = Cardinality(Awake) + 1 /\ Cardinality(Awake) \in Nat
      BY <3>6, <3>7, FS_AddElement, FS_CardinalityType
    <3>9. Len(list') = Len(list) + 1 /\ Len(list) \in Nat
      BY <1>0, <2>1 DEF ListTypeOK, Operations
    <3>10. Len(list') =< Cardinality(Awake')
      <4> HIDE DEF Awake
      <4> QED BY <2>6, <3>8, <3>9
    <3> QED BY <1>0, <2>2, <2>3, <2>4, <3>4, <3>10
  <2> QED BY <2>5, <2>6
<1>4. CASE WaitForItem(t)
  <2>1. /\ op[t] = "remove" /\ list = <<>> /\ UNCHANGED <<list, op, item>>
        /\ at[t] = "inside" /\ Unlock(t, "waiting") /\ CallWait(t)
    BY <1>4 DEF WaitForItem, CallWait
  <2>2. MonInv'
    BY <2>1, MonInvRuns DEF MonRuns
  <2>3. ListTypeOK'
    BY <1>0, <2>1, <2>2 DEF ListTypeOK, MonInv
  <2>4. Operations'
    <3>1. /\ at'[t] = "waiting"
          /\ \A u \in Thread \ {t} : u \in InWait' <=> u \in InWait
          /\ \A u \in Thread \ {t} : at'[u] = "outside" <=> at[u] = "outside"
      BY <1>0, <2>1, UnlockKeeps
    <3> QED BY <1>0, <2>1, <3>1 DEF Operations
  <2>5. Len(list') = 0 /\ Removers' = Removers
    BY <2>1 DEF Removers
  <2>6. IsFiniteSet(Awake')
    BY <1>0, <2>5, FS_Subset DEF Awake
  <2>7. Cardinality(Awake') \in Nat
    BY <2>6, FS_CardinalityType
  <2>8. Len(list') =< Cardinality(Awake')
    <3> HIDE DEF Awake
    <3> QED BY <2>5, <2>7
  <2> QED BY <1>0, <2>2, <2>3, <2>4, <2>5, <2>8
<1>5. CASE RemoveItem(t)
  <2>1. /\ op[t] = "remove" /\ at[t] = "inside" /\ list # <<>>
        /\ item' = [item EXCEPT ![t] = Head(list)] /\ list' = Tail(list)
        /\ op' = [op EXCEPT ![t] = "removed"] /\ UNCHANGED monVars
    BY <1>5 DEF RemoveItem, MayRemove
  <2>2. MonInv'
    BY <1>0, <2>1, MonInvStep
  <2>3. ListTypeOK'
    BY <1>0, <2>1, <2>2 DEF ListTypeOK, MonInv, Op
  <2>4. Operations'
    BY <1>0, <2>1 DEF Operations, ListTypeOK, InWait, monVars
  <2>5. Removers' = Removers \ {t} /\ t \in Removers /\ t \notin Range(waitQueue)
    BY <1>0, <2>1 DEF Removers, ListTypeOK, SignalNotMissed, InWait
  <2>6. Awake' = Awake \ {t} /\ t \in Awake /\ IsFiniteSet(Removers')
    BY <1>0, <2>1, <2>5, FS_RemoveElement DEF Awake, monVars, condition
  <2>7. IsFiniteSet(Awake)
    BY <1>0, FS_Subset DEF Awake
  <2>8. Cardinality(Awake') = Cardinality(Awake) - 1 /\ Cardinality(Awake) \in Nat
    BY <2>6, <2>7, FS_RemoveElement, FS_CardinalityType
  <2>9. Len(list') = Len(list) - 1 /\ Len(list) \in Nat
    BY <1>0, <2>1 DEF ListTypeOK
  <2>10. waitQueue' = waitQueue
    BY <2>1 DEF monVars
  <2>11. waitQueue' # <<>> => Len(list') =< Cardinality(Awake')
    <3> HIDE DEF Awake
    <3> QED BY <2>8, <2>9, <2>10
  <2> QED BY <2>2, <2>3, <2>4, <2>6, <2>11
<1>6. CASE Finish(t)
  <2>1. /\ op[t] \in {"appended", "removed", "apply"} /\ list' = list
        /\ at[t] = "inside" /\ Unlock(t, "outside") /\ UNCHANGED condition
        /\ op' = [op EXCEPT ![t] = "none"] /\ item' = [item EXCEPT ![t] = NoItem]
    BY <1>6 DEF Finish, CallRelease
  <2>2. MonInv'
    BY <1>6, MonInvRuns DEF Finish, MonRuns
  <2>3. ListTypeOK'
    BY <1>0, <2>1, <2>2 DEF ListTypeOK, MonInv, Op
  <2>4. Operations'
    <3>1. /\ at'[t] = "outside"
          /\ \A u \in Thread \ {t} : u \in InWait' <=> u \in InWait
          /\ \A u \in Thread \ {t} : at'[u] = "outside" <=> at[u] = "outside"
      BY <1>0, <2>1, UnlockKeeps
    <3> QED BY <1>0, <2>1, <3>1 DEF Operations, ListTypeOK, InWait
  <2>5. Removers' = Removers /\ waitQueue' = waitQueue
    BY <1>0, <2>1 DEF Removers, ListTypeOK
  <2>6. Awake' = Awake
    BY <2>5 DEF Awake
  <2> QED BY <1>0, <2>1, <2>2, <2>3, <2>4, <2>5, <2>6
<1> QED BY <1>1, <1>2, <1>3, <1>4, <1>5, <1>6 DEF ListRuns, ListStep

LEMMA ListInvStep == ListInv /\ [ListNext]_listVars => ListInv'
<1> SUFFICES ASSUME ListInv, [ListNext]_listVars PROVE ListInv'
  OBVIOUS
<1>1. CASE ListNext
  BY <1>1, ListInvRuns DEF ListNext
<1>2. CASE UNCHANGED listVars
  <2>1. MonInv'
    BY <1>2, MonInvStep DEF listVars, ListInv
  <2>2. UNCHANGED <<waitQueue, at, list, op, item>>
    BY <1>2 DEF listVars, monVars
  <2> QED BY <2>1, <2>2 DEF ListInv, MonInv, ListTypeOK, Operations, Removers, Awake, InWait
<1> QED BY <1>1, <1>2

(* Each item is spoken for: no consumer sleeps beside an item that nobody  *)
(* awake has come for, however many threads append, remove and apply.      *)
THEOREM ItemsAreSpokenFor == ListSpec => []ItemsSpokenFor
<1>1. ListInv => ItemsSpokenFor
  BY DEF ListInv, ItemsSpokenFor, Awake
<1> QED BY <1>1, ListInvInit, ListInvStep, PTL DEF ListSpec

(* The list is a FIFO queue: what Append puts in comes out in order, each  *)
(* item once, and nobody removes from an empty list.                       *)
THEOREM QueueIsImplemented == ListSpec => ImplementsQueue
<1>1. ListInit => Queue!FifoInit
  BY DEF ListInit, Queue!FifoInit
<1>2. ListInv /\ [ListNext]_listVars => [Queue!FifoNext]_(Queue!fifoVars)
  <2> SUFFICES ASSUME ListInv, [ListNext]_listVars
               PROVE  [Queue!FifoNext]_(Queue!fifoVars)
    OBVIOUS
  <2> USE DEF Queue!FifoNext, Queue!fifoVars
  <2>0. ListTypeOK /\ Operations
    BY DEF ListInv
  <2>1. ASSUME NEW t \in Thread, NEW i \in Item, Start(t, "append", i)
        PROVE  Queue!FifoNext
    BY <2>1 DEF Start, Queue!StartAppend
  <2>2. ASSUME NEW t \in Thread, Start(t, "remove", NoItem) \/ Start(t, "apply", NoItem)
        PROVE  Queue!FifoNext
    <3>1. item' = item
      BY <2>0, <2>2 DEF Start, Operations, ListTypeOK
    <3> QED BY <2>2, <3>1 DEF Start, Queue!StartRemove, Queue!StartApply
  <2>3. ASSUME NEW t \in Thread, ListStep(t) PROVE [Queue!FifoNext]_(Queue!fifoVars)
    BY <2>3 DEF ListStep, AppendItem, WaitForItem, RemoveItem, MayRemove, Finish, PutLast,
                Queue!DoAppend, Queue!DoRemove, Queue!Return
  <2>4. CASE UNCHANGED listVars
    BY <2>4 DEF listVars
  <2> QED BY <2>1, <2>2, <2>3, <2>4 DEF ListNext, ListRuns
<1> QED BY <1>1, <1>2, ListInvInit, ListInvStep, PTL
        DEF ListSpec, ImplementsQueue, Queue!FifoSpec
=============================================================================
