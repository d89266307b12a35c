-------------------------- MODULE PostOfficeProofs --------------------------
(* What holds of the network and the post offices for any number of        *)
(* machines, threads, mailboxes and mails, however many packets are lost   *)
(* and however often machines end and start again.                         *)
EXTENDS PostOffice, FiniteSetTheorems, TLAPS

USE DEF incoming, outgoing, caller, power

Sending(t) == pc[t] \in {"send", "wait", "release"}
Hosted(m) == {t \in Thread : Host[t] = m}
SomebodyWaits(m) == \E t \in Hosted(m) : pc[t] = "wait"

(* The receiving half: the worker is on its way exactly for the packet     *)
(* that is buffered, and holds one while it delivers.                      *)
BuffersPassOn ==
  \A m \in Machine :
    /\ available[m] + Bit(worker[m] = "receive") = Bit(inHdr[m] # NoMail)
    /\ worker[m] = "put" <=> parcel[m] # NoMail

(* The sending half: the lock lets one thread past AcquireSend, with its   *)
(* mail, and the interrupt pending or counted is that of its packet.       *)
SendersAlone ==
  /\ \A t \in Thread : Sending(t) => sendLock[Host[t]] = t
  /\ \A t \in Thread : pc[t] \in {"acquire", "send"} => mail[t] \in Mail

SendPaired(m) ==
  sendPending[m] + messageSent[m] = IF SomebodyWaits(m) THEN 1 ELSE 0

(* Nothing is left on a machine that is down.                              *)
EmptyAt(m) ==
  /\ wire[m] = <<>> /\ inHdr[m] = NoMail /\ parcel[m] = NoMail
  /\ boxes[m] = [b \in Box |-> <<>>]
  /\ sendPending[m] = 0
  /\ \A t \in Hosted(m) : pc[t] = "idle" /\ mail[t] = NoMail

DownIsEmpty == \A m \in Machine : ~up[m] => EmptyAt(m)

OfficeInv ==
  /\ TypeOK
  /\ BuffersPassOn
  /\ SendersAlone
  /\ \A m \in Machine : SendPaired(m)
  /\ DownIsEmpty

LEMMA OfficeInvInit == Init => OfficeInv
<1> SUFFICES ASSUME Init PROVE OfficeInv
  OBVIOUS
<1> USE PostOfficeAssumption DEF Init
<1>1. TypeOK
  <2>1. box \in [Thread -> Box]
    OBVIOUS
  <2>2. mails \in 0 .. MaxMails /\ boots \in 0 .. MaxBoots
    OBVIOUS
  <2>3. sendBusy \in [Machine -> BOOLEAN] /\ up \in [Machine -> BOOLEAN]
    OBVIOUS
  <2>4. /\ wire \in [Machine -> Seq(Mail)] /\ boxes \in [Machine -> [Box -> Seq(Mail)]]
        /\ available \in [Machine -> Nat] /\ messageSent \in [Machine -> Nat]
        /\ sendPending \in [Machine -> Nat]
    OBVIOUS
  <2>5. /\ inHdr \in [Machine -> Mail \cup {NoMail}] /\ parcel \in [Machine -> Mail \cup {NoMail}]
        /\ mail \in [Thread -> Mail \cup {NoMail}]
        /\ worker \in [Machine -> {"wait", "receive", "put"}]
        /\ sendLock \in [Machine -> Thread \cup {NoThread}] /\ pc \in [Thread -> Place]
    BY DEF Place
  <2> QED BY <2>1, <2>2, <2>3, <2>4, <2>5 DEF TypeOK
<1>2. BuffersPassOn
  BY DEF BuffersPassOn, Bit
<1>3. SendersAlone /\ \A m \in Machine : SendPaired(m)
  BY DEF SendersAlone, Sending, SendPaired, SomebodyWaits, Hosted
<1>4. DownIsEmpty
  BY DEF DownIsEmpty, EmptyAt, Hosted
<1> QED BY <1>1, <1>2, <1>3, <1>4 DEF OfficeInv

(* A machine that starts or ends is empty, and the others do not notice.   *)
LEMMA EmptiedKeeps ==
  ASSUME OfficeInv, NEW m \in Machine, Emptied(m), NEW b \in BOOLEAN,
         up' = [up EXCEPT ![m] = b], boots' \in 0 .. MaxBoots
  PROVE  OfficeInv' /\ EmptyAt(m)'
<1> USE PostOfficeAssumption DEF OfficeInv
<1>0. /\ TypeOK /\ BuffersPassOn /\ SendersAlone /\ DownIsEmpty
      /\ \A k \in Machine : SendPaired(k)
  OBVIOUS
<1>1. /\ wire'[m] = <<>> /\ inHdr'[m] = NoMail /\ available'[m] = 0 /\ worker'[m] = "wait"
      /\ parcel'[m] = NoMail /\ boxes'[m] = [k \in Box |-> <<>>]
      /\ sendPending'[m] = 0 /\ sendLock'[m] = NoThread /\ messageSent'[m] = 0
  BY <1>0 DEF Emptied, OpenSocket, TypeOK
<1>2. \A k \in Machine \ {m} :
        /\ wire'[k] = wire[k] /\ inHdr'[k] = inHdr[k] /\ available'[k] = available[k]
        /\ worker'[k] = worker[k] /\ parcel'[k] = parcel[k] /\ boxes'[k] = boxes[k]
        /\ sendPending'[k] = sendPending[k] /\ sendLock'[k] = sendLock[k]
        /\ messageSent'[k] = messageSent[k] /\ up'[k] = up[k]
  BY <1>0 DEF Emptied, OpenSocket, TypeOK
<1>3. \A t \in Thread :
        /\ Host[t] = m => pc'[t] = "idle" /\ mail'[t] = NoMail
        /\ Host[t] # m => pc'[t] = pc[t] /\ mail'[t] = mail[t]
  BY DEF Emptied, OpenSocket
<1>4. TypeOK'
  <2>1. /\ wire' \in [Machine -> Seq(Mail)] /\ boxes' \in [Machine -> [Box -> Seq(Mail)]]
    BY <1>0 DEF Emptied, OpenSocket, TypeOK
  <2>2. /\ available' \in [Machine -> Nat] /\ messageSent' \in [Machine -> Nat]
        /\ sendPending' \in [Machine -> Nat]
    BY <1>0 DEF Emptied, OpenSocket, TypeOK
  <2>3. sendBusy' \in [Machine -> BOOLEAN] /\ up' \in [Machine -> BOOLEAN]
    BY <1>0 DEF Emptied, OpenSocket, TypeOK
  <2>4. /\ inHdr' \in [Machine -> Mail \cup {NoMail}] /\ parcel' \in [Machine -> Mail \cup {NoMail}]
        /\ worker' \in [Machine -> {"wait", "receive", "put"}]
        /\ sendLock' \in [Machine -> Thread \cup {NoThread}]
    BY <1>0 DEF Emptied, OpenSocket, TypeOK
  <2>5. /\ mail' \in [Thread -> Mail \cup {NoMail}] /\ pc' \in [Thread -> Place]
    BY <1>0 DEF Emptied, OpenSocket, TypeOK, Place
  <2>6. box' \in [Thread -> Box] /\ mails' \in 0 .. MaxMails
    BY <1>0 DEF Emptied, OpenSocket, TypeOK
  <2> QED BY <2>1, <2>2, <2>3, <2>4, <2>5, <2>6 DEF TypeOK
<1>5. BuffersPassOn'
  <2> SUFFICES ASSUME NEW k \in Machine
               PROVE  /\ available'[k] + Bit(worker'[k] = "receive") = Bit(inHdr'[k] # NoMail)
                      /\ worker'[k] = "put" <=> parcel'[k] # NoMail
    BY DEF BuffersPassOn, Bit
  <2> QED BY <1>0, <1>1, <1>2 DEF BuffersPassOn, Bit
<1>6. SendersAlone'
  BY <1>0, <1>2, <1>3 DEF SendersAlone, Sending
<1>7. ASSUME NEW k \in Machine PROVE SendPaired(k)'
  <2>1. CASE k = m
    BY <1>1, <1>3, <2>1 DEF SendPaired, SomebodyWaits, Hosted
  <2>2. CASE k # m
    <3>1. SomebodyWaits(k)' <=> SomebodyWaits(k)
      BY <1>3, <2>2 DEF SomebodyWaits, Hosted
    <3> QED BY <1>0, <1>2, <2>2, <3>1 DEF SendPaired
  <2> QED BY <2>1, <2>2
<1>8. EmptyAt(m)'
  BY <1>1, <1>3 DEF EmptyAt, Hosted
<1>9. DownIsEmpty'
  BY <1>0, <1>2, <1>3, <1>8 DEF DownIsEmpty, EmptyAt, Hosted
<1> QED BY <1>4, <1>5, <1>6, <1>7, <1>8, <1>9

(* What the two equations about the buffer say, place by place.            *)
LEMMA BufferStates ==
  ASSUME OfficeInv, NEW m \in Machine
  PROVE  /\ worker[m] \in {"wait", "receive", "put"} /\ available[m] \in Nat
         /\ available[m] > 0 => available[m] = 1 /\ worker[m] # "receive" /\ inHdr[m] # NoMail
         /\ worker[m] = "receive" => available[m] = 0 /\ inHdr[m] # NoMail
         /\ inHdr[m] = NoMail => available[m] = 0 /\ worker[m] # "receive"
         /\ inHdr[m] # NoMail /\ worker[m] # "receive" => available[m] = 1
         /\ worker[m] = "put" <=> parcel[m] # NoMail
         /\ ~up[m] => /\ inHdr[m] = NoMail /\ available[m] = 0 /\ worker[m] = "wait"
                      /\ wire[m] = <<>> /\ parcel[m] = NoMail
<1>1. /\ worker[m] \in {"wait", "receive", "put"} /\ available[m] \in Nat
      /\ available[m] + Bit(worker[m] = "receive") = Bit(inHdr[m] # NoMail)
      /\ worker[m] = "put" <=> parcel[m] # NoMail
  BY DEF OfficeInv, TypeOK, BuffersPassOn
<1>2. ~up[m] => wire[m] = <<>> /\ inHdr[m] = NoMail /\ parcel[m] = NoMail
  BY DEF OfficeInv, DownIsEmpty, EmptyAt
<1> QED BY <1>1, <1>2 DEF Bit

(* The receiving half: the device and the postal worker.                   *)
LEMMA ReceivingKeeps ==
  ASSUME OfficeInv, NEW m \in Machine,
         ReceiveInterrupt(m) \/ AwaitMessage(m) \/ ReceivePacket(m) \/ PutMail(m)
  PROVE  OfficeInv'
<1> USE DEF OfficeInv
<1>0. /\ TypeOK /\ BuffersPassOn /\ SendersAlone /\ DownIsEmpty
      /\ \A k \in Machine : SendPaired(k)
  OBVIOUS
<1>1. /\ UNCHANGED <<outgoing, caller, power>>
      /\ \E v : wire' = [wire EXCEPT ![m] = v]
      /\ \E v : inHdr' = [inHdr EXCEPT ![m] = v]
      /\ \E v : available' = [available EXCEPT ![m] = v]
      /\ \E v : worker' = [worker EXCEPT ![m] = v]
      /\ \E v : parcel' = [parcel EXCEPT ![m] = v]
      /\ \E v : boxes' = [boxes EXCEPT ![m] = v]
  <2>1. /\ wire = [wire EXCEPT ![m] = wire[m]] /\ inHdr = [inHdr EXCEPT ![m] = inHdr[m]]
        /\ available = [available EXCEPT ![m] = available[m]]
        /\ worker = [worker EXCEPT ![m] = worker[m]]
        /\ parcel = [parcel EXCEPT ![m] = parcel[m]] /\ boxes = [boxes EXCEPT ![m] = boxes[m]]
    BY <1>0 DEF TypeOK
  <2>2. CASE ReceiveInterrupt(m)
    BY <2>1, <2>2 DEF ReceiveInterrupt, PollSocket, ReadFromSocket, LeftInSocket
  <2>3. CASE AwaitMessage(m)
    BY <2>1, <2>3 DEF AwaitMessage
  <2>4. CASE ReceivePacket(m)
    BY <2>1, <2>4 DEF ReceivePacket
  <2>5. CASE PutMail(m)
    BY <2>1, <2>5 DEF PutMail
  <2> QED BY <2>2, <2>3, <2>4, <2>5
<1>2. \A k \in Machine \ {m} :
        /\ wire'[k] = wire[k] /\ inHdr'[k] = inHdr[k] /\ available'[k] = available[k]
        /\ worker'[k] = worker[k] /\ parcel'[k] = parcel[k] /\ boxes'[k] = boxes[k]
  BY <1>0, <1>1 DEF TypeOK
<1>3. up[m]
  BY BufferStates DEF ReceiveInterrupt, PollSocket, ReadFromSocket, LeftInSocket, AwaitMessage,
     Announced, ReceivePacket, PutMail
<1>4. /\ available'[m] + Bit(worker'[m] = "receive") = Bit(inHdr'[m] # NoMail)
      /\ worker'[m] = "put" <=> parcel'[m] # NoMail
      /\ wire'[m] \in Seq(Mail) /\ boxes'[m] \in [Box -> Seq(Mail)]
      /\ inHdr'[m] \in Mail \cup {NoMail} /\ parcel'[m] \in Mail \cup {NoMail}
      /\ available'[m] \in Nat /\ worker'[m] \in {"wait", "receive", "put"}
  <2>1. CASE ReceiveInterrupt(m)
    <3>1. /\ wire[m] \in Seq(Mail) /\ wire[m] # <<>> /\ Head(wire[m]) \in Mail
          /\ Tail(wire[m]) \in Seq(Mail) /\ inHdr[m] = NoMail
      BY <1>0, <2>1 DEF ReceiveInterrupt, PollSocket, ReadFromSocket, LeftInSocket, BufferEmpty, TypeOK
    <3>2. /\ inHdr'[m] = Head(wire[m]) /\ wire'[m] = Tail(wire[m])
          /\ available'[m] = available[m] + 1 /\ UNCHANGED <<worker, parcel, boxes>>
      BY <1>0, <2>1 DEF ReceiveInterrupt, PollSocket, ReadFromSocket, LeftInSocket, Posted, TypeOK
    <3>3. Head(wire[m]) # NoMail
      BY <3>1, PostOfficeAssumption DEF Mail
    <3> QED BY <1>0, <3>1, <3>2, <3>3, BufferStates DEF Bit, TypeOK
  <2>2. CASE AwaitMessage(m)
    <3>1. /\ worker[m] = "wait" /\ available[m] > 0 /\ available'[m] = available[m] - 1
          /\ worker'[m] = "receive" /\ UNCHANGED <<wire, inHdr, parcel, boxes>>
      BY <1>0, <2>2 DEF AwaitMessage, Announced, TypeOK
    <3> QED BY <1>0, <3>1, BufferStates DEF Bit, TypeOK
  <2>3. CASE ReceivePacket(m)
    <3>1. /\ worker[m] = "receive" /\ parcel'[m] = inHdr[m] /\ inHdr'[m] = NoMail
          /\ worker'[m] = "put" /\ UNCHANGED <<wire, available, boxes>>
      BY <1>0, <2>3 DEF ReceivePacket, TypeOK
    <3> QED BY <1>0, <3>1, BufferStates DEF Bit, TypeOK
  <2>4. CASE PutMail(m)
    <3>1. /\ worker[m] = "put" /\ parcel[m].box \in Box /\ parcel'[m] = NoMail
          /\ worker'[m] = "wait" /\ UNCHANGED <<wire, inHdr, available>>
      BY <1>0, <2>4 DEF PutMail, TypeOK
    <3>2. parcel[m] \in Mail /\ boxes[m] \in [Box -> Seq(Mail)]
      BY <1>0, <3>1, BufferStates DEF TypeOK
    <3>3. boxes'[m] = [boxes[m] EXCEPT ![parcel[m].box] = Append(boxes[m][parcel[m].box], parcel[m])]
      BY <1>0, <2>4 DEF PutMail, TypeOK
    <3>4. Append(boxes[m][parcel[m].box], parcel[m]) \in Seq(Mail)
      BY <3>1, <3>2
    <3>5. boxes'[m] \in [Box -> Seq(Mail)]
      BY <3>2, <3>3, <3>4
    <3> QED BY <1>0, <3>1, <3>5, BufferStates DEF Bit, TypeOK
  <2> QED BY <2>1, <2>2, <2>3, <2>4
<1>5. TypeOK'
  <2>1. /\ wire' \in [Machine -> Seq(Mail)] /\ boxes' \in [Machine -> [Box -> Seq(Mail)]]
        /\ inHdr' \in [Machine -> Mail \cup {NoMail}] /\ parcel' \in [Machine -> Mail \cup {NoMail}]
        /\ available' \in [Machine -> Nat] /\ worker' \in [Machine -> {"wait", "receive", "put"}]
    BY <1>0, <1>1, <1>4 DEF TypeOK
  <2> QED BY <1>0, <1>1, <2>1 DEF TypeOK
<1>6. BuffersPassOn'
  BY <1>0, <1>2, <1>4 DEF BuffersPassOn
<1>7. SendersAlone' /\ \A k \in Machine : SendPaired(k)'
  BY <1>0, <1>1 DEF SendersAlone, Sending, SendPaired, SomebodyWaits, Hosted
<1>8. DownIsEmpty'
  BY <1>0, <1>1, <1>2, <1>3 DEF DownIsEmpty, EmptyAt, Hosted
<1> QED BY <1>5, <1>6, <1>7, <1>8

(* A thread that has come past AcquireSend is the only one of its machine. *)
LEMMA SenderAlone ==
  ASSUME OfficeInv, NEW t \in Thread, Sending(t)
  PROVE  /\ Host[t] \in Machine /\ up[Host[t]]
         /\ \A u \in Hosted(Host[t]) \ {t} : ~Sending(u)
         /\ sendLock[Host[t]] = t
         /\ sendPending[Host[t]] \in Nat /\ messageSent[Host[t]] \in Nat
         /\ sendPending[Host[t]] + messageSent[Host[t]] = IF pc[t] = "wait" THEN 1 ELSE 0
<1>1. /\ Host[t] \in Machine /\ t \in Hosted(Host[t])
      /\ sendPending[Host[t]] \in Nat /\ messageSent[Host[t]] \in Nat
  BY PostOfficeAssumption DEF Hosted, OfficeInv, TypeOK
<1>2. sendLock[Host[t]] = t /\ \A u \in Hosted(Host[t]) \ {t} : ~Sending(u)
  BY DEF OfficeInv, SendersAlone, Hosted
<1>3. up[Host[t]]
  BY <1>1 DEF OfficeInv, DownIsEmpty, EmptyAt, Sending
<1>4. SomebodyWaits(Host[t]) <=> pc[t] = "wait"
  BY <1>1, <1>2 DEF SomebodyWaits, Sending
<1>5. SendPaired(Host[t])
  BY <1>1 DEF OfficeInv
<1>6. sendPending[Host[t]] + messageSent[Host[t]] = IF pc[t] = "wait" THEN 1 ELSE 0
  BY <1>4, <1>5 DEF SendPaired
<1> QED BY <1>1, <1>2, <1>3, <1>6

(* The calls of a thread outside the lock, and their returns.              *)
LEMMA CallsKeep ==
  ASSUME OfficeInv, NEW t \in Thread,
         \/ \E m \in Machine, b \in Address : CallSend(t, m, b)
         \/ \E b \in Box : CallReceive(t, b)
         \/ GetMail(t) \/ ReturnMail(t)
  PROVE  OfficeInv'
<1> USE DEF OfficeInv, Goto
<1>0. /\ TypeOK /\ BuffersPassOn /\ SendersAlone /\ DownIsEmpty
      /\ \A k \in Machine : SendPaired(k)
      /\ Host[t] \in Machine
  BY PostOfficeAssumption
<1>1. /\ UNCHANGED <<wire, incoming, outgoing, power>>
      /\ \E p \in {"acquire", "receive", "received", "idle"} :
            pc' = [pc EXCEPT ![t] = p] /\ (p = "acquire" => mail'[t] \in Mail)
      /\ \E l \in Mail \cup {NoMail} : mail' = [mail EXCEPT ![t] = l]
      /\ box' \in [Thread -> Box] /\ mails' \in 0 .. MaxMails
      /\ boxes' \in [Machine -> [Box -> Seq(Mail)]]
      /\ \A k \in Machine \ {Host[t]} : boxes'[k] = boxes[k]
      /\ up[Host[t]] /\ ~Sending(t)
  <2>1. mail = [mail EXCEPT ![t] = mail[t]] /\ mail[t] \in Mail \cup {NoMail}
    BY <1>0 DEF TypeOK
  <2>2. ASSUME NEW m \in Machine, NEW b \in Address, CallSend(t, m, b)
        PROVE  <1>1!:
    <3> DEFINE l == [from |-> Host[t], to |-> m, box |-> b, id |-> mails + 1]
    <3>1. mails + 1 \in 1 .. MaxMails /\ mails + 1 \in 0 .. MaxMails
      <4>1. mails \in 0 .. MaxMails /\ mails < MaxMails /\ MaxMails \in Nat
        BY <1>0, <2>2, PostOfficeAssumption DEF CallSend, TypeOK
      <4> QED BY <4>1
    <3>2. l \in Mail
      BY <1>0, <3>1 DEF Mail
    <3>3. mail' = [mail EXCEPT ![t] = l] /\ mail'[t] = l
      BY <1>0, <2>2 DEF CallSend, TypeOK
    <3>4. /\ UNCHANGED <<wire, incoming, outgoing, power, box, boxes>>
          /\ pc' = [pc EXCEPT ![t] = "acquire"] /\ mails' = mails + 1
          /\ up[Host[t]] /\ pc[t] = "idle"
      BY <2>2 DEF CallSend
    <3> HIDE DEF l
    <3>5. \E p \in {"acquire", "receive", "received", "idle"} :
            pc' = [pc EXCEPT ![t] = p] /\ (p = "acquire" => mail'[t] \in Mail)
      BY <3>2, <3>3, <3>4
    <3>6. \E k \in Mail \cup {NoMail} : mail' = [mail EXCEPT ![t] = k]
      BY <3>2, <3>3
    <3>7. /\ box' \in [Thread -> Box] /\ boxes' \in [Machine -> [Box -> Seq(Mail)]]
          /\ \A k \in Machine \ {Host[t]} : boxes'[k] = boxes[k]
      BY <1>0, <3>4 DEF TypeOK
    <3>8. mails' \in 0 .. MaxMails /\ ~Sending(t)
      BY <3>1, <3>4 DEF Sending
    <3> QED BY <3>4, <3>5, <3>6, <3>7, <3>8
  <2>3. ASSUME NEW b \in Box, CallReceive(t, b)
        PROVE  <1>1!:
    BY <1>0, <2>1, <2>3 DEF CallReceive, TypeOK, Sending
  <2>4. CASE GetMail(t)
    <3> DEFINE letters == boxes[Host[t]][box[t]]
    <3>1. /\ letters \in Seq(Mail) /\ letters # <<>> /\ box[t] \in Box
      BY <1>0, <2>4 DEF GetMail, TypeOK
    <3>2. Head(letters) \in Mail /\ Tail(letters) \in Seq(Mail)
      BY <3>1
    <3>3. boxes' = [boxes EXCEPT ![Host[t]] = [boxes[Host[t]] EXCEPT ![box[t]] = Tail(letters)]]
      BY <1>0, <2>4 DEF GetMail, TypeOK
    <3>4. [boxes[Host[t]] EXCEPT ![box[t]] = Tail(letters)] \in [Box -> Seq(Mail)]
      BY <1>0, <3>1, <3>2 DEF TypeOK
    <3>5. /\ boxes' \in [Machine -> [Box -> Seq(Mail)]]
          /\ \A k \in Machine \ {Host[t]} : boxes'[k] = boxes[k]
      BY <1>0, <3>3, <3>4 DEF TypeOK
    <3>6. /\ pc[t] = "receive" /\ mail' = [mail EXCEPT ![t] = Head(letters)]
          /\ pc' = [pc EXCEPT ![t] = "received"]
          /\ UNCHANGED <<wire, incoming, outgoing, box, mails, power>>
      BY <2>4 DEF GetMail
    <3>7. up[Host[t]]
      BY <1>0, <3>6 DEF DownIsEmpty, EmptyAt, Hosted
    <3> HIDE DEF letters
    <3> QED BY <1>0, <3>2, <3>5, <3>6, <3>7 DEF TypeOK, Sending
  <2>5. CASE ReturnMail(t)
    <3>1. up[Host[t]] /\ pc[t] = "received"
      BY <1>0, <2>5 DEF ReturnMail, DownIsEmpty, EmptyAt, Hosted
    <3> QED BY <1>0, <2>1, <2>5, <3>1 DEF ReturnMail, TypeOK, Sending
  <2> QED BY <2>2, <2>3, <2>4, <2>5
<1>2. /\ pc' \in [Thread -> Place] /\ mail' \in [Thread -> Mail \cup {NoMail}]
      /\ \A u \in Thread \ {t} : pc'[u] = pc[u] /\ mail'[u] = mail[u]
      /\ pc'[t] \in {"acquire", "receive", "received", "idle"}
      /\ pc'[t] = "acquire" => mail'[t] \in Mail
  BY <1>0, <1>1 DEF TypeOK, Place
<1>3. TypeOK'
  BY <1>0, <1>1, <1>2 DEF TypeOK
<1>4. BuffersPassOn'
  BY <1>0, <1>1 DEF BuffersPassOn
<1>5. SendersAlone'
  BY <1>0, <1>1, <1>2 DEF SendersAlone, Sending
<1>6. ASSUME NEW k \in Machine PROVE SendPaired(k)'
  <2>1. SomebodyWaits(k)' <=> SomebodyWaits(k)
    BY <1>1, <1>2 DEF SomebodyWaits, Hosted, Sending
  <2> QED BY <1>0, <1>1, <2>1 DEF SendPaired
<1>7. ASSUME NEW k \in Machine, ~up'[k] PROVE EmptyAt(k)'
  <2>1. k # Host[t] /\ EmptyAt(k) /\ boxes'[k] = boxes[k]
    BY <1>0, <1>1, <1>7 DEF DownIsEmpty
  <2>2. \A u \in Hosted(k) : u # t
    BY <2>1 DEF Hosted
  <2> QED BY <1>1, <1>2, <2>1, <2>2 DEF EmptyAt, Hosted
<1>8. DownIsEmpty'
  BY <1>7 DEF DownIsEmpty
<1> QED BY <1>8, <1>3, <1>4, <1>5, <1>6, <1>7

(* The sending half: one thread at a time from AcquireSend to ReleaseSend, *)
(* and one packet between the device and its interrupt.                    *)
LEMMA SendingKeeps ==
  ASSUME OfficeInv, NEW t \in Thread,
         \/ AcquireSend(t) \/ (\E lost \in BOOLEAN : SendPacket(t, lost))
         \/ AwaitSent(t) \/ ReleaseSend(t)
  PROVE  OfficeInv'
<1> USE DEF OfficeInv, Goto
<1>0. /\ TypeOK /\ BuffersPassOn /\ SendersAlone /\ DownIsEmpty
      /\ \A k \in Machine : SendPaired(k)
      /\ Host[t] \in Machine /\ t \in Hosted(Host[t])
  BY PostOfficeAssumption DEF Hosted
<1>1. /\ UNCHANGED <<incoming, boxes, sendBusy, mail, box, mails, power>>
      /\ \E p \in {"send", "wait", "release", "idle"} : pc' = [pc EXCEPT ![t] = p]
      /\ up[Host[t]]
  <2>1. pc[t] # "idle"
    BY DEF AcquireSend, SendPacket, SendToSocket, AwaitSent, ReleaseSend
  <2>2. up[Host[t]]
    BY <1>0, <2>1 DEF DownIsEmpty, EmptyAt
  <2> QED BY <2>2 DEF AcquireSend, SendPacket, SendToSocket, AwaitSent, ReleaseSend
<1>2. /\ pc' \in [Thread -> Place] /\ \A u \in Thread \ {t} : pc'[u] = pc[u]
      /\ pc'[t] \in {"send", "wait", "release", "idle"}
  BY <1>0, <1>1 DEF TypeOK, Place
<1>3. BuffersPassOn'
  BY <1>0, <1>1 DEF BuffersPassOn
<1>4. ASSUME NEW k \in Machine, k # Host[t] PROVE SomebodyWaits(k)' <=> SomebodyWaits(k)
  BY <1>2, <1>4 DEF SomebodyWaits, Hosted
<1>5. ASSUME NEW k \in Machine, ~up'[k], wire'[k] = wire[k], sendPending'[k] = sendPending[k]
      PROVE  EmptyAt(k)'
  <2>1. k # Host[t] /\ EmptyAt(k)
    BY <1>0, <1>1, <1>5 DEF DownIsEmpty
  <2>2. \A u \in Hosted(k) : u # t
    BY <2>1 DEF Hosted
  <2> QED BY <1>1, <1>2, <1>5, <2>1, <2>2 DEF EmptyAt, Hosted
<1>6. CASE AcquireSend(t)
  <2>1. /\ pc[t] = "acquire" /\ sendLock[Host[t]] = NoThread /\ pc'[t] = "send"
        /\ sendLock' = [sendLock EXCEPT ![Host[t]] = t]
        /\ UNCHANGED <<wire, sendPending, messageSent>>
    BY <1>0, <1>6 DEF AcquireSend, LockFree, TypeOK
  <2>2. TypeOK'
    <3>1. sendLock' \in [Machine -> Thread \cup {NoThread}]
      BY <1>0, <2>1 DEF TypeOK
    <3> QED BY <1>0, <1>1, <1>2, <2>1, <3>1 DEF TypeOK
  <2>3. \A u \in Thread : Host[u] = Host[t] => ~Sending(u)
    BY <1>0, <2>1, PostOfficeAssumption DEF SendersAlone
  <2>4. SendersAlone'
    <3>1. \A u \in Thread \ {t} : Sending(u)' => Sending(u) /\ Host[u] # Host[t]
      BY <1>2, <2>3 DEF Sending
    <3>2. \A k \in Machine \ {Host[t]} : sendLock'[k] = sendLock[k]
      BY <1>0, <2>1 DEF TypeOK
    <3>3. sendLock'[Host[t]] = t /\ mail[t] \in Mail
      BY <1>0, <2>1 DEF TypeOK, SendersAlone
    <3>4. ASSUME NEW u \in Thread, Sending(u)' PROVE sendLock'[Host[u]] = u
      <4>1. Host[u] \in Machine
        BY PostOfficeAssumption
      <4> QED BY <1>0, <3>1, <3>2, <3>3, <3>4, <4>1 DEF SendersAlone
    <3> QED BY <1>0, <1>1, <1>2, <3>3, <3>4 DEF SendersAlone
  <2>5. ASSUME NEW k \in Machine PROVE SendPaired(k)'
    <3>1. SomebodyWaits(k)' <=> SomebodyWaits(k)
      BY <1>0, <1>2, <2>1 DEF SomebodyWaits, Hosted
    <3> QED BY <1>0, <2>1, <3>1 DEF SendPaired
  <2>6. DownIsEmpty'
    BY <1>5, <2>1 DEF DownIsEmpty
  <2> QED BY <1>3, <2>2, <2>4, <2>5, <2>6
<1>7. ASSUME NEW lost \in BOOLEAN, SendPacket(t, lost) PROVE OfficeInv'
  <2>1. /\ pc[t] = "send" /\ pc'[t] = "wait" /\ UNCHANGED <<sendLock, messageSent>>
        /\ sendPending' = [sendPending EXCEPT ![Host[t]] = sendPending[Host[t]] + 1]
        /\ mail[t] \in Mail /\ mail[t].to \in Machine
    BY <1>0, <1>7 DEF SendPacket, SendToSocket, Scheduled, TypeOK, SendersAlone, Mail
  <2>2. /\ wire' \in [Machine -> Seq(Mail)]
        /\ \A k \in Machine : up[k] \/ wire'[k] = wire[k]
    <3>1. CASE lost
      BY <1>0, <1>7, <3>1 DEF SendPacket, SendToSocket, TypeOK
    <3>2. CASE ~lost
      <4>1. /\ up[mail[t].to]
            /\ wire' = [wire EXCEPT ![mail[t].to] = Append(wire[mail[t].to], mail[t])]
        BY <1>0, <1>7, <2>1, <3>2 DEF SendPacket, SendToSocket, TypeOK
      <4>2. Append(wire[mail[t].to], mail[t]) \in Seq(Mail)
        BY <1>0, <2>1 DEF TypeOK
      <4> QED BY <1>0, <2>1, <4>1, <4>2 DEF TypeOK
    <3> QED BY <3>1, <3>2
  <2>3. TypeOK'
    <3>1. sendPending' \in [Machine -> Nat]
      BY <1>0, <2>1 DEF TypeOK
    <3> QED BY <1>0, <1>1, <1>2, <2>1, <2>2, <3>1 DEF TypeOK
  <2>4. SendersAlone'
    BY <1>0, <1>1, <1>2, <2>1 DEF SendersAlone, Sending
  <2>5. ASSUME NEW k \in Machine PROVE SendPaired(k)'
    <3>1. CASE k = Host[t]
      <4>1. sendPending[k] + messageSent[k] = 0 /\ sendPending[k] \in Nat /\ messageSent[k] \in Nat
        BY <2>1, <3>1, SenderAlone DEF Sending
      <4>2. sendPending'[k] = sendPending[k] + 1 /\ messageSent'[k] = messageSent[k]
        BY <1>0, <2>1, <3>1 DEF TypeOK
      <4>3. SomebodyWaits(k)'
        BY <1>0, <2>1, <3>1 DEF SomebodyWaits, Hosted
      <4> QED BY <4>1, <4>2, <4>3 DEF SendPaired
    <3>2. CASE k # Host[t]
      <4>1. sendPending'[k] = sendPending[k] /\ messageSent'[k] = messageSent[k]
        BY <1>0, <2>1, <3>2 DEF TypeOK
      <4> QED BY <1>0, <1>4, <3>2, <4>1 DEF SendPaired
    <3> QED BY <3>1, <3>2
  <2>6. DownIsEmpty'
    <3>1. \A k \in Machine : up[k] \/ sendPending'[k] = sendPending[k]
      BY <1>0, <1>1, <2>1 DEF TypeOK
    <3> QED BY <1>1, <1>5, <2>2, <3>1 DEF DownIsEmpty
  <2> QED BY <1>3, <2>3, <2>4, <2>5, <2>6
<1>8. CASE AwaitSent(t)
  <2>1. /\ pc[t] = "wait" /\ pc'[t] = "release" /\ UNCHANGED <<wire, sendPending, sendLock>>
        /\ messageSent[Host[t]] > 0
        /\ messageSent' = [messageSent EXCEPT ![Host[t]] = messageSent[Host[t]] - 1]
    BY <1>0, <1>8 DEF AwaitSent, TypeOK
  <2>2. /\ sendPending[Host[t]] + messageSent[Host[t]] = 1
        /\ \A u \in Hosted(Host[t]) \ {t} : ~Sending(u)
        /\ sendPending[Host[t]] \in Nat /\ messageSent[Host[t]] \in Nat
    BY <2>1, SenderAlone DEF Sending
  <2>3. TypeOK'
    <3>1. messageSent' \in [Machine -> Nat]
      BY <1>0, <2>1, <2>2 DEF TypeOK
    <3> QED BY <1>0, <1>1, <1>2, <2>1, <3>1 DEF TypeOK
  <2>4. SendersAlone'
    BY <1>0, <1>1, <1>2, <2>1 DEF SendersAlone, Sending
  <2>5. ASSUME NEW k \in Machine PROVE SendPaired(k)'
    <3>1. CASE k = Host[t]
      <4>1. sendPending'[k] = sendPending[k] /\ messageSent'[k] = messageSent[k] - 1
        BY <1>0, <2>1, <3>1 DEF TypeOK
      <4>2. ~SomebodyWaits(k)'
        BY <1>2, <2>1, <2>2, <3>1 DEF SomebodyWaits, Hosted, Sending
      <4> QED BY <2>2, <3>1, <4>1, <4>2 DEF SendPaired
    <3>2. CASE k # Host[t]
      <4>1. sendPending'[k] = sendPending[k] /\ messageSent'[k] = messageSent[k]
        BY <1>0, <2>1, <3>2 DEF TypeOK
      <4> QED BY <1>0, <1>4, <3>2, <4>1 DEF SendPaired
    <3> QED BY <3>1, <3>2
  <2>6. DownIsEmpty'
    BY <1>5, <2>1 DEF DownIsEmpty
  <2> QED BY <1>3, <2>3, <2>4, <2>5, <2>6
<1>9. CASE ReleaseSend(t)
  <2>1. /\ pc[t] = "release" /\ pc'[t] = "idle" /\ UNCHANGED <<wire, sendPending, messageSent>>
        /\ sendLock' = [sendLock EXCEPT ![Host[t]] = NoThread]
    BY <1>0, <1>9 DEF ReleaseSend, TypeOK
  <2>2. \A u \in Hosted(Host[t]) \ {t} : ~Sending(u)
    BY <2>1, SenderAlone DEF Sending
  <2>3. TypeOK'
    <3>1. sendLock' \in [Machine -> Thread \cup {NoThread}]
      BY <1>0, <2>1 DEF TypeOK
    <3> QED BY <1>0, <1>1, <1>2, <2>1, <3>1 DEF TypeOK
  <2>4. SendersAlone'
    <3>1. \A u \in Thread : Sending(u)' => Sending(u) /\ Host[u] # Host[t]
      BY <1>2, <2>1, <2>2 DEF Sending, Hosted
    <3>2. \A k \in Machine \ {Host[t]} : sendLock'[k] = sendLock[k]
      BY <1>0, <2>1 DEF TypeOK
    <3>3. ASSUME NEW u \in Thread, Sending(u)' PROVE sendLock'[Host[u]] = u
      <4>1. Host[u] \in Machine
        BY PostOfficeAssumption
      <4> QED BY <1>0, <3>1, <3>2, <3>3, <4>1 DEF SendersAlone
    <3> QED BY <1>0, <1>1, <1>2, <2>1, <3>3 DEF SendersAlone
  <2>5. ASSUME NEW k \in Machine PROVE SendPaired(k)'
    <3>1. SomebodyWaits(k)' <=> SomebodyWaits(k)
      BY <1>0, <1>2, <2>1 DEF SomebodyWaits, Hosted
    <3> QED BY <1>0, <2>1, <3>1 DEF SendPaired
  <2>6. DownIsEmpty'
    BY <1>5, <2>1 DEF DownIsEmpty
  <2> QED BY <1>3, <2>3, <2>4, <2>5, <2>6
<1> QED BY <1>6, <1>7, <1>8, <1>9

LEMMA SendInterruptKeeps ==
  ASSUME OfficeInv, NEW m \in Machine, SendInterrupt(m)
  PROVE  OfficeInv'
<1> USE DEF OfficeInv
<1>0. /\ TypeOK /\ BuffersPassOn /\ SendersAlone /\ DownIsEmpty
      /\ \A k \in Machine : SendPaired(k)
  OBVIOUS
<1>1. /\ UNCHANGED <<wire, incoming, boxes, sendLock, caller, power>> /\ sendPending[m] > 0
      /\ sendPending' = [sendPending EXCEPT ![m] = sendPending[m] - 1]
      /\ messageSent' = [messageSent EXCEPT ![m] = messageSent[m] + 1]
  BY <1>0 DEF SendInterrupt, Posted, TypeOK
<1>2. sendPending[m] \in Nat /\ messageSent[m] \in Nat /\ up[m]
  BY <1>0, <1>1 DEF TypeOK, DownIsEmpty, EmptyAt
<1>3. TypeOK'
  <2>1. sendPending' \in [Machine -> Nat] /\ messageSent' \in [Machine -> Nat]
    BY <1>0, <1>1, <1>2 DEF TypeOK
  <2>2. sendBusy' \in [Machine -> BOOLEAN]
    BY <1>0 DEF SendInterrupt, TypeOK
  <2> QED BY <1>0, <1>1, <2>1, <2>2 DEF TypeOK
<1>4. BuffersPassOn' /\ SendersAlone'
  BY <1>0, <1>1 DEF BuffersPassOn, SendersAlone, Sending
<1>5. ASSUME NEW k \in Machine PROVE SendPaired(k)'
  <2>1. SomebodyWaits(k)' <=> SomebodyWaits(k)
    BY <1>1 DEF SomebodyWaits, Hosted
  <2>2. sendPending'[k] + messageSent'[k] = sendPending[k] + messageSent[k]
    BY <1>0, <1>1, <1>2 DEF TypeOK
  <2> QED BY <1>0, <2>1, <2>2 DEF SendPaired
<1>6. DownIsEmpty'
  <2>1. \A k \in Machine \ {m} : sendPending'[k] = sendPending[k]
    BY <1>0, <1>1 DEF TypeOK
  <2> QED BY <1>0, <1>1, <1>2, <2>1 DEF DownIsEmpty, EmptyAt, Hosted
<1> QED BY <1>3, <1>4, <1>5, <1>6

LEMMA OfficeInvStep == OfficeInv /\ [Next]_vars => OfficeInv'
<1> SUFFICES ASSUME OfficeInv, [Next]_vars PROVE OfficeInv'
  OBVIOUS
<1>0. TypeOK
  BY DEF OfficeInv
<1>1. ASSUME NEW m \in Machine, Boot(m) PROVE OfficeInv'
  <2>1. boots' \in 0 .. MaxBoots
    BY <1>0, <1>1, PostOfficeAssumption DEF Boot, TypeOK
  <2> QED BY <1>1, <2>1, EmptiedKeeps DEF Boot
<1>2. ASSUME NEW m \in Machine, Stop(m) \/ IllegalMail(m) PROVE OfficeInv'
  <2>1. boots' \in 0 .. MaxBoots
    BY <1>0, <1>2 DEF Stop, IllegalMail, Down, TypeOK
  <2> QED BY <1>2, <2>1, EmptiedKeeps DEF Stop, IllegalMail, Down
<1>3. ASSUME NEW m \in Machine, MachineStep(m), ~IllegalMail(m) PROVE OfficeInv'
  BY <1>3, ReceivingKeeps, SendInterruptKeeps DEF MachineStep, Worker
<1>4. ASSUME NEW t \in Thread, ThreadStep(t) PROVE OfficeInv'
  BY <1>4, CallsKeep, SendingKeeps DEF ThreadStep
<1>5. CASE UNCHANGED vars
  BY <1>5 DEF vars, OfficeInv, TypeOK, BuffersPassOn, SendersAlone, Sending, SendPaired,
              SomebodyWaits, DownIsEmpty, EmptyAt, Hosted
<1> QED BY <1>1, <1>2, <1>3, <1>4, <1>5, CallsKeep DEF Next

(* Counting the threads that wait for their packet to be gone.             *)
LEMMA WaitingCounted == OfficeInv => DeviceExact
<1> SUFFICES ASSUME OfficeInv PROVE DeviceExact
  OBVIOUS
<1>1. BufferAnnounced
  BY DEF OfficeInv, BufferAnnounced, BuffersPassOn
<1>2. ASSUME NEW m \in Machine
      PROVE  LET waiting == {t \in Thread : Host[t] = m /\ pc[t] = "wait"}
             IN  /\ Cardinality(waiting) <= 1
                 /\ sendPending[m] + messageSent[m] = Cardinality(waiting)
                 /\ \A t \in waiting : sendLock[m] = t
  <2> DEFINE waiting == {t \in Thread : Host[t] = m /\ pc[t] = "wait"}
  <2>1. SendPaired(m) /\ \A t \in waiting : sendLock[m] = t
    BY DEF OfficeInv, SendersAlone, Sending
  <2>2. CASE SomebodyWaits(m)
    <3>1. PICK t \in Thread : Host[t] = m /\ pc[t] = "wait"
      BY <2>2 DEF SomebodyWaits, Hosted
    <3>2. waiting = {t}
      BY <2>1, <3>1
    <3>3. Cardinality(waiting) = 1
      BY <3>2, FS_Singleton
    <3> QED BY <2>1, <2>2, <3>3 DEF SendPaired
  <2>3. CASE ~SomebodyWaits(m)
    <3>1. waiting = {}
      BY <2>3 DEF SomebodyWaits, Hosted
    <3>2. Cardinality(waiting) = 0
      BY <3>1, FS_EmptySet
    <3> QED BY <2>1, <2>3, <3>2 DEF SendPaired
  <2> QED BY <2>2, <2>3
<1> QED BY <1>1, <1>2 DEF DeviceExact, OnePacketOut

(* A packet in the device's buffer is announced once and to a worker that  *)
(* comes for it; one packet at a time goes out of a machine, and its       *)
(* interrupt wakes its sender (post.cc, network.cc).                       *)
THEOREM DeviceIsExact == Spec => []DeviceExact
<1>1. Spec => []OfficeInv
  BY OfficeInvInit, OfficeInvStep, PTL DEF Spec
<1> QED BY <1>1, WaitingCounted, PTL

----------------------------------------------------------------------------
(* The post offices as a lossy mail service.                               *)

(* What is on its way: in the worker's hands, in the buffer, in the socket.*)
Way(p, h, w) == Held(p) \o Held(h) \o w

(* How the three of them change, seen as one sequence.                     *)
LEMMA WaySteps ==
  ASSUME NEW p \in Mail \cup {NoMail}, NEW h \in Mail \cup {NoMail}, NEW w \in Seq(Mail)
  PROVE  /\ Way(p, h, w) \in Seq(Mail)
         /\ p = NoMail /\ h = NoMail /\ w = <<>> => Way(p, h, w) = <<>>
         /\ h = NoMail /\ w # <<>> => Way(p, Head(w), Tail(w)) = Way(p, h, w)
         /\ p = NoMail => Way(h, NoMail, w) = Way(p, h, w)
         /\ p # NoMail => /\ Way(p, h, w) # <<>> /\ Head(Way(p, h, w)) = p
                          /\ Tail(Way(p, h, w)) = Way(NoMail, h, w)
         /\ \A x \in Mail : Way(p, h, Append(w, x)) = Append(Way(p, h, w), x)
<1>0. NoMail \notin Mail
  BY PostOfficeAssumption DEF Mail
<1>1. Held(NoMail) = <<>> /\ \A v \in Mail : Held(v) = <<v>>
  BY <1>0 DEF Held
<1>2. \A s \in Seq(Mail) : <<>> \o s = s
  OBVIOUS
<1>3. Held(p) \in Seq(Mail) /\ Held(h) \in Seq(Mail) /\ Held(p) \o Held(h) \in Seq(Mail)
  <2>1. ASSUME NEW v \in Mail \cup {NoMail} PROVE Held(v) \in Seq(Mail)
    <3>1. CASE v = NoMail
      BY <1>1, <3>1
    <3>2. CASE v \in Mail
      BY <1>0, <3>2 DEF Held
    <3> QED BY <3>1, <3>2
  <2> QED BY <2>1
<1>4. Way(p, h, w) \in Seq(Mail)
  BY <1>3 DEF Way
<1>5. p = NoMail /\ h = NoMail /\ w = <<>> => Way(p, h, w) = <<>>
  BY <1>1 DEF Way
<1>6. ASSUME h = NoMail, w # <<>> PROVE Way(p, Head(w), Tail(w)) = Way(p, h, w)
  <2>1. Head(w) \in Mail /\ Tail(w) \in Seq(Mail) /\ <<Head(w)>> \o Tail(w) = w
    BY <1>6
  <2>2. Held(Head(w)) = <<Head(w)>> /\ <<Head(w)>> \in Seq(Mail)
    BY <1>1, <2>1
  <2>3. \A a, b, c \in Seq(Mail) : (a \o b) \o c = a \o (b \o c) /\ a \o <<>> = a
    OBVIOUS
  <2>4. (Held(p) \o Held(Head(w))) \o Tail(w) = Held(p) \o (Held(Head(w)) \o Tail(w))
    <3>1. Held(p) \in Seq(Mail) /\ Held(Head(w)) \in Seq(Mail) /\ Tail(w) \in Seq(Mail)
      BY <1>3, <2>1, <2>2
    <3> QED BY <3>1, <2>3, Zenon
  <2>5. Way(p, Head(w), Tail(w)) = Held(p) \o w
    BY <2>1, <2>2, <2>4 DEF Way
  <2>6. Way(p, h, w) = Held(p) \o w
    BY <1>1, <1>3, <1>6, <2>3 DEF Way
  <2> QED BY <2>5, <2>6
<1>7. ASSUME p = NoMail PROVE Way(h, NoMail, w) = Way(p, h, w)
  BY <1>1, <1>2, <1>7 DEF Way
<1>8. ASSUME p # NoMail
      PROVE  /\ Way(p, h, w) # <<>> /\ Head(Way(p, h, w)) = p
             /\ Tail(Way(p, h, w)) = Way(NoMail, h, w)
  <2> DEFINE rest == Held(h) \o w
  <2>1. rest \in Seq(Mail) /\ Held(p) = <<p>> /\ p \in Mail
    BY <1>1, <1>3, <1>8
  <2>2. Way(p, h, w) = <<p>> \o rest /\ Way(NoMail, h, w) = rest
    BY <1>1, <1>2, <1>3, <2>1 DEF Way
  <2> HIDE DEF rest
  <2>3. <<p>> \o rest # <<>> /\ Head(<<p>> \o rest) = p /\ Tail(<<p>> \o rest) = rest
    BY <2>1
  <2> QED BY <2>2, <2>3
<1>9. ASSUME NEW x \in Mail PROVE Way(p, h, Append(w, x)) = Append(Way(p, h, w), x)
  <2> DEFINE ph == Held(p) \o Held(h)
  <2>1. ph \in Seq(Mail)
    BY <1>3
  <2> HIDE DEF ph
  <2>2. ph \o Append(w, x) = Append(ph \o w, x)
    BY <2>1
  <2> QED BY <2>2 DEF Way, ph
<1> QED BY <1>4, <1>5, <1>6, <1>7, <1>8, <1>9

Transit == [m \in Machine |-> Way(parcel[m], inHdr[m], wire[m])]
StageOf == [t \in Thread |-> Stage(t)]

(* A step of a thread, seen from its caller.                               *)
LEMMA StageStep ==
  ASSUME OfficeInv, NEW t \in Thread, NEW place \in Place, Goto(t, place)
  PROVE  /\ StageOf[t] = Stage(t)
         /\ StageOf' = [StageOf EXCEPT ![t] =
                          CASE place = "idle" -> "none"
                            [] place \in {"acquire", "send"} -> "sending"
                            [] place \in {"wait", "release"} -> "sent"
                            [] place = "receive" -> "receiving"
                            [] OTHER -> "received"]
<1>1. pc \in [Thread -> Place] /\ pc' = [pc EXCEPT ![t] = place]
  BY DEF OfficeInv, TypeOK, Goto
<1>2. pc'[t] = place /\ \A u \in Thread \ {t} : pc'[u] = pc[u]
  BY <1>1
<1> QED BY <1>2 DEF StageOf, Stage

(* What the steps of the receiving half do to the mail on its way to m:    *)
(* nothing, ...                                                            *)
LEMMA TransitStays ==
  ASSUME OfficeInv, NEW m \in Machine,
         ReceiveInterrupt(m) \/ AwaitMessage(m) \/ ReceivePacket(m)
  PROVE  Transit' = Transit
<1>0. TypeOK
  BY DEF OfficeInv
<1>1. /\ parcel[m] \in Mail \cup {NoMail} /\ inHdr[m] \in Mail \cup {NoMail}
      /\ wire[m] \in Seq(Mail)
  BY <1>0 DEF TypeOK
<1>2. CASE ReceiveInterrupt(m)
  <2>1. /\ inHdr[m] = NoMail /\ wire[m] # <<>>
        /\ inHdr' = [inHdr EXCEPT ![m] = Head(wire[m])]
        /\ wire' = [wire EXCEPT ![m] = Tail(wire[m])] /\ parcel' = parcel
    BY <1>2 DEF ReceiveInterrupt, PollSocket, ReadFromSocket, LeftInSocket, BufferEmpty
  <2>2. inHdr[m] = NoMail /\ wire[m] # <<>>
          => Way(parcel[m], Head(wire[m]), Tail(wire[m])) = Way(parcel[m], inHdr[m], wire[m])
    BY <1>1, WaySteps
  <2>3. \A k \in Machine : Way(parcel'[k], inHdr'[k], wire'[k]) = Way(parcel[k], inHdr[k], wire[k])
    BY <1>0, <2>1, <2>2 DEF TypeOK
  <2> QED BY <2>3 DEF Transit
<1>3. CASE AwaitMessage(m)
  BY <1>3 DEF AwaitMessage, Transit
<1>4. CASE ReceivePacket(m)
  <2>1. /\ worker[m] = "receive" /\ parcel' = [parcel EXCEPT ![m] = inHdr[m]]
        /\ inHdr' = [inHdr EXCEPT ![m] = NoMail] /\ wire' = wire
    BY <1>4 DEF ReceivePacket
  <2>2. parcel[m] = NoMail
    BY <2>1, BufferStates
  <2>3. Way(inHdr[m], NoMail, wire[m]) = Way(parcel[m], inHdr[m], wire[m])
    BY <1>1, <2>2, WaySteps
  <2>4. \A k \in Machine : Way(parcel'[k], inHdr'[k], wire'[k]) = Way(parcel[k], inHdr[k], wire[k])
    BY <1>0, <2>1, <2>3 DEF TypeOK
  <2> QED BY <2>4 DEF Transit
<1> QED BY <1>2, <1>3, <1>4

(* ... but for the delivery of the first one.                              *)
LEMMA TransitDelivers ==
  ASSUME OfficeInv, NEW m \in Machine, PutMail(m)
  PROVE  /\ Transit[m] # <<>> /\ Head(Transit[m]) = parcel[m]
         /\ Transit' = [Transit EXCEPT ![m] = Tail(Transit[m])]
<1>0. TypeOK
  BY DEF OfficeInv
<1>1. /\ parcel[m] \in Mail \cup {NoMail} /\ inHdr[m] \in Mail \cup {NoMail}
      /\ wire[m] \in Seq(Mail)
  BY <1>0 DEF TypeOK
<1>2. /\ worker[m] = "put" /\ parcel' = [parcel EXCEPT ![m] = NoMail]
      /\ UNCHANGED <<inHdr, wire>>
  BY DEF PutMail
<1>3. parcel[m] # NoMail
  BY <1>2, BufferStates
<1>4. /\ Transit[m] = Way(parcel[m], inHdr[m], wire[m])
      /\ Transit[m] # <<>> /\ Head(Transit[m]) = parcel[m]
      /\ Tail(Transit[m]) = Way(NoMail, inHdr[m], wire[m])
  BY <1>1, <1>3, WaySteps DEF Transit
<1>5. /\ Way(parcel'[m], inHdr'[m], wire'[m]) = Tail(Transit[m])
      /\ \A k \in Machine \ {m} :
           Way(parcel'[k], inHdr'[k], wire'[k]) = Way(parcel[k], inHdr[k], wire[k])
  BY <1>0, <1>2, <1>4 DEF TypeOK
<1>6. Transit' = [Transit EXCEPT ![m] = Tail(Transit[m])]
  BY <1>5 DEF Transit
<1> QED BY <1>4, <1>6

(* A machine that starts changes nothing but itself; one that ends takes   *)
(* what it holds, and what is on its way to it, along.                     *)
LEMMA EndSteps ==
  ASSUME OfficeInv, NEW m \in Machine, Emptied(m), EmptyAt(m)'
  PROVE  /\ Transit' = [Transit EXCEPT ![m] = <<>>]
         /\ boxes' = [boxes EXCEPT ![m] = [b \in Box |-> <<>>]]
         /\ StageOf' = [t \in Thread |-> IF Host[t] = m THEN "none" ELSE StageOf[t]]
         /\ mail' = [t \in Thread |-> IF Host[t] = m THEN NoMail ELSE mail[t]]
         /\ EmptyAt(m) => UNCHANGED <<Transit, boxes, StageOf, mail>>
<1>0. TypeOK
  BY DEF OfficeInv
<1>1. Way(NoMail, NoMail, <<>>) = <<>>
  <2>1. NoMail \in Mail \cup {NoMail} /\ <<>> \in Seq(Mail)
    OBVIOUS
  <2> QED BY <2>1, WaySteps
<1>2. /\ Way(parcel'[m], inHdr'[m], wire'[m]) = <<>>
      /\ \A k \in Machine \ {m} :
           Way(parcel'[k], inHdr'[k], wire'[k]) = Way(parcel[k], inHdr[k], wire[k])
  BY <1>0, <1>1 DEF EmptyAt, Emptied, OpenSocket, TypeOK
<1>3. Transit' = [Transit EXCEPT ![m] = <<>>]
  BY <1>2 DEF Transit
<1>4. StageOf' = [t \in Thread |-> IF Host[t] = m THEN "none" ELSE StageOf[t]]
  BY DEF Emptied, OpenSocket, StageOf, Stage
<1>5. ASSUME EmptyAt(m) PROVE UNCHANGED <<Transit, boxes, StageOf, mail>>
  <2>1. Transit[m] = <<>> /\ boxes[m] = [b \in Box |-> <<>>]
    BY <1>1, <1>5 DEF EmptyAt, Transit
  <2>2. Transit' = Transit
    BY <1>3, <2>1 DEF Transit
  <2>3. boxes' = boxes
    BY <1>0, <2>1 DEF Emptied, OpenSocket, TypeOK
  <2>4. \A t \in Thread : Host[t] = m => Stage(t) = "none" /\ mail[t] = NoMail
    BY <1>5 DEF EmptyAt, Hosted, Stage
  <2>5. StageOf' = StageOf
    BY <1>4, <2>4 DEF StageOf
  <2>6. mail' = mail
    BY <1>0, <2>4 DEF Emptied, OpenSocket, TypeOK
  <2> QED BY <2>2, <2>3, <2>5, <2>6
<1> QED BY <1>3, <1>4, <1>5 DEF Emptied, OpenSocket

(* Mail arrives in the order it was sent and at most once, and only the    *)
(* wire and the end of a machine lose any ("in order but unreliably",      *)
(* network.h).                                                             *)
THEOREM MailIsImplemented == Spec => ImplementsMail
<1> USE DEF Promised!mailVars
<1>0. Transit = [m \in Machine |-> Held(parcel[m]) \o Held(inHdr[m]) \o wire[m]]
  BY DEF Transit, Way
<1>1. Init => Promised!MailInit
  <2> SUFFICES ASSUME Init PROVE Promised!MailInit
    OBVIOUS
  <2>1. Held(NoMail) \o Held(NoMail) \o <<>> = <<>>
    BY DEF Held
  <2> QED BY <2>1 DEF Init, Promised!MailInit, Stage
<1>2. OfficeInv /\ [Next]_vars => [Promised!MailNext]_(Promised!mailVars)
  <2> SUFFICES ASSUME OfficeInv, [Next]_vars
               PROVE  [Promised!MailNext]_(Promised!mailVars)
    OBVIOUS
  <2> USE DEF Promised!Move
  <2>0. TypeOK /\ OfficeInv'
    BY OfficeInvStep DEF OfficeInv
  <2>a. \A m \in Machine : Promised!Start(m) \/ Promised!End(m) \/ Promised!Deliver(m)
                          => Promised!MailNext
    BY DEF Promised!MailNext
  <2>b. \A t \in Thread : \/ Promised!Submit(t) \/ Promised!Transmit(t) \/ Promised!Lose(t)
                         \/ Promised!Return(t) \/ Promised!Expect(t) \/ Promised!Collect(t)
                         => Promised!MailNext
    BY DEF Promised!MailNext
  <2>1. ASSUME NEW m \in Machine, Boot(m) PROVE Promised!Start(m)
    <3>1. EmptyAt(m) /\ EmptyAt(m)'
      <4>1. boots' \in 0 .. MaxBoots
        BY <2>0 DEF OfficeInv, TypeOK
      <4> QED BY <2>1, <4>1, EmptiedKeeps DEF Boot, OfficeInv, DownIsEmpty
    <3>2. UNCHANGED <<Transit, boxes, StageOf, mail>>
      BY <2>1, <3>1, EndSteps DEF Boot
    <3> QED BY <2>1, <3>2, <1>0 DEF Boot, Promised!Start, StageOf, Transit, Way
  <2>2. ASSUME NEW m \in Machine, Stop(m) \/ IllegalMail(m) PROVE Promised!End(m)
    <3>1. up[m]
      BY <2>2, BufferStates DEF Stop, IllegalMail
    <3>2. Emptied(m) /\ up' = [up EXCEPT ![m] = FALSE]
      BY <2>2 DEF Stop, IllegalMail, Down
    <3>3. EmptyAt(m)'
      <4>1. boots' \in 0 .. MaxBoots
        BY <2>0 DEF OfficeInv, TypeOK
      <4> QED BY <3>2, <4>1, EmptiedKeeps
    <3> QED BY <3>1, <3>2, <3>3, EndSteps DEF Promised!End, StageOf, Transit, Way
  <2>3. ASSUME NEW m \in Machine, ReceiveInterrupt(m) \/ AwaitMessage(m) \/ ReceivePacket(m)
        PROVE  UNCHANGED Promised!mailVars
    <3>1. Transit' = Transit
      BY <2>3, TransitStays
    <3>2. UNCHANGED <<boxes, pc, mail, up>>
      BY <2>3 DEF ReceiveInterrupt, PollSocket, ReadFromSocket, LeftInSocket, AwaitMessage, ReceivePacket
    <3> QED BY <3>1, <3>2 DEF Transit, Way, Stage
  <2>4. ASSUME NEW m \in Machine, PutMail(m) PROVE Promised!Deliver(m)
    <3>1. /\ Transit[m] # <<>> /\ Head(Transit[m]) = parcel[m]
          /\ Transit' = [Transit EXCEPT ![m] = Tail(Transit[m])]
      BY <2>4, TransitDelivers
    <3>2. /\ parcel[m].box \in Box /\ UNCHANGED <<pc, mail, up>>
          /\ boxes' = [boxes EXCEPT ![m][parcel[m].box] = Append(@, parcel[m])]
      BY <2>4 DEF PutMail
    <3> QED BY <3>1, <3>2 DEF Promised!Deliver, Transit, Way, Stage
  <2>5. ASSUME NEW m \in Machine, SendInterrupt(m) PROVE UNCHANGED Promised!mailVars
    BY <2>5 DEF SendInterrupt, Stage
  <2>6. ASSUME NEW t \in Thread, NEW m \in Machine, NEW b \in Address, CallSend(t, m, b)
        PROVE  Promised!Submit(t)
    <3>1. StageOf' = [StageOf EXCEPT ![t] = "sending"] /\ StageOf[t] = "none"
      BY <2>6, StageStep DEF CallSend, Place, Stage
    <3>2. [from |-> Host[t], to |-> m, box |-> b, id |-> mails + 1] \in Mail
      <4>1. mails + 1 \in 1 .. MaxMails
        BY <2>0, <2>6, PostOfficeAssumption DEF CallSend, TypeOK
      <4> QED BY <4>1, PostOfficeAssumption DEF Mail
    <3> QED BY <2>6, <3>1, <3>2 DEF CallSend, Promised!Submit, StageOf
  <2>7. ASSUME NEW t \in Thread, NEW b \in Box, CallReceive(t, b) PROVE Promised!Expect(t)
    <3>1. StageOf' = [StageOf EXCEPT ![t] = "receiving"] /\ StageOf[t] = "none"
      BY <2>7, StageStep DEF CallReceive, Place, Stage
    <3> QED BY <2>7, <3>1 DEF CallReceive, Promised!Expect, StageOf
  <2>8. ASSUME NEW t \in Thread, GetMail(t) PROVE Promised!Collect(t)
    <3>1. StageOf' = [StageOf EXCEPT ![t] = "received"] /\ StageOf[t] = "receiving"
      BY <2>8, StageStep DEF GetMail, Place, Stage
    <3>2. box[t] \in Box
      BY <2>0 DEF TypeOK
    <3> QED BY <2>8, <3>1, <3>2 DEF GetMail, Promised!Collect, StageOf
  <2>9. ASSUME NEW t \in Thread, ReturnMail(t) \/ ReleaseSend(t) PROVE Promised!Return(t)
    <3>1. StageOf' = [StageOf EXCEPT ![t] = "none"] /\ StageOf[t] \in {"sent", "received"}
      BY <2>9, StageStep DEF ReturnMail, ReleaseSend, Place, Stage
    <3> QED BY <2>9, <3>1 DEF ReturnMail, ReleaseSend, Promised!Return, StageOf
  <2>10. ASSUME NEW t \in Thread, AcquireSend(t) \/ AwaitSent(t)
         PROVE  UNCHANGED Promised!mailVars
    <3>1. StageOf' = [StageOf EXCEPT ![t] = StageOf[t]]
      BY <2>10, StageStep DEF AcquireSend, AwaitSent, Place, Stage
    <3>2. StageOf' = StageOf
      BY <3>1 DEF StageOf
    <3> QED BY <2>10, <3>2 DEF AcquireSend, AwaitSent, StageOf
  <2>11. ASSUME NEW t \in Thread, NEW lost \in BOOLEAN, SendPacket(t, lost)
         PROVE  Promised!Transmit(t) \/ Promised!Lose(t)
    <3>1. StageOf' = [StageOf EXCEPT ![t] = "sent"] /\ StageOf[t] = "sending"
      BY <2>11, StageStep DEF SendPacket, SendToSocket, Place, Stage
    <3>2. CASE lost
      BY <2>11, <3>1, <3>2 DEF SendPacket, SendToSocket, Promised!Lose, StageOf
    <3>3. CASE ~lost
      <4> DEFINE to == mail[t].to
      <4>1. mail[t] \in Mail /\ to \in Machine /\ up[to]
        BY <2>11, <3>3 DEF SendPacket, SendToSocket, OfficeInv, SendersAlone, Mail
      <4>2. /\ parcel[to] \in Mail \cup {NoMail} /\ inHdr[to] \in Mail \cup {NoMail}
            /\ wire[to] \in Seq(Mail)
        BY <2>0, <4>1 DEF TypeOK
      <4>3. wire' = [wire EXCEPT ![to] = Append(wire[to], mail[t])] /\ UNCHANGED <<parcel, inHdr>>
        BY <2>11, <3>3 DEF SendPacket, SendToSocket
      <4>4. Way(parcel[to], inHdr[to], Append(wire[to], mail[t]))
              = Append(Way(parcel[to], inHdr[to], wire[to]), mail[t])
        <5>1. \A x \in Mail : Way(parcel[to], inHdr[to], Append(wire[to], x))
                              = Append(Way(parcel[to], inHdr[to], wire[to]), x)
          BY <4>2, WaySteps
        <5> QED BY <4>1, <5>1
      <4> HIDE DEF to
      <4>5. Transit' = [Transit EXCEPT ![to] = Append(Transit[to], mail[t])]
        BY <2>0, <4>1, <4>3, <4>4 DEF Transit, TypeOK
      <4> QED BY <2>11, <3>1, <4>1, <4>5 DEF SendPacket, SendToSocket, Promised!Transmit, StageOf, Transit, Way, to
    <3> QED BY <3>2, <3>3
  <2>12. CASE UNCHANGED vars
    BY <2>12 DEF vars, Stage
  <2> QED BY <2>a, <2>b, <2>1, <2>2, <2>3, <2>4, <2>5, <2>6, <2>7, <2>8, <2>9, <2>10, <2>11, <2>12
          DEF Next, MachineStep, Worker, ThreadStep
<1>3. Spec => []OfficeInv
  BY OfficeInvInit, OfficeInvStep, PTL DEF Spec
<1> QED BY <1>1, <1>2, <1>3, PTL DEF Spec, ImplementsMail, Promised!MailSpec
=============================================================================
