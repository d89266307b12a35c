----------------------------- MODULE PostOffice -----------------------------
(* The network: the simulated devices of machine/network.cc and the post   *)
(* offices of network/post.cc, one per machine, with threads that send and *)
(* receive mail.                                                           *)
(*                                                                         *)
(* Each machine is a process of its own, which may end and be started      *)
(* again at any time; they share only the UNIX datagram sockets.           *)
(* Mailboxes are SynchLists, taken as atomic queues (SynchList implements  *)
(* FifoQueue); the send lock is the abstract one of MutexLock, semaphores  *)
(* are their values.  A step ends at a tick.                               *)
EXTENDS Naturals, Sequences, FiniteSets

CONSTANTS Machine, Thread, NoThread,
          Host,        \* the machine each thread runs on
          Box,         \* the mailboxes of a post office
          Address,     \* the numbers that mail is sent to
          NoMail,      \* an empty buffer (inHdr.length = 0)
          MaxMails,    \* bound on the calls of Send
          MaxBoots,    \* bound on the starts of machines
          Lossy        \* may packets get lost (reliability < 1)?

ASSUME PostOfficeAssumption ==
  /\ NoThread \notin Thread
  /\ Host \in [Thread -> Machine]
  /\ MaxMails \in Nat /\ MaxBoots \in Nat
  /\ Box \subseteq Address /\ Box # {}
  /\ Lossy \in BOOLEAN
  /\ NoMail \notin [from : Machine, to : Machine, box : Address, id : 1 .. MaxMails]

VARIABLES
  wire,         \* packets in each machine's socket
  inHdr,        \* NetworkInput::inHdr and inbox: the packet buffered
  available,    \* the value of PostOfficeInput::messageAvailable
  worker,       \* where each postal worker stands
  parcel,       \* the worker's buffer
  boxes,        \* PostOfficeInput::boxes
  sendBusy,     \* NetworkOutput::sendBusy, "Packet is being sent."
  sendPending,  \* pending interrupts of NetworkOutput
  sendLock,     \* the holder of PostOfficeOutput::sendLock
  messageSent,  \* the value of PostOfficeOutput::messageSent
  pc,           \* where each thread stands
  mail,         \* the mail a thread sends, or received
  box,          \* the mailbox a thread waits on
  mails,        \* calls of Send so far
  up,           \* which machines run
  boots         \* starts of machines so far

incoming == <<inHdr, available, worker, parcel>>
outgoing == <<sendBusy, sendPending, sendLock, messageSent>>
caller == <<pc, mail, box, mails>>
power == <<up, boots>>
vars == <<wire, incoming, boxes, outgoing, caller, power>>

Mail == [from : Machine, to : Machine, box : Address, id : 1 .. MaxMails]
Place == {"idle", "acquire", "send", "wait", "release", "receive", "received"}

Init ==
  /\ wire = [m \in Machine |-> <<>>]
  /\ inHdr = [m \in Machine |-> NoMail]
  /\ available = [m \in Machine |-> 0]
  /\ worker = [m \in Machine |-> "wait"]
  /\ parcel = [m \in Machine |-> NoMail]
  /\ boxes = [m \in Machine |-> [b \in Box |-> <<>>]]
  /\ sendBusy = [m \in Machine |-> FALSE]
  /\ sendPending = [m \in Machine |-> 0]
  /\ sendLock = [m \in Machine |-> NoThread]
  /\ messageSent = [m \in Machine |-> 0]
  /\ pc = [t \in Thread |-> "idle"]
  /\ mail = [t \in Thread |-> NoMail]
  /\ box \in [Thread -> {CHOOSE b \in Box : TRUE}]
  /\ mails = 0
  /\ up = [m \in Machine |-> FALSE] /\ boots = 0

Goto(t, place) == pc' = [pc EXCEPT ![t] = place]

----------------------------------------------------------------------------
(* The sockets of lib/sysdep.cc.  A machine opens a new one under its name *)
(* (AssignNameToSocket unlinks the old name); packets are whole and stay   *)
(* in order.  SendToSocket finds no socket of that name while the machine  *)
(* is not up, retries for a while and drops the packet.                    *)
OpenSocket == <<>>
PollSocket(m) == wire[m] # <<>>
ReadFromSocket(m) == Head(wire[m])
LeftInSocket(m) == [wire EXCEPT ![m] = Tail(@)]
SendToSocket(p) == [wire EXCEPT ![p.to] = Append(@, p)]

(* A machine starts with everything empty and an empty socket.  When its   *)
(* process ends (Halt, control-C, a failed ASSERT) all that is gone, with  *)
(* the packets in its socket.                                              *)
Emptied(m) ==
  /\ wire' = [wire EXCEPT ![m] = OpenSocket]
  /\ inHdr' = [inHdr EXCEPT ![m] = NoMail]
  /\ available' = [available EXCEPT ![m] = 0]
  /\ worker' = [worker EXCEPT ![m] = "wait"]
  /\ parcel' = [parcel EXCEPT ![m] = NoMail]
  /\ boxes' = [boxes EXCEPT ![m] = [b \in Box |-> <<>>]]
  /\ sendBusy' = [sendBusy EXCEPT ![m] = FALSE]
  /\ sendPending' = [sendPending EXCEPT ![m] = 0]
  /\ sendLock' = [sendLock EXCEPT ![m] = NoThread]
  /\ messageSent' = [messageSent EXCEPT ![m] = 0]
  /\ pc' = [t \in Thread |-> IF Host[t] = m THEN "idle" ELSE pc[t]]
  /\ mail' = [t \in Thread |-> IF Host[t] = m THEN NoMail ELSE mail[t]]
  /\ UNCHANGED <<box, mails>>

Boot(m) ==
  /\ ~up[m] /\ boots < MaxBoots
  /\ up' = [up EXCEPT ![m] = TRUE] /\ boots' = boots + 1
  /\ Emptied(m)

Down(m) == up' = [up EXCEPT ![m] = FALSE] /\ Emptied(m) /\ UNCHANGED boots
Stop(m) == up[m] /\ Down(m)

----------------------------------------------------------------------------
(* Receiving: NetworkInput::CallBack polls for ever; it leaves a packet in *)
(* the socket while another is buffered.                                   *)
BufferIgnored(m) == TRUE
BufferEmpty(m) == inHdr[m] = NoMail
NotPosted(v) == v
Posted(v) == v + 1

ReceiveInterrupt(m) ==
  /\ up[m] /\ BufferEmpty(m) /\ PollSocket(m)
  /\ inHdr' = [inHdr EXCEPT ![m] = ReadFromSocket(m)]
  /\ wire' = LeftInSocket(m)
  /\ available' = [available EXCEPT ![m] = Posted(@)]
  /\ UNCHANGED <<worker, parcel, boxes, outgoing, caller, power>>

(* PostalDelivery: wait for a message, ...                                 *)
Announced(m) == available[m] > 0

AwaitMessage(m) ==
  /\ worker[m] = "wait" /\ Announced(m)
  /\ available' = [available EXCEPT ![m] = @ - 1]
  /\ worker' = [worker EXCEPT ![m] = "receive"]
  /\ UNCHANGED <<wire, inHdr, parcel, boxes, outgoing, caller, power>>

(* ... NetworkInput::Receive frees the device's buffer, ...                *)
ReceivePacket(m) ==
  /\ worker[m] = "receive"
  /\ parcel' = [parcel EXCEPT ![m] = inHdr[m]]
  /\ inHdr' = [inHdr EXCEPT ![m] = NoMail]
  /\ worker' = [worker EXCEPT ![m] = "put"]
  /\ UNCHANGED <<wire, available, boxes, outgoing, caller, power>>

(* ... and MailBox::Put, if there is such a box.  Send only asserts that   *)
(* the number is not negative; here "check that arriving message is legal" *)
(* ends the process when it is not.                                        *)
PutMail(m) ==
  /\ worker[m] = "put" /\ parcel[m].box \in Box
  /\ boxes' = [boxes EXCEPT ![m][parcel[m].box] = Append(@, parcel[m])]
  /\ parcel' = [parcel EXCEPT ![m] = NoMail]
  /\ worker' = [worker EXCEPT ![m] = "wait"]
  /\ UNCHANGED <<wire, inHdr, available, outgoing, caller, power>>

IllegalMail(m) ==
  /\ worker[m] = "put" /\ parcel[m].box \notin Box
  /\ Down(m)

(* PostOfficeInput::Receive and MailBox::Get.                              *)
CallReceive(t, b) ==
  /\ up[Host[t]] /\ pc[t] = "idle"
  /\ box' = [box EXCEPT ![t] = b]
  /\ Goto(t, "receive")
  /\ UNCHANGED <<wire, incoming, boxes, outgoing, mail, mails, power>>

GetMail(t) ==
  LET letters == boxes[Host[t]][box[t]]
  IN  /\ pc[t] = "receive" /\ letters # <<>>
      /\ mail' = [mail EXCEPT ![t] = Head(letters)]
      /\ boxes' = [boxes EXCEPT ![Host[t]][box[t]] = Tail(@)]
      /\ Goto(t, "received")
      /\ UNCHANGED <<wire, incoming, outgoing, box, mails, power>>

ReturnMail(t) ==
  /\ pc[t] = "received"
  /\ Goto(t, "idle")
  /\ UNCHANGED <<wire, incoming, boxes, outgoing, mail, box, mails, power>>

----------------------------------------------------------------------------
(* Sending: PostOfficeOutput::Send.                                        *)
CallSend(t, m, b) ==
  /\ up[Host[t]] /\ pc[t] = "idle" /\ mails < MaxMails
  /\ mails' = mails + 1
  /\ mail' = [mail EXCEPT ![t] = [from |-> Host[t], to |-> m, box |-> b, id |-> mails + 1]]
  /\ Goto(t, "acquire")
  /\ UNCHANGED <<wire, incoming, boxes, outgoing, box, power>>

LockIgnored(m) == TRUE
LockFree(m) == sendLock[m] = NoThread

AcquireSend(t) ==
  /\ pc[t] = "acquire" /\ LockFree(Host[t])
  /\ sendLock' = [sendLock EXCEPT ![Host[t]] = t]
  /\ Goto(t, "send")
  /\ UNCHANGED <<wire, incoming, boxes, sendBusy, sendPending, messageSent, mail, box, mails, power>>

(* NetworkOutput::Send schedules the interrupt whether or not the packet   *)
(* gets lost: at random, or because the other machine's socket is still    *)
(* missing after ten retries (SendToSocket).  It ASSERTs sendBusy = FALSE  *)
(* and never sets it.                                                      *)
Scheduled(v, lost) == v + 1

SendPacket(t, lost) ==
  /\ pc[t] = "send"
  /\ IF up[mail[t].to] THEN lost => Lossy ELSE lost
  /\ wire' = IF lost THEN wire ELSE SendToSocket(mail[t])
  /\ sendPending' = [sendPending EXCEPT ![Host[t]] = Scheduled(@, lost)]
  /\ Goto(t, "wait")
  /\ UNCHANGED <<incoming, boxes, sendBusy, sendLock, messageSent, mail, box, mails, power>>

(* NetworkOutput::CallBack, then PostOfficeOutput::CallBack.               *)
SendInterrupt(m) ==
  /\ sendPending[m] > 0
  /\ sendPending' = [sendPending EXCEPT ![m] = @ - 1]
  /\ sendBusy' = [sendBusy EXCEPT ![m] = FALSE]
  /\ messageSent' = [messageSent EXCEPT ![m] = Posted(@)]
  /\ UNCHANGED <<wire, incoming, boxes, sendLock, caller, power>>

AwaitSent(t) ==
  /\ pc[t] = "wait" /\ messageSent[Host[t]] > 0
  /\ messageSent' = [messageSent EXCEPT ![Host[t]] = @ - 1]
  /\ Goto(t, "release")
  /\ UNCHANGED <<wire, incoming, boxes, sendBusy, sendPending, sendLock, mail, box, mails, power>>

ReleaseSend(t) ==
  /\ pc[t] = "release"
  /\ sendLock' = [sendLock EXCEPT ![Host[t]] = NoThread]
  /\ Goto(t, "idle")
  /\ UNCHANGED <<wire, incoming, boxes, sendBusy, sendPending, messageSent, mail, box, mails, power>>

----------------------------------------------------------------------------
Worker(m) == AwaitMessage(m) \/ ReceivePacket(m) \/ PutMail(m) \/ IllegalMail(m)
MachineStep(m) == ReceiveInterrupt(m) \/ Worker(m) \/ SendInterrupt(m)

ThreadStep(t) ==
  \/ AcquireSend(t) \/ (\E lost \in BOOLEAN : SendPacket(t, lost))
  \/ AwaitSent(t) \/ ReleaseSend(t) \/ GetMail(t) \/ ReturnMail(t)

Next ==
  \/ \E m \in Machine : Boot(m) \/ Stop(m) \/ MachineStep(m)
  \/ \E t \in Thread :
       \/ \E m \in Machine, b \in Address : CallSend(t, m, b)
       \/ \E b \in Box : CallReceive(t, b)
       \/ ThreadStep(t)

Spec == Init /\ [][Next]_vars

(* Polls and send interrupts come, ready threads and postal workers run.   *)
(* The send lock needs no fairness of its own, since calls of Send end.    *)
Fairness ==
  /\ \A m \in Machine : /\ WF_vars(ReceiveInterrupt(m)) /\ WF_vars(SendInterrupt(m))
                        /\ WF_vars(Worker(m))
  /\ \A t \in Thread : WF_vars(ThreadStep(t))

FairSpec == Spec /\ Fairness

----------------------------------------------------------------------------
(* Properties.                                                             *)

TypeOK ==
  /\ wire \in [Machine -> Seq(Mail)]
  /\ inHdr \in [Machine -> Mail \cup {NoMail}]
  /\ parcel \in [Machine -> Mail \cup {NoMail}]
  /\ available \in [Machine -> Nat] /\ messageSent \in [Machine -> Nat]
  /\ worker \in [Machine -> {"wait", "receive", "put"}]
  /\ boxes \in [Machine -> [Box -> Seq(Mail)]]
  /\ sendBusy \in [Machine -> BOOLEAN] /\ sendPending \in [Machine -> Nat]
  /\ sendLock \in [Machine -> Thread \cup {NoThread}]
  /\ pc \in [Thread -> Place]
  /\ mail \in [Thread -> Mail \cup {NoMail}]
  /\ box \in [Thread -> Box]
  /\ mails \in 0 .. MaxMails
  /\ up \in [Machine -> BOOLEAN] /\ boots \in 0 .. MaxBoots

Bit(b) == IF b THEN 1 ELSE 0

(* The device's one-packet buffer: a packet in it has been announced once, *)
(* to a worker that is on its way or still to wake, so the worker never    *)
(* takes an empty buffer and no packet waits there unnoticed.              *)
BufferAnnounced ==
  /\ TypeOK
  /\ \A m \in Machine :
       available[m] + Bit(worker[m] = "receive") = Bit(inHdr[m] # NoMail)

(* One packet at a time goes out of a machine, and the interrupt that says *)
(* it has gone wakes the thread that sent it ("ok to send the next         *)
(* message", post.cc), even when the packet was dropped.                   *)
OnePacketOut ==
  \A m \in Machine :
    LET waiting == {t \in Thread : Host[t] = m /\ pc[t] = "wait"}
    IN  /\ Cardinality(waiting) <= 1
        /\ sendPending[m] + messageSent[m] = Cardinality(waiting)
        /\ \A t \in waiting : sendLock[m] = t

(* Both halves of the device are driven the way its handlers expect.       *)
DeviceExact == BufferAnnounced /\ OnePacketOut

(* When the last call of Send has been made, all of them return and no     *)
(* packet is left on the way, though packets be lost or machines be gone   *)
(* (LossyMail says that they leave it for a mailbox).                      *)
Settled ==
  /\ \A t \in Thread : pc[t] \notin {"acquire", "send", "wait", "release"}
  /\ \A m \in Machine : wire[m] = <<>> /\ inHdr[m] = NoMail /\ parcel[m] = NoMail

MailSettles == <>[]Settled

(* Mail arrives in order and at most once, and nothing but the wire loses  *)
(* any: the post offices implement LossyMail.  In transit is what is in    *)
(* the worker's hands, in the device's buffer and in the socket.           *)
Held(v) == IF v = NoMail THEN <<>> ELSE <<v>>

Stage(t) == CASE pc[t] = "idle" -> "none"
              [] pc[t] \in {"acquire", "send"} -> "sending"
              [] pc[t] \in {"wait", "release"} -> "sent"
              [] pc[t] = "receive" -> "receiving"
              [] OTHER -> "received"

Promised == INSTANCE LossyMail
            WITH transit <- [m \in Machine |-> Held(parcel[m]) \o Held(inHdr[m]) \o wire[m]],
                 stage <- [t \in Thread |-> Stage(t)],
                 letter <- mail, running <- up

ImplementsMail == Promised!MailSpec
=============================================================================
