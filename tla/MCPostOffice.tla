---------------------------- MODULE MCPostOffice ----------------------------
(* Two machines: two threads on the first, which compete for the send      *)
(* lock, and one on the second; clients, which never changes, says what    *)
(* they do.                                                                *)
(*   any    two calls of Send in all, to mailbox 0 or to one that nobody   *)
(*          has, and any calls of Receive by t1 and t3; machines stop and  *)
(*          one starts again; packets get lost                             *)
(*   test   NetworkTest                                                    *)
EXTENDS PostOffice, TLC

-----------------------------------------------------------------------------
(* Kernel::NetworkTest (threads/kernel.cc, nachos -N) on two machines: each *)
(* sends a message to mailbox 0 of the other, waits for the other's, sends *)
(* an acknowledgement to the mailbox it is told to reply to, and waits for *)
(* the one to its own message.                                             *)
CONSTANT Tester        \* the thread of each machine that runs the test

ASSUME NetworkTestAssumption ==
  /\ Cardinality(Machine) = 2
  /\ Tester \in [Machine -> Thread] /\ \A m \in Machine : Host[Tester[m]] = m

VARIABLE test          \* where each machine's test stands
testVars == <<vars, test>>

FirstBox == 0
ReplyBox == 1          \* "reply to: mailbox 1"
farHost(m) == CHOOSE n \in Machine : n # m

Step(m, from, to) ==
  /\ test[m] = from /\ pc[Tester[m]] = "idle"
  /\ test' = [test EXCEPT ![m] = to]

SendMessage(m) == Step(m, "start", "sent") /\ CallSend(Tester[m], farHost(m), FirstBox)
AwaitMessageOf(m) == Step(m, "sent", "got") /\ CallReceive(Tester[m], FirstBox)

(* The acknowledgement goes to where the message came from.                *)
SendAck(m) ==
  Step(m, "got", "acked") /\ CallSend(Tester[m], mail[Tester[m]].from, ReplyBox)
AwaitAck(m) == Step(m, "acked", "last") /\ CallReceive(Tester[m], ReplyBox)
Finish(m) == Step(m, "last", "done") /\ UNCHANGED vars

TestStep(m) ==
  SendMessage(m) \/ AwaitMessageOf(m) \/ SendAck(m) \/ AwaitAck(m) \/ Finish(m)

(* The test runs on a wire that loses nothing, and its machines are up     *)
(* within the ten seconds that SendToSocket tries.                         *)
TestNext ==
  \/ \E m \in Machine : TestStep(m)
  \/ /\ UNCHANGED test
     /\ \/ \E m \in Machine : Boot(m) \/ MachineStep(m)
        \/ \E t \in Thread : \/ AcquireSend(t) \/ SendPacket(t, FALSE) \/ AwaitSent(t)
                             \/ ReleaseSend(t) \/ GetMail(t) \/ ReturnMail(t)

----------------------------------------------------------------------------
(* Both tests come to their end, and what each received last is the        *)
(* acknowledgement of its own message.                                     *)
TestEnds ==
  \A m \in Machine :
    test[m] = "start" ~> /\ test[m] = "done"
                         /\ mail[Tester[m]].from = farHost(m)
                         /\ mail[Tester[m]].box = ReplyBox

-----------------------------------------------------------------------------
CONSTANTS m1, m2, t1, t2, t3

TwoAndOne == (t1 :> m1) @@ (t2 :> m1) @@ (t3 :> m2)
OnePerMachine == (m1 :> t1) @@ (m2 :> t3)

VARIABLE clients

MCInit ==
  /\ Init
  /\ \/ clients = "any" /\ test = [m \in Machine |-> "none"]
     \/ clients = "test" /\ test = [m \in Machine |-> "start"]

AnyNext ==
  /\ Next /\ UNCHANGED test
  /\ mails' <= 2 /\ pc'[t2] # "receive"
  /\ \A t \in Thread : box'[t] = 0 /\ (mail'[t] # NoMail => mail'[t].box # 1)

MCNext ==
  /\ UNCHANGED clients
  /\ \/ clients = "any" /\ AnyNext
     \/ clients = "test" /\ TestNext

mcVars == <<testVars, clients>>
Still == UNCHANGED <<test, clients>>
Own(m) == TestStep(m) \/ (Boot(m) /\ UNCHANGED test)

(* The fairness of PostOffice; the test's machines are started, and its    *)
(* programs run.                                                           *)
MCFairness ==
  /\ \A m \in Machine : /\ WF_mcVars(ReceiveInterrupt(m) /\ Still)
                        /\ WF_mcVars(SendInterrupt(m) /\ Still)
                        /\ WF_mcVars(Worker(m) /\ Still)
                        /\ WF_mcVars(clients = "test" /\ Own(m) /\ UNCHANGED clients)
  /\ \A t \in Thread : WF_mcVars(ThreadStep(t) /\ Still)

MCSpec == MCInit /\ [][MCNext]_mcVars /\ MCFairness

(* Every call of Send returns and every packet leaves the socket, the      *)
(* device and the worker, whatever gets lost and whoever stops; the test   *)
(* of the network ends.                                                    *)
MailMoves == MailSettles /\ TestEnds
=============================================================================
