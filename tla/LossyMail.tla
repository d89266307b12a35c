----------------------------- MODULE LossyMail ------------------------------
(* What the post office promises ("in order but unreliably", network.h):   *)
(* mail sent to a machine is delivered to the mailboxes there in the order *)
(* it was sent, at most once, and nothing takes any away but a loss on the *)
(* wire and the end of the machine it is on.  Mail to a mailbox that does  *)
(* not exist is never delivered: it ends the machine it was sent to, and   *)
(* only that.                                                              *)
EXTENDS Sequences

CONSTANTS Machine, Thread, Host, Box, Mail, NoMail

VARIABLES transit,   \* mail sent to each machine and not delivered yet
          boxes,     \* the contents of each machine's mailboxes
          stage,     \* the call each thread is in
          letter,    \* the mail it sends, or received
          running    \* which machines run

mailVars == <<transit, boxes, stage, letter, running>>

MailInit ==
  /\ transit = [m \in Machine |-> <<>>]
  /\ boxes = [m \in Machine |-> [b \in Box |-> <<>>]]
  /\ stage = [t \in Thread |-> "none"]
  /\ letter = [t \in Thread |-> NoMail]
  /\ running = [m \in Machine |-> FALSE]

Start(m) ==
  /\ ~running[m]
  /\ running' = [running EXCEPT ![m] = TRUE]
  /\ UNCHANGED <<transit, boxes, stage, letter>>

End(m) ==
  /\ running[m]
  /\ running' = [running EXCEPT ![m] = FALSE]
  /\ transit' = [transit EXCEPT ![m] = <<>>]
  /\ boxes' = [boxes EXCEPT ![m] = [b \in Box |-> <<>>]]
  /\ stage' = [t \in Thread |-> IF Host[t] = m THEN "none" ELSE stage[t]]
  /\ letter' = [t \in Thread |-> IF Host[t] = m THEN NoMail ELSE letter[t]]

Move(t, from, to) == stage[t] = from /\ stage' = [stage EXCEPT ![t] = to]

Submit(t) ==
  /\ Move(t, "none", "sending") /\ running[Host[t]]
  /\ \E l \in Mail : letter' = [letter EXCEPT ![t] = l]
  /\ UNCHANGED <<transit, boxes, running>>

Transmit(t) ==
  /\ Move(t, "sending", "sent")
  /\ LET to == letter[t].to
     IN  running[to] /\ transit' = [transit EXCEPT ![to] = Append(@, letter[t])]
  /\ UNCHANGED <<boxes, letter, running>>

Lose(t) ==
  /\ Move(t, "sending", "sent")
  /\ UNCHANGED <<transit, boxes, letter, running>>

Return(t) ==
  /\ stage[t] \in {"sent", "received"}
  /\ stage' = [stage EXCEPT ![t] = "none"]
  /\ UNCHANGED <<transit, boxes, letter, running>>

Deliver(m) ==
  /\ transit[m] # <<>> /\ Head(transit[m]).box \in Box
  /\ boxes' = [boxes EXCEPT ![m][Head(transit[m]).box] = Append(@, Head(transit[m]))]
  /\ transit' = [transit EXCEPT ![m] = Tail(@)]
  /\ UNCHANGED <<stage, letter, running>>

Expect(t) ==
  /\ Move(t, "none", "receiving")
  /\ UNCHANGED <<transit, boxes, letter, running>>

Collect(t) ==
  /\ Move(t, "receiving", "received")
  /\ LET m == Host[t]
     IN  \E b \in Box :
           /\ boxes[m][b] # <<>>
           /\ letter' = [letter EXCEPT ![t] = Head(boxes[m][b])]
           /\ boxes' = [boxes EXCEPT ![m][b] = Tail(@)]
  /\ UNCHANGED <<transit, running>>

MailNext ==
  \/ \E m \in Machine : Start(m) \/ End(m) \/ Deliver(m)
  \/ \E t \in Thread :
       Submit(t) \/ Transmit(t) \/ Lose(t) \/ Return(t) \/ Expect(t) \/ Collect(t)

MailSpec == MailInit /\ [][MailNext]_mailVars
=============================================================================
