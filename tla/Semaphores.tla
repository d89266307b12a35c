----------------------------- MODULE Semaphores -----------------------------
(* What a set of Semaphore objects promises their users, with no trace of  *)
(* interrupts, ticks or context switches: P and V are the two operations   *)
(* of the class, a thread inside P is either testing the value or queued,  *)
(* and any tester may go next.  A woken thread tests again, so a newcomer  *)
(* may take the unit it was woken for (Mesa semantics), and then the woken *)
(* thread goes to the back of the queue.                                   *)
EXTENDS Naturals, Sequences, FiniteSets, Functions

CONSTANTS Thread,   \* the threads that call P and V
          Sem,      \* the semaphores
          MaxValue  \* bound on a value (guards V)

VARIABLES value,    \* Semaphore::value
          queue,    \* Semaphore::queue
          testers   \* the threads inside P that are not queued

semVars == <<value, queue, testers>>

SemTypeOK ==
  /\ value \in [Sem -> Nat]
  /\ queue \in [Sem -> Seq(Thread)]
  /\ testers \in [Sem -> SUBSET Thread]

SemInit ==
  /\ value \in [Sem -> 0 .. 1]
  /\ queue = [s \in Sem |-> <<>>]
  /\ testers = [s \in Sem |-> {}]

Inside(t) == \E s \in Sem : t \in testers[s] \cup Range(queue[s])

(* Call P. *)
CallP(t, s) ==
  /\ ~Inside(t)
  /\ testers' = [testers EXCEPT ![s] = @ \cup {t}]
  /\ UNCHANGED <<value, queue>>

(* The value is zero: join the queue, at its end. *)
Block(t, s) ==
  /\ t \in testers[s] /\ value[s] = 0
  /\ queue' = [queue EXCEPT ![s] = Append(@, t)]
  /\ testers' = [testers EXCEPT ![s] = @ \ {t}]
  /\ UNCHANGED value

(* The value is positive: take a unit and leave P. *)
Take(t, s) ==
  /\ t \in testers[s] /\ value[s] > 0
  /\ value' = [value EXCEPT ![s] = @ - 1]
  /\ testers' = [testers EXCEPT ![s] = @ \ {t}]
  /\ UNCHANGED queue

(* V, called by a thread that is not inside P or by an interrupt handler:  *)
(* the first waiter goes back to testing, the value goes up.               *)
CallV(s) ==
  /\ value[s] < MaxValue
  /\ value' = [value EXCEPT ![s] = @ + 1]
  /\ IF queue[s] = <<>>
     THEN UNCHANGED <<queue, testers>>
     ELSE /\ queue' = [queue EXCEPT ![s] = Tail(@)]
          /\ testers' = [testers EXCEPT ![s] = @ \cup {Head(queue[s])}]

SemNext ==
  \E s \in Sem :
    \/ CallV(s)
    \/ \E t \in Thread : CallP(t, s) \/ Block(t, s) \/ Take(t, s)

SemSpec == SemInit /\ [][SemNext]_semVars
=============================================================================
