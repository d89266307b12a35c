----------------------------- MODULE SynchList ------------------------------
(* The synchronized list: a List protected by the lock and the condition   *)
(* of Monitor.  Every thread may append, remove and apply, in any order.   *)
EXTENDS Monitor

CONSTANTS Item, NoItem,
          MaxItems      \* bound on the length of the list (guards the call
                        \* of Append)

ASSUME ItemAssumption == NoItem \notin Item /\ MaxItems \in Nat

VARIABLES list,   \* SynchList::list
          op,     \* the operation each thread is in, and how far
          item    \* the argument of Append, or the result of RemoveFront

listVars == <<monVars, list, op, item>>

Op == {"none", "append", "appended", "remove", "removed", "apply"}

ListTypeOK ==
  /\ MonTypeOK
  /\ list \in Seq(Item)
  /\ op \in [Thread -> Op]
  /\ item \in [Thread -> Item \cup {NoItem}]

ListInit ==
  /\ MonInit
  /\ list = <<>>
  /\ op = [t \in Thread |-> "none"]
  /\ item = [t \in Thread |-> NoItem]

HasRoom == Len(list) + Cardinality({t \in Thread : op[t] = "append"}) < MaxItems

(* All three operations begin with lock->Acquire(). *)
Start(t, o, i) ==
  /\ op[t] = "none"
  /\ CallAcquire(t)
  /\ op' = [op EXCEPT ![t] = o]
  /\ item' = [item EXCEPT ![t] = i]
  /\ UNCHANGED list

(* List::Append                                                            *)
PutLast(l, i) == Append(l, i)

(* A faulty Append that signals nobody.                                    *)
AppendSilently(t) ==
  /\ op[t] = "append" /\ at[t] = "inside"
  /\ list' = PutLast(list, item[t])
  /\ op' = [op EXCEPT ![t] = "appended"]
  /\ UNCHANGED <<monVars, item>>

(* Append: the item goes in and one waiter is signalled ...                *)
AppendItem(t) ==
  /\ op[t] = "append"
  /\ list' = PutLast(list, item[t])
  /\ CallSignal(t)
  /\ op' = [op EXCEPT ![t] = "appended"]
  /\ UNCHANGED item

(* ... then the lock is released; RemoveFront and Apply end the same way.  *)
Finish(t) ==
  /\ op[t] \in {"appended", "removed", "apply"}
  /\ CallRelease(t)
  /\ op' = [op EXCEPT ![t] = "none"]
  /\ item' = [item EXCEPT ![t] = NoItem]
  /\ UNCHANGED list

(* RemoveFront: wait while the list is empty.                              *)
WaitForItem(t) ==
  /\ op[t] = "remove" /\ list = <<>>
  /\ CallWait(t)
  /\ UNCHANGED <<list, op, item>>

(* The while test; a faulty RemoveFront tests once, before the Wait.       *)
NoRecheck(t) == at[t] = "inside"
MayRemove(t) == at[t] = "inside" /\ list # <<>>

RemoveItem(t) ==
  /\ op[t] = "remove" /\ MayRemove(t)
  /\ item' = [item EXCEPT ![t] = IF list = <<>> THEN NoItem ELSE Head(list)]
  /\ list' = IF list = <<>> THEN list ELSE Tail(list)
  /\ op' = [op EXCEPT ![t] = "removed"]
  /\ UNCHANGED monVars

ListStep(t) ==
  \/ MonStep(t) /\ UNCHANGED <<list, op, item>>
  \/ AppendItem(t) \/ WaitForItem(t) \/ RemoveItem(t) \/ Finish(t)

ListRuns(t) ==
  \/ \E i \in Item : HasRoom /\ Start(t, "append", i)
  \/ Start(t, "remove", NoItem) \/ Start(t, "apply", NoItem)
  \/ ListStep(t)

ListNext == \E t \in Thread : ListRuns(t)

ListSpec == ListInit /\ [][ListNext]_listVars
ListFairSpec == ListSpec /\ \A t \in Thread : WF_listVars(ListStep(t))

----------------------------------------------------------------------------
(* Properties.                                                             *)

(* Each item is spoken for: while consumers sleep in the wait queue, there *)
(* are at least as many consumers awake as there are items.                *)
Removers == {t \in Thread : op[t] = "remove"}
ItemsSpokenFor ==
  /\ ListTypeOK
  /\ waitQueue # <<>> => Len(list) =< Cardinality(Removers \ Range(waitQueue))

(* A consumer is not left in the wait queue while items stay in the list,  *)
(* once the threads stop making new calls.  (While they go on, a newcomer  *)
(* may take the lock ahead of the woken consumer each time.)               *)
NewCall == \E t \in Thread : op[t] = "none" /\ op'[t] # "none"
ConsumersWake ==
  <>[][~NewCall]_listVars => <>[](waitQueue = <<>> \/ list = <<>>)

(* The list is a FIFO queue: each call takes effect at once, between its   *)
(* beginning and its end, and RemoveFront never takes from an empty list   *)
(* (the ASSERT of List::RemoveFront), however many threads were woken.     *)
Queue == INSTANCE FifoQueue WITH items <- list, call <- op, arg <- item
ImplementsQueue == Queue!FifoSpec
=============================================================================
