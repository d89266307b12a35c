----------------------------- MODULE FifoQueue ------------------------------
(* What SynchList promises: a queue shared by threads.  Each call takes    *)
(* effect in one step between its beginning and its end; RemoveFront takes *)
(* effect only when there is an item, and hands out the oldest one.        *)
EXTENDS Naturals, Sequences

CONSTANTS Thread, Item, NoItem

VARIABLES items,   \* the contents, oldest first
          call,    \* the call each thread is in, and whether it took effect
          arg      \* the item given to Append, or handed out by RemoveFront

fifoVars == <<items, call, arg>>

FifoTypeOK ==
  /\ items \in Seq(Item)
  /\ call \in [Thread -> {"none", "append", "appended", "remove", "removed", "apply"}]
  /\ arg \in [Thread -> Item \cup {NoItem}]

FifoInit ==
  /\ items = <<>>
  /\ call = [t \in Thread |-> "none"]
  /\ arg = [t \in Thread |-> NoItem]

StartAppend(t, i) ==
  /\ call[t] = "none"
  /\ call' = [call EXCEPT ![t] = "append"]
  /\ arg' = [arg EXCEPT ![t] = i]
  /\ UNCHANGED items

DoAppend(t) ==
  /\ call[t] = "append"
  /\ items' = Append(items, arg[t])
  /\ call' = [call EXCEPT ![t] = "appended"]
  /\ UNCHANGED arg

StartRemove(t) ==
  /\ call[t] = "none"
  /\ call' = [call EXCEPT ![t] = "remove"]
  /\ UNCHANGED <<items, arg>>

DoRemove(t) ==
  /\ call[t] = "remove" /\ items # <<>>
  /\ items' = Tail(items)
  /\ arg' = [arg EXCEPT ![t] = Head(items)]
  /\ call' = [call EXCEPT ![t] = "removed"]

StartApply(t) ==
  /\ call[t] = "none"
  /\ call' = [call EXCEPT ![t] = "apply"]
  /\ UNCHANGED <<items, arg>>

Return(t) ==
  /\ call[t] \in {"appended", "removed", "apply"}
  /\ call' = [call EXCEPT ![t] = "none"]
  /\ arg' = [arg EXCEPT ![t] = NoItem]
  /\ UNCHANGED items

FifoNext ==
  \E t \in Thread :
    \/ \E i \in Item : StartAppend(t, i)
    \/ DoAppend(t) \/ StartRemove(t) \/ DoRemove(t) \/ StartApply(t) \/ Return(t)

FifoSpec == FifoInit /\ [][FifoNext]_fifoVars
=============================================================================
