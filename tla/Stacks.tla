------------------------------- MODULE Stacks -------------------------------
(* The stacks of c++example: ArrayStack (stack.cc and templatestack.cc     *)
(* have the same one) and ListStack, on the list of c++example/list.cc.    *)
(* A client that may use either pushes and pops the same values on both.   *)
EXTENDS Integers, Sequences, FiniteSets

CONSTANTS Value, size,      \* values, capacity of the ArrayStack
          Cell, NULL        \* addresses of list elements

VARIABLES top, stack,               \* ArrayStack
          first, last, element,     \* List: element[c] = [item, next]
          popped                    \* what Pop returned last, from either

stackVars == <<top, stack, first, last, element, popped>>

Free == [item |-> NULL, next |-> NULL]

StackInit ==
  /\ top = 0 /\ stack = [k \in 0 .. size - 1 |-> NULL]
  /\ first = NULL /\ last = NULL /\ element = [c \in Cell |-> Free]
  /\ popped = <<NULL, NULL>>

Full == top = size
Empty == top = 0
ListEmpty == first = NULL

ArrayPush(value) == stack' = [stack EXCEPT ![top] = value] /\ top' = top + 1

(* List::Prepend; the new element points to the old first one, if any.     *)
Prepend(c, value) ==
  /\ element' = [element EXCEPT ![c] = [item |-> value, next |-> first]]
  /\ first' = c
  /\ last' = IF ListEmpty THEN c ELSE last

ListPush(c, value) == element[c] = Free /\ Prepend(c, value)

Push(c, value) ==
  /\ ~Full
  /\ ArrayPush(value) /\ ListPush(c, value)
  /\ UNCHANGED popped

(* List::Remove, from the front.                                           *)
Remove ==
  /\ IF first = last THEN first' = NULL /\ last' = NULL
     ELSE first' = element[first].next /\ UNCHANGED last
  /\ element' = [element EXCEPT ![first] = Free]

ArrayPop == ~Empty /\ top' = top - 1 /\ UNCHANGED stack
ListPop == ~ListEmpty /\ Remove

Pop == ArrayPop /\ ListPop /\ popped' = <<stack[top - 1], element[first].item>>

StackNext == Pop \/ \E c \in Cell, v \in Value : Push(c, v)

(* A client cannot tell the two implementations of Stack apart: they are   *)
(* empty together and Pop returns the same from both, in any sequence of   *)
(* calls; and every element of the list is freed in the end.               *)
StacksAgree ==
  /\ Empty <=> ListEmpty
  /\ popped[1] = popped[2]
  /\ Cardinality({c \in Cell : element[c] # Free}) = top
  /\ ListEmpty <=> last = NULL
=============================================================================
