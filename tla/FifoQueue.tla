----------------------------- MODULE FifoQueue ------------------------------
(***************************************************************************)
(* What the request queue promises of the elements of one producer thread: *)
(* each comes out once, to one consumer, and they come out in the order    *)
(* they went in.  A consumer that was promised an element holds it until   *)
(* its call has returned.                                                  *)
(***************************************************************************)
EXTENDS Integers, Sequences

CONSTANTS Elements, Consumers, NoElement

VARIABLES q,     \* elements that no consumer has been promised
          item   \* the element each consumer was promised, or NoElement

vars == <<q, item>>

Init ==
    /\ q = <<>>
    /\ item = [c \in Consumers |-> NoElement]

Enqueue(e) ==
    /\ q' = Append(q, e)
    /\ UNCHANGED item

Dequeue(c) ==
    /\ q # <<>>
    /\ item[c] = NoElement
    /\ item' = [item EXCEPT ![c] = Head(q)]
    /\ q' = Tail(q)

Return(c) ==
    /\ item' = [item EXCEPT ![c] = NoElement]
    /\ UNCHANGED q

Next ==
    \/ \E e \in Elements : Enqueue(e)
    \/ \E c \in Consumers : Dequeue(c) \/ Return(c)

Spec == Init /\ [][Next]_vars

=============================================================================
