------------------------------- MODULE Deques -------------------------------
(***************************************************************************)
(* A VecDeque is a sequence whose first element is its front.              *)
(***************************************************************************)
EXTENDS Integers, Sequences

(* What is left of a deque when only the elements in S are retained, in    *)
(* their order.                                                            *)
Retain(q, S) ==
    LET kept[n \in 0..Len(q)] ==
            IF n = 0 THEN <<>>
            ELSE IF q[n] \in S THEN Append(kept[n - 1], q[n]) ELSE kept[n - 1]
    IN  kept[Len(q)]
=============================================================================
