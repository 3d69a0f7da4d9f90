---------------------------- MODULE BoundedQueue ----------------------------
(***************************************************************************)
(* What the FIFO primitive promises to its users: a queue of at most       *)
(* Capacity entries that is emptied, pushed and popped once per clock      *)
(* cycle.  A push into a full queue and a pop from an empty one are        *)
(* ignored; "full" and "empty" are judged before the cycle's other half.   *)
(***************************************************************************)
EXTENDS Naturals, Sequences

CONSTANTS Capacity,   \* number of entries
          Data        \* what an entry holds

VARIABLE q            \* the entries, oldest first

\* The queue holds at most Capacity entries.
TypeOK == q \in Seq(Data) /\ Len(q) <= Capacity

Init == q = <<>>

Clear == q' = <<>>

Push(d) == /\ Len(q) < Capacity
           /\ q' = Append(q, d)

Pop == /\ q # <<>>
       /\ q' = Tail(q)

PushPop(d) == /\ q # <<>>
              /\ Len(q) < Capacity
              /\ q' = Append(Tail(q), d)

Next == \/ Clear
        \/ Pop
        \/ \E d \in Data : Push(d) \/ PushPop(d)

Spec == Init /\ [][Next]_q
=============================================================================
