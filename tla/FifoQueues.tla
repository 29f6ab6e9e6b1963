----------------------------- MODULE FifoQueues -----------------------------
(***************************************************************************)
(* What the queues of the price levels promise (level.py: "strict FIFO     *)
(* queue of orders resting at this price"), with no nodes and no links:    *)
(* one sequence of orders per level, and the order the last operation took *)
(* off or moved.  Module LinkedQueue implements it.                        *)
(***************************************************************************)
EXTENDS Integers, Sequences

CONSTANTS Levels, Members, Nobody

VARIABLES queue, taken

vars == <<queue, taken>>

Init ==
  /\ queue = [l \in Levels |-> << >>]
  /\ taken = Nobody

Without(s, i) == SubSeq(s, 1, i - 1) \o SubSeq(s, i + 1, Len(s))

JoinTail(l, m) ==
  /\ queue' = [queue EXCEPT ![l] = Append(@, m)]
  /\ taken' = Nobody

TakeAnywhere(l, i) ==
  /\ queue' = [queue EXCEPT ![l] = Without(@, i)]
  /\ taken' = queue[l][i]

TakeHead(l) ==
  /\ queue[l] # << >>
  /\ queue' = [queue EXCEPT ![l] = Tail(@)]
  /\ taken' = Head(queue[l])

HeadToTail(l) ==
  /\ queue[l] # << >>
  /\ queue' = [queue EXCEPT ![l] = Append(Tail(@), Head(@))]
  /\ taken' = Nobody

Next ==
  \E l \in Levels :
     \/ \E m \in Members : JoinTail(l, m)
     \/ \E i \in 1 .. Len(queue[l]) : TakeAnywhere(l, i)
     \/ TakeHead(l)
     \/ HeadToTail(l)

Spec == Init /\ [][Next]_vars

=============================================================================
