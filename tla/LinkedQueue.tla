---------------------------- MODULE LinkedQueue -----------------------------
(***************************************************************************)
(* The doubly linked list behind the queue of a price level and the pool   *)
(* its nodes come from (DoublyLinkedList and PriceLevel.order_nodes of     *)
(* zerene/orderbook/level.py, OrderNodePool of zerene/pools.py).  Several  *)
(* levels share the pool, so a node freed at one level is linked again at  *)
(* another.  Volumes are module PriceLevel; here a level only queues.      *)
(***************************************************************************)
EXTENDS Integers, Sequences, SequencesExt

CONSTANTS
  Levels,
  Members,     (* the orders *)
  Initial,     (* initial_capacity of the pool *)
  Batch,       (* nodes _preallocate adds when the pool is empty *)
  MaxNodes     (* bound: nodes ever created *)

ASSUME SizeAssumption ==
  /\ Initial \in Nat
  /\ Batch \in Nat \ {0}
  /\ MaxNodes \in Nat /\ Initial <= MaxNodes

VARIABLES
  head, tail,    (* head_node, tail_node of each level                     *)
  prev, next,    (* the links of each node                                 *)
  holds,         (* node.order                                             *)
  pool,          (* the free nodes, first to be acquired first             *)
  in_pool,       (* node._in_pool                                          *)
  born,          (* nodes 1 .. born have been created                      *)
  order_nodes,   (* per level, the node of each order                      *)
  taken          (* the order that left its level in the last call         *)

links == <<head, tail, prev, next>>
vars == <<head, tail, prev, next, holds, pool, in_pool, born, order_nodes, taken>>

Nil == 0             \* None, where a node is expected
Nobody == "nobody"   \* None, where an order is expected

Nodes == 1 .. MaxNodes

Init ==
  /\ head = [l \in Levels |-> Nil]
  /\ tail = [l \in Levels |-> Nil]
  /\ prev = [n \in Nodes |-> Nil]
  /\ next = [n \in Nodes |-> Nil]
  /\ holds = [n \in Nodes |-> Nobody]
  /\ pool = [i \in 1 .. Initial |-> i]
  /\ in_pool = [n \in Nodes |-> n <= Initial]
  /\ born = Initial
  /\ order_nodes = [l \in Levels |-> [m \in Members |-> Nil]]
  /\ taken = Nobody

-----------------------------------------------------------------------------
(* The list operations.  A list is a record, so that two operations can    *)
(* follow each other in one call.                                          *)

Lists == [head |-> head, tail |-> tail, prev |-> prev, next |-> next]

BecomeLists(q) == head' = q.head /\ tail' = q.tail /\ prev' = q.prev /\ next' = q.next

ListAppend(q, l, n) ==
  IF q.tail[l] = Nil
  THEN [q EXCEPT !.head[l] = n, !.tail[l] = n, !.prev[n] = Nil, !.next[n] = Nil]
  ELSE [q EXCEPT !.prev[n] = q.tail[l],
                 !.next = [[@ EXCEPT ![n] = Nil] EXCEPT ![q.tail[l]] = n],
                 !.tail[l] = n]

(* Fault: the successor is not linked back to the predecessor.             *)
ListRemoveOneWay(q, l, n) ==
  LET before == q.prev[n]
      after == q.next[n]
  IN  [head |-> IF before = Nil THEN [q.head EXCEPT ![l] = after] ELSE q.head,
       tail |-> IF after = Nil THEN [q.tail EXCEPT ![l] = before] ELSE q.tail,
       next |-> [m \in Nodes |-> IF m = n THEN Nil ELSE IF m = before THEN after ELSE q.next[m]],
       prev |-> [q.prev EXCEPT ![n] = Nil]]

(* Fault: removing the last node leaves the tail pointing at it.           *)
ListRemoveKeepsTail(q, l, n) ==
  LET before == q.prev[n]
      after == q.next[n]
  IN  [head |-> IF before = Nil THEN [q.head EXCEPT ![l] = after] ELSE q.head,
       tail |-> q.tail,
       next |-> [m \in Nodes |-> IF m = n THEN Nil ELSE IF m = before THEN after ELSE q.next[m]],
       prev |-> [m \in Nodes |-> IF m = n THEN Nil ELSE IF m = after THEN before ELSE q.prev[m]]]

ListRemove(q, l, n) ==
  LET before == q.prev[n]
      after == q.next[n]
  IN  [head |-> IF before = Nil THEN [q.head EXCEPT ![l] = after] ELSE q.head,
       tail |-> IF after = Nil THEN [q.tail EXCEPT ![l] = before] ELSE q.tail,
       next |-> [m \in Nodes |-> IF m = n THEN Nil ELSE IF m = before THEN after ELSE q.next[m]],
       prev |-> [m \in Nodes |-> IF m = n THEN Nil ELSE IF m = after THEN before ELSE q.prev[m]]]

-----------------------------------------------------------------------------
(* The pool.                                                               *)

Grown == pool \o [i \in 1 .. Batch |-> born + i]

(* acquire, for order m: the first free node, after _preallocate if there  *)
(* is none.                                                                *)
Acquire(n, m) ==
  LET free == IF pool = << >> THEN Grown ELSE pool
  IN  /\ pool = << >> => born + Batch <= MaxNodes
      /\ n = Head(free)
      /\ pool' = Tail(free)
      /\ born' = IF pool = << >> THEN born + Batch ELSE born
      /\ in_pool' = [x \in Nodes |-> x # n /\ (in_pool[x] \/ x \in ToSet(free))]
      /\ holds' = [holds EXCEPT ![n] = m]

(* Fault: a node already in the pool is put there again.                   *)
ReleaseTwice(n) ==
  /\ pool' = pool \o << n, n >>
  /\ in_pool' = [in_pool EXCEPT ![n] = TRUE]
  /\ holds' = [holds EXCEPT ![n] = Nobody]
  /\ UNCHANGED born

(* release: the links of the node, which remove has cut, stay cut.         *)
Release(n) ==
  /\ IF in_pool[n] THEN UNCHANGED <<pool, in_pool, holds>>
     ELSE /\ pool' = Append(pool, n)
          /\ in_pool' = [in_pool EXCEPT ![n] = TRUE]
          /\ holds' = [holds EXCEPT ![n] = Nobody]
  /\ UNCHANGED born

-----------------------------------------------------------------------------
(* The operations of PriceLevel.                                           *)

(* An order enters a level only when it is on none (OrderBook callers).    *)
LevelAppend(l, m) ==
  /\ \A k \in Levels : order_nodes[k][m] = Nil
  /\ \E n \in Nodes :
        /\ Acquire(n, m)
        /\ BecomeLists(ListAppend([Lists EXCEPT !.prev[n] = Nil, !.next[n] = Nil], l, n))
        /\ order_nodes' = [order_nodes EXCEPT ![l][m] = n]
  /\ taken' = Nobody

LevelRemove(l, m) ==
  LET n == order_nodes[l][m]
  IN  /\ n # Nil
      /\ BecomeLists(ListRemove(Lists, l, n))
      /\ order_nodes' = [order_nodes EXCEPT ![l][m] = Nil]
      /\ Release(n)
      /\ taken' = m

(* Fault: pop_head forgets the order's entry in order_nodes.               *)
PopHeadKeepsEntry(l) ==
  LET n == head[l]
  IN  /\ n # Nil
      /\ BecomeLists(ListRemove(Lists, l, n))
      /\ Release(n)
      /\ taken' = holds[n]
      /\ UNCHANGED order_nodes

PopHead(l) ==
  LET n == head[l]
  IN  /\ n # Nil
      /\ BecomeLists(ListRemove(Lists, l, n))
      /\ order_nodes' = [order_nodes EXCEPT ![l][holds[n]] = Nil]
      /\ Release(n)
      /\ taken' = holds[n]

(* The replenishment of an iceberg at the head (update_volume_after_fill). *)
Replenish(l) ==
  LET m == holds[head[l]]
      n == order_nodes[l][m]
  IN  /\ head[l] # Nil
      /\ n # Nil /\ tail[l] # n
      /\ BecomeLists(ListAppend(ListRemove(Lists, l, n), l, n))
      /\ taken' = Nobody
      /\ UNCHANGED <<holds, pool, in_pool, born, order_nodes>>

Next ==
  \E l \in Levels :
     \/ \E m \in Members : LevelAppend(l, m) \/ LevelRemove(l, m)
     \/ PopHead(l)
     \/ Replenish(l)

Spec == Init /\ [][Next]_vars

-----------------------------------------------------------------------------
(* Walks along the links, forwards from head and backwards from tail.      *)

(* The node k links away from where a walk starts, Nil beyond its end.     *)
Reached(start, link) ==
  LET at[k \in 0 .. MaxNodes] ==
        IF k = 0 THEN start ELSE IF at[k - 1] = Nil THEN Nil ELSE link[at[k - 1]]
  IN  at

Walk(start, link) ==
  LET at == Reached(start, link)
  IN  [i \in 1 .. Cardinality({k \in 0 .. MaxNodes : at[k] # Nil}) |-> at[i - 1]]

Forward(l) == Walk(head[l], next)

Backward(l) == Walk(tail[l], prev)

-----------------------------------------------------------------------------
(* The orders of each level, first to be matched first.                    *)
Queue == [l \in Levels |-> [i \in 1 .. Len(Forward(l)) |-> holds[Forward(l)[i]]]]

(* The linked lists are FIFO queues: appending, popping, removing from the *)
(* middle and replenishing do to the chain of nodes what they should do to *)
(* a sequence (level.py, class DoublyLinkedList).                          *)
Fifo == INSTANCE FifoQueues WITH queue <- Queue

StrictFifo == Fifo!Spec

(* The backward links mirror the forward ones: remove relies on prev to    *)
(* unlink a node in the middle in O(1).                                    *)
LinksMirror == \A l \in Levels : Backward(l) = Reverse(Forward(l))

(* Every node that exists is either free, once, or linked, in one list:    *)
(* none leaks, and none is handed out twice (OrderNodePool, _in_pool).     *)
NodesConserved ==
  /\ IsInjective(pool)
  /\ \A n \in 1 .. born :
        LET linked == {l \in Levels : n \in ToSet(Forward(l))}
        IN  IF in_pool[n] THEN n \in ToSet(pool) /\ linked = {}
            ELSE n \notin ToSet(pool) /\ \E l \in Levels : linked = {l}

(* order_nodes finds each queued order at its node, and only those: remove *)
(* unlinks the right node or none.                                         *)
EntriesFindNodes ==
  \A l \in Levels, m \in Members :
     LET n == order_nodes[l][m]
     IN  /\ n # Nil => n \in ToSet(Forward(l)) /\ holds[n] = m
         /\ n = Nil => \A x \in ToSet(Forward(l)) : holds[x] # m

=============================================================================
