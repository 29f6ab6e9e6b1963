--------------------------- MODULE PriceTimeBook ----------------------------
(***************************************************************************)
(* What RFC-001 section 2.2 and 3.1 promise of the book, with no levels,   *)
(* queues or volumes: a set of resting orders, each with a side, the price *)
(* it asks for, the tick that stands for it, the time it has stood there   *)
(* since and the lots it has left.  An execution takes lots from an order  *)
(* that nothing on its side precedes in price and time, and an order that  *)
(* stays only loses its time for another price or for more lots.  The      *)
(* matching engines implement it (EngineProperties, NativeEngine).         *)
(***************************************************************************)
EXTENDS Integers

CONSTANT Orders      \* who may rest

VARIABLES
  resting,           \* [order -> [side, price, tick, since, left]], of those that rest
  executions         \* how many executions there have been

vars == <<resting, executions>>

Init ==
  /\ resting = [u \in {} |-> 0]
  /\ executions = 0

(* Better price on the same side, or the same price for longer.            *)
Precedes(r, s) ==
  /\ r.side = s.side
  /\ \/ r.tick = s.tick /\ r.since < s.since
     \/ IF r.side = "BUY" THEN r.tick > s.tick ELSE r.tick < s.tick

IsFirst(u) == \A v \in DOMAIN resting : ~Precedes(resting[v], resting[u])

JoinsTail(r, others) ==
  \A v \in others :
     resting[v].side = r.side /\ resting[v].tick = r.tick => resting[v].since <= r.since

OthersKept(u) == \A v \in DOMAIN resting \ {u} : v \in DOMAIN resting' /\ resting'[v] = resting[v]

Enter(u) ==
  /\ u \notin DOMAIN resting
  /\ DOMAIN resting' = DOMAIN resting \cup {u}
  /\ OthersKept(u)
  /\ resting'[u].left > 0
  /\ JoinsTail(resting'[u], DOMAIN resting)
  /\ UNCHANGED executions

Leave(u) ==
  /\ DOMAIN resting' = DOMAIN resting \ {u}
  /\ OthersKept(u)
  /\ UNCHANGED executions

(* Fewer lots, same place: priority is kept.                               *)
Reduce(u) ==
  /\ DOMAIN resting' = DOMAIN resting
  /\ OthersKept(u)
  /\ resting'[u].left \in 1 .. resting[u].left
  /\ resting'[u] = [resting[u] EXCEPT !.left = resting'[u].left]
  /\ UNCHANGED executions

(* Another price or more lots, and nothing else: priority is lost.         *)
Requote(u) ==
  /\ DOMAIN resting' = DOMAIN resting
  /\ OthersKept(u)
  /\ resting'[u].price # resting[u].price \/ resting'[u].left > resting[u].left
  /\ resting'[u].left > 0
  /\ resting'[u].side = resting[u].side
  /\ resting'[u].since > resting[u].since
  /\ JoinsTail(resting'[u], DOMAIN resting \ {u})
  /\ UNCHANGED executions

Execute(u) ==
  /\ IsFirst(u)
  /\ OthersKept(u)
  /\ \/ DOMAIN resting' = DOMAIN resting \ {u}
     \/ /\ DOMAIN resting' = DOMAIN resting
        /\ resting'[u].left \in 1 .. resting[u].left - 1
        /\ resting'[u] = [resting[u] EXCEPT !.left = resting'[u].left]
  /\ executions' = executions + 1

Next ==
  \/ \E u \in Orders : Enter(u)
  \/ \E u \in DOMAIN resting : Leave(u) \/ Reduce(u) \/ Requote(u) \/ Execute(u)

Spec == Init /\ [][Next]_vars

=============================================================================
