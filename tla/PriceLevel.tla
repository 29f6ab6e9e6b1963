----------------------------- MODULE PriceLevel -----------------------------
(***************************************************************************)
(* One price level of the book, zerene/orderbook/level.py: a FIFO queue of *)
(* orders, the visible volume and the hidden volume.  The operators are    *)
(* the methods of class PriceLevel; a method that also changes the Order   *)
(* returns both.  The linked list behind the queue is module LinkedQueue.  *)
(***************************************************************************)
EXTENDS Orders

Level == [queue : Seq(Uid), total : Nat, hidden : Nat]

NewLevel == [queue |-> << >>, total |-> 0, hidden |-> 0]

IsEmpty(lv) == lv.queue = << >> /\ lv.total = 0 /\ lv.hidden = 0

IsQueued(lv, u) == \E i \in 1 .. Len(lv.queue) : lv.queue[i] = u

PositionOf(q, u) == CHOOSE i \in 1 .. Len(q) : q[i] = u

(* DoublyLinkedList.remove: unlink the node of u.                          *)
Unlink(q, u) ==
  LET i == PositionOf(q, u)
  IN  SubSeq(q, 1, i - 1) \o SubSeq(q, i + 1, Len(q))

LevelAppend(lv, o, u) ==
  [queue |-> Append(lv.queue, u),
   total |-> lv.total + o.display,
   hidden |-> lv.hidden + o.hidden]

(* Fault: remove forgets the node.                                         *)
LevelRemoveKeepsNode(lv, o, u) ==
  [lv EXCEPT !.total = Clip(@ - o.display), !.hidden = Clip(@ - o.hidden)]

(* remove: False, and nothing changes, when the order has no node here.    *)
LevelRemove(lv, o, u) ==
  IF IsQueued(lv, u)
  THEN [queue |-> Unlink(lv.queue, u),
        total |-> Clip(lv.total - o.display),
        hidden |-> Clip(lv.hidden - o.hidden)]
  ELSE lv

(* pop_head takes off whichever order is first now.                        *)
PopHead(lv, order) ==
  [queue |-> Tail(lv.queue),
   total |-> Clip(lv.total - order[Head(lv.queue)].display),
   hidden |-> Clip(lv.hidden - order[Head(lv.queue)].hidden)]

(* How much of an iceberg's hidden part is shown when a tranche runs out.  *)
Replenishment(o) == Least(o.hidden, IF o.slice > 1 THEN o.slice ELSE 1)

(* Fault: a new tranche is shown but not taken off the hidden volume.      *)
FillIcebergKeepsHidden(lv, o, u, n) ==
  LET shown == Least(o.display, n)
      left  == o.display - shown
      fresh == Replenishment(o)
  IN  IF left = 0 /\ o.hidden > 0
      THEN [order |-> [o EXCEPT !.display = fresh, !.hidden = o.hidden - fresh],
            level |-> [lv EXCEPT !.queue = Append(Unlink(lv.queue, u), u),
                                 !.total = Clip(lv.total - shown) + fresh]]
      ELSE [order |-> [o EXCEPT !.display = left],
            level |-> [lv EXCEPT !.total = Clip(lv.total - shown)]]

FillIceberg(lv, o, u, n) ==
  LET shown == Least(o.display, n)
      left  == o.display - shown
      fresh == Replenishment(o)
  IN  IF left = 0 /\ o.hidden > 0
      THEN [order |-> [o EXCEPT !.display = fresh, !.hidden = o.hidden - fresh],
            level |-> [queue |-> Append(Unlink(lv.queue, u), u),
                       total |-> Clip(lv.total - shown) + fresh,
                       hidden |-> Clip(lv.hidden - fresh)]]
      ELSE [order |-> [o EXCEPT !.display = left],
            level |-> [lv EXCEPT !.total = Clip(lv.total - shown)]]

FillHidden(lv, o, n) ==
  [order |-> [o EXCEPT !.hidden = Clip(o.hidden - n)],
   level |-> [lv EXCEPT !.hidden = Clip(lv.hidden - n)]]

(* Fault: a partial fill takes the whole order off the level's volume.     *)
FillVisibleWhole(lv, o, n) ==
  [order |-> [o EXCEPT !.display = Clip(o.display - n)],
   level |-> [lv EXCEPT !.total = Clip(lv.total - o.quantity)]]

FillVisible(lv, o, n) ==
  [order |-> [o EXCEPT !.display = Clip(o.display - n)],
   level |-> [lv EXCEPT !.total = Clip(lv.total - n)]]

UpdateVolumeAfterFill(lv, o, u, n) ==
  IF o.type = "ICEBERG" THEN FillIceberg(lv, o, u, n)
  ELSE IF o.type = "HIDDEN" THEN FillHidden(lv, o, n)
  ELSE FillVisible(lv, o, n)

=============================================================================
