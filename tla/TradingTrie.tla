----------------------------- MODULE TradingTrie -----------------------------
(***************************************************************************)
(* match_trade of exchange/matching_engine.c at the level of its pointers: *)
(* the heap of order_t nodes, the head and tail of the buy and sell queue  *)
(* at every leaf of the trie, the scan of the opposite queue one node at a *)
(* time, the unlinking of a matched node and the appending of a resting    *)
(* one.  Redis is left to OrderServer.                                     *)
(*                                                                         *)
(* A leaf that add_node_to_trie has not yet allocated is one whose four    *)
(* pointers are NULL, which is how add_node_to_trie creates it.            *)
(***************************************************************************)
EXTENDS Matching

CONSTANTS
  Node,        \* addresses malloc can return for an order_t
  NULL,
  MaxOrders    \* bound on the order numbers handed out

ASSUME NodeAssumption == NULL \notin Node
ASSUME MaxOrdersAssumption == MaxOrders \in Nat

VARIABLES
  data,           \* the orders the allocated nodes hold, a partial function
  next, previous, \* [Node -> Node \cup {NULL}]: its links
  head, tail,     \* [Queue -> Node \cup {NULL}]: sell_/buy_head and _tail
  pc,             \* "receive": between two calls, "scan": in the scan loop
  order,          \* the node of the order being handled
  cursor,         \* the sell_order or buy_order of the scan loop
  order_number,   \* the number of the last order
  trades          \* the trades so far, each <<taker, maker>>

heap   == <<data, next, previous>>
queues == <<head, tail>>
vars   == <<heap, queues, pc, order, cursor, order_number, trades>>

Pointer == Node \cup {NULL}
-------------------------------------------------------------------------------
\* The nodes that are allocated and not freed.  Nothing is known of what a
\* free node holds: reading one is an error of the model.
alloc == DOMAIN data

Allocated(n, o) == [m \in alloc \cup {n} |-> IF m = n THEN o ELSE data[m]]

\* Faulty variant of FreedOf: the list that is freed is not cut off from the
\* queue.
FreedWithNext(ns) == [m \in alloc \ (ns \cup {next[n] : n \in ns}) |-> data[m]]

FreedOf(ns) == [m \in alloc \ ns |-> data[m]]

Init ==
  /\ data = [n \in {} |-> NULL]
  /\ next = [n \in Node |-> NULL]
  /\ previous = [n \in Node |-> NULL]
  /\ head = [q \in Queue |-> NULL]
  /\ tail = [q \in Queue |-> NULL]
  /\ pc = "receive"
  /\ order = NULL
  /\ cursor = NULL
  /\ order_number = 0
  /\ trades = << >>

\* deserialize_order_wire callocs the order and numbers it; match_trade walks
\* the trie, normalising the symbol, and points its cursor to the head of the
\* opposite queue.
Receive(n, r) ==
  LET o == Normalize(Numbered(r, order_number + 1)) IN
  /\ pc = "receive"
  /\ order_number < MaxOrders
  /\ n \notin alloc
  /\ r.operation \in Side
  /\ order_number' = order_number + 1
  /\ data' = Allocated(n, o)
  /\ next' = [next EXCEPT ![n] = NULL]
  /\ previous' = [previous EXCEPT ![n] = NULL]
  /\ order' = n
  /\ cursor' = head[Opposite(o)]
  /\ pc' = "scan"
  /\ UNCHANGED <<queues, trades>>

\* A cancellation is numbered and dropped; its node is never freed.
ReceiveCancel(n, r) ==
  /\ pc = "receive"
  /\ order_number < MaxOrders
  /\ n \notin alloc
  /\ r.operation = CANCEL
  /\ order_number' = order_number + 1
  /\ data' = Allocated(n, Normalize(Numbered(r, order_number + 1)))
  /\ next' = [next EXCEPT ![n] = NULL]
  /\ previous' = [previous EXCEPT ![n] = NULL]
  /\ UNCHANGED <<queues, pc, order, cursor, trades>>

\* Faulty variants of ScanNext: the first mismatch ends the scan; the cursor
\* is moved in one of the two else branches only.
ScanGivesUp ==
  /\ pc = "scan"
  /\ cursor # NULL
  /\ ~Compatible(data[order], data[cursor])
  /\ cursor' = NULL
  /\ UNCHANGED <<heap, queues, pc, order, order_number, trades>>

ScanNextOnPrice ==
  /\ pc = "scan"
  /\ cursor # NULL
  /\ ~Compatible(data[order], data[cursor])
  /\ cursor' = IF PricesCross(data[order], data[cursor])
                 THEN cursor ELSE next[cursor]
  /\ UNCHANGED <<heap, queues, pc, order, order_number, trades>>

\* "moving to the next order"
ScanNext ==
  /\ pc = "scan"
  /\ cursor # NULL
  /\ ~Compatible(data[order], data[cursor])
  /\ cursor' = next[cursor]
  /\ UNCHANGED <<heap, queues, pc, order, order_number, trades>>
-------------------------------------------------------------------------------
\* "Relinking the right part of the node": the tail of queue q, and the
\* previous pointers, once node x is unlinked from q.
TailWithout(q, x) ==
  IF next[x] # NULL THEN tail ELSE [tail EXCEPT ![q] = previous[x]]
PreviousWithout(x) ==
  IF next[x] # NULL THEN [previous EXCEPT ![next[x]] = previous[x]]
                    ELSE previous

\* "Relinking the left part of the node": the head of q and the next
\* pointers.  It reads x.previous, which the right part has not changed.
HeadWithout(q, x) ==
  IF previous[x] # NULL THEN head ELSE [head EXCEPT ![q] = next[x]]
NextWithout(x) ==
  IF previous[x] # NULL THEN [next EXCEPT ![previous[x]] = next[x]] ELSE next

\* Faulty variant of Traded: the addresses of the nodes, not their orders.
TradedNodes == <<order, cursor>>

\* The two orders of the trade about to be made, the taker first.
Traded == <<data[order], Adjusted(data[order], data[cursor])>>

\* The order at the cursor is compatible: it is unlinked, takes the better
\* price, and the list of executed orders, these two and a placeholder, is
\* written to Redis and freed (free_order_list).
ScanHit ==
  LET q == Opposite(data[order]) IN
  /\ pc = "scan"
  /\ cursor # NULL
  /\ Compatible(data[order], data[cursor])
  /\ tail' = TailWithout(q, cursor)
  /\ head' = HeadWithout(q, cursor)
  /\ next' = NextWithout(cursor)
  /\ previous' = PreviousWithout(cursor)
  /\ trades' = Append(trades, Traded)
  /\ data' = FreedOf({order, cursor})
  /\ order' = NULL
  /\ cursor' = NULL
  /\ pc' = "receive"
  /\ UNCHANGED order_number

\* Faulty variant of TailAfter: the tail stays where it was.
TailNotMoved(q) == IF head[q] = NULL THEN [tail EXCEPT ![q] = order] ELSE tail

TailAfter(q) == [tail EXCEPT ![q] = order]

\* No compatible order: the order is the new tail of its own queue.  Its
\* previous pointer is not set.
Enqueue ==
  LET q == Own(data[order]) IN
  /\ pc = "scan"
  /\ cursor = NULL
  /\ head' = IF head[q] = NULL THEN [head EXCEPT ![q] = order] ELSE head
  /\ next' = IF head[q] = NULL THEN next ELSE [next EXCEPT ![tail[q]] = order]
  /\ tail' = TailAfter(q)
  /\ order' = NULL
  /\ pc' = "receive"
  /\ UNCHANGED <<data, previous, cursor, order_number, trades>>

Next ==
  \/ \E n \in Node, r \in Request : Receive(n, r) \/ ReceiveCancel(n, r)
  \/ ScanNext
  \/ ScanHit
  \/ Enqueue

Spec == Init /\ [][Next]_vars

\* The engine runs: a call of match_trade is not abandoned half-way.
FairSpec == Spec /\ WF_vars(ScanNext \/ ScanHit \/ Enqueue)
-------------------------------------------------------------------------------
TypeOK ==
  /\ alloc \subseteq Node
  /\ data \in [alloc -> Order]
  /\ next \in [Node -> Pointer]
  /\ previous \in [Node -> Pointer]
  /\ head \in [Queue -> Pointer]
  /\ tail \in [Queue -> Pointer]
  /\ pc \in {"receive", "scan"}
  /\ order \in Pointer
  /\ cursor \in Pointer
  /\ order_number \in 0..MaxOrders
  /\ trades \in Seq(Order \X Order)

\* The scan loop ends: every call of match_trade returns.  A cycle among the
\* next pointers would keep the engine in the loop for ever.
EveryCallReturns == pc = "scan" ~> pc = "receive"
==============================================================================
