------------------------------ MODULE OrderLife ------------------------------
(***************************************************************************)
(* The exchange as its customers see it: the life of an order from the     *)
(* number its customer is given to the notification.  Exchange is shown to *)
(* implement this specification, whatever stops, fails or is restarted;    *)
(* Customer is built on it.                                                *)
(*                                                                         *)
(* An order is a pair <<number, customer>>.  The exchange may hand out a   *)
(* number again (after a restart), and it may notify an order many times.  *)
(***************************************************************************)
EXTENDS Naturals

CONSTANTS
  Cid,        \* the customers
  Ip,         \* the addresses of their hosts
  address,    \* [Cid -> Ip]
  MaxOrders   \* bound on the order numbers

VARIABLES
  acked,      \* the orders acknowledged
  traded,     \* the orders that traded in memory
  queued,     \* executed_orders, a set of numbers
  notified    \* the <<number, address>> pairs of the notifications answered

lifeVars == <<acked, traded, queued, notified>>

LifeInit ==
  /\ acked = {}
  /\ traded = {}
  /\ queued = {}
  /\ notified = {}

Numbers(orders) == {o[1] : o \in orders}

\* The customer is given the number of its order.
Acknowledge(oid, cid) ==
  /\ acked' = acked \cup {<<oid, cid>>}
  /\ UNCHANGED <<traded, queued, notified>>

\* Two orders trade with each other.  (They may even have the same number, when
\* a restart was not told the active orders.)
Trade(x, y) ==
  /\ {x, y} \subseteq acked
  /\ traded' = traded \cup {x, y}
  /\ UNCHANGED <<acked, queued, notified>>

\* move_orders_to_exec_queue_redis, for an order that traded.
Enqueue(oid) ==
  /\ oid \in Numbers(traded)
  /\ queued' = queued \cup {oid}
  /\ UNCHANGED <<acked, traded, notified>>

\* The host of a customer that was given the number answers the notification.  It
\* may do so late, when the order was notified once more and has left the queue.
Notify(oid, ip) ==
  /\ oid \in queued \cup Numbers(notified)
  /\ \E cid \in Cid : <<oid, cid>> \in acked /\ address[cid] = ip
  /\ notified' = notified \cup {<<oid, ip>>}
  /\ UNCHANGED <<acked, traded, queued>>

\* The order leaves the queue, after somebody was notified.
Dequeue(oid) ==
  /\ oid \in Numbers(notified)
  /\ queued' = queued \ {oid}
  /\ UNCHANGED <<acked, traded, notified>>

LifeNext ==
  \/ \E oid \in 1..MaxOrders, cid \in Cid : Acknowledge(oid, cid)
  \/ \E x, y \in acked : Trade(x, y)
  \/ \E oid \in 1..MaxOrders : Enqueue(oid) \/ Dequeue(oid)
  \/ \E oid \in 1..MaxOrders, ip \in Ip : Notify(oid, ip)

LifeSpec == LifeInit /\ [][LifeNext]_lifeVars
===============================================================================
