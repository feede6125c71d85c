----------------------------- MODULE ActiveOrders -----------------------------
(***************************************************************************)
(* What the order server promises to the programs that read the active     *)
(* orders from Redis while it writes them: only orders that were accepted  *)
(* are written, and an order is active only once its details are there.    *)
(* OrderServer is shown to implement this specification; Feed is built on  *)
(* it.  A number may be handed out again (after a restart).                *)
(***************************************************************************)
EXTENDS Matching, RedisStore

CONSTANT MaxOrders   \* bound on the order numbers

VARIABLES
  details,    \* order:<oid>, a partial function of the order numbers
  active,     \* active_orders, a hash of order numbers
  accepted    \* the buy and sell orders acknowledged to their clients

storeVars == <<details, active, accepted>>

StoreInit ==
  /\ details = EmptyMap
  /\ active = EmptyHash
  /\ accepted = {}

Accept(r, oid) ==
  /\ accepted' = accepted \cup {Normalize(Numbered(r, oid))}
  /\ UNCHANGED <<details, active>>

\* add_order_to_redis_details
WriteDetails(o) ==
  /\ o \in accepted
  /\ details' = Put(details, o.oid, o)
  /\ UNCHANGED <<active, accepted>>

\* Faulty variant of Activate: the details are not waited for.
ActivateAnyOrder(oid) ==
  /\ active' = HSet(active, oid)
  /\ UNCHANGED <<details, accepted>>

\* add_order_to_redis_hash
Activate(oid) ==
  /\ oid \in DOMAIN details
  /\ active' = HSet(active, oid)
  /\ UNCHANGED <<details, accepted>>

\* move_orders_to_exec_queue_redis
Deactivate(oid) ==
  /\ active' = HDel(active, oid)
  /\ UNCHANGED <<details, accepted>>

StoreNext ==
  \/ \E r \in Request, oid \in 1..MaxOrders :
       r.operation \in Side /\ Accept(r, oid)
  \/ \E o \in accepted : WriteDetails(o)
  \/ \E oid \in 1..MaxOrders : Activate(oid) \/ Deactivate(oid)

StoreSpec == StoreInit /\ [][StoreNext]_storeVars
===============================================================================
