------------------------------- MODULE Exchange -------------------------------
(***************************************************************************)
(* The exchange: the order server and the exec server, two processes that  *)
(* share nothing but Redis, and the hosts of the customers.  A customer    *)
(* sends its orders from the host it is at and has its receiver there; the *)
(* receiver (clients/client_receiver.c) answers a notification first and   *)
(* then updates its own Redis.  Hosts in Unreliable may be down at times   *)
(* and may answer wrongly (a clock that is behind is enough).              *)
(***************************************************************************)
EXTENDS OrderServer

CONSTANTS
  address,      \* [Cid -> Ip]: the host of each customer
  Unreliable    \* the hosts that may be down or answer wrongly

ASSUME AddressAssumption == address \in [Cid -> Ip] /\ Unreliable \subseteq Ip

VARIABLES
  exec_pc, exec_keys, exec_orders, exec_map, exec_exited, connection, stray, up,
  notified      \* history: the <<order number, host>> pairs of notifications

Exec == INSTANCE ExecServer

\* The variables besides those of the order server (serverVars).
execMemory == <<exec_keys, exec_orders, exec_map>>
execVars   == <<exec_pc, execMemory, exec_exited, connection, stray>>
vars       == <<serverVars, execVars, up, notified>>

ExchangeInit ==
  /\ Init
  /\ Exec!ExecInit
  /\ up = Ip
  /\ notified = {}

-------------------------------------------------------------------------------
\* The order server takes a step; the customers send from where they are.
OrderStep == ServerStep /\ UNCHANGED <<execVars, up, notified>>

Receive ==
  /\ \E r \in Request : Accept(r, address[r.cid])
  /\ UNCHANGED <<execVars, up, notified>>

OrderStop == Stop /\ UNCHANGED <<execVars, up, notified>>

\* The exec server takes a step.
ExecUnchanged == UNCHANGED <<order_pc, memory, details, active, c2ip,
                             history, budget, up, notified>>

ExecStart == Exec!ExecStart /\ UNCHANGED executed /\ ExecUnchanged
ExecReads == Exec!ExecReads /\ UNCHANGED executed /\ ExecUnchanged
ExecFails == Exec!ExecFails /\ UNCHANGED executed /\ ExecUnchanged
Delete    == Exec!Delete /\ ExecUnchanged

\* Redis answers a command of it with an error: a read, or HDEL, upon which the
\* process ends.
ReadFails ==
  /\ errors < MaxErrors
  /\ errors' = errors + 1
  /\ Exec!ReadError
  /\ UNCHANGED <<order_pc, memory, redis, history, crashes, up, notified>>

DeleteFails ==
  /\ exec_pc = "recv"
  /\ Exec!Deletable
  /\ errors < MaxErrors
  /\ errors' = errors + 1
  /\ Exec!Exit
  /\ UNCHANGED <<order_pc, memory, redis, history, crashes, up, notified>>

\* It is killed, at whatever point.
ExecStop ==
  /\ exec_pc # "down"
  /\ ~exec_exited
  /\ Exec!Exit
  /\ UNCHANGED <<serverVars, up, notified>>

\* The receiver at the other end of the connection reads the notification and
\* answers it.
Answer(state) ==
  /\ connection.state = "sent"
  /\ connection.ip \in up
  /\ state = "refused" => connection.ip \in Unreliable
  /\ notified' = notified \cup {<<connection.oid, connection.ip>>}
  /\ connection' = [connection EXCEPT !.state = state]
  /\ UNCHANGED <<serverVars, exec_pc, execMemory, exec_exited, stray, up>>

\* It reads and answers a notification of an exec server that has ended: nobody
\* sees this answer.
AnswerStray(n) ==
  /\ n \in stray
  /\ n[2] \in up
  /\ notified' = notified \cup {n}
  /\ stray' = stray \ {n}
  /\ UNCHANGED <<serverVars, exec_pc, execMemory, exec_exited, connection, up>>

\* A host goes down, with the connections to it, and comes back.
HostDown(ip) ==
  /\ ip \in Unreliable \cap up
  /\ up' = up \ {ip}
  /\ connection' = IF connection.state = "sent" /\ connection.ip = ip
                     THEN [connection EXCEPT !.state = "refused"]
                     ELSE connection
  /\ stray' = {n \in stray : n[2] # ip}
  /\ UNCHANGED <<serverVars, exec_pc, execMemory, exec_exited, notified>>

HostUp(ip) ==
  /\ ip \in Ip \ up
  /\ up' = up \cup {ip}
  /\ UNCHANGED <<serverVars, execVars, notified>>

ExchangeNext ==
  \/ Receive \/ OrderStep \/ OrderStop
  \/ ExecStart \/ ExecReads \/ ExecFails \/ Delete
  \/ ReadFails \/ DeleteFails \/ ExecStop
  \/ \E state \in {"acknowledged", "refused"} : Answer(state)
  \/ \E n \in stray : AnswerStray(n)
  \/ \E ip \in Ip : HostDown(ip) \/ HostUp(ip)

Answers == \E state \in {"acknowledged", "refused"} : Answer(state)

\* Both processes run on and are started again when they ended; a receiver
\* that has a notification answers it.  A host that is down need not come
\* back.
Fairness ==
  /\ WF_vars(OrderStep)
  /\ WF_vars(ExecStart)
  /\ WF_vars(ExecReads \/ ExecFails \/ Delete)
  /\ WF_vars(Answers)

ExchangeSpec == ExchangeInit /\ [][ExchangeNext]_vars /\ Fairness
-------------------------------------------------------------------------------
ExchangeTypeOK ==
  /\ TypeOK
  /\ Exec!ExecTypeOK
  /\ up \subseteq Ip
  /\ notified \subseteq Nat \X Ip

Notified(oid) == \E ip \in Ip : <<oid, ip>> \in notified

\* What a customer sees of the exchange, however the processes and hosts stop,
\* restart and interleave, and whatever fails, is the life of an order: only
\* acknowledged orders trade, only traded ones are queued, only a customer that
\* was given the number is told, and an order stays in the queue until somebody
\* was: no notification is lost.
Life == INSTANCE OrderLife WITH
  acked  <- {<<acked[i].oid, acked[i].cid>> : i \in 1..Len(acked)},
  traded <- {<<o.oid, o.cid>> : o \in Traded},
  queued <- Fields(executed)

ImplementsOrderLife == Life!LifeSpec

\* The exec server reads the orders first and the addresses afterwards, so an
\* order it has read has an address, even of a customer that the order server
\* has just met.
AddressKnown ==
  exec_pc = "connect" /\ exec_orders # << >> /\ errors = 0 =>
    Head(exec_orders).cid \in DOMAIN exec_map

\* Likewise the details of an executed order are there when they are read.
DetailsKnown ==
  exec_pc = "read" /\ exec_keys # << >> /\ errors = 0 =>
    Head(exec_keys) \in DOMAIN details

\* The customer that is told is one whose order with that number traded.
\* (After a stop of the order server a number may be in use twice, and the
\* other customer that has it is told.)
OwnerNotified ==
  crashes = 0 =>
    \A n \in notified : \E o \in Traded :
      o.oid = n[1] /\ address[o.cid] = n[2]

\* A customer is told once, unless the exec server ended between the answer
\* and the deletion, or the order server stopped.
NotifiedOnce ==
  [][connection.state = "sent" /\ connection'.state = "acknowledged"
       /\ ~exec_exited /\ crashes = 0
     => ~Notified(connection.oid)]_vars

\* From some time on all hosts are up and the exec server does not end.
Recovered ==
  /\ <>[](up = Ip)
  /\ <>[][exec_pc' # "down"]_exec_pc

\* Whatever stopped or failed before, once that is over every executed order is
\* notified: no stop, answer or error leaves a state that keeps an order from
\* its notification.  (An order whose address was not stored ends the exec
\* server again and again.)
EventuallyNotified ==
  Recovered =>
    \A oid \in 1..MaxOrders : oid \in Fields(executed) ~> Notified(oid)

\* An executed order of a customer whose host is reliable.
QueuedForReliable(oid) ==
  /\ oid \in Fields(executed)
  /\ \A o \in Traded : o.oid = oid => address[o.cid] \notin Unreliable

\* The README of `exec`: it "polls the Redis DB every 500 ms", executes the
\* orders and "sends the response to the customer".  So an executed order of
\* a customer whose host is reliable is eventually notified.
ReliableNotified ==
  \A oid \in 1..MaxOrders : QueuedForReliable(oid) ~> Notified(oid)
-------------------------------------------------------------------------------
(* What makes the invariants inductive, besides SInv of the order server.  *)

\* An order that a customer was told the number of.
Owned(o) ==
  \E i \in 1..Len(acked) : acked[i].oid = o.oid /\ acked[i].cid = o.cid

OrdersOwned ==
  /\ \A q \in Queue : \A i \in 1..Len(book[q]) : Owned(book[q][i])
  /\ \A t \in Traded : Owned(t)

\* An address that is stored is the right one, and stored before its customer is
\* given the number of an order.
AddressesFirst ==
  /\ \A cid \in DOMAIN c2ip : c2ip[cid] = address[cid]
  /\ \A cid \in DOMAIN exec_map : exec_map[cid] = address[cid]
  /\ order_pc = "reply" => order.cid \in DOMAIN cid_ip_map
  /\ errors = 0 =>
       /\ DOMAIN cid_ip_map \subseteq DOMAIN c2ip
       /\ \A i \in 1..Len(acked) : acked[i].cid \in DOMAIN c2ip

\* Until the order server is stopped, no number is used twice.
NumbersUnique ==
  crashes = 0 =>
    /\ order_pc = "down" => acked = << >> /\ Fields(active) = {}
    /\ order_number = Len(acked) + (IF order_pc = "reply" THEN 1 ELSE 0)
    /\ \A i \in 1..Len(acked) : acked[i].oid = i

\* What exec has read and not yet handled is still in the queue, each order
\* once, and is the order of a customer with that number.
ExecReading ==
  /\ FieldsOnce(executed)
  /\ exec_pc # "read" => exec_keys = << >>
  /\ exec_pc \in {"down", "poll"} => exec_orders = << >>
  /\ \A i \in 1..Len(exec_keys) :
       /\ exec_keys[i] \in Fields(executed)
       /\ errors = 0 => exec_keys[i] \in DOMAIN details
       /\ \A j \in 1..Len(exec_keys) : exec_keys[i] = exec_keys[j] => i = j
       /\ \A j \in 1..Len(exec_orders) : exec_keys[i] # exec_orders[j].oid
  /\ \A i \in 1..Len(exec_orders) :
       /\ exec_orders[i].oid \in Fields(executed)
       /\ Owned(exec_orders[i])
       /\ exec_pc # "read" /\ errors = 0 => exec_orders[i].cid \in DOMAIN exec_map
       /\ \A j \in 1..Len(exec_orders) :
            exec_orders[i].oid = exec_orders[j].oid => i = j

\* The connection is about the first of these orders, and to its customer.
ExecTelling ==
  /\ exec_pc # "recv" => connection = Exec!Closed
  /\ exec_pc = "recv" =>
       /\ exec_orders # << >>
       /\ connection.state \in {"sent", "acknowledged", "refused"}
       /\ connection.oid = Head(exec_orders).oid
       /\ connection.ip = address[Head(exec_orders).cid]
       /\ connection.state = "acknowledged" =>
            <<connection.oid, connection.ip>> \in notified

\* An order that is in the queue of exec, or was.
Queued(oid) == oid \in Fields(executed) \/ Notified(oid)

\* A notification that outlived its sender is about an order in the queue, or one
\* whose customer was notified meanwhile, and goes to such a customer.
StraySound ==
  /\ stray # {} => exec_exited
  /\ \A n \in stray :
       /\ Queued(n[1])
       /\ \E i \in 1..Len(acked) : acked[i].oid = n[1] /\ address[acked[i].cid] = n[2]
       /\ crashes = 0 => \E o \in Traded : o.oid = n[1] /\ address[o.cid] = n[2]

XInv ==
  /\ SInv /\ ExchangeTypeOK
  /\ OrdersOwned /\ AddressesFirst /\ NumbersUnique
  /\ ExecReading /\ ExecTelling /\ StraySound
  /\ OwnerNotified

(* And further, as long as the order server was not stopped.               *)

\* No order trades twice, and none is put in the queue twice.
QueuedOnce ==
  crashes = 0 =>
    /\ loading = << >>
    /\ OldestFirst /\ RestingOnce
    /\ \A q \in Queue : \A i \in 1..Len(book[q]) :
         /\ book[q][i].oid <= order_number
         /\ order_pc \in {"reply", "match"} => book[q][i].oid < order_number
         /\ \A t \in Traded : t.oid # book[q][i].oid
    /\ \A t \in Traded :
         /\ t.oid <= order_number
         /\ order_pc \in {"reply", "match"} => t.oid < order_number
    /\ \A j \in 1..Len(todo) : todo[j].cmd = "execute" =>
         /\ ~Queued(todo[j].order.oid)
         /\ \A i \in 1..Len(todo) :
              todo[i].cmd = "execute" /\ todo[i].order.oid = todo[j].order.oid => i = j

\* An order that is still in the queue was not told, but for the one that exec is
\* about to delete.
ToldOnce ==
  crashes = 0 /\ ~exec_exited =>
    \A oid \in Fields(executed) : Notified(oid) =>
      exec_pc = "recv" /\ connection.oid = oid /\ connection.state # "sent"
===============================================================================
