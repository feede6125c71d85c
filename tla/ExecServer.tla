------------------------------ MODULE ExecServer ------------------------------
(***************************************************************************)
(* The process `exec` (exchange/exec.c): it polls Redis for executed       *)
(* orders, tells each order's customer over a TCP connection, waits for    *)
(* the acknowledgement and only then deletes the order from the queue.     *)
(* Whatever goes wrong ends the whole process.                             *)
(*                                                                         *)
(* The commands that read Redis are steps of their own: the order server   *)
(* writes between any two of them.                                         *)
(***************************************************************************)
EXTENDS Matching, RedisStore

CONSTANTS
  Ip,    \* addresses of client hosts
  NULL

VARIABLES
  (* the store, shared with the order server *)
  details, executed, c2ip,
  (* the process *)
  exec_pc,        \* "poll", "read", "connect", "recv", "delete" or "down"
  exec_keys,      \* executed orders whose details are still to be read
  exec_orders,    \* the orders read and not yet handled, each with its number
  exec_map,       \* the addresses read, a partial function of Cid
  exec_exited,    \* whether the process has ended at some time
  (* the network *)
  connection,     \* the TCP connection to a customer
  stray,          \* the notifications, as <<order number, address>>, that were
                  \* sent and not yet read when the process ended
  up              \* the addresses at which a receiver listens

execMemory == <<exec_keys, exec_orders, exec_map>>
execVars   == <<exec_pc, execMemory, exec_exited, connection, stray>>

\* A connection: closed; carrying the notification; answered by an
\* acknowledgement that passes the checks; answered by anything else, by the
\* end of the connection included.
Closed == [state |-> "closed"]
Connection ==
  {Closed} \cup
  [state : {"sent", "acknowledged", "refused"}, oid : Nat, ip : Ip]

ExecInit ==
  /\ exec_pc = "down"
  /\ exec_keys = << >>
  /\ exec_orders = << >>
  /\ exec_map = EmptyMap
  /\ exec_exited = FALSE
  /\ connection = Closed
  /\ stray = {}

-------------------------------------------------------------------------------
\* The process is started: it connects to Redis and enters its loop.
ExecStart ==
  /\ exec_pc = "down"
  /\ exec_pc' = "poll"
  /\ UNCHANGED <<execMemory, exec_exited, connection, stray>>

\* HKEYS executed_orders; with an empty answer the process sleeps and asks
\* again.
Poll ==
  /\ exec_pc = "poll"
  /\ executed.keys # << >>
  /\ exec_keys' \in HKeys(executed)
  /\ exec_pc' = "read"
  /\ UNCHANGED <<exec_orders, exec_map, exec_exited, connection, stray>>

\* HVALS order:<oid> for the next key.
ReadDetails ==
  /\ exec_pc = "read"
  /\ exec_keys # << >>
  /\ Head(exec_keys) \in DOMAIN details
  /\ exec_orders' = Append(exec_orders,
                           [details[Head(exec_keys)] EXCEPT !.oid = Head(exec_keys)])
  /\ exec_keys' = Tail(exec_keys)
  /\ UNCHANGED <<exec_pc, exec_map, exec_exited, connection, stray>>

\* HGETALL c2ip, after the orders.
ReadMap ==
  /\ exec_pc = "read"
  /\ exec_keys = << >>
  /\ exec_map' = c2ip
  /\ exec_pc' = "connect"
  /\ UNCHANGED <<exec_keys, exec_orders, exec_exited, connection, stray>>

\* Faulty variant of Address: the search of the mapping stops at once.
AnyAddress(cid) == exec_map[CHOOSE c \in DOMAIN exec_map : TRUE]

\* The address the list search finds for a customer.
Address(cid) == exec_map[cid]

\* The receiver of the next order's customer takes the connection and is sent
\* the notification.
Connect ==
  LET o == Head(exec_orders) IN
  /\ exec_pc = "connect"
  /\ exec_orders # << >>
  /\ o.cid \in DOMAIN exec_map
  /\ Address(o.cid) \in up
  /\ connection' = [state |-> "sent", oid |-> o.oid, ip |-> Address(o.cid)]
  /\ exec_pc' = "recv"
  /\ UNCHANGED <<execMemory, exec_exited, stray>>

\* Faulty variant of Deletable: the answer is not looked at.
AnyAnswer == connection.state # "sent"

\* order_id, status and ts_ack of the answer are right.
Deletable == connection.state = "acknowledged"

\* Faulty variants of Delete: the order stays in the queue; the loop does not
\* go on to the next order.
DeleteNothing ==
  /\ exec_pc = "recv"
  /\ Deletable
  /\ UNCHANGED executed
  /\ exec_orders' = Tail(exec_orders)
  /\ connection' = Closed
  /\ exec_pc' = "connect"
  /\ UNCHANGED <<exec_keys, exec_map, exec_exited, stray>>

DeleteAndWait ==
  /\ exec_pc = "recv"
  /\ Deletable
  /\ executed' = HDel(executed, connection.oid)
  /\ exec_orders' = Tail(exec_orders)
  /\ connection' = Closed
  /\ UNCHANGED <<exec_pc, exec_keys, exec_map, exec_exited, stray>>

\* recv returns, the answer is checked, the order deleted from the queue and
\* the connection closed.  recv has no timeout.
Delete ==
  /\ exec_pc = "recv"
  /\ Deletable
  /\ executed' = HDel(executed, connection.oid)
  /\ exec_orders' = Tail(exec_orders)
  /\ connection' = Closed
  /\ exec_pc' = "connect"
  /\ UNCHANGED <<exec_keys, exec_map, exec_exited, stray>>

\* The list is done; the process sleeps for 500 ms.
Sleep ==
  /\ exec_pc = "connect"
  /\ exec_orders = << >>
  /\ exec_pc' = "poll"
  /\ exec_map' = EmptyMap
  /\ UNCHANGED <<exec_keys, exec_orders, exec_exited, connection, stray>>

\* The process ends; the kernel closes its connection.  What the process has sent
\* is still delivered.
Exit ==
  /\ exec_pc' = "down"
  /\ exec_keys' = << >>
  /\ exec_orders' = << >>
  /\ exec_map' = EmptyMap
  /\ exec_exited' = TRUE
  /\ connection' = Closed
  /\ stray' = IF connection.state = "sent"
                THEN stray \cup {<<connection.oid, connection.ip>>} ELSE stray

\* The details of an executed order are missing: the reply of Redis has no
\* element 0.
DetailsMissing ==
  /\ exec_pc = "read"
  /\ exec_keys # << >>
  /\ Head(exec_keys) \notin DOMAIN details
  /\ Exit

\* Redis answers a read with an error, a reply without elements.  That of HKEYS is
\* taken for an empty queue, and the process asks again; that of HVALS is read all
\* the same, which ends the process; that of HGETALL is an empty mapping.
ReadError ==
  \/ exec_pc = "poll" /\ UNCHANGED execVars
  \/ exec_pc = "read" /\ exec_keys # << >> /\ Exit
  \/ /\ exec_pc = "read"
     /\ exec_keys = << >>
     /\ exec_map' = EmptyMap
     /\ exec_pc' = "connect"
     /\ UNCHANGED <<exec_keys, exec_orders, exec_exited, connection, stray>>

\* The customer of the next order has no address: chead is NULL.
AddressMissing ==
  /\ exec_pc = "connect"
  /\ exec_orders # << >>
  /\ Head(exec_orders).cid \notin DOMAIN exec_map
  /\ Exit

\* "Cannot connect": nobody listens at the address.
ConnectFails ==
  /\ exec_pc = "connect"
  /\ exec_orders # << >>
  /\ Head(exec_orders).cid \in DOMAIN exec_map
  /\ Address(Head(exec_orders).cid) \notin up
  /\ Exit

\* The answer is not the expected acknowledgement.
AnswerRefused ==
  /\ exec_pc = "recv"
  /\ connection.state = "refused"
  /\ Exit

\* The steps that leave Redis alone, and the one that does not.
ExecReads == Poll \/ ReadDetails \/ ReadMap \/ Connect \/ Sleep
ExecFails == DetailsMissing \/ AddressMissing \/ ConnectFails \/ AnswerRefused

ExecTypeOK ==
  /\ exec_pc \in {"poll", "read", "connect", "recv", "down"}
  /\ exec_keys \in Seq(Nat)
  /\ exec_orders \in Seq(Resting)
  /\ DOMAIN exec_map \subseteq Cid /\ exec_map \in [DOMAIN exec_map -> Ip]
  /\ exec_exited \in BOOLEAN
  /\ connection \in Connection
  /\ stray \subseteq Nat \X Ip
===============================================================================
