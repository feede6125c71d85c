----------------------------- MODULE QuoteReceiver -----------------------------
(***************************************************************************)
(* The customer's copy of the order book: process_market_data_feed of      *)
(* clients/client_receiver.c (and the loop of client_l_m.c) with           *)
(* get_orders_from_tape, add_order_to_redis and                            *)
(* delete_inactive_quotes_from_redis of clients/helper.c.  The customer's  *)
(* programs list the quotes between any two of these commands.             *)
(***************************************************************************)
EXTENDS RedisStore, FiniteSets

CONSTANT NULL

VARIABLES
  tape,         \* the messages in the network, shared with the market data
  c_order,      \* c-order:<oid>, a partial function of order numbers
  all_orders,   \* customer_all_orders: the time of each quote, by number
  rcv_pc,       \* "down", "wait", "details", "list" or "clean"
  rcv_message,  \* the message being handled, or NULL
  rcv_todo,     \* its entries still to be stored
  handled       \* history: while it waits, the numbers of the last message, if
                \* that was handled to its end, else NULL

rcvVars == <<c_order, all_orders, rcv_pc, rcv_message, rcv_todo, handled>>

RcvInit ==
  /\ c_order = EmptyMap
  /\ all_orders = EmptyMap
  /\ rcv_pc = "down"
  /\ rcv_message = NULL
  /\ rcv_todo = << >>
  /\ handled = NULL

\* The process is started and joins the multicast group.
RcvStart ==
  /\ rcv_pc = "down"
  /\ rcv_pc' = "wait"
  /\ UNCHANGED <<tape, c_order, all_orders, rcv_message, rcv_todo, handled>>

\* get_orders_from_tape puts each new order before those it has parsed.
Parsed(entries) ==
  [i \in 1..Len(entries) |-> entries[Len(entries) + 1 - i]]

\* recvfrom: any message that has arrived, and its parsing.
Receive(m) ==
  /\ rcv_pc = "wait"
  /\ m \in tape
  /\ tape' = tape \ {m}
  /\ rcv_message' = m
  /\ rcv_todo' = Parsed(m.entries)
  /\ rcv_pc' = IF m.entries = << >> THEN "clean" ELSE "details"
  /\ handled' = NULL
  /\ UNCHANGED <<c_order, all_orders>>

\* add_order_to_redis(red_con, head, 0): the details of a quote ...
StoreDetails ==
  /\ rcv_pc = "details"
  /\ c_order' = Put(c_order, Head(rcv_todo).oid, Head(rcv_todo).details)
  /\ rcv_pc' = "list"
  /\ UNCHANGED <<tape, all_orders, rcv_message, rcv_todo, handled>>

\* Faulty variant of ListQuote: the time of the tape is not picked up.
ListUntimed ==
  /\ rcv_pc = "list"
  /\ all_orders' = Put(all_orders, Head(rcv_todo).oid, 0)
  /\ rcv_todo' = Tail(rcv_todo)
  /\ rcv_pc' = IF rcv_todo' = << >> THEN "clean" ELSE "details"
  /\ UNCHANGED <<tape, c_order, rcv_message, handled>>

\* ... and then its entry in customer_all_orders, with the time of the tape.
ListQuote ==
  /\ rcv_pc = "list"
  /\ all_orders' = Put(all_orders, Head(rcv_todo).oid, rcv_message.time)
  /\ rcv_todo' = Tail(rcv_todo)
  /\ rcv_pc' = IF rcv_todo' = << >> THEN "clean" ELSE "details"
  /\ UNCHANGED <<tape, c_order, rcv_message, handled>>

\* The time of the last quote, 0 if there is no active quote.
LastTime == IF rcv_message.entries = << >> THEN 0 ELSE rcv_message.time

\* Faulty variant of Obsolete: without an active quote nothing is deleted.
ObsoleteUnlessEmpty ==
  IF rcv_message.entries = << >> THEN {}
  ELSE {oid \in DOMAIN all_orders : all_orders[oid] # LastTime}

\* The quotes that carry another time than the last.
Obsolete == {oid \in DOMAIN all_orders : all_orders[oid] # LastTime}

\* HGETALL customer_all_orders and one HDEL after the other.
DeleteQuote ==
  /\ rcv_pc = "clean"
  /\ Obsolete # {}
  /\ \E oid \in Obsolete :
       all_orders' = [o \in DOMAIN all_orders \ {oid} |-> all_orders[o]]
  /\ UNCHANGED <<tape, c_order, rcv_pc, rcv_message, rcv_todo, handled>>

\* free_order_list; the process waits for the next message.
Handled ==
  /\ rcv_pc = "clean"
  /\ Obsolete = {}
  /\ handled' = {rcv_message.entries[i].oid : i \in 1..Len(rcv_message.entries)}
  /\ rcv_message' = NULL
  /\ rcv_pc' = "wait"
  /\ UNCHANGED <<tape, c_order, all_orders, rcv_todo>>

\* A command of Redis fails, or the process is killed.  Its store remains.
RcvStop ==
  /\ rcv_pc # "down"
  /\ rcv_pc' = "down"
  /\ rcv_message' = NULL
  /\ rcv_todo' = << >>
  /\ handled' = NULL
  /\ UNCHANGED <<tape, c_order, all_orders>>

RcvStep == RcvStart \/ StoreDetails \/ ListQuote \/ DeleteQuote \/ Handled
===============================================================================
