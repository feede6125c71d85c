------------------------------- MODULE Customer -------------------------------
(***************************************************************************)
(* A customer: its runs of client_s, which send one order each, and its    *)
(* receiver (client_receiver.c), programs that share the customer's Redis. *)
(* Of the exchange they see what OrderLife says of it, which Exchange      *)
(* implements, and the quotes of Feed.                                     *)
(*                                                                         *)
(* A run of client_s lists its order only after the exchange has answered; *)
(* the receiver deletes it from the list when it has been notified.  The   *)
(* network decides which comes first.                                      *)
(*                                                                         *)
(* A cancellation is an order that never trades: its number does not go    *)
(* over the wire, the exchange gives it one of its own and drops it, and   *)
(* client_s lists it as it lists any other order.                          *)
(***************************************************************************)
EXTENDS Wire, RedisStore

CONSTANTS
  Me, Other,       \* the customer, and any other
  Home, Elsewhere, \* their hosts
  Sender,          \* the runs of client_s
  amount,          \* [Sender -> Int]: the AMOUNT each is given
  NULL,
  MaxOrders,       \* bound on the order numbers
  MayGet,          \* bound: the numbers that each Sender and Other may be given
  MaxFaults        \* bound on the stops of the receiver, on its Redis
                   \* errors and on the quotes without details

ASSUME CustomerAssumption ==
  /\ amount \in [Sender -> Int] /\ \A s \in Sender : IsAmount(amount[s])
  /\ MayGet \in [Sender \cup {Other} -> SUBSET (1..MaxOrders)]
  /\ MaxOrders \in Nat /\ MaxFaults \in Nat
  /\ Me # Other /\ Home # Elsewhere /\ Other \notin Sender

ASSUME NullAssumption == NULL \notin Nat

VARIABLES
  (* the exchange, as OrderLife has it *)
  acked, traded, queued, notified,
  (* the runs of client_s *)
  sender_pc,    \* "send", "details", "list", "done", "failed", or "gone":
                \* failed while its order was on its way
  number,       \* the number of its order, or NULL
  (* the customer's Redis *)
  c_order,      \* c-order:<oid>: whose order it is and the quantity shown, or
                \* NULL for details that are no order's
  my_orders,    \* customer_my_orders, a set of numbers
  (* the receiver *)
  rcv_pc,       \* "down", "wait" or "unlist"
  rcv_oid,      \* the order it was notified of, or NULL
  (* history *)
  overtaken,    \* the runs whose order was unlisted before they listed it
  interrupted,  \* the numbers the receiver did not come to unlist
  (* budget *)
  faults

Customers == {Me, Other}
Life == INSTANCE OrderLife WITH
  Cid <- Customers, Ip <- {Home, Elsewhere},
  address <- [c \in Customers |-> IF c = Me THEN Home ELSE Elsewhere]

life      == <<acked, traded, queued, notified>>
senders   == <<sender_pc, number>>
store     == <<c_order, my_orders>>
receiver  == <<rcv_pc, rcv_oid>>
history   == <<overtaken, interrupted>>
vars      == <<life, senders, store, receiver, history, faults>>

Init ==
  /\ Life!LifeInit
  /\ sender_pc = [s \in Sender |-> "send"]
  /\ number = [s \in Sender |-> NULL]
  /\ c_order = EmptyMap
  /\ my_orders = {}
  /\ rcv_pc = "down"
  /\ rcv_oid = NULL
  /\ overtaken = {}
  /\ interrupted = {}
  /\ faults = 0

-------------------------------------------------------------------------------
\* The run goes to pc.
Goto(s, pc) == sender_pc' = [sender_pc EXCEPT ![s] = pc]

\* send_order fails, with its order on its way or not; add_order_to_redis
\* gets an error reply; the run is killed.
Fail(s) ==
  /\ sender_pc[s] \in {"send", "details", "list"}
  /\ \/ Goto(s, "failed")
     \/ sender_pc[s] = "send" /\ Goto(s, "gone")
  /\ UNCHANGED <<life, number, store, receiver, history, faults>>

\* The exchange answers with the number of the order.
Answered(s, oid) ==
  /\ sender_pc[s] \in {"send", "gone"}
  /\ Life!Acknowledge(oid, Me)
  /\ number' = [number EXCEPT ![s] = oid]
  /\ Goto(s, IF sender_pc[s] = "send" THEN "details" ELSE "failed")
  /\ UNCHANGED <<store, receiver, history, faults>>

\* The order server ends without an answer.  recv returns 0, which is not an
\* error; the number read from the empty answer is 0.
Closed(s) ==
  /\ sender_pc[s] = "send"
  /\ number' = [number EXCEPT ![s] = 0]
  /\ Goto(s, "details")
  /\ UNCHANGED <<life, store, receiver, history, faults>>

\* The details of an order as a customer is shown them.
Details(owner, quantity) == [owner |-> owner, quantity |-> quantity]

\* Faulty variant of StoreDetails: the order is listed first.
ListBeforeDetails(s) ==
  /\ sender_pc[s] = "details"
  /\ my_orders' = my_orders \cup {number[s]}
  /\ Goto(s, "list")
  /\ UNCHANGED <<life, number, c_order, receiver, history, faults>>

\* add_order_to_redis(red_con, order, 1): HSET c-order:<oid> ...
StoreDetails(s) ==
  /\ sender_pc[s] = "details"
  /\ c_order' = Put(c_order, number[s], Details(s, Typed(amount[s])))
  /\ Goto(s, "list")
  /\ UNCHANGED <<life, number, my_orders, receiver, history, faults>>

\* ... and HSET customer_my_orders.
ListOrder(s) ==
  /\ sender_pc[s] = "list"
  /\ my_orders' = my_orders \cup {number[s]}
  /\ Goto(s, "done")
  /\ UNCHANGED <<life, number, c_order, receiver, history, faults>>
-------------------------------------------------------------------------------
\* The receiver is started: TCP and UDP sockets, Redis.
RcvStart ==
  /\ rcv_pc = "down"
  /\ rcv_pc' = "wait"
  /\ UNCHANGED <<life, senders, store, rcv_oid, history, faults>>

\* The orders that were given a number.
Owners(oid) ==
  {s \in Sender : number[s] = oid}
  \cup (IF <<oid, Other>> \in acked THEN {Other} ELSE {})

\* The quote of an order on the tape.
QuoteOf(owner) ==
  Details(owner, IF owner \in Sender THEN Quoted(amount[owner]) ELSE 1)

\* process_market_data_feed: the details of a quote are stored where those of
\* the customer's own orders are.  (A tape may be late: it may quote any order
\* that ever had the number.)
StoreQuote(oid) ==
  /\ rcv_pc = "wait"
  /\ \E owner \in Owners(oid) : c_order' = Put(c_order, oid, QuoteOf(owner))
  /\ UNCHANGED <<life, senders, my_orders, receiver, history, faults>>

\* An entry that came without details is read together with the one after it:
\* the details stored are those of no order.
StoreGarbled(oid) ==
  /\ rcv_pc = "wait"
  /\ Owners(oid) # {}
  /\ faults < MaxFaults
  /\ faults' = faults + 1
  /\ c_order' = Put(c_order, oid, NULL)
  /\ UNCHANGED <<life, senders, my_orders, receiver, history>>

\* process_order_gateway_notification: a notification is read and answered.
\* One that exec repeated may be read when the order has left the queue.
FirstNotified(oid) ==
  /\ rcv_pc = "wait"
  /\ Life!Notify(oid, Home)
  /\ <<oid, Home>> \notin notified
  /\ rcv_pc' = "unlist"
  /\ rcv_oid' = oid
  /\ UNCHANGED <<senders, store, history, faults>>

NotifiedAgain(oid) ==
  /\ rcv_pc = "wait"
  /\ <<oid, Home>> \in notified
  /\ rcv_pc' = "unlist"
  /\ rcv_oid' = oid
  /\ UNCHANGED <<life, senders, store, history, faults>>

\* Faulty variants of Unlist: nothing is deleted; the whole list is.
UnlistNothing ==
  /\ rcv_pc = "unlist"
  /\ rcv_pc' = "wait"
  /\ rcv_oid' = NULL
  /\ UNCHANGED <<life, senders, store, history, faults>>

UnlistAll ==
  /\ rcv_pc = "unlist"
  /\ my_orders' = {}
  /\ rcv_pc' = "wait"
  /\ rcv_oid' = NULL
  /\ UNCHANGED <<life, senders, c_order, history, faults>>

\* process_completed_order_redis: HDEL customer_my_orders.
Unlist ==
  /\ rcv_pc = "unlist"
  /\ my_orders' = my_orders \ {rcv_oid}
  /\ overtaken' = overtaken \cup
       {s \in Sender : number[s] = rcv_oid /\ sender_pc[s] # "done"}
  /\ rcv_pc' = "wait"
  /\ rcv_oid' = NULL
  /\ UNCHANGED <<life, senders, c_order, interrupted, faults>>

\* HDEL answers with an error: order is freed twice, after which the process
\* goes on or is aborted.
UnlistFails ==
  /\ rcv_pc = "unlist"
  /\ faults < MaxFaults
  /\ faults' = faults + 1
  /\ interrupted' = interrupted \cup {rcv_oid}
  /\ rcv_pc' \in {"wait", "down"}
  /\ rcv_oid' = NULL
  /\ UNCHANGED <<life, senders, store, overtaken>>

\* The receiver ends, at any point.
RcvStop ==
  /\ rcv_pc # "down"
  /\ faults < MaxFaults
  /\ faults' = faults + 1
  /\ interrupted' = IF rcv_pc = "unlist" THEN interrupted \cup {rcv_oid}
                                         ELSE interrupted
  /\ rcv_pc' = "down"
  /\ rcv_oid' = NULL
  /\ UNCHANGED <<life, senders, store, overtaken>>
-------------------------------------------------------------------------------
\* What the exchange does besides: orders of the other customer, trades, the
\* queue, and the notifications of the other customer.  An order trades with one
\* of the same number and customer only if there is such an order.
ExchangeStep ==
  /\ \/ \E oid \in MayGet[Other] : Life!Acknowledge(oid, Other)
     \/ \E oid \in 1..MaxOrders :
          \/ Life!Enqueue(oid) \/ Life!Dequeue(oid)
          \/ Life!Notify(oid, Elsewhere)
     \/ \E x, y \in acked :
          /\ x = y => \A s \in Sender : Owners(x[1]) # {s}
          /\ Life!Trade(x, y)
  /\ UNCHANGED <<senders, store, receiver, history, faults>>

Next ==
  \/ \E s \in Sender :
       \/ Fail(s) \/ Closed(s) \/ StoreDetails(s) \/ ListOrder(s)
       \/ \E oid \in MayGet[s] : Answered(s, oid)
  \/ \E oid \in 1..MaxOrders :
       \/ StoreQuote(oid) \/ StoreGarbled(oid)
       \/ FirstNotified(oid) \/ NotifiedAgain(oid)
  \/ RcvStart \/ Unlist \/ UnlistFails \/ RcvStop
  \/ ExchangeStep

\* The receiver is started again, and it goes on once it has an order to delete.
\* Nothing is assumed of the exchange: it need not tell the customer anything.
Fairness == WF_vars(RcvStart) /\ WF_vars(Unlist \/ UnlistFails)

Spec == Init /\ [][Next]_vars /\ Fairness
-------------------------------------------------------------------------------
TypeOK ==
  /\ acked \subseteq (1..MaxOrders) \X Customers
  /\ traded \subseteq acked
  /\ queued \subseteq 1..MaxOrders
  /\ notified \subseteq (1..MaxOrders) \X {Home, Elsewhere}
  /\ sender_pc \in [Sender -> {"send", "details", "list", "done", "failed",
                               "gone"}]
  /\ number \in [Sender -> (0..MaxOrders) \cup {NULL}]
  /\ DOMAIN c_order \subseteq 0..MaxOrders
  /\ c_order \in [DOMAIN c_order ->
                    [owner : Sender \cup {Other}, quantity : Unsigned]
                      \cup {NULL}]
  /\ my_orders \subseteq 0..MaxOrders
  /\ rcv_pc \in {"down", "wait", "unlist"}
  /\ rcv_oid \in (1..MaxOrders) \cup {NULL}
  /\ (rcv_pc = "unlist") <=> (rcv_oid # NULL)
  /\ overtaken \subseteq Sender
  /\ interrupted \subseteq 1..MaxOrders
  /\ faults \in 0..MaxFaults

\* Whoever stops and whatever fails, `client_s list --my` finds the details of
\* every order it lists: print_order_from_redis reads elements 2 to 5 of them
\* unchecked.
ListedHaveDetails == my_orders \subseteq DOMAIN c_order

\* Nobody else has the number of the order of s.
OnlyOrder(s) == Owners(number[s]) = {s}

Told(s) == <<number[s], Home>> \in notified

\* An order that was sent successfully is listed as long as its customer was
\* not told that it was executed, and it is shown as what it is, whether
\* client_s or a tape wrote its details last: with the amount that was typed
\* in, if that is an int.  (Only a tape with an entry that came without details
\* replaces them by something else.)
OpenListed ==
  \A s \in Sender :
    sender_pc[s] = "done" /\ OnlyOrder(s) /\ ~Told(s) =>
      /\ number[s] \in my_orders
      /\ c_order[number[s]] # NULL =>
           /\ c_order[number[s]].owner = s
           /\ amount[s] < IntHalf => c_order[number[s]].quantity = amount[s]

\* An order that is listed although its customer was told that it was executed
\* is one that the receiver is about to delete; one that it had tried to
\* delete before client_s listed it; or one it did not come to delete.
ToldUnlisted ==
  \A s \in Sender :
    sender_pc[s] = "done" /\ OnlyOrder(s) /\ Told(s) /\ number[s] \in my_orders =>
      \/ rcv_oid = number[s]
      \/ s \in overtaken
      \/ number[s] \in interrupted

\* An executed order is eventually notified.  Exchange promises it
\* (EventuallyNotified) as long as every host comes up again and nothing fails
\* any more; while another customer's host is down, it is not so.
Telling ==
  \A oid \in 1..MaxOrders : oid \in queued ~> oid \in Life!Numbers(notified)

\* If the exchange eventually notifies every executed order, an order that is
\* listed before its customer is told is eventually taken from the list once it
\* was executed, however often the receiver stops, unless it does so between
\* its answer and the deletion, or the number is handed out again.
ExecutedUnlisted ==
  Telling =>
    \A s \in Sender :
      sender_pc[s] = "done" /\ OnlyOrder(s) /\ ~Told(s) /\ number[s] \in queued
        ~> (number[s] \notin my_orders \/ number[s] \in interrupted
            \/ ~OnlyOrder(s))
-------------------------------------------------------------------------------
(* What makes the invariants inductive.                                    *)

\* A run has a number from the answer on and keeps it; whoever is told at Home
\* was given the number by a run of this customer.
NumbersKept ==
  /\ \A s \in Sender :
       /\ sender_pc[s] \in {"send", "gone"} => number[s] = NULL
       /\ sender_pc[s] \in {"details", "list", "done"} => number[s] # NULL
  /\ \A oid \in 1..MaxOrders :
       /\ <<oid, Me>> \in acked => \E s \in Sender : number[s] = oid
       /\ <<oid, Home>> \in notified => <<oid, Me>> \in acked
  /\ rcv_pc = "unlist" => <<rcv_oid, Home>> \in notified

\* The details are there before the order is listed, and of an order whose
\* number nobody else has they are its own.
DetailsFirst ==
  /\ my_orders \subseteq DOMAIN c_order
  /\ \A s \in Sender :
       sender_pc[s] \in {"list", "done"} =>
         /\ number[s] \in DOMAIN c_order
         /\ OnlyOrder(s) =>
              c_order[number[s]] \in
                {Details(s, Typed(amount[s])), QuoteOf(s), NULL}

\* An order that the receiver was told of before it was listed is one that it is
\* about to delete, has tried to delete or did not come to delete.
ToldBeforeListed ==
  \A s \in Sender :
    sender_pc[s] \in {"details", "list"} /\ OnlyOrder(s) /\ Told(s) =>
      \/ rcv_oid = number[s]
      \/ s \in overtaken
      \/ number[s] \in interrupted

\* An order that was listed stays so until the receiver is told of it.
ListedUntilTold ==
  \A s \in Sender :
    sender_pc[s] = "done" /\ OnlyOrder(s) /\ ~Told(s) => number[s] \in my_orders

IInv ==
  /\ TypeOK
  /\ NumbersKept
  /\ DetailsFirst
  /\ ToldBeforeListed
  /\ ListedUntilTold
  /\ ToldUnlisted
===============================================================================
