---------------------------- MODULE CustomerProofs ----------------------------
(***************************************************************************)
(* The invariants of Customer, for any runs of client_s, any numbers that  *)
(* they may be given and any amounts: what is listed has details, an order *)
(* is listed until its customer is told, and shown as what it is.          *)
(*                                                                         *)
(* The inductive invariant is IInv.  A number is never taken back from a   *)
(* run, so once somebody else has it, somebody else always will            *)
(* (NumbersKept): what OnlyOrder protects cannot be lost and come back.    *)
(* client_s writes the details first (DetailsFirst), and between the       *)
(* answer and the listing the receiver may have been told (ToldBeforeListed).*)
(***************************************************************************)
EXTENDS Customer, WireProofs

\* A run alone has its number if no other run has it and Other was not given it.
LEMMA OnlyOrderIs ==
  /\ \A s \in Sender :
       OnlyOrder(s) <=> /\ <<number[s], Other>> \notin acked
                        /\ \A r \in Sender : number[r] = number[s] => r = s
  /\ \A s \in Sender :
       OnlyOrder(s)' <=> /\ <<number'[s], Other>> \notin acked'
                         /\ \A r \in Sender : number'[r] = number'[s] => r = s
<1>1. Other \notin Sender
  BY CustomerAssumption
<1>2. ASSUME NEW s \in Sender
      PROVE  OnlyOrder(s) <=> /\ <<number[s], Other>> \notin acked
                              /\ \A r \in Sender : number[r] = number[s] => r = s
  BY <1>1 DEF OnlyOrder, Owners
<1>3. ASSUME NEW s \in Sender
      PROVE  OnlyOrder(s)' <=> /\ <<number'[s], Other>> \notin acked'
                               /\ \A r \in Sender : number'[r] = number'[s] => r = s
  BY <1>1 DEF OnlyOrder, Owners
<1> QED
  BY <1>2, <1>3

\* The quantities that the programs show, and what they show of an int.
LEMMA Amounts ==
  ASSUME NEW s \in Sender
  PROVE  /\ Typed(amount[s]) \in Unsigned /\ Quoted(amount[s]) \in Unsigned
         /\ amount[s] < IntHalf =>
              Typed(amount[s]) = amount[s] /\ Quoted(amount[s]) = amount[s]
<1> DEFINE n == amount[s]
<1>1. n \in Int /\ strtol(n) > 0
  BY CustomerAssumption DEF IsAmount
<1> HIDE DEF n
<1>2. n > 0
  BY <1>1, Widths DEF strtol
<1>3. strtol(n) \in Int
  BY <1>1, LongOf, Widths
<1>4. Typed(n) \in Unsigned
  BY <1>3, IntOf, UnsignedOfInt DEF Typed
<1>5. Typed(n) \in Int
  BY <1>4, Widths DEF Unsigned
<1>6. strtol(Typed(n)) \in Int
  BY <1>5, LongOf, Widths
<1>7. Arrived(n) \in Unsigned
  BY <1>6, IntOf, UnsignedOfInt DEF Arrived
<1>8. Quoted(n) \in Unsigned
  BY <1>1, <1>7, QuantityKept
<1>9. n < IntHalf => n \in 1..(IntHalf - 1)
  BY <1>1, <1>2, Widths
<1> QED
  BY <1>4, <1>8, <1>9, AmountArrives DEF n

\* Initially nothing is sent, listed or told.
LEMMA InitIInv == Init => IInv
<1> SUFFICES ASSUME Init
             PROVE  IInv
  OBVIOUS
<1>1. /\ acked = {} /\ traded = {} /\ queued = {} /\ notified = {}
      /\ sender_pc = [s \in Sender |-> "send"] /\ number = [s \in Sender |-> NULL]
      /\ my_orders = {} /\ rcv_pc = "down" /\ rcv_oid = NULL
      /\ overtaken = {} /\ interrupted = {} /\ faults = 0
  BY DEF Init, Life!LifeInit
<1>2. DOMAIN c_order = {} /\ \A S : c_order \in [DOMAIN c_order -> S]
  BY DEF Init, EmptyMap
<1>3. TypeOK
  BY <1>1, <1>2, CustomerAssumption DEF TypeOK
<1>4. NumbersKept /\ DetailsFirst /\ ToldBeforeListed /\ ListedUntilTold /\ ToldUnlisted
  BY <1>1, <1>2
  DEF NumbersKept, DetailsFirst, ToldBeforeListed, ListedUntilTold, ToldUnlisted
<1> QED
  BY <1>3, <1>4 DEF IInv
-------------------------------------------------------------------------------
\* A run of client_s fails.
LEMMA FailStep ==
  ASSUME IInv, NEW s \in Sender, Fail(s)
  PROVE  IInv'
<1>1. /\ acked' = acked /\ traded' = traded /\ queued' = queued /\ notified' = notified
      /\ number' = number /\ c_order' = c_order /\ my_orders' = my_orders
      /\ rcv_pc' = rcv_pc /\ rcv_oid' = rcv_oid /\ overtaken' = overtaken
      /\ interrupted' = interrupted /\ faults' = faults
  BY DEF Fail, life, store, receiver, history
<1>2. \/ sender_pc' = [sender_pc EXCEPT ![s] = "failed"]
      \/ sender_pc[s] = "send" /\ sender_pc' = [sender_pc EXCEPT ![s] = "gone"]
  BY DEF Fail, Goto
<1>3. sender_pc \in [Sender -> {"send", "details", "list", "done", "failed", "gone"}]
  BY DEF IInv, TypeOK
<1>4. /\ sender_pc' \in [Sender -> {"send", "details", "list", "done", "failed", "gone"}]
      /\ \A r \in Sender :
           \/ sender_pc'[r] = sender_pc[r]
           \/ sender_pc'[r] = "failed"
           \/ sender_pc'[r] = "gone" /\ sender_pc[r] = "send"
  BY <1>2, <1>3
<1>5. TypeOK'
  BY <1>1, <1>4 DEF IInv, TypeOK
<1>6. \A r \in Sender : OnlyOrder(r)' <=> OnlyOrder(r)
  BY <1>1, OnlyOrderIs
<1>7. NumbersKept'
  BY <1>1, <1>4 DEF IInv, NumbersKept
<1>8. DetailsFirst'
  BY <1>1, <1>4, <1>6 DEF IInv, DetailsFirst
<1>9. ToldBeforeListed' /\ ListedUntilTold' /\ ToldUnlisted'
  BY <1>1, <1>4, <1>6 DEF IInv, ToldBeforeListed, ListedUntilTold, ToldUnlisted, Told
<1> QED
  BY <1>5, <1>7, <1>8, <1>9 DEF IInv

\* A run gets a number, of the exchange or, if that ends, the number 0.
LEMMA NumberStep ==
  ASSUME IInv, NEW s \in Sender, NEW oid \in 0..MaxOrders,
         sender_pc[s] \in {"send", "gone"},
         sender_pc' = [sender_pc EXCEPT
                         ![s] = IF sender_pc[s] = "send" THEN "details" ELSE "failed"],
         number' = [number EXCEPT ![s] = oid],
         \/ acked' = acked /\ oid = 0
         \/ acked' = acked \cup {<<oid, Me>>} /\ oid \in 1..MaxOrders,
         UNCHANGED <<traded, queued, notified, store, receiver, history, faults>>
  PROVE  IInv'
<1> DEFINE pc == IF sender_pc[s] = "send" THEN "details" ELSE "failed"
<1>1. /\ traded' = traded /\ queued' = queued /\ notified' = notified
      /\ c_order' = c_order /\ my_orders' = my_orders
      /\ rcv_pc' = rcv_pc /\ rcv_oid' = rcv_oid /\ overtaken' = overtaken
      /\ interrupted' = interrupted /\ faults' = faults
  BY DEF store, receiver, history
<1>2. /\ sender_pc \in [Sender -> {"send", "details", "list", "done", "failed", "gone"}]
      /\ number \in [Sender -> (0..MaxOrders) \cup {NULL}]
      /\ number[s] = NULL
      /\ oid # NULL /\ MaxOrders \in Nat
  BY CustomerAssumption, NullAssumption DEF IInv, TypeOK, NumbersKept
<1>3. /\ sender_pc' \in [Sender -> {"send", "details", "list", "done", "failed", "gone"}]
      /\ number' \in [Sender -> (0..MaxOrders) \cup {NULL}]
      /\ sender_pc'[s] = pc /\ number'[s] = oid
      /\ \A r \in Sender : r # s => sender_pc'[r] = sender_pc[r] /\ number'[r] = number[r]
      /\ pc \in {"details", "failed"}
  BY <1>2
<1>4. /\ acked \subseteq acked'
      /\ \A c, n : <<n, c>> \in acked' => <<n, c>> \in acked \/ (n = oid /\ c = Me)
      /\ acked' \subseteq (1..MaxOrders) \X Customers
      /\ traded' \subseteq acked'
  BY <1>1 DEF IInv, TypeOK, Customers
<1>5. TypeOK'
  BY <1>1, <1>3, <1>4 DEF IInv, TypeOK
<1>6. \A r \in Sender : r # s /\ number[r] # NULL /\ OnlyOrder(r)' => OnlyOrder(r)
  <2> TAKE r \in Sender
  <2> HAVE r # s /\ number[r] # NULL /\ OnlyOrder(r)'
  <2>1. /\ <<number'[r], Other>> \notin acked'
        /\ \A q \in Sender : number'[q] = number'[r] => q = r
    BY OnlyOrderIs
  <2>2. <<number[r], Other>> \notin acked
    BY <1>3, <1>4, <2>1
  <2>3. \A q \in Sender : number[q] = number[r] => q = r
    BY <1>2, <1>3, <2>1
  <2> QED
    BY <2>2, <2>3, OnlyOrderIs
<1>7. NumbersKept'
  <2>1. \A r \in Sender :
          /\ sender_pc'[r] \in {"send", "gone"} => number'[r] = NULL
          /\ sender_pc'[r] \in {"details", "list", "done"} => number'[r] # NULL
    BY <1>2, <1>3 DEF IInv, NumbersKept
  <2>2. ASSUME NEW n \in 1..MaxOrders, <<n, Me>> \in acked'
        PROVE  \E r \in Sender : number'[r] = n
    <3>1. CASE n = oid
      BY <1>3, <3>1
    <3>2. CASE <<n, Me>> \in acked
      <4>1. PICK r \in Sender : number[r] = n
        BY <3>2 DEF IInv, NumbersKept
      <4>2. r # s
        BY <1>2, <4>1, NullAssumption
      <4> QED
        BY <1>3, <4>1, <4>2
    <3> QED
      BY <1>4, <2>2, <3>1, <3>2
  <2>3. \A n \in 1..MaxOrders : <<n, Home>> \in notified' => <<n, Me>> \in acked'
    BY <1>1, <1>4 DEF IInv, NumbersKept
  <2>4. rcv_pc' = "unlist" => <<rcv_oid', Home>> \in notified'
    BY <1>1 DEF IInv, NumbersKept
  <2> QED
    BY <2>1, <2>2, <2>3, <2>4 DEF NumbersKept
<1>8. DetailsFirst'
  <2>1. \A r \in Sender :
          sender_pc'[r] \in {"list", "done"} =>
            /\ r # s /\ number'[r] \in DOMAIN c_order'
            /\ OnlyOrder(r)' =>
                 c_order'[number'[r]] \in {Details(r, Typed(amount[r])), QuoteOf(r), NULL}
    BY <1>1, <1>3, <1>6 DEF IInv, DetailsFirst, NumbersKept
  <2> QED
    BY <1>1, <2>1 DEF IInv, DetailsFirst
<1>9. ToldBeforeListed'
  <2> SUFFICES ASSUME NEW r \in Sender, sender_pc'[r] \in {"details", "list"},
                      OnlyOrder(r)', Told(r)'
               PROVE  \/ rcv_oid' = number'[r]
                      \/ r \in overtaken'
                      \/ number'[r] \in interrupted'
    BY DEF ToldBeforeListed
  <2>1. <<number'[r], Home>> \in notified
    BY <1>1 DEF Told
  <2>2. CASE r # s
    <3>1. sender_pc[r] \in {"details", "list"} /\ OnlyOrder(r) /\ Told(r)
      BY <1>3, <1>6, <2>1, <2>2 DEF IInv, NumbersKept, Told
    <3> QED
      BY <1>1, <1>3, <2>2, <3>1 DEF IInv, ToldBeforeListed
  <2>3. CASE r = s
    <3>1. oid \in 1..MaxOrders /\ <<oid, Me>> \in acked
      BY <1>3, <2>1, <2>3 DEF IInv, TypeOK, NumbersKept
    <3>2. PICK q \in Sender : number[q] = oid
      BY <3>1 DEF IInv, NumbersKept
    <3>3. q # s /\ number'[q] = number'[s]
      BY <1>2, <1>3, <3>2
    <3> QED
      BY <2>3, <3>3, OnlyOrderIs
  <2> QED
    BY <2>2, <2>3
<1>10. ListedUntilTold' /\ ToldUnlisted'
  <2>1. \A r \in Sender :
          sender_pc'[r] = "done" /\ OnlyOrder(r)' =>
            /\ sender_pc[r] = "done" /\ OnlyOrder(r)
            /\ number'[r] = number[r] /\ (Told(r)' <=> Told(r))
    BY <1>1, <1>3, <1>6 DEF IInv, NumbersKept, Told
  <2> QED
    BY <1>1, <2>1 DEF IInv, ListedUntilTold, ToldUnlisted
<1> QED
  BY <1>5, <1>7, <1>8, <1>9, <1>10 DEF IInv

\* A run stores the details of its order.
LEMMA StoreDetailsStep ==
  ASSUME IInv, NEW s \in Sender, StoreDetails(s)
  PROVE  IInv'
<1> DEFINE d == Details(s, Typed(amount[s]))
<1>1. /\ acked' = acked /\ traded' = traded /\ queued' = queued /\ notified' = notified
      /\ number' = number /\ my_orders' = my_orders
      /\ rcv_pc' = rcv_pc /\ rcv_oid' = rcv_oid /\ overtaken' = overtaken
      /\ interrupted' = interrupted /\ faults' = faults
      /\ sender_pc[s] = "details" /\ sender_pc' = [sender_pc EXCEPT ![s] = "list"]
      /\ c_order' = Put(c_order, number[s], d)
  BY DEF StoreDetails, Goto, life, receiver, history
<1>2. /\ sender_pc' \in [Sender -> {"send", "details", "list", "done", "failed", "gone"}]
      /\ sender_pc'[s] = "list"
      /\ \A r \in Sender : r # s => sender_pc'[r] = sender_pc[r]
  BY <1>1 DEF IInv, TypeOK
<1>3. number[s] # NULL /\ number[s] \in 0..MaxOrders
  BY <1>1 DEF IInv, TypeOK, NumbersKept
<1>4. d \in [owner : Sender \cup {Other}, quantity : Unsigned]
  BY Amounts DEF Details
<1> HIDE DEF d
<1>5. /\ DOMAIN c_order' = DOMAIN c_order \cup {number[s]}
      /\ c_order'[number[s]] = d
      /\ \A n \in DOMAIN c_order : n # number[s] => c_order'[n] = c_order[n]
      /\ c_order' = [n \in DOMAIN c_order' |-> c_order'[n]]
  BY <1>1 DEF Put
<1>6. TypeOK'
  <2>1. \A n \in DOMAIN c_order' :
          c_order'[n] \in [owner : Sender \cup {Other}, quantity : Unsigned]
                            \cup {NULL}
    BY <1>4, <1>5 DEF IInv, TypeOK
  <2>2. c_order' \in [DOMAIN c_order' ->
                        [owner : Sender \cup {Other}, quantity : Unsigned]
                          \cup {NULL}]
    BY <1>5, <2>1
  <2> QED
    BY <1>1, <1>2, <1>3, <1>5, <2>2 DEF IInv, TypeOK
<1>7. \A r \in Sender : OnlyOrder(r)' <=> OnlyOrder(r)
  BY <1>1, OnlyOrderIs
<1>8. NumbersKept'
  BY <1>1, <1>2, <1>3 DEF IInv, NumbersKept
<1>9. DetailsFirst'
  <2>1. ASSUME NEW r \in Sender, sender_pc'[r] \in {"list", "done"}
        PROVE  /\ number'[r] \in DOMAIN c_order'
               /\ OnlyOrder(r)' =>
                    c_order'[number'[r]] \in {Details(r, Typed(amount[r])), QuoteOf(r), NULL}
    <3>1. CASE r = s
      BY <1>1, <1>5, <3>1 DEF d
    <3>2. CASE r # s
      <4>1. /\ number[r] \in DOMAIN c_order
            /\ OnlyOrder(r) =>
                 c_order[number[r]] \in {Details(r, Typed(amount[r])), QuoteOf(r), NULL}
        BY <1>2, <2>1, <3>2 DEF IInv, DetailsFirst
      <4>2. OnlyOrder(r)' => number[s] # number[r]
        BY <1>7, <3>2, OnlyOrderIs
      <4> QED
        BY <1>1, <1>5, <1>7, <4>1, <4>2
    <3> QED
      BY <3>1, <3>2
  <2> QED
    BY <1>1, <1>5, <2>1 DEF IInv, DetailsFirst
<1>10. ToldBeforeListed' /\ ListedUntilTold' /\ ToldUnlisted'
  BY <1>1, <1>2, <1>7 DEF IInv, ToldBeforeListed, ListedUntilTold, ToldUnlisted, Told
<1> QED
  BY <1>6, <1>8, <1>9, <1>10 DEF IInv

\* A run lists its order.
LEMMA ListOrderStep ==
  ASSUME IInv, NEW s \in Sender, ListOrder(s)
  PROVE  IInv'
<1>1. /\ acked' = acked /\ traded' = traded /\ queued' = queued /\ notified' = notified
      /\ number' = number /\ c_order' = c_order
      /\ rcv_pc' = rcv_pc /\ rcv_oid' = rcv_oid /\ overtaken' = overtaken
      /\ interrupted' = interrupted /\ faults' = faults
      /\ sender_pc[s] = "list" /\ sender_pc' = [sender_pc EXCEPT ![s] = "done"]
      /\ my_orders' = my_orders \cup {number[s]}
  BY DEF ListOrder, Goto, life, receiver, history
<1>2. /\ sender_pc' \in [Sender -> {"send", "details", "list", "done", "failed", "gone"}]
      /\ sender_pc'[s] = "done"
      /\ \A r \in Sender : r # s => sender_pc'[r] = sender_pc[r]
  BY <1>1 DEF IInv, TypeOK
<1>3. number[s] # NULL /\ number[s] \in 0..MaxOrders
  BY <1>1 DEF IInv, TypeOK, NumbersKept
<1>4. TypeOK'
  BY <1>1, <1>2, <1>3 DEF IInv, TypeOK
<1>5. \A r \in Sender : OnlyOrder(r)' <=> OnlyOrder(r)
  BY <1>1, OnlyOrderIs
<1>6. NumbersKept'
  BY <1>1, <1>2, <1>3 DEF IInv, NumbersKept
<1>7. DetailsFirst'
  BY <1>1, <1>2, <1>5 DEF IInv, DetailsFirst
<1>8. ToldBeforeListed' /\ ListedUntilTold'
  BY <1>1, <1>2, <1>5 DEF IInv, ToldBeforeListed, ListedUntilTold, Told
<1>9. ToldUnlisted'
  <2> SUFFICES ASSUME NEW r \in Sender, sender_pc'[r] = "done", OnlyOrder(r)',
                      Told(r)', number'[r] \in my_orders'
               PROVE  \/ rcv_oid' = number'[r]
                      \/ r \in overtaken'
                      \/ number'[r] \in interrupted'
    BY DEF ToldUnlisted
  <2>1. OnlyOrder(r) /\ Told(r)
    BY <1>1, <1>5 DEF Told
  <2>2. CASE r = s
    BY <1>1, <2>1, <2>2 DEF IInv, ToldBeforeListed
  <2>3. CASE r # s
    <3>1. number[r] # number[s]
      BY <2>1, <2>3, OnlyOrderIs
    <3>2. number[r] \in my_orders
      BY <1>1, <3>1
    <3> QED
      BY <1>1, <1>2, <2>1, <2>3, <3>2 DEF IInv, ToldUnlisted
  <2> QED
    BY <2>2, <2>3
<1> QED
  BY <1>4, <1>6, <1>7, <1>8, <1>9 DEF IInv
-------------------------------------------------------------------------------
\* The receiver stores the details of a quote: of a number that only one run
\* has, those of the order of that run, or those of no order.
LEMMA StoreQuoteStep ==
  ASSUME IInv, NEW oid \in 1..MaxOrders, StoreQuote(oid) \/ StoreGarbled(oid)
  PROVE  IInv'
<1>1. /\ acked' = acked /\ traded' = traded /\ queued' = queued /\ notified' = notified
      /\ sender_pc' = sender_pc /\ number' = number /\ my_orders' = my_orders
      /\ rcv_pc' = rcv_pc /\ rcv_oid' = rcv_oid /\ overtaken' = overtaken
      /\ interrupted' = interrupted /\ faults' \in 0..MaxFaults
  BY CustomerAssumption
  DEF StoreQuote, StoreGarbled, life, senders, receiver, history, IInv, TypeOK
<1>2. PICK d \in {NULL} \cup {QuoteOf(owner) : owner \in Owners(oid)} :
        c_order' = Put(c_order, oid, d)
  BY DEF StoreQuote, StoreGarbled
<1>3. \A owner \in Owners(oid) : owner \in Sender \cup {Other}
  BY DEF Owners
<1>4. d \in [owner : Sender \cup {Other}, quantity : Unsigned] \cup {NULL}
  <2>1. CASE d = NULL
    BY <2>1
  <2>2. CASE \E owner \in Owners(oid) : d = QuoteOf(owner)
    <3>1. PICK owner \in Owners(oid) : d = QuoteOf(owner)
      BY <2>2
    <3>2. 1 \in Unsigned
      BY Widths DEF Unsigned
    <3> QED
      BY <1>3, <3>1, <3>2, Amounts DEF QuoteOf, Details
  <2> QED
    BY <1>2, <2>1, <2>2
<1>5. /\ DOMAIN c_order' = DOMAIN c_order \cup {oid}
      /\ c_order'[oid] = d
      /\ \A n \in DOMAIN c_order : n # oid => c_order'[n] = c_order[n]
      /\ c_order' = [n \in DOMAIN c_order' |-> c_order'[n]]
  BY <1>2 DEF Put
<1>6. TypeOK'
  <2>1. \A n \in DOMAIN c_order' :
          c_order'[n] \in [owner : Sender \cup {Other}, quantity : Unsigned]
                            \cup {NULL}
    BY <1>4, <1>5 DEF IInv, TypeOK
  <2>2. c_order' \in [DOMAIN c_order' ->
                        [owner : Sender \cup {Other}, quantity : Unsigned]
                          \cup {NULL}]
    BY <1>5, <2>1
  <2>3. oid \in 0..MaxOrders
    BY CustomerAssumption
  <2> QED
    BY <1>1, <1>5, <2>2, <2>3 DEF IInv, TypeOK
<1>7. \A r \in Sender : OnlyOrder(r)' <=> OnlyOrder(r)
  BY <1>1, OnlyOrderIs
<1>8. NumbersKept'
  BY <1>1 DEF IInv, NumbersKept
<1>9. DetailsFirst'
  <2>1. ASSUME NEW r \in Sender, sender_pc'[r] \in {"list", "done"}
        PROVE  /\ number'[r] \in DOMAIN c_order'
               /\ OnlyOrder(r)' =>
                    c_order'[number'[r]] \in {Details(r, Typed(amount[r])), QuoteOf(r), NULL}
    <3>1. /\ number[r] \in DOMAIN c_order
          /\ OnlyOrder(r) =>
               c_order[number[r]] \in {Details(r, Typed(amount[r])), QuoteOf(r), NULL}
      BY <1>1, <2>1 DEF IInv, DetailsFirst
    <3>2. OnlyOrder(r) /\ number[r] = oid => d \in {QuoteOf(r), NULL}
      BY <1>2 DEF OnlyOrder
    <3> QED
      BY <1>1, <1>5, <1>7, <3>1, <3>2
  <2> QED
    BY <1>1, <1>5, <2>1 DEF IInv, DetailsFirst
<1>10. ToldBeforeListed' /\ ListedUntilTold' /\ ToldUnlisted'
  BY <1>1, <1>7 DEF IInv, ToldBeforeListed, ListedUntilTold, ToldUnlisted, Told
<1> QED
  BY <1>6, <1>8, <1>9, <1>10 DEF IInv

\* The receiver is told of an order, for the first time or again.
LEMMA NotifyStep ==
  ASSUME IInv, NEW oid \in 1..MaxOrders, FirstNotified(oid) \/ NotifiedAgain(oid)
  PROVE  IInv'
<1>1. /\ acked' = acked /\ traded' = traded /\ queued' = queued
      /\ sender_pc' = sender_pc /\ number' = number
      /\ c_order' = c_order /\ my_orders' = my_orders
      /\ overtaken' = overtaken /\ interrupted' = interrupted /\ faults' = faults
      /\ rcv_pc = "wait" /\ rcv_pc' = "unlist" /\ rcv_oid' = oid
  BY DEF FirstNotified, NotifiedAgain, Life!Notify, life, senders, store, history
<1>2. notified' = notified \cup {<<oid, Home>>} /\ <<oid, Me>> \in acked
  <2>1. CASE FirstNotified(oid)
    <3>1. PICK c \in Customers :
            <<oid, c>> \in acked /\ (IF c = Me THEN Home ELSE Elsewhere) = Home
      BY <2>1 DEF FirstNotified, Life!Notify
    <3>2. c = Me
      BY <3>1, CustomerAssumption
    <3> QED
      BY <2>1, <3>1, <3>2 DEF FirstNotified, Life!Notify
  <2>2. CASE NotifiedAgain(oid)
    BY <2>2 DEF NotifiedAgain, life, IInv, NumbersKept
  <2> QED
    BY <2>1, <2>2
<1>3. rcv_oid = NULL /\ oid # NULL
  BY <1>1, NullAssumption DEF IInv, TypeOK
<1>4. TypeOK'
  BY <1>1, <1>2, <1>3 DEF IInv, TypeOK
<1>5. \A r \in Sender : OnlyOrder(r)' <=> OnlyOrder(r)
  BY <1>1, OnlyOrderIs
<1>6. NumbersKept'
  <2>1. \A n \in 1..MaxOrders : <<n, Home>> \in notified' => <<n, Me>> \in acked
    BY <1>2 DEF IInv, NumbersKept
  <2> QED
    BY <1>1, <1>2, <2>1 DEF IInv, NumbersKept
<1>7. DetailsFirst'
  BY <1>1, <1>5 DEF IInv, DetailsFirst
<1>8. \A r \in Sender : sender_pc[r] \in {"details", "list", "done"} =>
        /\ number[r] # rcv_oid
        /\ Told(r) => Told(r)'
        /\ Told(r)' => Told(r) \/ number[r] = oid
  BY <1>1, <1>2, <1>3 DEF IInv, NumbersKept, Told
<1>9. ToldBeforeListed' /\ ListedUntilTold' /\ ToldUnlisted'
  BY <1>1, <1>5, <1>8 DEF IInv, ToldBeforeListed, ListedUntilTold, ToldUnlisted
<1> QED
  BY <1>4, <1>6, <1>7, <1>9 DEF IInv

\* The receiver is started.
LEMMA RcvStartStep ==
  ASSUME IInv, RcvStart
  PROVE  IInv'
<1>1. /\ acked' = acked /\ traded' = traded /\ queued' = queued /\ notified' = notified
      /\ sender_pc' = sender_pc /\ number' = number
      /\ c_order' = c_order /\ my_orders' = my_orders
      /\ rcv_pc = "down" /\ rcv_pc' = "wait" /\ rcv_oid' = rcv_oid
      /\ overtaken' = overtaken /\ interrupted' = interrupted /\ faults' = faults
  BY DEF RcvStart, life, senders, store, history
<1>2. TypeOK'
  BY <1>1 DEF IInv, TypeOK
<1>3. \A r \in Sender : OnlyOrder(r)' <=> OnlyOrder(r)
  BY <1>1, OnlyOrderIs
<1>4. NumbersKept' /\ DetailsFirst'
  BY <1>1, <1>3 DEF IInv, NumbersKept, DetailsFirst
<1>5. ToldBeforeListed' /\ ListedUntilTold' /\ ToldUnlisted'
  BY <1>1, <1>3 DEF IInv, ToldBeforeListed, ListedUntilTold, ToldUnlisted, Told
<1> QED
  BY <1>2, <1>4, <1>5 DEF IInv

\* The order it was told of leaves the list.
LEMMA UnlistStep ==
  ASSUME IInv, Unlist
  PROVE  IInv'
<1>1. /\ acked' = acked /\ traded' = traded /\ queued' = queued /\ notified' = notified
      /\ sender_pc' = sender_pc /\ number' = number /\ c_order' = c_order
      /\ my_orders' = my_orders \ {rcv_oid}
      /\ rcv_pc = "unlist" /\ rcv_pc' = "wait" /\ rcv_oid' = NULL
      /\ overtaken' = overtaken \cup
           {s \in Sender : number[s] = rcv_oid /\ sender_pc[s] # "done"}
      /\ interrupted' = interrupted /\ faults' = faults
  BY DEF Unlist, life, senders
<1>2. TypeOK'
  BY <1>1 DEF IInv, TypeOK
<1>3. \A r \in Sender : OnlyOrder(r)' <=> OnlyOrder(r)
  BY <1>1, OnlyOrderIs
<1>4. NumbersKept' /\ DetailsFirst'
  BY <1>1, <1>3 DEF IInv, NumbersKept, DetailsFirst
<1>5. \A r \in Sender : Told(r)' <=> Told(r)
  BY <1>1 DEF Told
<1>6. <<rcv_oid, Home>> \in notified
  BY <1>1 DEF IInv, NumbersKept
<1>7. ToldBeforeListed'
  BY <1>1, <1>3, <1>5 DEF IInv, ToldBeforeListed
<1>8. ListedUntilTold'
  BY <1>1, <1>3, <1>5, <1>6 DEF IInv, ListedUntilTold, Told
<1>9. ToldUnlisted'
  BY <1>1, <1>3, <1>5 DEF IInv, ToldUnlisted
<1> QED
  BY <1>2, <1>4, <1>7, <1>8, <1>9 DEF IInv

\* The deletion fails, or the receiver ends.
LEMMA InterruptedStep ==
  ASSUME IInv, UnlistFails \/ RcvStop
  PROVE  IInv'
<1>1. /\ acked' = acked /\ traded' = traded /\ queued' = queued /\ notified' = notified
      /\ sender_pc' = sender_pc /\ number' = number
      /\ c_order' = c_order /\ my_orders' = my_orders
      /\ rcv_pc' \in {"wait", "down"} /\ rcv_oid' = NULL
      /\ overtaken' = overtaken /\ faults' \in 0..MaxFaults
      /\ interrupted' = IF rcv_pc = "unlist" THEN interrupted \cup {rcv_oid}
                                             ELSE interrupted
  BY CustomerAssumption
  DEF UnlistFails, RcvStop, life, senders, store, IInv, TypeOK
<1>2. TypeOK'
  BY <1>1 DEF IInv, TypeOK
<1>3. \A r \in Sender : OnlyOrder(r)' <=> OnlyOrder(r)
  BY <1>1, OnlyOrderIs
<1>4. NumbersKept' /\ DetailsFirst'
  BY <1>1, <1>3 DEF IInv, NumbersKept, DetailsFirst
<1>5. \A r \in Sender :
        /\ Told(r)' <=> Told(r)
        /\ sender_pc[r] \in {"details", "list", "done"} /\ rcv_oid = number[r]
             => rcv_oid \in interrupted'
        /\ number[r] \in interrupted => number[r] \in interrupted'
  BY <1>1 DEF Told, IInv, TypeOK, NumbersKept
<1>6. ToldBeforeListed' /\ ListedUntilTold' /\ ToldUnlisted'
  BY <1>1, <1>3, <1>5 DEF IInv, ToldBeforeListed, ListedUntilTold, ToldUnlisted
<1> QED
  BY <1>2, <1>4, <1>6 DEF IInv

\* What the exchange does besides tells nobody at Home and gives nothing to Me.
LEMMA ExchangeStepStep ==
  ASSUME IInv, ExchangeStep
  PROVE  IInv'
<1>1. /\ sender_pc' = sender_pc /\ number' = number
      /\ c_order' = c_order /\ my_orders' = my_orders
      /\ rcv_pc' = rcv_pc /\ rcv_oid' = rcv_oid
      /\ overtaken' = overtaken /\ interrupted' = interrupted /\ faults' = faults
  BY DEF ExchangeStep, senders, store, receiver, history
<1>2. /\ acked \subseteq (1..MaxOrders) \X Customers /\ traded \subseteq acked
      /\ queued \subseteq 1..MaxOrders
      /\ notified \subseteq (1..MaxOrders) \X {Home, Elsewhere}
      /\ MayGet[Other] \subseteq 1..MaxOrders
      /\ Other \in Customers /\ Me # Other /\ Home # Elsewhere
  BY CustomerAssumption DEF IInv, TypeOK, Customers
<1>3. /\ acked' \subseteq (1..MaxOrders) \X Customers /\ traded' \subseteq acked'
      /\ queued' \subseteq 1..MaxOrders
      /\ notified' \subseteq (1..MaxOrders) \X {Home, Elsewhere}
      /\ acked \subseteq acked'
      /\ \A n : <<n, Me>> \in acked' => <<n, Me>> \in acked
      /\ \A n : <<n, Home>> \in notified' <=> <<n, Home>> \in notified
  <2>1. CASE \E oid \in MayGet[Other] : Life!Acknowledge(oid, Other)
    BY <1>2, <2>1 DEF Life!Acknowledge
  <2>2. CASE \E oid \in 1..MaxOrders : Life!Enqueue(oid) \/ Life!Dequeue(oid)
    BY <1>2, <2>2 DEF Life!Enqueue, Life!Dequeue
  <2>3. CASE \E oid \in 1..MaxOrders : Life!Notify(oid, Elsewhere)
    BY <1>2, <2>3 DEF Life!Notify
  <2>4. CASE \E x, y \in acked : Life!Trade(x, y)
    BY <1>2, <2>4 DEF Life!Trade
  <2> QED
    BY <2>1, <2>2, <2>3, <2>4 DEF ExchangeStep
<1>4. TypeOK'
  BY <1>1, <1>3 DEF IInv, TypeOK
<1>5. \A r \in Sender : OnlyOrder(r)' => OnlyOrder(r)
  BY <1>1, <1>3, OnlyOrderIs
<1>6. \A r \in Sender : Told(r)' <=> Told(r)
  BY <1>1, <1>3 DEF Told
<1>7. NumbersKept'
  BY <1>1, <1>3 DEF IInv, NumbersKept
<1>8. DetailsFirst'
  BY <1>1, <1>5 DEF IInv, DetailsFirst
<1>9. ToldBeforeListed' /\ ListedUntilTold' /\ ToldUnlisted'
  BY <1>1, <1>5, <1>6 DEF IInv, ToldBeforeListed, ListedUntilTold, ToldUnlisted
<1> QED
  BY <1>4, <1>7, <1>8, <1>9 DEF IInv
-------------------------------------------------------------------------------
\* IInv holds in every state that a customer can reach.
THEOREM Inductive == Spec => []IInv
<1>1. Init => IInv
  BY InitIInv
<1>2. IInv /\ [Next]_vars => IInv'
  <2> SUFFICES ASSUME IInv, [Next]_vars
               PROVE  IInv'
    OBVIOUS
  <2>1. ASSUME NEW s \in Sender, Fail(s) \/ StoreDetails(s) \/ ListOrder(s)
        PROVE  IInv'
    BY <2>1, FailStep, StoreDetailsStep, ListOrderStep
  <2>2. ASSUME NEW s \in Sender, Closed(s)
        PROVE  IInv'
    <3>1. /\ sender_pc[s] \in {"send", "gone"}
          /\ sender_pc' = [sender_pc EXCEPT
                             ![s] = IF sender_pc[s] = "send" THEN "details" ELSE "failed"]
          /\ number' = [number EXCEPT ![s] = 0]
          /\ acked' = acked
          /\ UNCHANGED <<traded, queued, notified, store, receiver, history, faults>>
      BY <2>2 DEF Closed, Goto, life
    <3>2. 0 \in 0..MaxOrders
      BY CustomerAssumption
    <3> QED
      BY <3>1, <3>2, NumberStep
  <2>3. ASSUME NEW s \in Sender, NEW oid \in MayGet[s], Answered(s, oid)
        PROVE  IInv'
    <3>1. /\ sender_pc[s] \in {"send", "gone"}
          /\ sender_pc' = [sender_pc EXCEPT
                             ![s] = IF sender_pc[s] = "send" THEN "details" ELSE "failed"]
          /\ number' = [number EXCEPT ![s] = oid]
          /\ acked' = acked \cup {<<oid, Me>>}
          /\ UNCHANGED <<traded, queued, notified, store, receiver, history, faults>>
      BY <2>3 DEF Answered, Goto, Life!Acknowledge
    <3>2. oid \in 1..MaxOrders /\ oid \in 0..MaxOrders
      BY CustomerAssumption
    <3> QED
      BY <3>1, <3>2, NumberStep
  <2>4. ASSUME NEW oid \in 1..MaxOrders,
               \/ StoreQuote(oid) \/ StoreGarbled(oid)
               \/ FirstNotified(oid) \/ NotifiedAgain(oid)
        PROVE  IInv'
    BY <2>4, StoreQuoteStep, NotifyStep
  <2>5. CASE RcvStart \/ Unlist \/ UnlistFails \/ RcvStop
    BY <2>5, RcvStartStep, UnlistStep, InterruptedStep
  <2>6. CASE ExchangeStep
    BY <2>6, ExchangeStepStep
  <2>7. CASE UNCHANGED vars
    <3>1. /\ acked' = acked /\ traded' = traded /\ queued' = queued
          /\ notified' = notified /\ sender_pc' = sender_pc /\ number' = number
          /\ c_order' = c_order /\ my_orders' = my_orders
          /\ rcv_pc' = rcv_pc /\ rcv_oid' = rcv_oid /\ overtaken' = overtaken
          /\ interrupted' = interrupted /\ faults' = faults
      BY <2>7 DEF vars, life, senders, store, receiver, history
    <3>2. \A r \in Sender : OnlyOrder(r)' <=> OnlyOrder(r)
      BY <3>1, OnlyOrderIs
    <3>3. TypeOK' /\ NumbersKept' /\ DetailsFirst'
      BY <3>1, <3>2 DEF IInv, TypeOK, NumbersKept, DetailsFirst
    <3>4. ToldBeforeListed' /\ ListedUntilTold' /\ ToldUnlisted'
      BY <3>1, <3>2
      DEF IInv, ToldBeforeListed, ListedUntilTold, ToldUnlisted, Told
    <3> QED
      BY <3>3, <3>4 DEF IInv
  <2> QED
    BY <2>1, <2>2, <2>3, <2>4, <2>5, <2>6, <2>7 DEF Next
<1> QED
  BY <1>1, <1>2, PTL DEF Spec

\* The variables have their types; what is shown of an amount is a uint64_t.
THEOREM Types == Spec => []TypeOK
<1>1. IInv => TypeOK
  BY DEF IInv
<1> QED
  BY <1>1, Inductive, PTL

\* Whoever stops and whatever fails, a customer finds the details of every order
\* it lists.
THEOREM ListedAreReadable == Spec => []ListedHaveDetails
<1>1. IInv => ListedHaveDetails
  BY DEF IInv, DetailsFirst, ListedHaveDetails
<1> QED
  BY <1>1, Inductive, PTL

\* An order whose number nobody else has is listed until its customer is told,
\* as its own and with the amount that was typed in, if that is an int, or with
\* the details of no order, which only a quote without details leaves.
THEOREM ListedAsTheyAre == Spec => []OpenListed
<1>1. IInv => OpenListed
  <2> SUFFICES ASSUME IInv, NEW s \in Sender, sender_pc[s] = "done", OnlyOrder(s),
                      ~Told(s)
               PROVE  /\ number[s] \in my_orders
                      /\ c_order[number[s]] # NULL =>
                           /\ c_order[number[s]].owner = s
                           /\ amount[s] < IntHalf =>
                                c_order[number[s]].quantity = amount[s]
    BY DEF OpenListed
  <2>1. number[s] \in my_orders
    BY DEF IInv, ListedUntilTold
  <2>2. c_order[number[s]] \in {Details(s, Typed(amount[s])), QuoteOf(s), NULL}
    BY DEF IInv, DetailsFirst
  <2>3. QuoteOf(s) = Details(s, Quoted(amount[s]))
    BY DEF QuoteOf
  <2>4. c_order[number[s]] # NULL =>
          /\ c_order[number[s]].owner = s
          /\ c_order[number[s]].quantity \in {Typed(amount[s]), Quoted(amount[s])}
    BY <2>2, <2>3 DEF Details
  <2> QED
    BY <2>1, <2>4, Amounts
<1> QED
  BY <1>1, Inductive, PTL

\* An order that stays listed after its customer was told is one the receiver is
\* about to delete, has deleted too early or could not delete.
THEOREM OnlyRacesKeepListed == Spec => []ToldUnlisted
<1>1. IInv => ToldUnlisted
  BY DEF IInv
<1> QED
  BY <1>1, Inductive, PTL
===============================================================================
