---------------------------- MODULE ExchangeProofs ----------------------------
(***************************************************************************)
(* What the exchange keeps, however the order server, the exec server and  *)
(* the hosts of the customers interleave, stop and fail, for all customers *)
(* and addresses and any number of orders, stops and errors: an order is   *)
(* notified to the customer whose it is, and no notification is lost.      *)
(***************************************************************************)
EXTENDS Exchange, OrderServerProofs

\* The instance of ExecServer has its own copies of the operators.
LEMMA ExecOperators ==
  /\ Exec!Resting = Resting /\ Exec!EmptyMap = EmptyMap
  /\ Exec!Closed = [state |-> "closed"]
  /\ \A h : Exec!HKeys(h) = HKeys(h)
  /\ \A h, f : Exec!HDel(h, f) = HDel(h, f)
<1>1. Exec!Resting = Resting
  BY DEF Exec!Resting, Resting, Exec!Order, Order, Exec!Symbol, Symbol, Exec!Side, Side,
         Exec!Operation, Operation, Exec!SELL, SELL, Exec!BUY, BUY, Exec!CANCEL, CANCEL
<1>2. Exec!EmptyMap = EmptyMap
  BY DEF Exec!EmptyMap, EmptyMap
<1>3. \A h : Exec!Fields(h) = Fields(h)
  BY DEF Exec!Fields, Fields
<1>4. \A h : Exec!HKeys(h) = HKeys(h)
  BY <1>3 DEF Exec!HKeys, HKeys
<1>5. \A h, f : Exec!HDel(h, f) = HDel(h, f)
  BY <1>3 DEF Exec!HDel, HDel
<1> QED
  BY <1>1, <1>2, <1>4, <1>5 DEF Exec!Closed

\* An accepted order is one that a customer was told the number of.
LEMMA AcceptedOwned ==
  ASSUME TypeOK, NEW o \in Accepted
  PROVE  Owned(o)
<1>1. PICK i \in 1..Len(acked) : acked[i].operation \in Side /\ o = Normalize(acked[i])
  BY DEF Accepted
<1>2. acked[i] \in Order
  BY <1>1, ElementOfSeq DEF TypeOK
<1> QED
  BY <1>1, <1>2, NormalizeOrder DEF Owned
-------------------------------------------------------------------------------
(* The steps of the order server.                                          *)

\* What the order server only adds to, in the store and in the history.
Grows ==
  /\ Len(acked) <= Len(acked')
  /\ \A i \in 1..Len(acked) : acked'[i] = acked[i]
  /\ Traded \subseteq Traded'
  /\ DOMAIN details \subseteq DOMAIN details'
  /\ Fields(executed) \subseteq Fields(executed')
  /\ FieldsOnce(executed) => FieldsOnce(executed')
  /\ errors' = 0 => errors = 0
  /\ crashes' = 0 => crashes = 0

\* An order keeps its customer.
LEMMA OwnedGrows ==
  ASSUME TypeOK, TypeOK', Grows, NEW o, Owned(o)
  PROVE  Owned(o)'
<1>1. PICK i \in 1..Len(acked) : acked[i].oid = o.oid /\ acked[i].cid = o.cid
  BY DEF Owned
<1>2. i \in 1..Len(acked') /\ acked'[i] = acked[i]
  BY <1>1, LenProperties DEF TypeOK, Grows
<1> QED
  BY <1>1, <1>2 DEF Owned

\* What a step leaves alone does not shrink.
LEMMA GrowsFrame ==
  ASSUME SInv,
         UNCHANGED <<acked, trades, details, executed>>,
         errors' = 0 => errors = 0, crashes' = 0 => crashes = 0
  PROVE  Grows
<1>1. Len(acked) \in Nat
  BY LenProperties DEF SInv, TypeOK
<1> QED
  BY <1>1 DEF Grows, Traded

\* Every step of the order server is one of these.
LEMMA ServerGrows ==
  ASSUME SInv,
         \/ \E r \in Request, ip \in Ip : Accept(r, ip)
         \/ ServerStep
         \/ Stop
  PROVE  Grows /\ SInv'
<1>0. errors \in Nat /\ crashes \in Nat
  BY BoundsAssumption DEF SInv, TypeOK
<1>1. ASSUME NEW r \in Request, NEW ip \in Ip, Accept(r, ip)
      PROVE  Grows /\ SInv'
  <2>1. /\ UNCHANGED <<acked, trades, details, executed>>
        /\ crashes' = crashes /\ (errors' = errors \/ errors' = errors + 1)
    BY <1>1 DEF Accept, UpdateCidIp, history
  <2> QED
    BY <1>0, <1>1, <2>1, GrowsFrame, AcceptStep
<1>2. CASE Start
  <2>1. UNCHANGED <<acked, trades, details, executed, errors, crashes>>
    BY <1>2 DEF Start, redis, history, budget
  <2> QED
    BY <1>2, <2>1, GrowsFrame, StartStep
<1>9. CASE StartError
  <2>1. UNCHANGED <<acked, trades, details, executed, crashes>> /\ errors' = errors + 1
    BY <1>9 DEF StartError, redis
  <2> QED
    BY <1>0, <1>9, <2>1, GrowsFrame, StartErrorStep
<1>3. CASE RedisError
  <2>1. UNCHANGED <<acked, trades, details, executed, crashes>> /\ errors' = errors + 1
    BY <1>3 DEF RedisError, redis, history
  <2> QED
    BY <1>0, <1>3, <2>1, GrowsFrame, RedisErrorStep
<1>4. CASE Return
  <2>1. UNCHANGED <<acked, trades, details, executed, errors, crashes>>
    BY <1>4 DEF Return, redis, history, budget
  <2> QED
    BY <1>4, <2>1, GrowsFrame, ReturnStep
<1>5. CASE Stop
  <2>1. UNCHANGED <<acked, trades, details, executed, errors>> /\ crashes' = crashes + 1
    BY <1>5 DEF Stop, redis, history
  <2> QED
    BY <1>0, <1>5, <2>1, GrowsFrame, StopStep
<1>6. ASSUME Replay \/ MatchTrade
      PROVE  Grows /\ SInv'
  <2>1. /\ UNCHANGED <<acked, details, executed, errors, crashes>>
        /\ \/ trades' = trades
           \/ \E b, o : trades' = Append(trades, Trade(b, o))
    BY <1>6 DEF Replay, MatchTrade, Match, redis, budget
  <2>2. Len(acked) \in Nat /\ trades \in Seq(Resting \X Resting) /\ SInv'
    BY <1>6, LenProperties, ReplayStep, MatchTradeStep DEF SInv, TypeOK
  <2>3. Traded \subseteq Traded'
    <3>1. ASSUME NEW t, trades' = Append(trades, t)
          PROVE  Traded \subseteq Traded'
      <4>1. \A n \in 1..Len(trades) : n \in 1..Len(trades') /\ trades'[n] = trades[n]
        BY <2>2, <3>1, LenProperties
      <4> QED
        BY <4>1 DEF Traded
    <3> QED
      BY <2>1, <3>1 DEF Traded
  <2> QED
    BY <2>1, <2>2, <2>3 DEF Grows
<1>7. CASE Reply
  <2>1. /\ UNCHANGED <<trades, details, executed, errors, crashes>>
        /\ acked' = Append(acked, order)
    BY <1>7 DEF Reply, redis, budget
  <2>2. acked \in Seq(Order) /\ order \in Order
    BY <1>7 DEF Reply, SInv, TypeOK, InHand
  <2>3. /\ Len(acked) <= Len(acked')
        /\ \A i \in 1..Len(acked) : acked'[i] = acked[i]
    BY <2>1, <2>2, AppendProperties, LenProperties
  <2> QED
    BY <1>7, <2>1, <2>3, ReplyStep DEF Grows, Traded
<1>8. CASE RedisCommand
  <2> DEFINE c == todo[1]
  <2>1. /\ UNCHANGED <<acked, trades, errors, crashes>> /\ todo # << >>
        /\ details' = details \/ details' = Put(details, Head(todo).order.oid, Head(todo).order)
        /\ executed' = executed \/ executed' = HSet(executed, Head(todo).order.oid)
    BY <1>8 DEF RedisCommand, Perform, history, budget
  <2>2. c = Head(todo) /\ c.order.oid \in Nat
    BY <2>1, TailOfTodo DEF SInv, TypeOK, Command, Order
  <2> HIDE DEF c
  <2>3. DOMAIN details \subseteq DOMAIN details'
    BY <2>1 DEF Put
  <2>4. /\ Fields(executed) \subseteq Fields(executed')
        /\ FieldsOnce(executed) => FieldsOnce(executed')
    <3>1. executed \in Hash(Nat)
      BY DEF SInv, TypeOK
    <3> QED
      BY <2>1, <2>2, <3>1, HSetFields
  <2> QED
    BY <1>8, <2>1, <2>3, <2>4, LenProperties, RedisCommandStep DEF Grows, Traded, SInv, TypeOK
<1> QED
  BY <1>1, <1>2, <1>3, <1>4, <1>5, <1>6, <1>7, <1>8, <1>9 DEF ServerStep

\* The orders of a match are the new one and one that rested.
LEMMA MatchOwned ==
  ASSUME SInv, OrdersOwned, Grows, TypeOK',
         NEW o \in Order, o.symbol \in Symbol,
         o.operation \in Side => o \in Resting /\ Owned(o),
         NEW init \in BOOLEAN, Match(o, init), acked' = acked
  PROVE  OrdersOwned'
<1>1. /\ book \in Book /\ trades \in Seq(Resting \X Resting)
      /\ book' = Rest(book, o)
      /\ trades' = IF IsMatched(book, o)
                     THEN Append(trades, Trade(book, o)) ELSE trades
  BY DEF SInv, TypeOK, Book, Match
<1>2. \A x : Owned(x)' <=> Owned(x)
  BY DEF Owned
<1>3. /\ \A q \in Queue : \A i \in 1..Len(book[q]) : Owned(book[q][i])
      /\ \A t \in Traded : Owned(t)
  BY DEF OrdersOwned
<1>4. CASE o.operation \notin Side
  <2>1. book' = book /\ trades' = trades
    BY <1>1, <1>4, RestOnCancel
  <2> QED
    BY <1>2, <1>3, <2>1 DEF OrdersOwned, Traded
<1>5. CASE o.operation \in Side
  <2>1. o \in Resting /\ Owned(o)
    BY <1>5
  <2>2. ASSUME NEW q \in Queue, NEW i \in 1..Len(book'[q])
        PROVE  Owned(book'[q][i])
    <3>1. \/ \E l \in 1..Len(book[q]) : book'[q][i] = book[q][l]
          \/ book'[q][i] = o
      BY <1>1, <2>1, RestEntries
    <3>2. \A l \in 1..Len(book[q]) : Owned(book[q][l])
      BY <1>3
    <3> QED
      BY <2>1, <3>1, <3>2 DEF Owned
  <2>3. CASE ~IsMatched(book, o)
    <3>1. Traded' = Traded
      BY <1>1, <2>3 DEF Traded
    <3> QED
      BY <1>2, <1>3, <2>2, <3>1 DEF OrdersOwned
  <2>4. CASE IsMatched(book, o)
    <3> DEFINE away == book[Opposite(o)]
               i    == FirstHit(o, away)
               m    == Adjusted(o, away[i])
    <3>1. i \in 1..Len(away) /\ Trade(book, o) = <<o, m>> /\ m \in Resting /\ Opposite(o) \in Queue
      BY <1>1, <2>1, <2>4, RestOnTrade, QueuesOfOrder
    <3>2. away[i] \in Resting /\ Owned(away[i])
      BY <1>1, <1>3, <3>1, BookEntries
    <3>3. m.oid = away[i].oid /\ m.cid = away[i].cid
      BY <3>2 DEF Adjusted, Resting, Order
    <3>4. Owned(m)
      BY <3>2, <3>3 DEF Owned
    <3> HIDE DEF m, i, away
    <3>5. Traded' = Traded \cup {o, m}
      <4>1. trades' = Append(trades, <<o, m>>) /\ <<o, m>> \in Resting \X Resting
            /\ <<o, m>>[1] = o /\ <<o, m>>[2] = m
        BY <1>1, <2>1, <2>4, <3>1
      <4> QED
        BY <1>1, <4>1, TradedAppend
    <3> QED
      BY <1>2, <1>3, <2>1, <2>2, <3>4, <3>5 DEF OrdersOwned
  <2> QED
    BY <2>3, <2>4
<1> QED
  BY <1>4, <1>5

\* What rests or traded stays a customer's.
LEMMA OwnedFrame ==
  ASSUME TypeOK, TypeOK', OrdersOwned, Grows, trades' = trades,
         \A q \in Queue : book'[q] = book[q] \/ book'[q] = << >>
  PROVE  OrdersOwned'
<1>1. \A q \in Queue : \A i \in 1..Len(book'[q]) : i \in 1..Len(book[q]) /\ book'[q][i] = book[q][i]
  BY EmptySeq
<1>2. Traded' = Traded
  BY DEF Traded
<1> QED
  BY <1>1, <1>2, OwnedGrows DEF OrdersOwned

\* Every order in the book and in the trades is one that a customer was told the
\* number of.
LEMMA ServerOwned ==
  ASSUME SInv, OrdersOwned, SInv', Grows,
         \/ \E r \in Request, ip \in Ip : Accept(r, ip)
         \/ ServerStep
         \/ Stop
  PROVE  OrdersOwned'
<1>1. CASE MatchTrade
  <2>1. /\ order_pc = "match" /\ Match(Normalize(order), FALSE) /\ acked' = acked
    BY <1>1 DEF MatchTrade
  <2>2. /\ order \in Order
        /\ order.operation \in Side => Normalize(order) \in Accepted
    BY <2>1 DEF SInv, InHand
  <2>3. /\ Normalize(order) \in Order /\ Normalize(order).symbol \in Symbol
        /\ Normalize(order).operation \in Side =>
             Normalize(order) \in Resting /\ Owned(Normalize(order))
    <3>1. Normalize(order).operation = order.operation
      BY <2>2, NormalizeOrder
    <3> DEFINE o == Normalize(order)
    <3>2. o \in Accepted => Owned(o)
      <4> HIDE DEF o
      <4> QED
        BY AcceptedOwned DEF SInv
    <3> QED
      BY <2>2, <3>1, <3>2, NormalizeOrder
  <2> DEFINE o == Normalize(order)
  <2> HIDE DEF o
  <2>4. /\ o \in Order /\ o.symbol \in Symbol /\ Match(o, FALSE)
        /\ o.operation \in Side => o \in Resting /\ Owned(o)
    BY <2>1, <2>3 DEF o
  <2> QED
    BY <2>1, <2>4, MatchOwned DEF SInv
<1>2. CASE Replay
  <2>1. loading \in Seq(Resting) /\ loading # << >>
    BY <1>2 DEF Replay, SInv, TypeOK, InHand
  <2>2. Head(loading) = loading[1] /\ 1 \in 1..Len(loading) /\ Head(loading) \in Resting
    BY <2>1, HeadTailProperties, EmptySeq, LenProperties
  <2>3. loading[1] \in Accepted /\ loading[1] \in Resting
    BY <2>2 DEF SInv, InHand
  <2> DEFINE o == loading[1]
  <2>4. Normalize(Head(loading)) = o
    BY <2>2, NormalizeOrder DEF Resting
  <2>5. Match(o, TRUE) /\ acked' = acked /\ o \in Resting /\ o \in Accepted
    BY <1>2, <2>3, <2>4 DEF Replay
  <2> HIDE DEF o
  <2>6. Owned(o) /\ o \in Order /\ o.symbol \in Symbol
    BY <2>5, AcceptedOwned DEF SInv, Resting
  <2> QED
    BY <2>5, <2>6, MatchOwned DEF SInv
<1>3. ASSUME \/ \E r \in Request, ip \in Ip : Accept(r, ip)
             \/ Start \/ StartError \/ Reply \/ RedisCommand \/ RedisError \/ Return \/ Stop
      PROVE  OrdersOwned'
  <2>1. trades' = trades /\ (book' = book \/ book' = EmptyBook)
    BY <1>3
    DEF Accept, Start, StartError, Reply, RedisCommand, RedisError, Return, Stop, memory, history
  <2>2. \A q \in Queue : book'[q] = book[q] \/ book'[q] = << >>
    BY <2>1 DEF EmptyBook
  <2> QED
    BY <2>1, <2>2, OwnedFrame DEF SInv
<1> QED
  BY <1>1, <1>2, <1>3 DEF ServerStep

\* The host of a customer.
LEMMA HostOfCustomer ==
  ASSUME NEW cid \in Cid
  PROVE  address[cid] \in Ip
  BY AddressAssumption

\* A customer's address is stored before the customer is answered.
LEMMA ServerAddresses ==
  ASSUME SInv, AddressesFirst, exec_map' = exec_map,
         \/ \E r \in Request : Accept(r, address[r.cid])
         \/ ServerStep
         \/ Stop
  PROVE  AddressesFirst'
<1>0. errors \in Nat /\ acked \in Seq(Order) /\ Len(acked) \in Nat
  BY LenProperties, BoundsAssumption DEF SInv, TypeOK
<1>1. ASSUME NEW r \in Request, Accept(r, address[r.cid])
      PROVE  AddressesFirst'
  <2>1. /\ acked' = acked /\ order' = Numbered(r, order_number + 1)
        /\ UpdateCidIp(r.cid, address[r.cid])
    BY <1>1 DEF Accept, history
  <2>2. order'.cid = r.cid
    BY <2>1 DEF Numbered
  <2>3. CASE r.cid \in DOMAIN cid_ip_map
    BY <2>1, <2>2, <2>3 DEF UpdateCidIp, AddressesFirst
  <2>4. CASE r.cid \notin DOMAIN cid_ip_map
    <3>1. /\ cid_ip_map' = Put(cid_ip_map, r.cid, address[r.cid])
          /\ \/ c2ip' = Put(c2ip, r.cid, address[r.cid]) /\ errors' = errors
             \/ errors' = errors + 1 /\ c2ip' = c2ip
      BY <2>1, <2>4 DEF UpdateCidIp
    <3>2. DOMAIN cid_ip_map' = DOMAIN cid_ip_map \cup {r.cid}
      BY <3>1 DEF Put
    <3>3. CASE c2ip' = Put(c2ip, r.cid, address[r.cid]) /\ errors' = errors
      <4>1. /\ DOMAIN c2ip' = DOMAIN c2ip \cup {r.cid}
            /\ \A cid \in DOMAIN c2ip' :
                 c2ip'[cid] = IF cid = r.cid THEN address[cid] ELSE c2ip[cid]
        BY <3>3 DEF Put
      <4> QED
        BY <2>1, <2>2, <3>2, <3>3, <4>1 DEF AddressesFirst
    <3>4. CASE errors' = errors + 1 /\ c2ip' = c2ip
      BY <1>0, <2>1, <2>2, <3>2, <3>4 DEF AddressesFirst
    <3> QED
      BY <3>1, <3>3, <3>4
  <2> QED
    BY <2>3, <2>4
<1>2. CASE Reply
  <2>1. /\ acked' = Append(acked, order) /\ order_pc = "reply" /\ order_pc' = "match"
        /\ UNCHANGED <<cid_ip_map, c2ip, errors>> /\ order \in Order
    BY <1>2 DEF Reply, memory, redis, budget, SInv, InHand
  <2>2. \A i \in 1..Len(acked') :
          \/ i \in 1..Len(acked) /\ acked'[i] = acked[i]
          \/ acked'[i] = order
    BY <1>0, <2>1, AppendProperties
  <2> QED
    BY <2>1, <2>2 DEF AddressesFirst
<1>3. CASE Stop
  <2>1. /\ UNCHANGED <<c2ip, acked, errors>>
        /\ DOMAIN cid_ip_map' = {} /\ order_pc' = "down"
    BY <1>3 DEF Stop, redis, history, EmptyMap
  <2> QED
    BY <2>1 DEF AddressesFirst
<1>4. ASSUME Start \/ StartError \/ Replay \/ MatchTrade \/ RedisCommand \/ RedisError \/ Return
      PROVE  AddressesFirst'
  <2>1. /\ UNCHANGED <<cid_ip_map, c2ip, acked>> /\ order_pc' # "reply"
        /\ errors' = errors \/ errors' = errors + 1
    BY <1>4
    DEF Start, StartError, Replay, MatchTrade, RedisCommand, RedisError, Return, Match, Perform,
        Resume, memory, redis, history, budget
  <2> QED
    BY <1>0, <2>1 DEF AddressesFirst
<1> QED
  BY <1>1, <1>2, <1>3, <1>4 DEF ServerStep

\* Until the order server is stopped, it numbers its orders one after the other.
LEMMA ServerNumbers ==
  ASSUME SInv, NumbersUnique,
         \/ \E r \in Request, ip \in Ip : Accept(r, ip)
         \/ ServerStep
         \/ Stop
  PROVE  NumbersUnique'
<1> SUFFICES ASSUME crashes' = 0
             PROVE  /\ order_pc' = "down" => acked' = << >> /\ Fields(active') = {}
                    /\ order_number' = Len(acked') + (IF order_pc' = "reply" THEN 1 ELSE 0)
                    /\ \A i \in 1..Len(acked') : acked'[i].oid = i
  BY DEF NumbersUnique
<1>0. /\ crashes \in Nat /\ acked \in Seq(Order) /\ Len(acked) \in Nat
      /\ order_number \in Nat /\ active \in Hash(Nat)
  BY LenProperties, BoundsAssumption DEF SInv, TypeOK
<1>1. ASSUME NEW r \in Request, NEW ip \in Ip, Accept(r, ip)
      PROVE  /\ order_pc' = "reply" /\ acked' = acked
             /\ order_number' = Len(acked') + 1
             /\ \A i \in 1..Len(acked') : acked'[i].oid = i
  BY <1>0, <1>1 DEF Accept, history, NumbersUnique
<1>2. CASE Reply
  <2>1. /\ acked' = Append(acked, order) /\ order_pc = "reply" /\ order_pc' = "match"
        /\ UNCHANGED <<crashes, order_number>> /\ order \in Order
        /\ order.oid = order_number
    BY <1>2 DEF Reply, memory, budget, SInv, InHand
  <2>2. \A i \in 1..Len(acked') :
          \/ i \in 1..Len(acked) /\ acked'[i] = acked[i]
          \/ acked'[i] = order /\ i = Len(acked) + 1
    BY <1>0, <2>1, AppendProperties
  <2>3. Len(acked') = Len(acked) + 1
    BY <1>0, <2>1, AppendProperties
  <2> QED
    BY <1>0, <2>1, <2>2, <2>3 DEF NumbersUnique
<1>3. CASE Stop
  BY <1>0, <1>3 DEF Stop
<1>4. CASE Start
  <2>1. PICK keys \in HKeys(active) :
          /\ order_pc = "down" /\ order_pc' = Resume(loading')
          /\ order_number' = LastNumber(keys)
          /\ UNCHANGED <<acked, crashes>>
    BY <1>4 DEF Start, history, budget
  <2>2. keys \in Seq(Nat) /\ \A i \in 1..Len(keys) : keys[i] \in Fields(active)
    BY <1>0, HKeysFields
  <2>3. Fields(active) = {} /\ acked = << >>
    BY <2>1 DEF NumbersUnique
  <2>4. Len(keys) = 0 /\ keys = << >>
    BY <2>2, <2>3, EmptySeq, LenProperties
  <2> QED
    BY <2>1, <2>3, <2>4, EmptySeq DEF LastNumber, Resume
<1>5. ASSUME Replay \/ MatchTrade \/ RedisCommand \/ RedisError \/ Return
      PROVE  /\ order_pc' # "down" /\ order_pc' # "reply"
             /\ order_pc # "down" /\ order_pc # "reply"
             /\ UNCHANGED <<acked, crashes, order_number>>
  BY <1>5
  DEF Replay, MatchTrade, RedisCommand, RedisError, Return, Match, Resume, memory,
      history, budget
<1>6. CASE StartError
  <2>1. /\ order_pc = "down" /\ UNCHANGED <<acked, active, crashes>>
        /\ \/ order_pc' = "accept" /\ order_number' = 0
           \/ UNCHANGED <<order_pc, order_number>>
    BY <1>6 DEF StartError, redis
  <2>2. acked = << >> /\ Len(acked) = 0 /\ order_number = 0 /\ Fields(active) = {}
    BY <2>1, EmptySeq DEF NumbersUnique
  <2> QED
    BY <2>1, <2>2
<1> QED
  BY <1>0, <1>1, <1>2, <1>3, <1>4, <1>5, <1>6 DEF ServerStep, NumbersUnique

\* What exec has read stays true whatever the order server adds.
LEMMA ReadingFrame ==
  ASSUME TypeOK, TypeOK', ExecReading, Grows,
         UNCHANGED <<exec_pc, exec_keys, exec_orders, exec_map>>
  PROVE  ExecReading'
<1>1. \A i \in 1..Len(exec_orders) : Owned(exec_orders[i])'
  <2> SUFFICES ASSUME NEW i \in 1..Len(exec_orders)
               PROVE  Owned(exec_orders[i])'
    OBVIOUS
  <2>1. Owned(exec_orders[i])
    BY DEF ExecReading
  <2>2. PICK k \in 1..Len(acked) :
          acked[k].oid = exec_orders[i].oid /\ acked[k].cid = exec_orders[i].cid
    BY <2>1 DEF Owned
  <2>3. k \in 1..Len(acked') /\ acked'[k] = acked[k]
    BY LenProperties DEF TypeOK, Grows
  <2> QED
    BY <2>2, <2>3 DEF Owned
<1> QED
  BY <1>1 DEF ExecReading, Grows

\* Nor does what is known of a notification that outlived its sender change.
LEMMA StrayFrame ==
  ASSUME XInv, TypeOK',
         stray' \subseteq stray, exec_exited => exec_exited',
         Len(acked) <= Len(acked'), \A i \in 1..Len(acked) : acked'[i] = acked[i],
         Traded \subseteq Traded', crashes' = 0 => crashes = 0,
         \A oid : Queued(oid) => Queued(oid)'
  PROVE  StraySound'
<1>1. stray' # {} => exec_exited'
  <2>1. stray # {} => exec_exited
    BY DEF XInv, StraySound
  <2> QED
    BY <2>1, Zenon
<1>2. SUFFICES ASSUME NEW n \in stray'
               PROVE  /\ Queued(n[1])'
                      /\ \E i \in 1..Len(acked') :
                           acked'[i].oid = n[1] /\ address[acked'[i].cid] = n[2]
                      /\ crashes' = 0 =>
                           \E o \in Traded' : o.oid = n[1] /\ address[o.cid] = n[2]
  BY <1>1, Zenon DEF StraySound
<1>3. /\ Queued(n[1])
      /\ crashes = 0 => \E o \in Traded : o.oid = n[1] /\ address[o.cid] = n[2]
  BY <1>2 DEF XInv, StraySound
<1>4. PICK i \in 1..Len(acked) : acked[i].oid = n[1] /\ address[acked[i].cid] = n[2]
  BY <1>2 DEF XInv, StraySound
<1>5. i \in 1..Len(acked') /\ acked'[i] = acked[i]
  BY <1>4, LenProperties, SMTT(30) DEF TypeOK, XInv, SInv
<1>6. \E j \in 1..Len(acked') : acked'[j].oid = n[1] /\ address[acked'[j].cid] = n[2]
  BY <1>4, <1>5
<1>7. Queued(n[1])'
  BY <1>3
<1>8. crashes' = 0 => \E o \in Traded' : o.oid = n[1] /\ address[o.cid] = n[2]
  BY <1>3
<1> QED
  BY <1>6, <1>7, <1>8, Zenon

\* A step of the order server keeps the invariant.
LEMMA ServerKeepsAll ==
  ASSUME XInv, Receive \/ OrderStep \/ OrderStop
  PROVE  XInv'
<1>1. /\ exec_pc' = exec_pc /\ exec_keys' = exec_keys /\ exec_orders' = exec_orders
      /\ exec_map' = exec_map /\ exec_exited' = exec_exited /\ connection' = connection
      /\ stray' = stray
      /\ up' = up /\ notified' = notified
  BY DEF Receive, OrderStep, OrderStop, execVars, execMemory
<1>2. SInv /\ OrdersOwned /\ AddressesFirst /\ NumbersUnique /\ ExecReading /\ TypeOK
  BY DEF XInv, SInv
<1>3. \/ \E r \in Request : Accept(r, address[r.cid])
      \/ ServerStep
      \/ Stop
  BY DEF Receive, OrderStep, OrderStop
<1>4. \/ \E r \in Request, ip \in Ip : Accept(r, ip)
      \/ ServerStep
      \/ Stop
  <2>1. \A r \in Request : address[r.cid] \in Ip
    BY HostOfCustomer DEF Request
  <2> QED
    BY <1>3, <2>1
<1>5. Grows /\ SInv'
  BY <1>2, <1>4, ServerGrows
<1>6. OrdersOwned' /\ NumbersUnique'
  BY <1>2, <1>4, <1>5, ServerOwned, ServerNumbers
<1>7. AddressesFirst'
  BY <1>1, <1>2, <1>3, ServerAddresses
<1>8. TypeOK'
  BY <1>5 DEF SInv
<1>9. ExecReading'
  BY <1>1, <1>2, <1>5, <1>8, ReadingFrame
<1>10. ExchangeTypeOK' /\ ExecTelling'
  BY <1>1, <1>8 DEF XInv, ExchangeTypeOK, Exec!ExecTypeOK, ExecTelling
<1>11. OwnerNotified'
  BY <1>1, <1>5 DEF XInv, OwnerNotified, Grows
<1>12. StraySound'
  <2>1. \A oid : Queued(oid) => Queued(oid)'
    BY <1>1, <1>5 DEF Queued, Notified, Grows
  <2> QED
    BY <1>1, <1>5, <1>8, <2>1, StrayFrame DEF Grows
<1> QED
  BY <1>5, <1>6, <1>7, <1>9, <1>10, <1>11, <1>12 DEF XInv
-------------------------------------------------------------------------------
(* The steps of the exec server and of the hosts.                          *)

\* To the order server nothing happens but that an executed order is deleted, and
\* that a command fails.
LEMMA ExecLeavesServer ==
  ASSUME SInv, OrdersOwned, AddressesFirst, NumbersUnique,
         UNCHANGED <<order_pc, memory, details, active, c2ip, acked, trades, misread, crashes>>,
         executed' \in Hash(Nat), Fields(executed') \subseteq Fields(executed),
         errors' \in 0..MaxErrors, errors' = 0 => errors = 0,
         exec_map' \in {exec_map, c2ip, EmptyMap}
  PROVE  SInv' /\ OrdersOwned' /\ AddressesFirst' /\ NumbersUnique'
<1>1. /\ order_number' = order_number /\ book' = book /\ cid_ip_map' = cid_ip_map
      /\ order' = order /\ loading' = loading /\ todo' = todo
      /\ order_pc' = order_pc /\ details' = details /\ active' = active /\ c2ip' = c2ip
      /\ acked' = acked /\ trades' = trades /\ misread' = misread
      /\ crashes' = crashes
      /\ Traded' = Traded /\ Accepted' = Accepted
  BY DEF memory, Traded, Accepted
<1>2. TypeOK'
  BY <1>1 DEF SInv, TypeOK
<1>3. InHand' /\ NumbersAcked'
  BY <1>1 DEF SInv, InHand, NumbersAcked
<1>4. \A i, needed : Written(i, needed)' <=> Written(i, needed)
  BY <1>1, Zenon DEF Written
<1>5. TodoSound'
  BY <1>1, <1>4 DEF SInv, TodoSound
<1>6. BookWritten' /\ ExecutedHaveDetails' /\ ExecutedTraded'
  BY <1>1 DEF SInv, BookWritten, ExecutedHaveDetails, ExecutedTraded
<1>7. SInv'
  BY <1>1, <1>2, <1>3, <1>5, <1>6, Frame DEF SInv
<1>8. OrdersOwned'
  <2>1. \A x : Owned(x)' <=> Owned(x)
    BY <1>1 DEF Owned
  <2> QED
    BY <1>1, <2>1 DEF OrdersOwned
<1>9. AddressesFirst'
  BY <1>1 DEF AddressesFirst, EmptyMap
<1>10. NumbersUnique'
  BY <1>1 DEF NumbersUnique
<1> QED
  BY <1>7, <1>8, <1>9, <1>10

\* The parts of the invariant that the steps of exec use.
LEMMA ExecFacts ==
  ASSUME XInv
  PROVE  /\ exec_pc \in {"poll", "read", "connect", "recv", "down"}
         /\ exec_keys \in Seq(Nat) /\ Len(exec_keys) \in Nat
         /\ exec_orders \in Seq(Resting) /\ Len(exec_orders) \in Nat
         /\ DOMAIN exec_map \subseteq Cid /\ exec_map \in [DOMAIN exec_map -> Ip]
         /\ exec_exited \in BOOLEAN
         /\ connection \in Exec!Connection
         /\ stray \subseteq Nat \X Ip
         /\ executed \in Hash(Nat) /\ FieldsOnce(executed)
         /\ errors \in 0..MaxErrors /\ errors \in Nat
  BY LenProperties, ExecOperators, BoundsAssumption
  DEF XInv, ExchangeTypeOK, Exec!ExecTypeOK, SInv, TypeOK, ExecReading

\* The order that is told traded, so that the customer with its number is the
\* owner, as long as no number was given twice.
LEMMA SentToOwner ==
  ASSUME XInv, connection.state = "sent"
  PROVE  /\ exec_pc = "recv"
         /\ connection \in [state : {"sent", "acknowledged", "refused"}, oid : Nat, ip : Ip]
         /\ connection.oid = Head(exec_orders).oid
         /\ connection.oid \in Fields(executed)
         /\ \E i \in 1..Len(acked) :
              acked[i].oid = connection.oid /\ address[acked[i].cid] = connection.ip
         /\ crashes = 0 =>
              \E t \in Traded : t.oid = connection.oid /\ address[t.cid] = connection.ip
<1>1. exec_pc = "recv"
  BY DEF XInv, ExecTelling, Exec!Closed
<1>2. connection \in [state : {"sent", "acknowledged", "refused"}, oid : Nat, ip : Ip]
  BY ExecFacts DEF Exec!Connection, Exec!Closed
<1>3. /\ exec_orders # << >> /\ connection.oid = Head(exec_orders).oid
      /\ connection.ip = address[Head(exec_orders).cid]
  BY <1>1 DEF XInv, ExecTelling
<1>4. /\ Head(exec_orders) = exec_orders[1] /\ 1 \in 1..Len(exec_orders)
      /\ exec_orders[1] \in Resting
  BY <1>3, ExecFacts, HeadTailProperties, EmptySeq
<1>5. exec_orders[1].oid \in Fields(executed)
  BY <1>4 DEF XInv, ExecReading
<1>6. PICK j \in 1..Len(acked) :
        acked[j].oid = exec_orders[1].oid /\ acked[j].cid = exec_orders[1].cid
  BY <1>4 DEF XInv, ExecReading, Owned
<1>7. ASSUME crashes = 0
      PROVE  \E t \in Traded : t.oid = connection.oid /\ address[t.cid] = connection.ip
  <2>1. PICK t \in Traded : t.oid = exec_orders[1].oid
    BY <1>5 DEF XInv, SInv, ExecutedTraded
  <2>2. PICK i \in 1..Len(acked) : acked[i].oid = t.oid /\ acked[i].cid = t.cid
    BY DEF XInv, OrdersOwned, Owned
  <2>3. i = j
    BY <1>6, <1>7, <2>1, <2>2 DEF XInv, NumbersUnique
  <2> QED
    BY <1>3, <1>4, <1>6, <2>1, <2>2, <2>3
<1> QED
  BY <1>1, <1>2, <1>3, <1>4, <1>5, <1>6, <1>7

\* When exec ends it has nothing in memory; what it sent last may go astray.
LEMMA ExitForgets ==
  ASSUME XInv, Exec!Exit, executed' = executed, up' = up, notified' = notified,
         UNCHANGED <<order_pc, memory, details, active, c2ip, acked, trades, misread, crashes>>,
         errors' \in 0..MaxErrors, errors' = 0 => errors = 0
  PROVE  XInv'
<1>1. /\ exec_pc' = "down" /\ exec_keys' = << >> /\ exec_orders' = << >>
      /\ exec_map' = EmptyMap /\ connection' = Exec!Closed
      /\ stray' = IF connection.state = "sent"
                    THEN stray \cup {<<connection.oid, connection.ip>>} ELSE stray
  BY ExecOperators DEF Exec!Exit
<1>2. SInv' /\ OrdersOwned' /\ AddressesFirst' /\ NumbersUnique'
  BY <1>1, ExecLeavesServer DEF XInv, SInv, TypeOK
<1>6. exec_exited' = TRUE
  BY Zenon DEF Exec!Exit
<1>7. stray' \subseteq Nat \X Ip
  <2>1. stray \subseteq Nat \X Ip
    BY DEF XInv, ExchangeTypeOK, Exec!ExecTypeOK
  <2> QED
    BY <1>1, <2>1, SentToOwner
<1>8. exec_exited' \in BOOLEAN
  BY <1>6, Zenon
<1>3. ExchangeTypeOK'
  <2>1. exec_map' \in [DOMAIN exec_map' -> Ip] /\ DOMAIN exec_map' = {}
    BY <1>1 DEF EmptyMap
  <2>2. exec_keys' \in Seq(Nat) /\ exec_orders' \in Seq(Exec!Resting)
    BY <1>1, EmptySeq
  <2> QED
    BY <1>1, <1>2, <1>7, <1>8, <2>1, <2>2
    DEF XInv, ExchangeTypeOK, Exec!ExecTypeOK, SInv, Exec!Connection
<1>4. ExecReading' /\ ExecTelling'
  BY <1>1, EmptySeq DEF XInv, ExecReading, ExecTelling
<1>5. OwnerNotified'
  BY DEF XInv, OwnerNotified, Traded
<1>9. StraySound'
  <2>1. /\ acked' = acked /\ Traded' = Traded /\ crashes' = crashes
        /\ \A oid : Queued(oid)' <=> Queued(oid)
    BY DEF Traded, Queued, Notified
  <2>2. ASSUME NEW n \in stray'
        PROVE  /\ Queued(n[1])
               /\ \E i \in 1..Len(acked) :
                    acked[i].oid = n[1] /\ address[acked[i].cid] = n[2]
               /\ crashes = 0 =>
                    \E o \in Traded : o.oid = n[1] /\ address[o.cid] = n[2]
    <3>1. CASE n \in stray
      BY <3>1 DEF XInv, StraySound
    <3>2. CASE connection.state = "sent" /\ n = <<connection.oid, connection.ip>>
      <4>1. n[1] = connection.oid /\ n[2] = connection.ip
        BY <3>2
      <4> QED
        BY <3>2, <4>1, SentToOwner DEF Queued
    <3> QED
      BY <1>1, <2>2, <3>1, <3>2
  <2>3. \A n \in stray' :
          /\ Queued(n[1])'
          /\ \E i \in 1..Len(acked') :
               acked'[i].oid = n[1] /\ address[acked'[i].cid] = n[2]
          /\ crashes' = 0 =>
               \E o \in Traded' : o.oid = n[1] /\ address[o.cid] = n[2]
    BY <2>1, <2>2
  <2> QED
    BY <1>6, <2>3, Zenon DEF StraySound
<1> QED
  BY <1>2, <1>3, <1>4, <1>5, <1>9 DEF XInv

\* Steps of exec and of the hosts that leave the store alone: what is left to show
\* is about the memory of exec.
LEMMA ExecFrameError ==
  ASSUME XInv,
         UNCHANGED <<order_pc, memory, details, active, c2ip, acked, trades, misread, crashes>>,
         executed' = executed, errors' \in 0..MaxErrors, errors' = 0 => errors = 0,
         up' = up, notified' = notified,
         stray' \subseteq stray, exec_exited' = exec_exited,
         exec_map' \in {exec_map, c2ip, EmptyMap},
         Exec!ExecTypeOK', ExecReading', ExecTelling'
  PROVE  XInv'
<1>1. executed \in Hash(Nat)
  BY DEF XInv, SInv, TypeOK
<1>2. SInv' /\ OrdersOwned' /\ AddressesFirst' /\ NumbersUnique'
  BY <1>1, ExecLeavesServer DEF XInv
<1>3. ExchangeTypeOK'
  BY <1>2 DEF XInv, ExchangeTypeOK, SInv
<1>4. OwnerNotified'
  BY DEF XInv, OwnerNotified, Traded
<1>5. StraySound'
  <2>1. Len(acked) \in Nat
    BY LenProperties DEF XInv, SInv, TypeOK
  <2>2. /\ Len(acked) <= Len(acked') /\ \A i \in 1..Len(acked) : acked'[i] = acked[i]
        /\ Traded \subseteq Traded' /\ crashes' = crashes
    BY <2>1 DEF Traded
  <2>5. \A oid : Queued(oid) => Queued(oid)'
    BY Zenon DEF Queued, Notified
  <2>3. exec_exited => exec_exited'
    BY Zenon
  <2>4. TypeOK'
    BY <1>2 DEF SInv
  <2> QED
    BY <2>2, <2>3, <2>4, <2>5, StrayFrame
<1> QED
  BY <1>2, <1>3, <1>4, <1>5 DEF XInv

\* In particular when no command failed.
LEMMA ExecFrame ==
  ASSUME XInv, UNCHANGED <<serverVars, up, notified>>,
         stray' = stray, exec_exited' = exec_exited,
         exec_map' \in {exec_map, c2ip, EmptyMap},
         Exec!ExecTypeOK', ExecReading', ExecTelling'
  PROVE  XInv'
<1>1. /\ UNCHANGED <<order_pc, memory, details, active, c2ip, acked, trades, misread, crashes>>
      /\ executed' = executed /\ errors' = errors
      /\ up' = up /\ notified' = notified
  BY DEF serverVars, redis, history, budget
<1>2. errors \in 0..MaxErrors
  BY DEF XInv, SInv, TypeOK
<1> QED
  BY <1>1, <1>2, ExecFrameError

\* ExecStart.
LEMMA ExecStartStep == XInv /\ ExecStart => XInv'
<1> SUFFICES ASSUME XInv, ExecStart
             PROVE  XInv'
  OBVIOUS
<1>1. /\ exec_pc = "down" /\ exec_pc' = "poll" /\ exec_keys' = exec_keys
      /\ exec_orders' = exec_orders /\ exec_map' = exec_map
      /\ exec_exited' = exec_exited /\ connection' = connection /\ stray' = stray
      /\ UNCHANGED <<serverVars, up, notified>>
      /\ executed' = executed /\ errors' = errors /\ details' = details
      /\ acked' = acked
  BY DEF ExecStart, Exec!ExecStart, Exec!execMemory, ExecUnchanged, serverVars,
         redis, history, budget
<1>2. Exec!ExecTypeOK'
  BY <1>1 DEF XInv, ExchangeTypeOK, Exec!ExecTypeOK
<1>3. ExecReading' /\ ExecTelling'
  BY <1>1, EmptySeq DEF XInv, ExecReading, ExecTelling
<1> QED
  BY <1>1, <1>2, <1>3, ExecFrame

\* Poll: the fields of the queue, each once.
LEMMA PollStep ==
  ASSUME XInv, Exec!Poll, UNCHANGED <<serverVars, up, notified>>
  PROVE  XInv'
<1>1. /\ exec_pc = "poll" /\ exec_pc' = "read" /\ exec_orders' = exec_orders
      /\ exec_map' = exec_map /\ exec_exited' = exec_exited /\ connection' = connection /\ stray' = stray
      /\ exec_keys' \in HKeys(executed)
      /\ executed' = executed /\ errors' = errors /\ details' = details
      /\ acked' = acked
  BY ExecOperators DEF Exec!Poll, serverVars, redis, history, budget
<1>2. /\ exec_keys' \in Seq(Nat) /\ \A i \in 1..Len(exec_keys') : exec_keys'[i] \in Fields(executed)
  BY <1>1, HKeysFields, ExecFacts
<1>3. \A i, j \in 1..Len(exec_keys') : exec_keys'[i] = exec_keys'[j] => i = j
  <2>1. CASE executed.hashtable
    <3>1. /\ exec_keys' \in [1..Len(executed.keys) -> Fields(executed)]
          /\ \A i, j \in 1..Len(executed.keys) : exec_keys'[i] = exec_keys'[j] => i = j
      BY <1>1, <2>1 DEF HKeys
    <3>2. Len(exec_keys') = Len(executed.keys)
      BY <1>1, HKeysFields, ExecFacts
    <3> QED
      BY <3>1, <3>2
  <2>2. CASE ~executed.hashtable
    <3>1. exec_keys' = executed.keys
      BY <1>1, <2>2 DEF HKeys
    <3> QED
      BY <3>1, ExecFacts DEF FieldsOnce
  <2> QED
    BY <2>1, <2>2
<1>4. errors = 0 => Fields(executed) \subseteq DOMAIN details
  BY DEF XInv, SInv, ExecutedHaveDetails
<1>5. exec_orders = << >> /\ Len(exec_orders) = 0
  BY <1>1, EmptySeq DEF XInv, ExecReading
<1>6. Exec!ExecTypeOK'
  BY <1>1, <1>2 DEF XInv, ExchangeTypeOK, Exec!ExecTypeOK
<1>7. ExecReading'
  BY <1>1, <1>2, <1>3, <1>4, <1>5, ExecFacts DEF ExecReading
<1>8. ExecTelling'
  BY <1>1 DEF XInv, ExecTelling
<1> QED
  BY <1>1, <1>6, <1>7, <1>8, ExecFrame

\* ReadDetails: the details of an executed order are those of the order with
\* that number.
LEMMA ReadDetailsStep ==
  ASSUME XInv, Exec!ReadDetails, UNCHANGED <<serverVars, up, notified>>
  PROVE  XInv'
<1> DEFINE k == exec_keys[1]
           o == details[k]
<1>1. /\ exec_pc = "read" /\ exec_pc' = "read" /\ exec_keys # << >>
      /\ Head(exec_keys) \in DOMAIN details
      /\ exec_orders' = Append(exec_orders,
                           [details[Head(exec_keys)] EXCEPT !.oid = Head(exec_keys)])
      /\ exec_keys' = Tail(exec_keys)
      /\ exec_map' = exec_map /\ exec_exited' = exec_exited /\ connection' = connection /\ stray' = stray
      /\ executed' = executed /\ errors' = errors /\ details' = details
      /\ acked' = acked
  BY DEF Exec!ReadDetails, serverVars, redis, history, budget
<1>2. /\ k = Head(exec_keys) /\ 1 \in 1..Len(exec_keys) /\ exec_keys' \in Seq(Nat)
      /\ \A i \in 1..Len(exec_keys') : exec_keys'[i] = exec_keys[i + 1]
                                       /\ i + 1 \in 1..Len(exec_keys) /\ i + 1 # 1
  BY <1>1, ExecFacts, HeadTailProperties, EmptySeq
<1>3. o \in Accepted /\ o.oid = k
  BY <1>1, <1>2 DEF XInv, SInv, StoreSound
<1>4. o \in Resting
  BY <1>3, AcceptedOrders DEF XInv, SInv
<1>5. [o EXCEPT !.oid = k] = o
  BY <1>3, <1>4 DEF Resting, Order
<1>6. exec_orders' = Append(exec_orders, o)
  BY <1>1, <1>2, <1>5
<1> HIDE DEF o
<1>7. Owned(o)
  BY <1>3, AcceptedOwned DEF XInv, SInv
<1>8. /\ exec_orders' \in Seq(Resting) /\ Len(exec_orders') = Len(exec_orders) + 1
      /\ \A i \in 1..Len(exec_orders') :
           \/ i \in 1..Len(exec_orders) /\ exec_orders'[i] = exec_orders[i]
           \/ i = Len(exec_orders) + 1 /\ exec_orders'[i] = o
  BY <1>4, <1>6, ExecFacts, AppendProperties
<1>9. Exec!ExecTypeOK'
  BY <1>1, <1>2, <1>8, ExecOperators DEF XInv, ExchangeTypeOK, Exec!ExecTypeOK
<1>10. \A i \in 1..Len(exec_orders') :
         /\ exec_orders'[i].oid \in Fields(executed)
         /\ Owned(exec_orders'[i])
         /\ \A j \in 1..Len(exec_orders') :
              exec_orders'[i].oid = exec_orders'[j].oid => i = j
  <2>1. \A i \in 1..Len(exec_orders') :
          exec_orders'[i].oid \in Fields(executed) /\ Owned(exec_orders'[i])
    <3> SUFFICES ASSUME NEW i \in 1..Len(exec_orders')
                 PROVE  exec_orders'[i].oid \in Fields(executed) /\ Owned(exec_orders'[i])
      OBVIOUS
    <3>1. CASE i \in 1..Len(exec_orders) /\ exec_orders'[i] = exec_orders[i]
      <4>1. exec_orders[i].oid \in Fields(executed) /\ Owned(exec_orders[i])
        BY <3>1 DEF XInv, ExecReading
      <4> QED
        BY <3>1, <4>1 DEF Owned
    <3>2. CASE exec_orders'[i] = o
      BY <1>1, <1>2, <1>3, <1>7, <3>2 DEF XInv, ExecReading, Owned
    <3> QED
      BY <1>8, <3>1, <3>2
  <2>2. \A i, j \in 1..Len(exec_orders') : exec_orders'[i].oid = exec_orders'[j].oid => i = j
    <3>1. \A i \in 1..Len(exec_orders) : exec_orders[i].oid # o.oid
      BY <1>2, <1>3 DEF XInv, ExecReading
    <3>2. \A i, j \in 1..Len(exec_orders) : exec_orders[i].oid = exec_orders[j].oid => i = j
      BY DEF XInv, ExecReading
    <3> QED
      BY <1>8, <3>1, <3>2
  <2> QED
    BY <2>1, <2>2
<1>11. \A i \in 1..Len(exec_keys') :
         /\ exec_keys'[i] \in Fields(executed)
         /\ errors = 0 => exec_keys'[i] \in DOMAIN details
         /\ \A j \in 1..Len(exec_keys') : exec_keys'[i] = exec_keys'[j] => i = j
         /\ \A j \in 1..Len(exec_orders') : exec_keys'[i] # exec_orders'[j].oid
  <2>1. \A i \in 1..Len(exec_keys) :
          /\ exec_keys[i] \in Fields(executed)
          /\ errors = 0 => exec_keys[i] \in DOMAIN details
          /\ \A j \in 1..Len(exec_keys) : exec_keys[i] = exec_keys[j] => i = j
          /\ \A j \in 1..Len(exec_orders) : exec_keys[i] # exec_orders[j].oid
    BY DEF XInv, ExecReading
  <2>2. \A i \in 1..Len(exec_keys') :
          /\ exec_keys'[i] \in Fields(executed)
          /\ errors = 0 => exec_keys'[i] \in DOMAIN details
          /\ exec_keys'[i] # o.oid
    BY <1>2, <1>3, <2>1
  <2>3. \A i, j \in 1..Len(exec_keys') : exec_keys'[i] = exec_keys'[j] => i = j
    <3> SUFFICES ASSUME NEW i \in 1..Len(exec_keys'), NEW j \in 1..Len(exec_keys'),
                        exec_keys'[i] = exec_keys'[j]
                 PROVE  i = j
      OBVIOUS
    <3>1. i + 1 = j + 1
      BY <1>2, <2>1
    <3> QED
      BY <3>1
  <2>4. \A i \in 1..Len(exec_keys') : \A j \in 1..Len(exec_orders') :
          exec_keys'[i] # exec_orders'[j].oid
    <3> SUFFICES ASSUME NEW i \in 1..Len(exec_keys'), NEW j \in 1..Len(exec_orders')
                 PROVE  exec_keys'[i] # exec_orders'[j].oid
      OBVIOUS
    <3>1. CASE exec_orders'[j] = o
      BY <2>2, <3>1
    <3>2. CASE j \in 1..Len(exec_orders) /\ exec_orders'[j] = exec_orders[j]
      <4>1. exec_keys'[i] = exec_keys[i + 1] /\ i + 1 \in 1..Len(exec_keys)
        BY <1>2
      <4>2. exec_keys[i + 1] # exec_orders[j].oid
        BY <2>1, <3>2, <4>1
      <4> QED
        BY <3>2, <4>1, <4>2
    <3> QED
      BY <1>8, <3>1, <3>2
  <2> QED
    BY <2>2, <2>3, <2>4
<1>12. ExecReading'
  BY <1>1, <1>10, <1>11, ExecFacts, ZenonT(30) DEF ExecReading, Owned
<1>13. ExecTelling'
  BY <1>1 DEF XInv, ExecTelling
<1> QED
  BY <1>1, <1>9, <1>12, <1>13, ExecFrame

\* ReadMap: the addresses of the customers of all orders read are there.
LEMMA ReadMapStep ==
  ASSUME XInv, Exec!ReadMap, UNCHANGED <<serverVars, up, notified>>
  PROVE  XInv'
<1>1. /\ exec_pc = "read" /\ exec_pc' = "connect" /\ exec_keys = << >>
      /\ exec_keys' = exec_keys /\ exec_orders' = exec_orders /\ exec_map' = c2ip
      /\ exec_exited' = exec_exited /\ connection' = connection /\ stray' = stray
      /\ executed' = executed /\ errors' = errors /\ details' = details
      /\ acked' = acked
  BY DEF Exec!ReadMap, serverVars, redis, history, budget
<1>2. DOMAIN c2ip \subseteq Cid /\ c2ip \in [DOMAIN c2ip -> Ip]
  BY DEF XInv, SInv, TypeOK, IsPartialFunction
<1>3. Exec!ExecTypeOK'
  BY <1>1, <1>2 DEF XInv, ExchangeTypeOK, Exec!ExecTypeOK
<1>4. errors = 0 => \A i \in 1..Len(exec_orders) : exec_orders[i].cid \in DOMAIN c2ip
  BY DEF XInv, ExecReading, Owned, AddressesFirst
<1>5. ExecReading'
  BY <1>1, <1>4, EmptySeq DEF XInv, ExecReading, Owned
<1>6. ExecTelling'
  BY <1>1 DEF XInv, ExecTelling
<1> QED
  BY <1>1, <1>3, <1>5, <1>6, ExecFrame

\* Connect: to the address of the customer of the first order.
LEMMA ConnectStep ==
  ASSUME XInv, Exec!Connect, UNCHANGED <<serverVars, up, notified>>
  PROVE  XInv'
<1> DEFINE o == Head(exec_orders)
<1>1. /\ exec_pc = "connect" /\ exec_pc' = "recv" /\ exec_orders # << >>
      /\ exec_keys' = exec_keys /\ exec_orders' = exec_orders /\ exec_map' = exec_map
      /\ exec_exited' = exec_exited /\ stray' = stray
      /\ o.cid \in DOMAIN exec_map
      /\ connection' = [state |-> "sent", oid |-> o.oid, ip |-> exec_map[o.cid]]
      /\ executed' = executed /\ errors' = errors /\ details' = details
      /\ acked' = acked
  BY DEF Exec!Connect, Exec!Address, Exec!execMemory, serverVars, redis, history, budget
<1>2. o \in Resting /\ o.oid \in Nat
  BY <1>1, ExecFacts, HeadTailProperties DEF Resting, Order
<1>3. exec_map[o.cid] = address[o.cid] /\ exec_map[o.cid] \in Ip
  BY <1>1, ExecFacts DEF XInv, AddressesFirst
<1> HIDE DEF o
<1>4. connection' \in Exec!Connection
  BY <1>1, <1>2, <1>3 DEF Exec!Connection
<1>5. Exec!ExecTypeOK'
  BY <1>1, <1>4 DEF XInv, ExchangeTypeOK, Exec!ExecTypeOK
<1>6. ExecReading'
  BY <1>1 DEF XInv, ExecReading, Owned
<1>7. ExecTelling'
  BY <1>1, <1>3 DEF ExecTelling, o
<1> QED
  BY <1>1, <1>5, <1>6, <1>7, ExecFrame

\* Sleep: nothing is left in memory.
LEMMA SleepStep ==
  ASSUME XInv, Exec!Sleep, UNCHANGED <<serverVars, up, notified>>
  PROVE  XInv'
<1>1. /\ exec_pc = "connect" /\ exec_pc' = "poll" /\ exec_orders = << >>
      /\ exec_keys' = exec_keys /\ exec_orders' = exec_orders /\ exec_map' = EmptyMap
      /\ exec_exited' = exec_exited /\ connection' = connection /\ stray' = stray
      /\ executed' = executed /\ errors' = errors /\ details' = details
      /\ acked' = acked
  BY ExecOperators DEF Exec!Sleep, serverVars, redis, history, budget
<1>2. exec_map' \in [DOMAIN exec_map' -> Ip] /\ DOMAIN exec_map' = {}
  BY <1>1 DEF EmptyMap
<1>3. Exec!ExecTypeOK'
  BY <1>1, <1>2 DEF XInv, ExchangeTypeOK, Exec!ExecTypeOK
<1>4. ExecReading' /\ ExecTelling'
  BY <1>1, EmptySeq DEF XInv, ExecReading, ExecTelling
<1> QED
  BY <1>1, <1>3, <1>4, ExecFrame

\* Delete: the order that was told leaves the queue and the list; the others in
\* the list have other numbers.
LEMMA DeleteStep == XInv /\ Delete => XInv'
<1> SUFFICES ASSUME XInv, Delete
             PROVE  XInv'
  OBVIOUS
<1>1. /\ exec_pc = "recv" /\ exec_pc' = "connect" /\ connection.state = "acknowledged"
      /\ executed' = HDel(executed, connection.oid)
      /\ exec_orders' = Tail(exec_orders) /\ exec_keys' = exec_keys
      /\ exec_map' = exec_map /\ exec_exited' = exec_exited /\ stray' = stray
      /\ connection' = Exec!Closed
      /\ UNCHANGED <<order_pc, memory, details, active, c2ip, acked, trades, misread, crashes>>
      /\ errors' = errors /\ up' = up /\ notified' = notified
      /\ details' = details /\ acked' = acked
  BY ExecOperators DEF Delete, Exec!Delete, Exec!Deletable, ExecUnchanged, history, budget
<1>2. exec_orders # << >> /\ connection.oid = Head(exec_orders).oid
  BY <1>1 DEF XInv, ExecTelling
<1>3. /\ Head(exec_orders) = exec_orders[1] /\ 1 \in 1..Len(exec_orders)
      /\ exec_orders' \in Seq(Resting)
      /\ \A i \in 1..Len(exec_orders') :
           /\ exec_orders'[i] = exec_orders[i + 1]
           /\ i + 1 \in 1..Len(exec_orders) /\ i + 1 # 1
  BY <1>1, <1>2, ExecFacts, HeadTailProperties, EmptySeq
<1>4. /\ executed' \in Hash(Nat) /\ FieldsOnce(executed')
      /\ Fields(executed') = Fields(executed) \ {exec_orders[1].oid}
  BY <1>1, <1>2, <1>3, ExecFacts, HDelFields
<1>5. SInv' /\ OrdersOwned' /\ AddressesFirst' /\ NumbersUnique'
  BY <1>1, <1>4, ExecFacts, ExecLeavesServer DEF XInv
<1>6. ExchangeTypeOK'
  <2>1. exec_keys \in Seq(Nat) /\ exec_orders' \in Seq(Exec!Resting)
    BY <1>3, ExecFacts, ExecOperators
  <2> QED
    BY <1>1, <1>5, <2>1 DEF XInv, ExchangeTypeOK, Exec!ExecTypeOK, Exec!Connection, SInv
<1>7. ExecReading'
  <2>1. exec_keys = << >> /\ Len(exec_keys') = 0
    BY <1>1, EmptySeq DEF XInv, ExecReading
  <2>2. \A i \in 1..Len(exec_orders) :
          /\ exec_orders[i].oid \in Fields(executed)
          /\ Owned(exec_orders[i])
          /\ errors = 0 => exec_orders[i].cid \in DOMAIN exec_map
          /\ \A j \in 1..Len(exec_orders) :
               exec_orders[i].oid = exec_orders[j].oid => i = j
    BY <1>1 DEF XInv, ExecReading
  <2>3. \A i \in 1..Len(exec_orders') :
          /\ exec_orders'[i].oid \in Fields(executed')
          /\ Owned(exec_orders'[i])
          /\ errors = 0 => exec_orders'[i].cid \in DOMAIN exec_map
    <3> SUFFICES ASSUME NEW i \in 1..Len(exec_orders')
                 PROVE  /\ exec_orders'[i].oid \in Fields(executed')
                        /\ Owned(exec_orders'[i])
                        /\ errors = 0 => exec_orders'[i].cid \in DOMAIN exec_map
      OBVIOUS
    <3>1. exec_orders'[i] = exec_orders[i + 1] /\ i + 1 \in 1..Len(exec_orders) /\ i + 1 # 1
      BY <1>3
    <3>2. exec_orders[i + 1].oid # exec_orders[1].oid
      BY <1>3, <2>2, <3>1
    <3> QED
      BY <1>4, <2>2, <3>1, <3>2 DEF Owned
  <2>4. \A i, j \in 1..Len(exec_orders') :
          exec_orders'[i].oid = exec_orders'[j].oid => i = j
    <3> SUFFICES ASSUME NEW i \in 1..Len(exec_orders'), NEW j \in 1..Len(exec_orders'),
                        exec_orders'[i].oid = exec_orders'[j].oid
                 PROVE  i = j
      OBVIOUS
    <3>1. /\ exec_orders'[i] = exec_orders[i + 1] /\ i + 1 \in 1..Len(exec_orders)
          /\ exec_orders'[j] = exec_orders[j + 1] /\ j + 1 \in 1..Len(exec_orders)
      BY <1>3
    <3>2. i + 1 = j + 1
      BY <2>2, <3>1
    <3> QED
      BY <3>2
  <2>5. ASSUME NEW i \in 1..Len(exec_orders')
        PROVE  Owned(exec_orders[i])'
    <3>1. PICK k \in 1..Len(acked) :
            acked[k].oid = exec_orders'[i].oid /\ acked[k].cid = exec_orders'[i].cid
      BY <2>3 DEF Owned
    <3>2. acked' = acked
      BY <1>1
    <3> QED
      BY <3>1, <3>2 DEF Owned
  <2>6. /\ exec_pc' = "connect" /\ exec_keys' = << >> /\ FieldsOnce(executed')
        /\ errors' = errors /\ exec_map' = exec_map
    BY <1>1, <1>4, <2>1
  <2> QED
    BY <2>1, <2>3, <2>4, <2>5, <2>6 DEF ExecReading
<1>8. ExecTelling'
  BY <1>1 DEF ExecTelling
<1>9. OwnerNotified'
  BY <1>1 DEF XInv, OwnerNotified, Traded
<1>10. StraySound'
  <2>1. Notified(connection.oid)
    <3>1. <<connection.oid, connection.ip>> \in notified /\ connection.ip \in Ip
      BY <1>1, ExecFacts DEF XInv, ExecTelling, Exec!Connection, Exec!Closed
    <3> QED
      BY <3>1 DEF Notified
  <2>2. connection.oid = exec_orders[1].oid
    BY <1>2, <1>3
  <2>3. \A oid : Queued(oid) => Queued(oid)'
    BY <1>1, <1>4, <2>1, <2>2 DEF Queued, Notified
  <2>4. /\ acked' = acked /\ Traded' = Traded /\ crashes' = crashes /\ Len(acked) \in Nat
    BY <1>1, LenProperties DEF Traded, XInv, SInv, TypeOK
  <2>5. exec_exited => exec_exited'
    BY <1>1, Zenon
  <2>6. TypeOK'
    BY <1>5 DEF SInv
  <2> QED
    BY <1>1, <2>3, <2>4, <2>5, <2>6, StrayFrame
<1> QED
  BY <1>5, <1>6, <1>7, <1>8, <1>9, <1>10 DEF XInv

\* The process ends by itself, is killed, or is told of an error.
LEMMA ExecEndsStep == XInv /\ (ExecFails \/ DeleteFails \/ ExecStop) => XInv'
<1> SUFFICES ASSUME XInv, ExecFails \/ DeleteFails \/ ExecStop
             PROVE  XInv'
  OBVIOUS
<1>1. MaxErrors \in Nat /\ errors \in 0..MaxErrors
  BY ExecFacts, BoundsAssumption
<1>2. CASE ExecFails
  <2>1. Exec!Exit /\ executed' = executed /\ errors' = errors /\ up' = up
        /\ notified' = notified
        /\ UNCHANGED <<order_pc, memory, details, active, c2ip, acked, trades, misread, crashes>>
    BY <1>2
    DEF ExecFails, Exec!ExecFails, Exec!DetailsMissing, Exec!AddressMissing,
        Exec!ConnectFails, Exec!AnswerRefused, ExecUnchanged, history, budget
  <2> QED
    BY <1>1, <2>1, ExitForgets
<1>3. CASE DeleteFails
  <2>1. Exec!Exit /\ executed' = executed /\ errors' = errors + 1 /\ errors < MaxErrors
        /\ up' = up /\ notified' = notified
        /\ UNCHANGED <<order_pc, memory, details, active, c2ip, acked, trades, misread, crashes>>
    BY <1>3 DEF DeleteFails, redis, history
  <2>2. errors' \in 0..MaxErrors /\ errors' # 0
    BY <1>1, <2>1
  <2> QED
    BY <2>1, <2>2, ExitForgets
<1>4. CASE ExecStop
  <2>1. Exec!Exit /\ executed' = executed /\ errors' = errors /\ up' = up
        /\ notified' = notified
        /\ UNCHANGED <<order_pc, memory, details, active, c2ip, acked, trades, misread, crashes>>
    BY <1>4 DEF ExecStop, serverVars, redis, history, budget
  <2> QED
    BY <1>1, <2>1, ExitForgets
<1> QED
  BY <1>2, <1>3, <1>4

\* A read is answered by an error: nothing is learned, or the process ends.
LEMMA ReadFailsStep == XInv /\ ReadFails => XInv'
<1> SUFFICES ASSUME XInv, ReadFails
             PROVE  XInv'
  OBVIOUS
<1>1. /\ UNCHANGED <<order_pc, memory, details, active, c2ip, acked, trades, misread, crashes>>
      /\ executed' = executed /\ up' = up /\ notified' = notified
      /\ details' = details /\ acked' = acked
      /\ errors' = errors + 1 /\ errors < MaxErrors
  BY DEF ReadFails, redis, history
<1>2. errors' \in 0..MaxErrors /\ errors' # 0
  BY <1>1, ExecFacts, BoundsAssumption
<1>3. CASE Exec!Exit
  BY <1>1, <1>2, <1>3, ExitForgets
<1>4. CASE exec_pc = "poll" /\ UNCHANGED Exec!execVars
  <2>1. /\ exec_pc' = exec_pc /\ exec_keys' = exec_keys /\ exec_orders' = exec_orders
        /\ exec_map' = exec_map /\ exec_exited' = exec_exited
        /\ connection' = connection /\ stray' = stray
    BY <1>4 DEF Exec!execVars, Exec!execMemory
  <2>2. Exec!ExecTypeOK'
    BY <2>1 DEF XInv, ExchangeTypeOK, Exec!ExecTypeOK
  <2>3. ExecReading' /\ ExecTelling'
    BY <1>1, <1>2, <2>1 DEF XInv, ExecReading, ExecTelling, Owned
  <2> QED
    BY <1>1, <1>2, <2>1, <2>2, <2>3, ExecFrameError
<1>5. CASE /\ exec_pc = "read" /\ exec_keys = << >>
           /\ exec_map' = Exec!EmptyMap /\ exec_pc' = "connect"
           /\ UNCHANGED <<exec_keys, exec_orders, exec_exited, connection, stray>>
  <2>1. exec_map' = EmptyMap
    BY <1>5, ExecOperators
  <2>2. exec_map' \in [DOMAIN exec_map' -> Ip] /\ DOMAIN exec_map' = {}
    BY <2>1 DEF EmptyMap
  <2>3. Exec!ExecTypeOK'
    BY <1>5, <2>2 DEF XInv, ExchangeTypeOK, Exec!ExecTypeOK
  <2>4. ExecReading' /\ ExecTelling'
    BY <1>1, <1>2, <1>5, EmptySeq DEF XInv, ExecReading, ExecTelling, Owned
  <2> QED
    BY <1>1, <1>2, <1>5, <2>1, <2>3, <2>4, ExecFrameError
<1> QED
  BY <1>3, <1>4, <1>5 DEF ReadFails, Exec!ReadError

\* The steps of exec that read.
LEMMA ExecReadsStep == XInv /\ ExecReads => XInv'
<1> SUFFICES ASSUME XInv, ExecReads
             PROVE  XInv'
  OBVIOUS
<1>1. UNCHANGED <<serverVars, up, notified>>
  BY DEF ExecReads, ExecUnchanged, serverVars, redis, history, budget
<1>2. Exec!Poll \/ Exec!ReadDetails \/ Exec!ReadMap \/ Exec!Connect \/ Exec!Sleep
  BY DEF ExecReads, Exec!ExecReads
<1> QED
  BY <1>1, <1>2, PollStep, ReadDetailsStep, ReadMapStep, ConnectStep, SleepStep

\* What is known of stray notifications does not suffer when one is answered.
LEMMA NotifiedMore ==
  ASSUME XInv, SInv', UNCHANGED <<acked, trades, crashes, executed>>,
         exec_exited' = exec_exited, stray' \subseteq stray, notified \subseteq notified'
  PROVE  StraySound'
<1>1. Len(acked) \in Nat
  BY LenProperties DEF XInv, SInv, TypeOK
<1>2. /\ Len(acked) <= Len(acked') /\ \A i \in 1..Len(acked) : acked'[i] = acked[i]
      /\ Traded \subseteq Traded' /\ crashes' = crashes
  BY <1>1 DEF Traded
<1>5. \A oid : Queued(oid) => Queued(oid)'
  BY Zenon DEF Queued, Notified
<1>3. exec_exited => exec_exited'
  BY Zenon
<1>4. TypeOK'
  BY DEF SInv
<1> QED
  BY <1>2, <1>3, <1>4, <1>5, StrayFrame

\* Answer: what is told is what was sent.
LEMMA AnswerStep ==
  ASSUME XInv, NEW state \in {"acknowledged", "refused"}, Answer(state)
  PROVE  XInv'
<1>1. /\ connection.state = "sent"
      /\ notified' = notified \cup {<<connection.oid, connection.ip>>}
      /\ connection' = [connection EXCEPT !.state = state]
      /\ exec_pc' = exec_pc /\ exec_keys' = exec_keys /\ exec_orders' = exec_orders
      /\ exec_map' = exec_map /\ exec_exited' = exec_exited /\ up' = up
      /\ stray' = stray
      /\ UNCHANGED serverVars
      /\ UNCHANGED <<order_pc, memory, details, active, c2ip, acked, trades, misread, crashes>>
      /\ executed' = executed /\ errors' = errors /\ details' = details /\ acked' = acked
      /\ trades' = trades /\ crashes' = crashes
  BY DEF Answer, execMemory, serverVars, redis, history, budget
<1>2. exec_pc = "recv"
  BY <1>1, SentToOwner
<1>3. /\ exec_orders # << >> /\ connection.oid = Head(exec_orders).oid
      /\ connection.ip = address[Head(exec_orders).cid]
  BY <1>2 DEF XInv, ExecTelling
<1>5. connection \in [state : {"sent", "acknowledged", "refused"}, oid : Nat, ip : Ip]
  BY <1>1, SentToOwner
<1>6. /\ connection' \in Exec!Connection
      /\ connection'.oid = connection.oid /\ connection'.ip = connection.ip
      /\ connection'.state = state
  BY <1>1, <1>5 DEF Exec!Connection
<1>7. ExchangeTypeOK'
  <2>1. Exec!ExecTypeOK'
    BY <1>1, <1>6 DEF XInv, ExchangeTypeOK, Exec!ExecTypeOK
  <2>2. TypeOK'
    BY <1>1, StutterSInv DEF XInv, SInv
  <2> QED
    BY <1>1, <1>5, <2>1, <2>2 DEF XInv, ExchangeTypeOK
<1>8. SInv' /\ OrdersOwned' /\ AddressesFirst' /\ NumbersUnique'
  BY <1>1, ExecFacts, ExecLeavesServer DEF XInv
<1>9. ExecReading'
  BY <1>1 DEF XInv, ExecReading, Owned
<1>10. ExecTelling'
  BY <1>1, <1>2, <1>3, <1>6 DEF ExecTelling
<1>11. crashes = 0 =>
         \E t \in Traded : t.oid = connection.oid /\ address[t.cid] = connection.ip
  BY <1>1, SentToOwner
<1>12. OwnerNotified'
  <2>1. Traded' = Traded
    BY <1>1 DEF Traded
  <2> QED
    BY <1>1, <1>11, <2>1 DEF XInv, OwnerNotified
<1>13. StraySound'
  BY <1>1, <1>8, NotifiedMore
<1> QED
  BY <1>7, <1>8, <1>9, <1>10, <1>12, <1>13 DEF XInv

\* AnswerStray: likewise, of a notification whose sender has ended.
LEMMA AnswerStrayStep ==
  ASSUME XInv, NEW n \in stray, AnswerStray(n)
  PROVE  XInv'
<1>1. /\ notified' = notified \cup {n} /\ stray' = stray \ {n}
      /\ connection' = connection
      /\ exec_pc' = exec_pc /\ exec_keys' = exec_keys /\ exec_orders' = exec_orders
      /\ exec_map' = exec_map /\ exec_exited' = exec_exited /\ up' = up
      /\ UNCHANGED serverVars
      /\ UNCHANGED <<order_pc, memory, details, active, c2ip, acked, trades, misread, crashes>>
      /\ executed' = executed /\ errors' = errors /\ details' = details /\ acked' = acked
      /\ trades' = trades /\ crashes' = crashes
  BY DEF AnswerStray, execMemory, serverVars, redis, history, budget
<1>2. n \in Nat \X Ip
  BY ExecFacts
<1>3. SInv' /\ OrdersOwned' /\ AddressesFirst' /\ NumbersUnique'
  BY <1>1, ExecFacts, ExecLeavesServer DEF XInv
<1>4. ExchangeTypeOK'
  <2>1. Exec!ExecTypeOK'
    BY <1>1 DEF XInv, ExchangeTypeOK, Exec!ExecTypeOK
  <2>2. TypeOK'
    BY <1>3 DEF SInv
  <2> QED
    BY <1>1, <1>2, <2>1, <2>2 DEF XInv, ExchangeTypeOK
<1>5. ExecReading'
  BY <1>1, SMTT(30) DEF XInv, ExecReading, Owned
<1>6. ExecTelling'
  BY <1>1 DEF XInv, ExecTelling
<1>7. OwnerNotified'
  <2>1. Traded' = Traded
    BY <1>1 DEF Traded
  <2>2. crashes = 0 => \E o \in Traded : o.oid = n[1] /\ address[o.cid] = n[2]
    BY DEF XInv, StraySound
  <2> QED
    BY <1>1, <2>1, <2>2 DEF XInv, OwnerNotified
<1>8. StraySound'
  BY <1>1, <1>3, NotifiedMore
<1> QED
  BY <1>3, <1>4, <1>5, <1>6, <1>7, <1>8 DEF XInv

\* A host that goes down or comes back changes the state of a connection at most.
LEMMA HostStep ==
  ASSUME XInv, NEW ip \in Ip, HostDown(ip) \/ HostUp(ip)
  PROVE  XInv'
<1>1. /\ exec_pc' = exec_pc /\ exec_keys' = exec_keys /\ exec_orders' = exec_orders
      /\ exec_map' = exec_map /\ exec_exited' = exec_exited /\ notified' = notified
      /\ UNCHANGED serverVars
      /\ UNCHANGED <<order_pc, memory, details, active, c2ip, acked, trades, misread, crashes>>
      /\ executed' = executed /\ errors' = errors /\ details' = details /\ acked' = acked
      /\ trades' = trades /\ crashes' = crashes
      /\ up' \subseteq up \cup {ip} /\ stray' \subseteq stray
      /\ \/ connection' = connection
         \/ /\ connection.state = "sent"
            /\ connection' = [connection EXCEPT !.state = "refused"]
  BY DEF HostDown, HostUp, execMemory, execVars, serverVars, redis, history, budget
<1>2. connection.state = "sent" => exec_pc = "recv"
  BY DEF XInv, ExecTelling, Exec!Closed
<1>3. ASSUME connection' = connection
      PROVE  Exec!ExecTypeOK' /\ ExecTelling'
  <2>1. Exec!ExecTypeOK'
    BY <1>1, <1>3 DEF XInv, ExchangeTypeOK, Exec!ExecTypeOK
  <2>2. ExecTelling'
    BY <1>1, <1>3 DEF XInv, ExecTelling
  <2> QED
    BY <2>1, <2>2
<1>4. ASSUME connection.state = "sent",
             connection' = [connection EXCEPT !.state = "refused"]
      PROVE  Exec!ExecTypeOK' /\ ExecTelling'
  <2>1. connection \in [state : {"sent", "acknowledged", "refused"}, oid : Nat, ip : Ip]
    BY <1>4, ExecFacts DEF Exec!Connection, Exec!Closed
  <2>2. /\ connection' \in Exec!Connection
        /\ connection'.oid = connection.oid /\ connection'.ip = connection.ip
        /\ connection'.state = "refused"
    BY <1>4, <2>1 DEF Exec!Connection
  <2> QED
    BY <1>1, <1>2, <1>4, <2>2 DEF XInv, ExchangeTypeOK, Exec!ExecTypeOK, ExecTelling
<1>5. SInv' /\ OrdersOwned' /\ AddressesFirst' /\ NumbersUnique'
  BY <1>1, ExecFacts, ExecLeavesServer DEF XInv
<1>6. ExecReading'
  BY <1>1 DEF XInv, ExecReading, Owned
<1>7. OwnerNotified'
  BY <1>1 DEF XInv, OwnerNotified, Traded
<1>8. StraySound'
  BY <1>1, <1>5, NotifiedMore
<1> QED
  BY <1>1, <1>3, <1>4, <1>5, <1>6, <1>7, <1>8 DEF XInv, ExchangeTypeOK, SInv

\* Nobody was told anything at first.
LEMMA InitXInv == ExchangeInit => XInv
<1> SUFFICES ASSUME ExchangeInit
             PROVE  XInv
  OBVIOUS
<1>1. /\ exec_pc = "down" /\ exec_keys = << >> /\ exec_orders = << >>
      /\ exec_map = EmptyMap /\ exec_exited = FALSE /\ connection = Exec!Closed
      /\ up = Ip /\ notified = {} /\ stray = {} /\ Init
  BY ExecOperators DEF ExchangeInit, Exec!ExecInit
<1>2. /\ book = EmptyBook /\ cid_ip_map = EmptyMap /\ c2ip = EmptyMap
      /\ active = EmptyHash /\ executed = EmptyHash /\ order_pc = "down"
      /\ order_number = 0 /\ acked = << >> /\ Len(acked) = 0
      /\ trades = << >> /\ Len(trades) = 0
  BY <1>1, EmptySeq DEF Init
<1>3. SInv
  BY <1>1, InitSInv
<1>4. Traded = {} /\ \A q \in Queue : book[q] = << >> /\ Len(book[q]) = 0
  BY <1>2, EmptySeq DEF Traded, EmptyBook
<1>5. OrdersOwned
  BY <1>4 DEF OrdersOwned
<1>6. AddressesFirst
  BY <1>1, <1>2 DEF AddressesFirst, EmptyMap
<1>7. NumbersUnique
  BY <1>2, EmptyHashFields DEF NumbersUnique
<1>8. ExecReading /\ ExecTelling /\ OwnerNotified
  BY <1>1, <1>2, EmptySeq, EmptyHashFields DEF ExecReading, ExecTelling, OwnerNotified
<1>9. ExchangeTypeOK
  <2>1. exec_map \in [DOMAIN exec_map -> Ip] /\ DOMAIN exec_map = {}
    BY <1>1 DEF EmptyMap
  <2>2. exec_keys \in Seq(Nat) /\ exec_orders \in Seq(Exec!Resting)
    BY <1>1, EmptySeq
  <2> QED
    BY <1>1, <1>3, <2>1, <2>2
    DEF ExchangeTypeOK, Exec!ExecTypeOK, SInv, Exec!Connection
<1>10. StraySound
  BY <1>1 DEF StraySound
<1> QED
  BY <1>3, <1>5, <1>6, <1>7, <1>8, <1>9, <1>10 DEF XInv

\* No step of any process or host breaks the invariant.
LEMMA XInvStep == XInv /\ [ExchangeNext]_vars => XInv'
<1>1. XInv /\ UNCHANGED vars => XInv'
  <2> SUFFICES ASSUME XInv, UNCHANGED vars
               PROVE  XInv'
    OBVIOUS
  <2>1. /\ exec_pc' = exec_pc /\ exec_keys' = exec_keys /\ exec_orders' = exec_orders
        /\ exec_map' = exec_map /\ exec_exited' = exec_exited /\ connection' = connection
        /\ stray' = stray
        /\ UNCHANGED <<serverVars, up, notified>>
        /\ executed' = executed /\ errors' = errors /\ details' = details
        /\ acked' = acked
    BY DEF vars, execVars, execMemory, serverVars, redis, history, budget
  <2>2. Exec!ExecTypeOK'
    BY <2>1 DEF XInv, ExchangeTypeOK, Exec!ExecTypeOK
  <2>3. ExecReading' /\ ExecTelling'
    BY <2>1 DEF XInv, ExecReading, ExecTelling, Owned
  <2> QED
    BY <2>1, <2>2, <2>3, ExecFrame
<1> QED
  BY <1>1, ServerKeepsAll, ExecStartStep, ExecReadsStep, DeleteStep, ExecEndsStep,
     ReadFailsStep, AnswerStep, AnswerStrayStep, HostStep
  DEF ExchangeNext

\* The invariant holds in every state of the exchange.
THEOREM XInvAlways == ExchangeSpec => []XInv
  BY InitXInv, XInvStep, PTL DEF ExchangeSpec

\* Every variable keeps its type.
THEOREM ExchangeTypes == ExchangeSpec => []ExchangeTypeOK
  BY XInvAlways, PTL DEF XInv

\* As long as no command failed, exec finds the details of every order it reads,
\* however the order server writes in between.
THEOREM DetailsThere == ExchangeSpec => []DetailsKnown
<1>1. XInv => DetailsKnown
  <2> SUFFICES ASSUME XInv, exec_keys # << >>, errors = 0
               PROVE  Head(exec_keys) \in DOMAIN details
    BY DEF DetailsKnown
  <2>1. Head(exec_keys) = exec_keys[1] /\ 1 \in 1..Len(exec_keys)
    BY ExecFacts, HeadTailProperties, EmptySeq
  <2> QED
    BY <2>1 DEF XInv, ExecReading
<1> QED
  BY <1>1, XInvAlways, PTL

\* As long as no command failed, every order that exec has read has an address
\* when it is to be told.
THEOREM AddressThere == ExchangeSpec => []AddressKnown
<1>1. XInv => AddressKnown
  <2> SUFFICES ASSUME XInv, exec_pc = "connect", exec_orders # << >>, errors = 0
               PROVE  Head(exec_orders).cid \in DOMAIN exec_map
    BY DEF AddressKnown
  <2>1. Head(exec_orders) = exec_orders[1] /\ 1 \in 1..Len(exec_orders)
    BY ExecFacts, HeadTailProperties, EmptySeq
  <2> QED
    BY <2>1 DEF XInv, ExecReading
<1> QED
  BY <1>1, XInvAlways, PTL

\* As long as the order server was not stopped, whoever is told of an execution is
\* the owner of an order with that number that traded.
THEOREM OwnersTold == ExchangeSpec => []OwnerNotified
  BY XInvAlways, PTL DEF XInv
-------------------------------------------------------------------------------
(* The exchange implements the life of its orders.                         *)

\* What OrderLife knows of the orders that customers were told the numbers of, and
\* of those that traded.
Told        == {<<acked[i].oid, acked[i].cid>> : i \in 1..Len(acked)}
TradedPairs == {<<o.oid, o.cid>> : o \in Traded}

\* The step of OrderLife that a step of the exchange takes, if any.
LifeStep ==
  \/ \E oid \in 1..MaxOrders, cid \in Cid :
       /\ Told' = Told \cup {<<oid, cid>>}
       /\ UNCHANGED <<TradedPairs, Fields(executed), notified>>
  \/ \E x, y \in Told :
       /\ TradedPairs' = TradedPairs \cup {x, y}
       /\ UNCHANGED <<Told, Fields(executed), notified>>
  \/ \E oid \in 1..MaxOrders :
       /\ \E t \in Traded : t.oid = oid
       /\ Fields(executed') = Fields(executed) \cup {oid}
       /\ UNCHANGED <<Told, TradedPairs, notified>>
  \/ \E oid \in 1..MaxOrders :
       /\ \E n \in notified : n[1] = oid
       /\ Fields(executed') = Fields(executed) \ {oid}
       /\ UNCHANGED <<Told, TradedPairs, notified>>
  \/ \E oid \in 1..MaxOrders, ip \in Ip :
       /\ oid \in Fields(executed) \/ \E n \in notified : n[1] = oid
       /\ \E cid \in Cid : <<oid, cid>> \in Told /\ address[cid] = ip
       /\ notified' = notified \cup {<<oid, ip>>}
       /\ UNCHANGED <<Told, TradedPairs, Fields(executed)>>
  \/ UNCHANGED <<Told, TradedPairs, Fields(executed), notified>>

\* That is what OrderLife says.
LEMMA LifeStepIsOne ==
  ASSUME LifeStep
  PROVE  [Life!LifeNext]_(Life!lifeVars)
<1>1. ASSUME NEW oid \in 1..MaxOrders, NEW cid \in Cid,
             Told' = Told \cup {<<oid, cid>>},
             UNCHANGED <<TradedPairs, Fields(executed), notified>>
      PROVE  Life!LifeNext
  <2>1. Life!Acknowledge(oid, cid)
    BY <1>1 DEF Life!Acknowledge, Told, TradedPairs
  <2> QED
    BY <2>1 DEF Life!LifeNext
<1>2. ASSUME NEW x \in Told, NEW y \in Told,
             TradedPairs' = TradedPairs \cup {x, y},
             UNCHANGED <<Told, Fields(executed), notified>>
      PROVE  Life!LifeNext
  <2>1. Life!Trade(x, y)
    BY <1>2 DEF Life!Trade, Told, TradedPairs
  <2> QED
    BY <2>1 DEF Life!LifeNext, Told
<1>3. ASSUME NEW oid \in 1..MaxOrders, \E t \in Traded : t.oid = oid,
             Fields(executed') = Fields(executed) \cup {oid},
             UNCHANGED <<Told, TradedPairs, notified>>
      PROVE  Life!LifeNext
  <2>1. PICK t \in Traded : t.oid = oid
    BY <1>3
  <2>2. <<t.oid, t.cid>>[1] = oid
    BY <2>1
  <2>3. Life!Enqueue(oid)
    BY <1>3, <2>1, <2>2 DEF Life!Enqueue, Life!Numbers, Told, TradedPairs
  <2> QED
    BY <2>3 DEF Life!LifeNext
<1>4. ASSUME NEW oid \in 1..MaxOrders, \E n \in notified : n[1] = oid,
             Fields(executed') = Fields(executed) \ {oid},
             UNCHANGED <<Told, TradedPairs, notified>>
      PROVE  Life!LifeNext
  <2>1. Life!Dequeue(oid)
    BY <1>4 DEF Life!Dequeue, Life!Numbers, Told, TradedPairs
  <2> QED
    BY <2>1 DEF Life!LifeNext
<1>5. ASSUME NEW oid \in 1..MaxOrders, NEW ip \in Ip,
             oid \in Fields(executed) \/ \E n \in notified : n[1] = oid,
             \E cid \in Cid : <<oid, cid>> \in Told /\ address[cid] = ip,
             notified' = notified \cup {<<oid, ip>>},
             UNCHANGED <<Told, TradedPairs, Fields(executed)>>
      PROVE  Life!LifeNext
  <2>1. Life!Notify(oid, ip)
    BY <1>5 DEF Life!Notify, Life!Numbers, Told, TradedPairs
  <2> QED
    BY <2>1 DEF Life!LifeNext
<1>6. UNCHANGED <<Told, TradedPairs, Fields(executed), notified>>
        => UNCHANGED Life!lifeVars
  BY DEF Life!lifeVars, Told, TradedPairs
<1> QED
  BY <1>1, <1>2, <1>3, <1>4, <1>5, <1>6 DEF LifeStep

\* A match of an order that a customer was told the number of.
LEMMA MatchIsTrade ==
  ASSUME SInv, OrdersOwned, NEW o \in Order, NEW init \in BOOLEAN, Match(o, init),
         o.operation \in Side => o \in Resting /\ Owned(o),
         UNCHANGED <<acked, executed, notified>>
  PROVE  LifeStep
<1>1. /\ book \in Book /\ trades \in Seq(Resting \X Resting)
      /\ trades' = IF IsMatched(book, o)
                     THEN Append(trades, Trade(book, o)) ELSE trades
  BY DEF SInv, TypeOK, Book, Match
<1>2. Told' = Told
  BY DEF Told
<1>3. CASE ~IsMatched(book, o)
  <2>1. TradedPairs' = TradedPairs
    BY <1>1, <1>3 DEF TradedPairs, Traded
  <2> QED
    BY <1>2, <2>1 DEF LifeStep
<1>4. CASE IsMatched(book, o)
  <2> DEFINE away == book[Opposite(o)]
             i    == FirstHit(o, away)
             m    == Adjusted(o, away[i])
  <2>0. o \in Resting /\ Owned(o)
    BY <1>4 DEF IsMatched
  <2>1. i \in 1..Len(away) /\ Trade(book, o) = <<o, m>> /\ m \in Resting /\ Opposite(o) \in Queue
    BY <1>1, <1>4, <2>0, RestOnTrade, QueuesOfOrder
  <2>2. away[i] \in Resting /\ Owned(away[i])
    BY <1>1, <2>1, BookEntries DEF OrdersOwned
  <2>3. m.oid = away[i].oid /\ m.cid = away[i].cid
    BY <2>2 DEF Adjusted, Resting, Order
  <2>4. Owned(m)
    BY <2>2, <2>3 DEF Owned
  <2> HIDE DEF m, i, away
  <2>6. Traded' = Traded \cup {o, m}
    <3>1. trades' = Append(trades, <<o, m>>) /\ <<o, m>> \in Resting \X Resting
          /\ <<o, m>>[1] = o /\ <<o, m>>[2] = m
      BY <1>1, <1>4, <2>0, <2>1
    <3> QED
      BY <1>1, <3>1, TradedAppend
  <2>7. TradedPairs' = TradedPairs \cup {<<o.oid, o.cid>>, <<m.oid, m.cid>>}
    BY <2>6 DEF TradedPairs
  <2>8. <<o.oid, o.cid>> \in Told /\ <<m.oid, m.cid>> \in Told
    BY <2>0, <2>4 DEF Told, Owned
  <2> QED
    BY <1>2, <2>7, <2>8 DEF LifeStep
<1> QED
  BY <1>3, <1>4

\* The numbers that customers were told.
LEMMA OwnedNumbers ==
  ASSUME SInv, NEW o, Owned(o)
  PROVE  o.oid \in 1..MaxOrders /\ <<o.oid, o.cid>> \in Told /\ o.cid \in Cid
<1>1. PICK i \in 1..Len(acked) : acked[i].oid = o.oid /\ acked[i].cid = o.cid
  BY DEF Owned
<1>2. acked[i] \in Order /\ acked[i].oid \in 1..Len(acked) /\ Len(acked) \in Nat
      /\ Len(acked) <= MaxOrders /\ MaxOrders \in Nat
  BY <1>1, ElementOfSeq, LenProperties, BoundsAssumption DEF SInv, TypeOK, NumbersAcked
<1> QED
  BY <1>1, <1>2 DEF Told, Order

\* Every step of the order server is a step of OrderLife or none.
LEMMA ServerLives ==
  ASSUME XInv, Receive \/ OrderStep \/ OrderStop
  PROVE  LifeStep
<1>0. SInv /\ OrdersOwned /\ notified' = notified
  BY DEF XInv, Receive, OrderStep, OrderStop
<1>1. UNCHANGED <<acked, trades, executed>> => LifeStep
  <2>1. UNCHANGED <<acked, trades, executed>> =>
          UNCHANGED <<Told, TradedPairs, Fields(executed), notified>>
    BY <1>0 DEF Told, TradedPairs, Traded
  <2> QED
    BY <2>1 DEF LifeStep
<1>2. CASE Reply
  <2>1. /\ acked' = Append(acked, order) /\ acked \in Seq(Order) /\ order \in Order
        /\ trades' = trades /\ executed' = executed
        /\ order.oid \in 1..(Len(acked) + 1) /\ Len(acked) < MaxOrders
    BY <1>0, <1>2 DEF Reply, redis, SInv, TypeOK, InHand, NumbersAcked
  <2>2. Len(acked) \in Nat /\ Len(acked') = Len(acked) + 1
        /\ (\A i \in 1..Len(acked) : acked'[i] = acked[i])
        /\ acked'[Len(acked) + 1] = order
    BY <2>1, AppendProperties, LenProperties
  <2>3. /\ \A i \in 1..Len(acked') : i \in 1..Len(acked) \/ i = Len(acked) + 1
        /\ 1..Len(acked) \subseteq 1..Len(acked') /\ Len(acked) + 1 \in 1..Len(acked')
    BY <2>2
  <2>4. Told' = Told \cup {<<order.oid, order.cid>>}
    BY <2>2, <2>3 DEF Told
  <2>5. order.oid \in 1..MaxOrders /\ order.cid \in Cid
    BY <2>1, <2>2, BoundsAssumption DEF Order
  <2>6. UNCHANGED <<TradedPairs, Fields(executed), notified>>
    BY <1>0, <2>1 DEF TradedPairs, Traded
  <2> QED
    BY <2>4, <2>5, <2>6 DEF LifeStep
<1>3. CASE MatchTrade
  <2> DEFINE o == Normalize(order)
  <2>0. order_pc = "match" /\ acked' = acked /\ executed' = executed
    BY <1>3 DEF MatchTrade, redis
  <2>1. Match(o, FALSE)
    BY <1>3, Zenon DEF MatchTrade
  <2>2. /\ order \in Order /\ order.oid = order_number
        /\ order.operation \in Side => o \in Accepted
    BY <1>0, <2>0 DEF SInv, InHand
  <2>3. /\ o \in Order /\ o.oid = order_number
        /\ o.operation \in Side => o \in Resting /\ o \in Accepted
    BY <2>2, NormalizeOrder
  <2> HIDE DEF o
  <2>5. o.operation \in Side => o \in Resting /\ Owned(o)
    BY <1>0, <2>3, AcceptedOwned DEF SInv
  <2> QED
    BY <1>0, <2>0, <2>1, <2>3, <2>5, MatchIsTrade, Zenon
<1>4. CASE Replay
  <2>1. loading \in Seq(Resting) /\ loading # << >>
    BY <1>0, <1>4 DEF Replay, SInv, TypeOK, InHand
  <2>2. Head(loading) = loading[1] /\ 1 \in 1..Len(loading) /\ loading[1] \in Resting
    BY <2>1, HeadTailProperties, EmptySeq, LenProperties
  <2> DEFINE o == loading[1]
  <2>3. Normalize(Head(loading)) = o /\ o \in Order /\ o \in Accepted
    BY <1>0, <2>2, NormalizeOrder DEF Resting, SInv, InHand
  <2>4. Match(o, TRUE) /\ acked' = acked /\ executed' = executed
    BY <1>4, <2>3 DEF Replay, redis
  <2>6. o \in Resting
    BY <2>2
  <2> HIDE DEF o
  <2>7. Owned(o)
    BY <1>0, <2>3, AcceptedOwned DEF SInv
  <2> QED
    BY <1>0, <2>3, <2>4, <2>6, <2>7, MatchIsTrade
<1>5. CASE RedisCommand
  <2> DEFINE c   == todo[1]
             oid == c.order.oid
  <2>1. /\ c = Head(todo) /\ c \in Command /\ 1 \in 1..Len(todo)
        /\ acked' = acked /\ trades' = trades
        /\ executed' = IF c.cmd = "execute" THEN HSet(executed, oid) ELSE executed
    <3>1. c = Head(todo) /\ c \in Command /\ 1 \in 1..Len(todo)
      BY <1>0, <1>5, TailOfTodo DEF RedisCommand, SInv, TypeOK
    <3> QED
      BY <1>5, <3>1 DEF RedisCommand, Perform, history
  <2>2. CASE c.cmd # "execute"
    BY <1>1, <2>1, <2>2
  <2>3. CASE c.cmd = "execute"
    <3>1. PICK t \in Traded : t.oid = oid
      BY <1>0, <2>1, <2>3 DEF SInv, TodoSound
    <3>2. oid \in 1..MaxOrders
      BY <1>0, <3>1, OwnedNumbers DEF OrdersOwned
    <3>3. Fields(executed') = Fields(executed) \cup {oid}
      <4>1. executed \in Hash(Nat) /\ oid \in Nat
        BY <1>0, <3>2 DEF SInv, TypeOK
      <4> QED
        BY <2>1, <2>3, <4>1, HSetFields
    <3> HIDE DEF oid
    <3>4. UNCHANGED <<Told, TradedPairs, notified>>
      BY <1>0, <2>1 DEF Told, TradedPairs, Traded
    <3> QED
      BY <3>1, <3>2, <3>3, <3>4 DEF LifeStep
  <2> QED
    BY <2>2, <2>3
<1>6. ASSUME \/ \E r \in Request : Accept(r, address[r.cid])
             \/ Start \/ StartError \/ RedisError \/ Return \/ Stop
      PROVE  LifeStep
  BY <1>1, <1>6 DEF Accept, Start, StartError, RedisError, Return, Stop, redis, history
<1> QED
  BY <1>2, <1>3, <1>4, <1>5, <1>6 DEF Receive, OrderStep, OrderStop, ServerStep

\* Exec and the hosts: a deletion and an answer are steps of OrderLife.
LEMMA ExecLives ==
  ASSUME XInv,
         \/ ExecStart \/ ExecReads \/ ExecFails \/ Delete
         \/ ReadFails \/ DeleteFails \/ ExecStop
         \/ \E n \in stray : AnswerStray(n)
         \/ \E state \in {"acknowledged", "refused"} : Answer(state)
         \/ \E ip \in Ip : HostDown(ip) \/ HostUp(ip)
  PROVE  LifeStep
<1>1. UNCHANGED <<acked, trades>> => UNCHANGED <<Told, TradedPairs>>
  BY DEF Told, TradedPairs, Traded
<1>2. exec_pc = "recv" =>
        /\ connection.oid \in Fields(executed) /\ connection.oid \in 1..MaxOrders
        /\ \E cid \in Cid : /\ <<connection.oid, cid>> \in Told
                           /\ address[cid] = connection.ip
        /\ connection.state = "acknowledged" =>
             <<connection.oid, connection.ip>> \in notified
  <2> SUFFICES ASSUME exec_pc = "recv"
               PROVE  /\ connection.oid \in Fields(executed) /\ connection.oid \in 1..MaxOrders
                      /\ \E cid \in Cid : /\ <<connection.oid, cid>> \in Told
                                         /\ address[cid] = connection.ip
                      /\ connection.state = "acknowledged" =>
                           <<connection.oid, connection.ip>> \in notified
    OBVIOUS
  <2>1. /\ exec_orders # << >> /\ connection.oid = Head(exec_orders).oid
        /\ connection.ip = address[Head(exec_orders).cid]
        /\ connection.state = "acknowledged" =>
             <<connection.oid, connection.ip>> \in notified
    BY DEF XInv, ExecTelling
  <2> DEFINE o == exec_orders[1]
  <2>2. o = Head(exec_orders) /\ 1 \in 1..Len(exec_orders)
    BY <2>1, ExecFacts, HeadTailProperties, EmptySeq
  <2>3. o.oid \in Fields(executed) /\ Owned(o)
    BY <2>2 DEF XInv, ExecReading
  <2> HIDE DEF o
  <2>4. o.oid \in 1..MaxOrders /\ <<o.oid, o.cid>> \in Told /\ o.cid \in Cid
    BY <2>3, OwnedNumbers DEF XInv
  <2> QED
    BY <2>1, <2>2, <2>3, <2>4
<1>3. CASE Delete
  <2>1. /\ exec_pc = "recv" /\ connection.state = "acknowledged"
        /\ executed' = HDel(executed, connection.oid)
        /\ UNCHANGED <<acked, trades, notified>>
    BY <1>3, ExecOperators DEF Delete, Exec!Delete, Exec!Deletable, ExecUnchanged, history
  <2>2. Fields(executed') = Fields(executed) \ {connection.oid}
    BY <2>1, ExecFacts, HDelFields
  <2>3. <<connection.oid, connection.ip>>[1] = connection.oid
    OBVIOUS
  <2>4. \E n \in notified : n[1] = connection.oid
    BY <1>2, <2>1, <2>3
  <2> QED
    BY <1>1, <1>2, <2>1, <2>2, <2>4 DEF LifeStep
<1>4. ASSUME NEW state \in {"acknowledged", "refused"}, Answer(state)
      PROVE  LifeStep
  <2>1. /\ connection.state = "sent"
        /\ notified' = notified \cup {<<connection.oid, connection.ip>>}
        /\ UNCHANGED <<acked, trades, executed>>
    BY <1>4 DEF Answer, serverVars, redis, history
  <2>2. exec_pc = "recv"
    BY <2>1 DEF XInv, ExecTelling, Exec!Closed
  <2>3. connection.ip \in Ip
    BY <2>1, ExecFacts DEF Exec!Connection, Exec!Closed
  <2> QED
    BY <1>1, <1>2, <2>1, <2>2, <2>3 DEF LifeStep
<1>7. ASSUME NEW n \in stray, AnswerStray(n)
      PROVE  LifeStep
  <2>1. /\ notified' = notified \cup {n} /\ n \in Nat \X Ip
        /\ UNCHANGED <<acked, trades, executed>>
    BY <1>7, ExecFacts DEF AnswerStray, serverVars, redis, history
  <2>2. n = <<n[1], n[2]>> /\ n[2] \in Ip
    BY <2>1
  <2>3. n[1] \in Fields(executed) \/ \E m \in notified : m[1] = n[1]
    <3>1. n[1] \in Fields(executed) \/ \E ip \in Ip : <<n[1], ip>> \in notified
      BY DEF XInv, StraySound, Queued, Notified
    <3>2. \A ip : <<n[1], ip>>[1] = n[1]
      OBVIOUS
    <3> QED
      BY <3>1, <3>2
  <2>4. PICK i \in 1..Len(acked) : acked[i].oid = n[1] /\ address[acked[i].cid] = n[2]
    BY DEF XInv, StraySound
  <2>5. Owned([oid |-> acked[i].oid, cid |-> acked[i].cid])
    BY DEF Owned
  <2>6. /\ n[1] \in 1..MaxOrders /\ acked[i].cid \in Cid
        /\ <<n[1], acked[i].cid>> \in Told
    BY <2>4, <2>5, OwnedNumbers DEF XInv
  <2> QED
    BY <1>1, <2>1, <2>2, <2>3, <2>4, <2>6 DEF LifeStep
<1>5. UNCHANGED <<acked, trades, executed, notified>> => LifeStep
  BY <1>1 DEF LifeStep
<1>6. ASSUME \/ ExecStart \/ ExecReads \/ ExecFails \/ ReadFails \/ DeleteFails \/ ExecStop
             \/ \E ip \in Ip : HostDown(ip) \/ HostUp(ip)
      PROVE  UNCHANGED <<acked, trades, executed, notified>>
  BY <1>6
  DEF ExecStart, ExecReads, ExecFails, ReadFails, DeleteFails, ExecStop, HostDown, HostUp,
      ExecUnchanged, serverVars, redis, history, budget
<1> QED
  BY <1>3, <1>4, <1>5, <1>6, <1>7

\* What the customers see is the life of an order, however the processes and hosts
\* stop, restart and interleave, whatever fails and in whatever order HKEYS answers:
\* only acknowledged orders trade, only orders that traded are queued, only a
\* customer that was given the number is told, and an order leaves the queue only
\* after somebody was told.
THEOREM LifeImplemented == ExchangeSpec => ImplementsOrderLife
<1>1. ExchangeInit => XInv /\ Life!LifeInit
  <2>1. ExchangeInit => Init /\ notified = {}
    BY DEF ExchangeInit
  <2>2. Init => Told = {} /\ TradedPairs = {} /\ Fields(executed) = {}
    BY EmptySeq, EmptyHashFields DEF Init, Told, TradedPairs, Traded
  <2> QED
    BY <2>1, <2>2, InitXInv DEF Life!LifeInit, Told, TradedPairs
<1>2. XInv /\ [ExchangeNext]_vars => [Life!LifeNext]_(Life!lifeVars)
  <2> SUFFICES ASSUME XInv, [ExchangeNext]_vars
               PROVE  LifeStep
    BY LifeStepIsOne
  <2>1. CASE UNCHANGED vars
    BY <2>1 DEF vars, serverVars, redis, history, LifeStep, Told, TradedPairs, Traded
  <2> QED
    BY <2>1, ServerLives, ExecLives DEF ExchangeNext
<1> QED
  BY <1>1, <1>2, XInvStep, PTL
  DEF ExchangeSpec, ImplementsOrderLife, Life!LifeSpec
-------------------------------------------------------------------------------
(* As long as the order server was not stopped and exec did not end: every *)
(* customer is told once.                                                  *)

\* An order that is or was in the queue traded.
LEMMA QueuedTraded ==
  ASSUME XInv, crashes = 0, NEW oid, Queued(oid)
  PROVE  \E t \in Traded : t.oid = oid
<1>1. CASE oid \in Fields(executed)
  BY <1>1 DEF XInv, SInv, ExecutedTraded
<1>2. CASE Notified(oid)
  <2>1. PICK ip \in Ip : <<oid, ip>> \in notified
    BY <1>2 DEF Notified
  <2>2. <<oid, ip>>[1] = oid
    OBVIOUS
  <2> QED
    BY <2>1, <2>2 DEF XInv, OwnerNotified
<1> QED
  BY <1>1, <1>2 DEF Queued

\* The numbers of the orders that traded or rest.
LEMMA NumbersAreNat ==
  ASSUME SInv
  PROVE  /\ order_number \in Nat
         /\ \A t \in Traded : t.oid \in Nat
         /\ \A q \in Queue : \A i \in 1..Len(book[q]) : book[q][i].oid \in Nat
<1>1. trades \in Seq(Resting \X Resting) /\ book \in Book /\ order_number \in Nat
  BY DEF SInv, TypeOK, Book
<1>2. \A t \in Traded : t.oid \in Nat
  <2>1. \A n \in 1..Len(trades) : trades[n] \in Resting \X Resting
    BY <1>1, ElementOfSeq
  <2> QED
    BY <2>1 DEF Traded, Resting, Order
<1> QED
  BY <1>1, <1>2, BookEntries

\* Steps that neither trade nor plan nor write leave the numbers apart.
LEMMA OnceFrame ==
  ASSUME SInv, QueuedOnce, crashes' = 0 => crashes = 0,
         UNCHANGED <<book, trades, executed, notified, todo>>,
         loading' = << >>,
         \/ order_number' = order_number /\ (order_pc' \in {"reply", "match"} => order_pc = "reply")
         \/ order_number' = order_number + 1
  PROVE  QueuedOnce'
<1> SUFFICES ASSUME crashes' = 0
             PROVE  QueuedOnce'
  BY DEF QueuedOnce
<1>1. Traded' = Traded /\ \A oid : Queued(oid)' <=> Queued(oid)
  BY DEF Traded, Queued, Notified
<1>2. /\ order_number \in Nat /\ \A t \in Traded : t.oid \in Nat
      /\ \A q \in Queue : \A i \in 1..Len(book[q]) : book[q][i].oid \in Nat
  BY NumbersAreNat
<1>3. OldestFirst' /\ RestingOnce'
  BY DEF QueuedOnce, OldestFirst, RestingOnce
<1>4. \A j \in 1..Len(todo') : todo'[j].cmd = "execute" =>
        /\ ~Queued(todo[j].order.oid)'
        /\ \A i \in 1..Len(todo') :
             todo'[i].cmd = "execute" /\ todo'[i].order.oid = todo'[j].order.oid => i = j
  BY <1>1 DEF QueuedOnce
<1>5. /\ \A q \in Queue : \A i \in 1..Len(book[q]) :
           /\ book[q][i].oid <= order_number'
           /\ order_pc' \in {"reply", "match"} => book[q][i].oid < order_number'
           /\ \A t \in Traded : t.oid # book[q][i].oid
      /\ \A t \in Traded :
           /\ t.oid <= order_number'
           /\ order_pc' \in {"reply", "match"} => t.oid < order_number'
  BY <1>2 DEF QueuedOnce
<1> QED
  BY <1>1, <1>3, <1>4, <1>5 DEF QueuedOnce

\* MatchTrade: the taker is new, and the maker leaves the book.
LEMMA MatchTradeOnce ==
  ASSUME XInv, QueuedOnce, MatchTrade, notified' = notified
  PROVE  QueuedOnce'
<1> SUFFICES ASSUME crashes' = 0
             PROVE  QueuedOnce'
  BY DEF QueuedOnce
<1> DEFINE o == Normalize(order)
<1>1. /\ order_pc = "match" /\ order_pc' = "redis" /\ crashes = 0
      /\ UNCHANGED <<executed, acked, order_number, loading>>
      /\ order \in Order /\ order.oid = order_number /\ order_number \in Nat
      /\ SInv
  BY DEF MatchTrade, Match, redis, budget, XInv, SInv, InHand, TypeOK
<1>2. /\ o \in Order /\ o.oid = order_number
      /\ o.operation \in Side => o \in Resting
      /\ book' = Rest(book, o) /\ book \in Book
      /\ trades \in Seq(Resting \X Resting)
      /\ trades' = IF IsMatched(book, o)
                     THEN Append(trades, Trade(book, o)) ELSE trades
      /\ todo' = IF IsMatched(book, o)
                   THEN ExecuteCommands(Trade(book, o)[1], Trade(book, o)[2])
                 ELSE IF o.operation \in Side THEN AddCommands(o) ELSE << >>
  BY <1>1, NormalizeOrder DEF MatchTrade, Match, Commands, SInv, TypeOK, Book
<1> HIDE DEF o
<1>3. /\ \A t \in Traded : t.oid \in Nat /\ t.oid < o.oid
      /\ \A q \in Queue : \A i \in 1..Len(book[q]) :
           /\ book[q][i].oid \in Nat /\ book[q][i].oid < o.oid
           /\ \A t \in Traded : t.oid # book[q][i].oid
      /\ OldestFirst /\ RestingOnce /\ loading = << >>
  BY <1>1, <1>2, NumbersAreNat DEF QueuedOnce
<1> DEFINE maker == book[Opposite(o)][FirstHit(o, book[Opposite(o)])].oid
<1>4. /\ OldestFirst' /\ RestingOnce'
      /\ \A q \in Queue : \A i \in 1..Len(book'[q]) :
           \/ /\ \E k \in 1..Len(book[q]) : book'[q][i] = book[q][k]
              /\ IsMatched(book, o) => book'[q][i].oid # maker
           \/ ~IsMatched(book, o) /\ book'[q][i] = o
  BY <1>1, <1>2, <1>3, MatchOrdered, SMTT(30)
<1> HIDE DEF maker
<1>5. \A q \in Queue : \A i \in 1..Len(book'[q]) :
        /\ book'[q][i].oid <= o.oid
        /\ \A t \in Traded : t.oid # book'[q][i].oid
        /\ IsMatched(book, o) => book'[q][i].oid < o.oid /\ book'[q][i].oid # maker
  <2> SUFFICES ASSUME NEW q \in Queue, NEW i \in 1..Len(book'[q])
               PROVE  /\ book'[q][i].oid <= o.oid
                      /\ \A t \in Traded : t.oid # book'[q][i].oid
                      /\ IsMatched(book, o) =>
                           book'[q][i].oid < o.oid /\ book'[q][i].oid # maker
    OBVIOUS
  <2>1. CASE ~IsMatched(book, o) /\ book'[q][i] = o
    BY <1>1, <1>2, <1>3, <2>1
  <2>2. ASSUME NEW k \in 1..Len(book[q]), book'[q][i] = book[q][k],
               IsMatched(book, o) => book'[q][i].oid # maker
        PROVE  /\ book'[q][i].oid <= o.oid
               /\ \A t \in Traded : t.oid # book'[q][i].oid
               /\ IsMatched(book, o) =>
                    book'[q][i].oid < o.oid /\ book'[q][i].oid # maker
    <3>1. /\ book[q][k].oid \in Nat /\ book[q][k].oid < o.oid
          /\ \A t \in Traded : t.oid # book[q][k].oid
      BY <1>3
    <3> QED
      BY <1>1, <1>2, <2>2, <3>1
  <2> QED
    BY <1>4, <2>1, <2>2
<1>6. \A oid : Queued(oid)' => \E t \in Traded : t.oid = oid
  <2>1. \A oid : Queued(oid)' => Queued(oid)
    BY <1>1 DEF Queued, Notified
  <2> QED
    BY <1>1, <2>1, QueuedTraded
<1>7. CASE ~IsMatched(book, o)
  <2>1. Traded' = Traded
    BY <1>2, <1>7 DEF Traded
  <2>2. \A j \in 1..Len(todo') : todo'[j].cmd # "execute"
    <3>1. CASE o.operation \in Side
      <4>1. todo' = AddCommands(o)
        BY <1>2, <1>7, <3>1
      <4>2. Len(todo') = 2 /\ todo'[1].cmd = "details" /\ todo'[2].cmd = "activate"
        BY <1>2, <4>1, AddPlan
      <4>3. \A j \in 1..2 : j = 1 \/ j = 2
        OBVIOUS
      <4> QED
        BY <4>2, <4>3
    <3>2. CASE o.operation \notin Side
      BY <1>2, <1>7, <3>2, EmptySeq
    <3> QED
      BY <3>1, <3>2
  <2> QED
    BY <1>1, <1>2, <1>3, <1>4, <1>5, <2>1, <2>2 DEF QueuedOnce
<1>8. CASE IsMatched(book, o)
  <2> DEFINE away == book[Opposite(o)]
             i    == FirstHit(o, away)
             m    == Adjusted(o, away[i])
  <2>0. o \in Resting
    BY <1>2, <1>8 DEF IsMatched
  <2>1. i \in 1..Len(away) /\ Trade(book, o) = <<o, m>> /\ m \in Resting /\ Opposite(o) \in Queue
    BY <1>2, <1>8, <2>0, RestOnTrade, QueuesOfOrder
  <2>2. away[i] \in Resting /\ away[i].oid < o.oid /\ \A t \in Traded : t.oid # away[i].oid
    BY <1>2, <1>3, <2>1, BookEntries
  <2>3. m.oid = away[i].oid /\ m.oid = maker
    BY <2>2 DEF Adjusted, Resting, Order, maker
  <2>4. /\ m.oid < o.oid /\ m.oid \in Nat /\ o \in Order /\ m \in Order
        /\ \A t \in Traded : t.oid # m.oid
    BY <2>0, <2>1, <2>2, <2>3 DEF Resting, Order
  <2> HIDE DEF m, i, away
  <2>5. Traded' = Traded \cup {o, m}
    <3>1. trades' = Append(trades, <<o, m>>) /\ <<o, m>> \in Resting \X Resting
          /\ <<o, m>>[1] = o /\ <<o, m>>[2] = m
      BY <1>2, <1>8, <2>0, <2>1
    <3> QED
      BY <1>2, <3>1, TradedAppend
  <2>6. /\ Len(todo') = 5
        /\ todo'[1].cmd = "details"
        /\ todo'[2].cmd = "execute" /\ todo'[2].order = o
        /\ todo'[3].cmd = "deactivate"
        /\ todo'[4].cmd = "execute" /\ todo'[4].order = m
        /\ todo'[5].cmd = "deactivate"
    <3>1. todo' = ExecuteCommands(o, m)
      BY <1>2, <1>8, <2>1
    <3> QED
      BY <2>4, <3>1, ExecutePlan
  <2>7. \A x \in {o, m} :
          x.oid \notin Fields(executed') /\ \A ip \in Ip : <<x.oid, ip>> \notin notified'
    <3>1. \A t \in Traded : t.oid # o.oid /\ t.oid # m.oid
      BY <1>1, <1>2, <1>3, <2>4
    <3> QED
      BY <1>6, <3>1 DEF Queued, Notified
  <2>8. \A j \in 1..Len(todo') : todo'[j].cmd = "execute" =>
          \/ j = 2 /\ todo'[j].order = o
          \/ j = 4 /\ todo'[j].order = m
    <3>1. \A j \in 1..5 : j = 1 \/ j = 2 \/ j = 3 \/ j = 4 \/ j = 5
      OBVIOUS
    <3> QED
      BY <2>6, <3>1
  <2>9. \A j \in 1..Len(todo') : todo'[j].cmd = "execute" =>
          /\ ~Queued(todo[j].order.oid)'
          /\ \A k \in 1..Len(todo') :
               todo'[k].cmd = "execute" /\ todo'[k].order.oid = todo'[j].order.oid => k = j
    <3> SUFFICES ASSUME NEW j \in 1..Len(todo'), todo'[j].cmd = "execute"
                 PROVE  /\ ~Queued(todo[j].order.oid)'
                        /\ \A k \in 1..Len(todo') :
                             todo'[k].cmd = "execute" /\ todo'[k].order.oid = todo'[j].order.oid
                               => k = j
      OBVIOUS
    <3>1. ~Queued(todo[j].order.oid)'
      BY <2>7, <2>8 DEF Queued, Notified
    <3>2. \A k \in 1..Len(todo') :
            todo'[k].cmd = "execute" /\ todo'[k].order.oid = todo'[j].order.oid => k = j
      <4>1. m.oid # o.oid
        BY <1>1, <1>2, <2>4
      <4> QED
        BY <2>8, <4>1
    <3> QED
      BY <3>1, <3>2
  <2>10. \A q \in Queue : \A k \in 1..Len(book'[q]) :
           book'[q][k].oid <= order_number /\ \A t \in Traded' : t.oid # book'[q][k].oid
    <3> SUFFICES ASSUME NEW q \in Queue, NEW k \in 1..Len(book'[q])
                 PROVE  /\ book'[q][k].oid <= order_number
                        /\ \A t \in Traded' : t.oid # book'[q][k].oid
      OBVIOUS
    <3>1. /\ book'[q][k].oid <= o.oid /\ book'[q][k].oid < o.oid
          /\ book'[q][k].oid # maker
          /\ \A t \in Traded : t.oid # book'[q][k].oid
      BY <1>5, <1>8
    <3>2. \A t \in {o, m} : t.oid # book'[q][k].oid
      BY <1>1, <1>2, <2>3, <3>1
    <3> QED
      BY <1>2, <2>5, <3>1, <3>2
  <2>11. \A t \in Traded' : t.oid <= order_number
    BY <1>1, <1>2, <1>3, <2>4, <2>5
  <2>12. loading' = << >> /\ order_pc' = "redis" /\ order_number' = order_number
    BY <1>1, <1>3
  <2> QED
    BY <1>4, <2>9, <2>10, <2>11, <2>12 DEF QueuedOnce
<1> QED
  BY <1>7, <1>8

\* RedisCommand: what is put in the queue was not there before, and nothing that is
\* still to be sent puts it there again.
LEMMA RedisCommandOnce ==
  ASSUME XInv, QueuedOnce, RedisCommand, notified' = notified
  PROVE  /\ QueuedOnce'
         /\ crashes = 0 =>
              \A oid \in Fields(executed') : oid \in Fields(executed) \/ ~Notified(oid)
<1> DEFINE c   == todo[1]
           oid == c.order.oid
<1>1. /\ order_pc = "redis" /\ order_pc' = order_pc
      /\ UNCHANGED <<order_number, book, loading, acked, trades, crashes, errors>>
      /\ todo' = Tail(todo) /\ todo # << >>
  BY DEF RedisCommand, history, budget
<1>2. /\ c = Head(todo) /\ c \in Command /\ 1 \in 1..Len(todo)
      /\ \A j \in 1..Len(todo') :
           todo'[j] = todo[j + 1] /\ j + 1 \in 1..Len(todo) /\ j + 1 # 1
  BY <1>1, TailOfTodo DEF XInv, SInv, TypeOK
<1>3. executed' = IF c.cmd = "execute" THEN HSet(executed, oid) ELSE executed
  BY <1>2 DEF RedisCommand, Perform
<1>4. Fields(executed') = Fields(executed) \cup (IF c.cmd = "execute" THEN {oid} ELSE {})
  <2>1. executed \in Hash(Nat) /\ oid \in Nat
    BY <1>2, ExecFacts DEF Command, Order
  <2> QED
    BY <1>3, <2>1, HSetFields
<1> SUFFICES ASSUME crashes = 0
             PROVE  /\ QueuedOnce'
                    /\ \A n \in Fields(executed') : n \in Fields(executed) \/ ~Notified(n)
  BY <1>1 DEF QueuedOnce
<1>5. \A j \in 1..Len(todo) : todo[j].cmd = "execute" =>
        /\ ~Queued(todo[j].order.oid)
        /\ \A i \in 1..Len(todo) :
             todo[i].cmd = "execute" /\ todo[i].order.oid = todo[j].order.oid => i = j
  BY DEF QueuedOnce
<1>6. c.cmd = "execute" => oid \notin Fields(executed) /\ \A ip \in Ip : <<oid, ip>> \notin notified
  BY <1>2, <1>5 DEF Queued, Notified
<1>7. \A j \in 1..Len(todo') : todo'[j].cmd = "execute" =>
        /\ ~Queued(todo[j].order.oid)'
        /\ \A i \in 1..Len(todo') :
             todo'[i].cmd = "execute" /\ todo'[i].order.oid = todo'[j].order.oid => i = j
  <2> SUFFICES ASSUME NEW j \in 1..Len(todo'), todo'[j].cmd = "execute"
               PROVE  /\ ~Queued(todo[j].order.oid)'
                      /\ \A i \in 1..Len(todo') :
                           todo'[i].cmd = "execute" /\ todo'[i].order.oid = todo'[j].order.oid
                             => i = j
    OBVIOUS
  <2>1. todo'[j] = todo[j + 1] /\ j + 1 \in 1..Len(todo) /\ j + 1 # 1
    BY <1>2
  <2>2. /\ todo'[j].order.oid \notin Fields(executed)
        /\ \A ip \in Ip : <<todo'[j].order.oid, ip>> \notin notified
    BY <1>5, <2>1 DEF Queued, Notified
  <2>3. c.cmd = "execute" => todo'[j].order.oid # oid
    BY <1>2, <1>5, <2>1
  <2>4. ~Queued(todo[j].order.oid)'
    BY <1>4, <2>2, <2>3 DEF Queued, Notified
  <2>5. ASSUME NEW i \in 1..Len(todo'), todo'[i].cmd = "execute",
               todo'[i].order.oid = todo'[j].order.oid
        PROVE  i = j
    <3>1. i + 1 = j + 1
      BY <1>2, <1>5, <2>1, <2>5
    <3> QED
      BY <3>1
  <2> QED
    BY <2>4, <2>5
<1>8. Traded' = Traded
  BY <1>1 DEF Traded
<1>9. QueuedOnce'
  BY <1>1, <1>7, <1>8 DEF QueuedOnce, OldestFirst, RestingOnce
<1> QED
  BY <1>4, <1>6, <1>9 DEF Notified

\* RedisError: what is left of the plan is part of it.
LEMMA RedisErrorOnce ==
  ASSUME XInv, QueuedOnce, RedisError, notified' = notified
  PROVE  QueuedOnce'
<1>1. /\ order_pc = "redis" /\ order_pc' = order_pc /\ executed' = executed
      /\ UNCHANGED <<order_number, book, loading, trades, crashes>>
      /\ todo' = << >> \/ todo' = Tail(todo)
      /\ todo # << >>
  BY DEF RedisError, history, redis
<1>2. \A j \in 1..Len(todo') :
        todo'[j] = todo[j + 1] /\ j + 1 \in 1..Len(todo)
  <2>1. \A j \in 1..Len(Tail(todo)) :
          Tail(todo)[j] = todo[j + 1] /\ j + 1 \in 1..Len(todo)
    BY <1>1, TailOfTodo DEF XInv, SInv, TypeOK
  <2> QED
    BY <1>1, <2>1, EmptySeq
<1> SUFFICES ASSUME crashes = 0
             PROVE  QueuedOnce'
  BY <1>1 DEF QueuedOnce
<1>3. \A j \in 1..Len(todo') : todo'[j].cmd = "execute" =>
        /\ ~Queued(todo[j].order.oid)'
        /\ \A i \in 1..Len(todo') :
             todo'[i].cmd = "execute" /\ todo'[i].order.oid = todo'[j].order.oid => i = j
  <2> SUFFICES ASSUME NEW j \in 1..Len(todo'), todo'[j].cmd = "execute"
               PROVE  /\ ~Queued(todo[j].order.oid)'
                      /\ \A i \in 1..Len(todo') :
                           todo'[i].cmd = "execute" /\ todo'[i].order.oid = todo'[j].order.oid
                             => i = j
    OBVIOUS
  <2>1. todo'[j] = todo[j + 1] /\ j + 1 \in 1..Len(todo)
    BY <1>2
  <2>2. ~Queued(todo[j].order.oid)'
    BY <1>1, <2>1 DEF QueuedOnce, Queued, Notified
  <2>3. ASSUME NEW i \in 1..Len(todo'), todo'[i].cmd = "execute",
               todo'[i].order.oid = todo'[j].order.oid
        PROVE  i = j
    <3>1. i + 1 = j + 1
      BY <1>2, <2>1, <2>3 DEF QueuedOnce
    <3> QED
      BY <3>1
  <2> QED
    BY <2>2, <2>3
<1>4. Traded' = Traded
  BY <1>1 DEF Traded
<1> QED
  BY <1>1, <1>3, <1>4 DEF QueuedOnce, OldestFirst, RestingOnce

\* The steps of the order server put no order in the queue that is or was in it.
LEMMA ServerOnce ==
  ASSUME XInv, QueuedOnce, Receive \/ OrderStep \/ OrderStop
  PROVE  /\ QueuedOnce'
         /\ crashes = 0 =>
              \A oid \in Fields(executed') : oid \in Fields(executed) \/ ~Notified(oid)
<1>0. SInv /\ notified' = notified /\ crashes \in Nat
  BY BoundsAssumption DEF XInv, SInv, TypeOK, Receive, OrderStep, OrderStop
<1>1. executed' = executed =>
        \A oid \in Fields(executed') : oid \in Fields(executed) \/ ~Notified(oid)
  OBVIOUS
<1>2. ASSUME NEW r \in Request, Accept(r, address[r.cid])
      PROVE  QueuedOnce' /\ executed' = executed
  <2>1. /\ UNCHANGED <<book, trades, executed, todo, crashes>>
        /\ order_number' = order_number + 1
        /\ loading' = loading /\ loading = << >>
    BY <1>0, <1>2 DEF Accept, history, SInv, InHand
  <2> QED
    BY <1>0, <2>1, OnceFrame
<1>3. CASE Start
  <2>1. PICK keys \in HKeys(active) :
          /\ order_pc = "down" /\ order_pc' = Resume(loading')
          /\ loading' = [i \in 1..Len(keys) |-> details[keys[i]]]
          /\ order_number' = LastNumber(keys)
          /\ UNCHANGED <<book, todo, executed, trades, crashes>>
    BY <1>3 DEF Start, redis, history, budget
  <2>2. CASE crashes = 0
    <3>1. keys \in Seq(Nat) /\ \A i \in 1..Len(keys) : keys[i] \in Fields(active)
      BY <1>0, HKeysFields DEF SInv, TypeOK
    <3>2. Fields(active) = {} /\ order_number = 0
      BY <2>1, <2>2, EmptySeq DEF XInv, NumbersUnique
    <3>3. Len(keys) = 0 /\ keys = << >>
      BY <3>1, <3>2, EmptySeq, LenProperties
    <3>4. order_number' = order_number /\ loading' = << >> /\ order_pc' = "accept"
      BY <2>1, <3>2, <3>3 DEF LastNumber, Resume
    <3> QED
      BY <1>0, <1>1, <2>1, <3>4, OnceFrame
  <2>3. CASE crashes # 0
    BY <2>1, <2>3 DEF QueuedOnce
  <2> QED
    BY <2>2, <2>3
<1>11. CASE StartError
  <2>1. /\ order_pc = "down" /\ order_pc' \in {"down", "accept"}
        /\ order_number' \in {0, order_number} /\ loading' \in {<< >>, loading}
        /\ UNCHANGED <<book, todo, executed, trades, crashes>>
    BY <1>11 DEF StartError, redis
  <2>2. CASE crashes = 0
    <3>1. order_number = 0 /\ loading = << >>
      BY <2>1, <2>2, EmptySeq DEF XInv, NumbersUnique, QueuedOnce
    <3> QED
      BY <1>0, <1>1, <2>1, <3>1, OnceFrame
  <2>3. CASE crashes # 0
    BY <1>1, <2>1, <2>3 DEF QueuedOnce
  <2> QED
    BY <2>2, <2>3
<1>4. CASE Replay
  <2>1. crashes' = crashes /\ loading # << >> /\ executed' = executed
    BY <1>0, <1>4 DEF Replay, redis, budget, SInv, InHand
  <2> QED
    BY <1>1, <2>1 DEF QueuedOnce
<1>5. CASE Reply
  <2>1. /\ UNCHANGED <<book, trades, executed, todo, crashes, order_number>>
        /\ loading' = loading /\ loading = << >> /\ order_pc = "reply"
    BY <1>0, <1>5 DEF Reply, memory, redis, budget, SInv, InHand
  <2> QED
    BY <1>0, <1>1, <2>1, OnceFrame
<1>6. CASE Return
  <2>1. /\ UNCHANGED <<book, trades, executed, todo, crashes, order_number>>
        /\ loading' = loading /\ order_pc' \notin {"reply", "match"}
    BY <1>6 DEF Return, Resume, memory, redis, history, budget
  <2>2. CASE crashes = 0
    <3>1. loading = << >>
      BY <2>2 DEF QueuedOnce
    <3> QED
      BY <1>0, <1>1, <2>1, <3>1, OnceFrame
  <2>3. CASE crashes # 0
    BY <2>1, <2>3 DEF QueuedOnce
  <2> QED
    BY <2>2, <2>3
<1>7. CASE Stop
  <2>1. crashes' = crashes + 1 /\ executed' = executed
    BY <1>7 DEF Stop, redis
  <2> QED
    BY <1>0, <1>1, <2>1 DEF QueuedOnce
<1>8. CASE MatchTrade
  <2>1. executed' = executed
    BY <1>8 DEF MatchTrade, redis
  <2> QED
    BY <1>0, <1>1, <1>8, <2>1, MatchTradeOnce
<1>9. CASE RedisCommand
  BY <1>0, <1>9, RedisCommandOnce
<1>10. CASE RedisError
  <2>1. executed' = executed
    BY <1>10 DEF RedisError, redis
  <2> QED
    BY <1>0, <1>1, <1>10, <2>1, RedisErrorOnce
<1> QED
  BY <1>1, <1>2, <1>3, <1>4, <1>5, <1>6, <1>7, <1>8, <1>9, <1>10, <1>11
  DEF Receive, OrderStep, OrderStop, ServerStep

\* A step of exec or of a host that queues nothing keeps the numbers apart.
LEMMA ExecQueuedOnce ==
  ASSUME QueuedOnce, UNCHANGED <<order_pc, order_number, book, loading, todo, trades, crashes>>,
         \A oid : Queued(oid)' => Queued(oid)
  PROVE  QueuedOnce'
<1>1. Traded' = Traded
  BY DEF Traded
<1>2. crashes = 0 => \A j \in 1..Len(todo) : todo[j].cmd = "execute" =>
        ~Queued(todo[j].order.oid)'
  <2> SUFFICES ASSUME crashes = 0, NEW j \in 1..Len(todo), todo[j].cmd = "execute"
               PROVE  ~Queued(todo[j].order.oid)'
    OBVIOUS
  <2> DEFINE oid == todo[j].order.oid
  <2>1. ~Queued(oid) /\ oid' = oid
    BY DEF QueuedOnce
  <2> QED
    BY <2>1 DEF Queued, Notified
<1> QED
  BY <1>1, <1>2 DEF QueuedOnce, OldestFirst, RestingOnce

\* Exec and the hosts queue nothing: exec deletes what it told, and a host is told
\* what is in the queue.
LEMMA ExecOnce ==
  ASSUME XInv, QueuedOnce,
         \/ ExecStart \/ ExecReads \/ ExecFails \/ Delete
         \/ ReadFails \/ DeleteFails \/ ExecStop
         \/ \E state \in {"acknowledged", "refused"} : Answer(state)
         \/ \E n \in stray : AnswerStray(n)
         \/ \E ip \in Ip : HostDown(ip) \/ HostUp(ip)
         \/ UNCHANGED vars
  PROVE  QueuedOnce'
<1>1. UNCHANGED <<order_pc, order_number, book, loading, todo, trades, crashes>>
  BY DEF ExecStart, ExecReads, ExecFails, Delete, ReadFails, DeleteFails, ExecStop, Answer,
         AnswerStray, HostDown, HostUp, ExecUnchanged, vars, serverVars, memory, history,
         budget
<1>2. CASE Delete
  <2>1. executed' = HDel(executed, connection.oid) /\ notified' = notified
    BY <1>2, ExecOperators DEF Delete, Exec!Delete, ExecUnchanged
  <2>2. Fields(executed') = Fields(executed) \ {connection.oid}
    BY <2>1, ExecFacts, HDelFields
  <2>3. \A oid : Queued(oid)' => Queued(oid)
    BY <2>1, <2>2 DEF Queued, Notified
  <2> QED
    BY <1>1, <2>3, ExecQueuedOnce
<1>3. ASSUME NEW state \in {"acknowledged", "refused"}, Answer(state)
      PROVE  QueuedOnce'
  <2>1. /\ connection.state = "sent" /\ executed' = executed
        /\ notified' = notified \cup {<<connection.oid, connection.ip>>}
    BY <1>3 DEF Answer, serverVars, redis
  <2>2. connection.oid \in Fields(executed)
    <3>1. exec_pc = "recv"
      BY <2>1 DEF XInv, ExecTelling, Exec!Closed
    <3>2. exec_orders # << >> /\ connection.oid = Head(exec_orders).oid
      BY <3>1 DEF XInv, ExecTelling
    <3>3. Head(exec_orders) = exec_orders[1] /\ 1 \in 1..Len(exec_orders)
      BY <3>2, ExecFacts, HeadTailProperties, EmptySeq
    <3> QED
      BY <3>2, <3>3 DEF XInv, ExecReading
  <2>3. \A oid : Queued(oid)' => Queued(oid)
    BY <2>1, <2>2 DEF Queued, Notified
  <2> QED
    BY <1>1, <2>3, ExecQueuedOnce
<1>5. ASSUME NEW n \in stray, AnswerStray(n)
      PROVE  QueuedOnce'
  <2>1. n \in Nat \X Ip /\ Queued(n[1])
    BY DEF XInv, StraySound, ExchangeTypeOK, Exec!ExecTypeOK
  <2>2. n = <<n[1], n[2]>> /\ n[2] \in Ip
    BY <2>1
  <2>3. executed' = executed /\ notified' = notified \cup {n}
    BY <1>5 DEF AnswerStray, serverVars, redis
  <2>4. \A oid : Queued(oid)' => Queued(oid)
    BY <2>1, <2>2, <2>3 DEF Queued, Notified
  <2> QED
    BY <1>1, <2>4, ExecQueuedOnce
<1>4. ASSUME \/ ExecStart \/ ExecReads \/ ExecFails \/ ReadFails \/ DeleteFails \/ ExecStop
             \/ \E ip \in Ip : HostDown(ip) \/ HostUp(ip)
             \/ UNCHANGED vars
      PROVE  QueuedOnce'
  <2>1. executed' = executed /\ notified' = notified
    BY <1>4
    DEF ExecStart, ExecReads, ExecFails, ReadFails, DeleteFails, ExecStop, HostDown, HostUp,
        ExecUnchanged, vars, serverVars, redis
  <2>2. \A oid : Queued(oid)' => Queued(oid)
    BY <2>1 DEF Queued, Notified
  <2> QED
    BY <1>1, <2>2, ExecQueuedOnce
<1> QED
  BY <1>2, <1>3, <1>4, <1>5

\* Exec tells an order that is in the queue, then deletes it, or ends.
LEMMA ToldOnceStep ==
  ASSUME XInv, QueuedOnce, ToldOnce, [ExchangeNext]_vars
  PROVE  ToldOnce'
<1> SUFFICES ASSUME crashes' = 0, ~exec_exited', NEW oid \in Fields(executed'),
                    NEW ip \in Ip, <<oid, ip>> \in notified'
             PROVE  exec_pc' = "recv" /\ connection'.oid = oid /\ connection'.state # "sent"
  BY DEF ToldOnce, Notified
<1>0. crashes = 0 /\ ~exec_exited /\ oid \in Fields(executed) /\ <<oid, ip>> \in notified
        => exec_pc = "recv" /\ connection.oid = oid /\ connection.state # "sent"
  BY DEF ToldOnce, Notified
<1>1. CASE Receive \/ OrderStep \/ OrderStop
  <2>1. /\ exec_pc' = exec_pc /\ exec_exited' = exec_exited
        /\ connection' = connection /\ notified' = notified
    BY <1>1 DEF Receive, OrderStep, OrderStop, execVars
  <2>2. crashes = 0
    <3>1. \A r \in Request : address[r.cid] \in Ip
      BY HostOfCustomer DEF Request
    <3> QED
      BY <1>1, <3>1, ServerGrows DEF XInv, Receive, OrderStep, OrderStop, Grows
  <2>3. oid \in Fields(executed)
    BY <1>1, <2>1, <2>2, ServerOnce DEF Notified
  <2> QED
    BY <1>0, <2>1, <2>2, <2>3
<1>2. CASE ExecStart \/ ExecReads
  <2>1. /\ crashes' = crashes /\ exec_exited' = exec_exited /\ executed' = executed
        /\ notified' = notified /\ exec_pc # "recv"
    BY <1>2
    DEF ExecStart, ExecReads, Exec!ExecStart, Exec!ExecReads, Exec!Poll,
        Exec!ReadDetails, Exec!ReadMap, Exec!Connect, Exec!Sleep, ExecUnchanged, budget
  <2> QED
    BY <1>0, <2>1
<1>8. CASE ReadFails
  <2>1. /\ crashes' = crashes /\ executed' = executed /\ notified' = notified
        /\ \/ exec_exited' = exec_exited /\ exec_pc # "recv"
           \/ exec_exited' = TRUE
    BY <1>8, ExecOperators DEF ReadFails, Exec!ReadError, Exec!Exit, Exec!execVars, redis
  <2> QED
    BY <1>0, <2>1
<1>9. ASSUME NEW n \in stray, AnswerStray(n)
      PROVE  FALSE
  BY <1>9 DEF XInv, StraySound, AnswerStray
<1>3. CASE ExecFails \/ DeleteFails \/ ExecStop
  BY <1>3
  DEF ExecFails, DeleteFails, ExecStop, Exec!ExecFails, Exec!DetailsMissing,
      Exec!AddressMissing, Exec!ConnectFails, Exec!AnswerRefused, Exec!Exit
<1>4. CASE Delete
  <2>1. /\ crashes' = crashes /\ exec_exited' = exec_exited /\ notified' = notified
        /\ executed' = HDel(executed, connection.oid)
    BY <1>4, ExecOperators DEF Delete, Exec!Delete, ExecUnchanged, budget
  <2>2. Fields(executed') = Fields(executed) \ {connection.oid}
    BY <2>1, ExecFacts, HDelFields
  <2> QED
    BY <1>0, <2>1, <2>2
<1>5. ASSUME NEW state \in {"acknowledged", "refused"}, Answer(state)
      PROVE  exec_pc' = "recv" /\ connection'.oid = oid /\ connection'.state # "sent"
  <2>1. /\ crashes' = crashes /\ exec_exited' = exec_exited /\ executed' = executed
        /\ exec_pc' = exec_pc /\ connection.state = "sent"
        /\ notified' = notified \cup {<<connection.oid, connection.ip>>}
        /\ connection' = [connection EXCEPT !.state = state]
    BY <1>5 DEF Answer, serverVars, redis, budget
  <2>2. <<oid, ip>> = <<connection.oid, connection.ip>>
    BY <1>0, <2>1
  <2>3. exec_pc = "recv" /\ connection.oid = oid
    BY <2>1, <2>2 DEF XInv, ExecTelling, Exec!Closed
  <2>4. connection \in [state : {"sent", "acknowledged", "refused"}, oid : Nat, ip : Ip]
    BY <2>1, ExecFacts DEF Exec!Connection, Exec!Closed
  <2> QED
    BY <2>1, <2>3, <2>4
<1>6. ASSUME NEW host \in Ip, HostDown(host) \/ HostUp(host)
      PROVE  exec_pc' = "recv" /\ connection'.oid = oid /\ connection'.state # "sent"
  <2>1. /\ crashes' = crashes /\ exec_exited' = exec_exited /\ executed' = executed
        /\ exec_pc' = exec_pc /\ notified' = notified
        /\ connection.state # "sent" => connection' = connection
    BY <1>6 DEF HostDown, HostUp, execVars, serverVars, redis, budget
  <2> QED
    BY <1>0, <2>1
<1>7. CASE UNCHANGED vars
  BY <1>0, <1>7 DEF vars, execVars, serverVars, redis, budget
<1> QED
  BY <1>1, <1>2, <1>3, <1>4, <1>5, <1>6, <1>7, <1>8, <1>9 DEF ExchangeNext

\* A customer is told once, as long as the order server was not stopped and exec did
\* not end: no acknowledgement comes for an order that was told before.
THEOREM ToldOnlyOnce == ExchangeSpec => NotifiedOnce
<1>1. ExchangeInit => QueuedOnce /\ ToldOnce
  <2> SUFFICES ASSUME ExchangeInit
               PROVE  QueuedOnce /\ ToldOnce
    OBVIOUS
  <2>1. /\ \A q \in Queue : book[q] = << >> /\ Len(book[q]) = 0
        /\ todo = << >> /\ Len(todo) = 0 /\ loading = << >>
        /\ Traded = {} /\ Fields(executed) = {}
    BY EmptySeq, EmptyHashFields DEF ExchangeInit, Init, EmptyBook, Traded
  <2> QED
    BY <2>1 DEF QueuedOnce, ToldOnce, OldestFirst, RestingOnce
<1>2. XInv /\ QueuedOnce /\ ToldOnce /\ [ExchangeNext]_vars => QueuedOnce' /\ ToldOnce'
  BY ServerOnce, ExecOnce, ToldOnceStep DEF ExchangeNext
<1>3. XInv /\ ToldOnce =>
        (connection.state = "sent" /\ ~exec_exited /\ crashes = 0
           => ~Notified(connection.oid))
  <2> SUFFICES ASSUME XInv, ToldOnce, connection.state = "sent", ~exec_exited, crashes = 0
               PROVE  ~Notified(connection.oid)
    OBVIOUS
  <2>1. exec_pc = "recv"
    BY DEF XInv, ExecTelling, Exec!Closed
  <2>2. exec_orders # << >> /\ connection.oid = Head(exec_orders).oid
    BY <2>1 DEF XInv, ExecTelling
  <2>3. Head(exec_orders) = exec_orders[1] /\ 1 \in 1..Len(exec_orders)
    BY <2>2, ExecFacts, HeadTailProperties, EmptySeq
  <2>4. connection.oid \in Fields(executed)
    BY <2>2, <2>3 DEF XInv, ExecReading
  <2> QED
    BY <2>4 DEF ToldOnce
<1>4. XInv /\ ToldOnce =>
        [connection.state = "sent" /\ connection'.state = "acknowledged"
           /\ ~exec_exited /\ crashes = 0
         => ~Notified(connection.oid)]_vars
  BY <1>3
<1> QED
  BY <1>1, <1>2, <1>4, InitXInv, XInvStep, PTL DEF ExchangeSpec, NotifiedOnce
===============================================================================
