-------------------------- MODULE OrderServerProofs --------------------------
(***************************************************************************)
(* What the order server keeps, for all symbols, prices, customers and     *)
(* addresses, for any number of orders, stops and error replies of Redis.  *)
(***************************************************************************)
EXTENDS OrderServer, OperatorLemmas

\* The accepted orders may rest, and have the numbers of acknowledged ones.
LEMMA AcceptedOrders ==
  ASSUME TypeOK, NumbersAcked
  PROVE  \A o \in Accepted : o \in Resting /\ o.oid \in 1..Len(acked)
<1>1. \A i \in 1..Len(acked) : acked[i] \in Order
  BY ElementOfSeq DEF TypeOK
<1>2. \A i \in 1..Len(acked) : acked[i].operation \in Side =>
        /\ Normalize(acked[i]) \in Resting
        /\ Normalize(acked[i]).oid = acked[i].oid
  BY <1>1, NormalizeOrder
<1> QED
  BY <1>2 DEF Accepted, NumbersAcked

\* A trade adds its two orders to those that traded.
LEMMA TradedAppend ==
  ASSUME trades \in Seq(Resting \X Resting),
         NEW t \in Resting \X Resting, trades' = Append(trades, t)
  PROVE  Traded' = Traded \cup {t[1], t[2]}
<1>1. /\ Len(trades) \in Nat /\ Len(trades') = Len(trades) + 1
      /\ \A n \in 1..Len(trades) : trades'[n] = trades[n]
      /\ trades'[Len(trades) + 1] = t
  BY AppendProperties, LenProperties
<1>2. \A n \in 1..Len(trades') : n \in 1..Len(trades) \/ n = Len(trades) + 1
  BY <1>1
<1>3. 1..Len(trades) \subseteq 1..Len(trades') /\ Len(trades) + 1 \in 1..Len(trades')
  BY <1>1
<1> QED
  BY <1>1, <1>2, <1>3 DEF Traded

\* An acknowledgement adds a buy or sell order to the accepted ones.
LEMMA AcceptedAppend ==
  ASSUME acked \in Seq(Order), NEW o \in Order, acked' = Append(acked, o)
  PROVE  Accepted' = Accepted \cup (IF o.operation \in Side THEN {Normalize(o)} ELSE {})
<1>1. /\ Len(acked) \in Nat /\ Len(acked') = Len(acked) + 1
      /\ \A i \in 1..Len(acked) : acked'[i] = acked[i]
      /\ acked'[Len(acked) + 1] = o
  BY AppendProperties, LenProperties
<1>2. \A i \in 1..Len(acked') : i \in 1..Len(acked) \/ i = Len(acked) + 1
  BY <1>1
<1>3. 1..Len(acked) \subseteq 1..Len(acked') /\ Len(acked) + 1 \in 1..Len(acked')
  BY <1>1
<1> QED
  BY <1>1, <1>2, <1>3 DEF Accepted
-------------------------------------------------------------------------------
\* The two plans of match_trade, command by command.
LEMMA AddPlan ==
  ASSUME NEW o \in Order
  PROVE  LET p == AddCommands(o) IN
         /\ p \in Seq(Command) /\ Len(p) = 2
         /\ p[1].cmd = "details" /\ p[1].order = o /\ p[1].required
         /\ p[2].cmd = "activate" /\ p[2].order = o
  BY DEF AddCommands, Cmd, Command

\* For an order that trades: its own details, then the moves of taker and maker.
LEMMA ExecutePlan ==
  ASSUME NEW t \in Order, NEW m \in Order
  PROVE  LET p == ExecuteCommands(t, m) IN
         /\ p \in Seq(Command) /\ Len(p) = 5
         /\ p[1].cmd = "details" /\ p[1].order = t
         /\ p[2].cmd = "execute" /\ p[2].order = t
         /\ p[3].cmd = "deactivate" /\ p[3].order = t
         /\ p[4].cmd = "execute" /\ p[4].order = m
         /\ p[5].cmd = "deactivate" /\ p[5].order = m
  BY DEF ExecuteCommands, Cmd, Command

\* The part of the invariant that a step leaves alone.
LEMMA Frame ==
  ASSUME SInv
  PROVE  /\ book' = book => InPlace' /\ NoCrossedBook'
         /\ details' = details /\ active' = active /\ acked' = acked
              => StoreSound' /\ ActiveHaveDetails'
         /\ UNCHANGED <<todo, details, acked, trades, errors>> => TodoSound'
         /\ UNCHANGED <<book, details, todo, errors>> => BookWritten'
         /\ executed' = executed /\ details' = details /\ errors' = errors
              => ExecutedHaveDetails'
         /\ executed' = executed /\ trades' = trades => ExecutedTraded'
         /\ misread' = misread /\ (errors' = 0 => errors = 0) => MisreadCounted'
<1>1. book' = book => InPlace' /\ NoCrossedBook'
  BY DEF SInv, InPlace, NoCrossedBook
<1>2. details' = details /\ active' = active /\ acked' = acked
        => StoreSound' /\ ActiveHaveDetails'
  BY DEF SInv, StoreSound, ActiveHaveDetails, Accepted
<1>3. UNCHANGED <<todo, details, acked, trades, errors>> => TodoSound'
  <2> SUFFICES ASSUME todo' = todo, details' = details, acked' = acked,
                      trades' = trades, errors' = errors
               PROVE  TodoSound'
    OBVIOUS
  <2>1. Traded' = Traded /\ Accepted' = Accepted
    BY DEF Traded, Accepted
  <2>2. \A i, needed : Written(i, needed)' <=> Written(i, needed)
    BY Zenon DEF Written
  <2> QED
    BY <2>1, <2>2 DEF SInv, TodoSound
<1>4. UNCHANGED <<book, details, todo, errors>> => BookWritten'
  BY DEF SInv, BookWritten
<1>5. executed' = executed /\ details' = details /\ errors' = errors
        => ExecutedHaveDetails'
  BY DEF SInv, ExecutedHaveDetails
<1>6. executed' = executed /\ trades' = trades => ExecutedTraded'
  BY DEF SInv, ExecutedTraded, Traded
<1>7. misread' = misread /\ (errors' = 0 => errors = 0) => MisreadCounted'
  BY DEF SInv, MisreadCounted
<1> QED
  BY <1>1, <1>2, <1>3, <1>4, <1>5, <1>6, <1>7

\* Nothing is in the store or in memory at first.
LEMMA InitSInv == Init => SInv
<1> SUFFICES ASSUME Init
             PROVE  SInv
  OBVIOUS
<1>1. /\ \A q \in Queue : book[q] = << >> /\ Len(book[q]) = 0
      /\ todo = << >> /\ Len(todo) = 0 /\ loading = << >> /\ Len(loading) = 0
      /\ acked = << >> /\ Len(acked) = 0 /\ trades = << >> /\ Len(trades) = 0
  BY EmptySeq DEF Init, EmptyBook
<1>2. /\ active \in Hash(Nat) /\ executed \in Hash(Nat)
      /\ Fields(active) = {} /\ Fields(executed) = {} /\ FieldsOnce(active)
  BY EmptyHashFields DEF Init
<1>3. TypeOK
  <2>1. misread \in BOOLEAN
    BY Zenon DEF Init
  <2>2. /\ order_pc \in Pc /\ order_number \in Nat
        /\ IsPartialFunction(cid_ip_map, Cid, Ip) /\ IsPartialFunction(c2ip, Cid, Ip)
        /\ IsPartialFunction(details, Nat, Resting)
        /\ order \in Order \cup {NULL}
        /\ crashes \in 0..MaxCrashes /\ errors \in 0..MaxErrors
    BY BoundsAssumption DEF Init, EmptyMap, IsPartialFunction, Pc
  <2>3. /\ book \in [Queue -> Seq(Resting)] /\ loading \in Seq(Resting)
        /\ todo \in Seq(Command) /\ acked \in Seq(Order)
        /\ trades \in Seq(Resting \X Resting)
    BY <1>1, EmptySeq DEF Init, EmptyBook
  <2> QED
    BY <1>2, <2>1, <2>2, <2>3, Zenon DEF TypeOK
<1>4. NoCrossedBook
  BY <1>1, QueueOfSymbol DEF NoCrossedBook, InQueue
<1>5. DOMAIN details = {}
  BY DEF Init, EmptyMap
<1>6. NumbersAcked /\ InHand /\ MisreadCounted
  BY <1>1, BoundsAssumption DEF Init, NumbersAcked, InHand, MisreadCounted
<1> QED
  BY <1>1, <1>2, <1>3, <1>4, <1>5, <1>6
  DEF SInv, InPlace, StoreSound, ActiveHaveDetails, TodoSound, BookWritten,
      ExecutedHaveDetails, ExecutedTraded

\* Start: the orders read are accepted ones, with details.
LEMMA StartStep == SInv /\ Start => SInv'
<1> SUFFICES ASSUME SInv, NEW keys \in HKeys(active),
                    order_pc = "down",
                    loading' = [i \in 1..Len(keys) |-> details[keys[i]]],
                    order_number' = LastNumber(keys),
                    order_pc' = Resume(loading'),
                    UNCHANGED <<book, cid_ip_map, order, todo, redis, history, budget>>
             PROVE  SInv'
  BY DEF Start
<1>0. /\ book' = book /\ cid_ip_map' = cid_ip_map /\ order' = order /\ todo' = todo
      /\ details' = details /\ active' = active /\ executed' = executed /\ c2ip' = c2ip
      /\ acked' = acked /\ trades' = trades /\ misread' = misread
      /\ crashes' = crashes /\ errors' = errors
  BY DEF redis, history, budget
<1>1. /\ keys \in Seq(Nat) /\ Len(keys) \in Nat
      /\ \A i \in 1..Len(keys) : keys[i] \in Fields(active)
  BY HKeysFields, LenProperties DEF SInv, TypeOK
<1>2. \A i \in 1..Len(keys) :
        /\ keys[i] \in DOMAIN details /\ details[keys[i]].oid = keys[i]
        /\ details[keys[i]] \in Accepted /\ details[keys[i]] \in Resting
        /\ keys[i] \in 1..Len(acked)
  BY <1>1, AcceptedOrders DEF SInv, ActiveHaveDetails, StoreSound
<1>3. /\ loading' \in Seq(Resting) /\ Len(loading') = Len(keys)
      /\ \A i \in 1..Len(loading') : loading'[i] = details[keys[i]]
  BY <1>1, <1>2
<1>4. order_number' \in Nat /\ order_number' <= Len(acked)
  BY <1>1, <1>2, LenProperties DEF LastNumber, SInv, TypeOK
<1>5. /\ order_pc' \in {"replay", "accept"}
      /\ order_pc' = "accept" => loading' = << >>
      /\ order_pc' = "replay" => loading' # << >>
  BY DEF Resume
<1>6. TypeOK'
  BY <1>0, <1>3, <1>4, <1>5 DEF SInv, TypeOK, Pc, IsPartialFunction
<1>7. InHand'
  <2>1. \A i \in 1..Len(loading') :
          loading'[i] \in Accepted' /\ loading'[i].oid \in DOMAIN details'
    BY <1>0, <1>2, <1>3 DEF Accepted
  <2> QED
    BY <1>0, <1>5, <2>1 DEF SInv, InHand
<1>8. NumbersAcked'
  BY <1>0, <1>4, <1>5 DEF SInv, NumbersAcked
<1> QED
  BY <1>0, <1>6, <1>7, <1>8, Frame DEF SInv

\* StartError: nothing was read, or nothing is done.
LEMMA StartErrorStep == SInv /\ StartError => SInv'
<1> SUFFICES ASSUME SInv, StartError
             PROVE  SInv'
  OBVIOUS
<1>1. /\ order_pc = "down" /\ errors' = errors + 1 /\ errors < MaxErrors
      /\ book' = book /\ cid_ip_map' = cid_ip_map /\ order' = order /\ todo' = todo
      /\ details' = details /\ active' = active /\ executed' = executed /\ c2ip' = c2ip
      /\ acked' = acked /\ trades' = trades /\ crashes' = crashes
  BY DEF StartError, redis
<1>2. \/ /\ misread' = TRUE /\ order_number' = 0 /\ loading' = << >>
         /\ order_pc' = "accept"
      \/ /\ misread' = misread /\ order_number' = order_number /\ loading' = loading
         /\ order_pc' = order_pc
  BY DEF StartError
<1>3. errors' \in 0..MaxErrors /\ errors' # 0
  BY <1>1, BoundsAssumption DEF SInv, TypeOK
<1>4. loading' = << >> /\ Len(loading') = 0 /\ loading' \in Seq(Resting)
  BY <1>1, <1>2, EmptySeq DEF SInv, InHand
<1>5. TypeOK'
  <2>1. TypeOK
    BY DEF SInv
  <2>2. misread' \in BOOLEAN
    BY <1>2, <2>1, Zenon DEF TypeOK
  <2>3. order_pc' \in Pc /\ order_number' \in Nat
    BY <1>1, <1>2, <2>1 DEF TypeOK, Pc
  <2> QED
    BY <1>1, <1>3, <1>4, <2>1, <2>2, <2>3, Zenon DEF TypeOK, IsPartialFunction
<1>6. InHand' /\ NumbersAcked'
  <2>1. Len(acked) \in Nat
    BY LenProperties DEF SInv, TypeOK
  <2> QED
    BY <1>1, <1>2, <1>4, <2>1 DEF SInv, InHand, NumbersAcked
<1>7. TodoSound'
  <2>1. todo' = << >> /\ Len(todo') = 0
    BY <1>1, EmptySeq DEF SInv, InHand
  <2> QED
    BY <2>1 DEF TodoSound
<1>8. BookWritten' /\ ExecutedHaveDetails' /\ MisreadCounted'
  BY <1>3 DEF BookWritten, ExecutedHaveDetails, MisreadCounted
<1> QED
  BY <1>1, <1>5, <1>6, <1>7, <1>8, Frame DEF SInv

\* match_trade, of an accepted order or a cancellation, at the start (init) of an
\* order that has its details: the book stays sound, and the commands to be sent
\* are in the right order.
LEMMA MatchSound ==
  ASSUME SInv, NEW o \in Order, NEW init \in BOOLEAN,
         o.symbol \in Symbol, o.operation \in Side => o \in Accepted,
         init => o.oid \in DOMAIN details,
         todo = << >>, Match(o, init),
         UNCHANGED <<details, executed, acked, errors>>
  PROVE  /\ book' \in Book /\ todo' \in Seq(Command)
         /\ trades' \in Seq(Resting \X Resting)
         /\ InPlace' /\ NoCrossedBook'
         /\ \A q \in Queue : \A i \in 1..Len(book'[q]) : book'[q][i].oid \in 1..Len(acked)
         /\ TodoSound' /\ BookWritten' /\ ExecutedTraded'
<1>1. /\ book \in Book /\ Placed(book) /\ Uncrossed(book)
      /\ trades \in Seq(Resting \X Resting)
      /\ Len(acked) \in Nat
  BY LenProperties DEF SInv, TypeOK, Book, InPlace, Placed, NoCrossedBook, Uncrossed
<1>2. /\ book' = Rest(book, o)
      /\ trades' = IF IsMatched(book, o)
                     THEN Append(trades, Trade(book, o)) ELSE trades
      /\ todo' = Commands(book, o, init)
  BY DEF Match
<1>3. \A q \in Queue : \A i \in 1..Len(book[q]) :
        book[q][i] \in Resting /\ book[q][i].oid \in 1..Len(acked)
  BY <1>1, ElementOfSeq DEF SInv, NumbersAcked, Book
<1>4. Accepted' = Accepted
  BY DEF Accepted
<1>5. CASE o.operation \notin Side
  <2>1. book' = book /\ trades' = trades /\ todo' = << >> /\ Len(todo') = 0
    BY <1>2, <1>5, RestOnCancel, EmptySeq DEF Commands
  <2>2. TodoSound' /\ todo' \in Seq(Command)
    BY <2>1, EmptySeq DEF TodoSound
  <2>3. UNCHANGED <<book, details, todo, errors>>
    BY <2>1
  <2>4. BookWritten' /\ InPlace' /\ NoCrossedBook' /\ ExecutedTraded'
    BY <2>1, <2>3, Frame
  <2> QED
    BY <1>1, <1>3, <2>1, <2>2, <2>4
<1>6. ASSUME o.operation \in Side
      PROVE  /\ o \in Resting /\ o \in Accepted /\ o.oid \in 1..Len(acked)
             /\ book' \in Book /\ InPlace' /\ NoCrossedBook'
             /\ \A q \in Queue : \A i \in 1..Len(book'[q]) :
                  /\ book'[q][i].oid \in 1..Len(acked)
                  /\ \/ \E k \in 1..Len(book[q]) : book'[q][i] = book[q][k]
                     \/ ~IsMatched(book, o) /\ book'[q][i] = o
  <2>1. o \in Resting /\ o.oid \in 1..Len(acked) /\ o \in Accepted
    BY <1>6, AcceptedOrders DEF SInv
  <2>2. Rest(book, o) \in Book
    BY <1>1, <2>1, RestOnTrade, RestOnEnqueue
  <2>3. Placed(Rest(book, o)) /\ Uncrossed(Rest(book, o))
    BY <1>1, <2>1, RestPlaced, RestUncrossed
  <2>4. \A q \in Queue : \A i \in 1..Len(book'[q]) :
          \/ \E k \in 1..Len(book[q]) : book'[q][i] = book[q][k]
          \/ ~IsMatched(book, o) /\ book'[q][i] = o
    BY <1>1, <1>2, <2>1, RestEntries, SMTT(30)
  <2> QED
    BY <1>2, <1>3, <2>1, <2>2, <2>3, <2>4
    DEF InPlace, Placed, NoCrossedBook, Uncrossed
<1>7. CASE o.operation \in Side /\ ~IsMatched(book, o)
  <2>1. trades' = trades /\ ExecutedTraded'
    BY <1>2, <1>7, Frame
  <2>2. CASE init
    <3>1. todo' = << >> /\ Len(todo') = 0
      BY <1>2, <1>7, <2>2, EmptySeq DEF Commands
    <3>2. TodoSound' /\ todo' \in Seq(Command)
      BY <3>1, EmptySeq DEF TodoSound
    <3>3. BookWritten'
      <4> SUFFICES ASSUME errors = 0, NEW q \in Queue, NEW i \in 1..Len(book'[q])
                   PROVE  book'[q][i].oid \in DOMAIN details
        BY DEF BookWritten
      <4>1. \A k \in 1..Len(book[q]) : book[q][k].oid \in DOMAIN details
        BY EmptySeq DEF SInv, BookWritten
      <4> QED
        BY <1>6, <1>7, <2>2, <4>1
    <3> QED
      BY <1>1, <1>6, <1>7, <2>1, <3>2, <3>3
  <2>3. CASE ~init
    <3>1. todo' = AddCommands(o)
      BY <1>2, <1>7, <2>3 DEF Commands
    <3>2. /\ todo' \in Seq(Command) /\ Len(todo') = 2
          /\ todo'[1].cmd = "details" /\ todo'[1].order = o /\ todo'[1].required
          /\ todo'[2].cmd = "activate" /\ todo'[2].order = o
      BY <3>1, AddPlan
    <3>3. TodoSound'
      <4> SUFFICES ASSUME NEW i \in 1..2
                   PROVE  /\ todo'[i].order.oid \in 1..Len(acked)
                          /\ todo'[i].cmd = "details" => todo'[i].order \in Accepted
                          /\ todo'[i].cmd = "activate" => Written(i, TRUE)'
                          /\ todo'[i].cmd # "execute"
        BY <1>4, <3>2 DEF TodoSound
      <4>1. CASE i = 1
        BY <1>6, <1>7, <3>2, <4>1
      <4>2. CASE i = 2
        <5>1. Written(2, TRUE)'
          BY <3>2 DEF Written
        <5> QED
          BY <1>6, <1>7, <3>2, <4>2, <5>1
      <4>3. i = 1 \/ i = 2
        OBVIOUS
      <4> QED
        BY <4>1, <4>2, <4>3, Zenon
    <3>4. BookWritten'
      <4> SUFFICES ASSUME errors = 0, NEW q \in Queue, NEW i \in 1..Len(book'[q])
                   PROVE  \/ book'[q][i].oid \in DOMAIN details
                          \/ \E j \in 1..Len(todo') :
                               /\ todo'[j].cmd = "details"
                               /\ todo'[j].order.oid = book'[q][i].oid
        BY DEF BookWritten
      <4>1. \A k \in 1..Len(book[q]) : book[q][k].oid \in DOMAIN details
        BY EmptySeq DEF SInv, BookWritten
      <4> QED
        BY <1>6, <1>7, <3>2, <4>1, SMTT(30)
    <3> QED
      BY <1>1, <1>6, <1>7, <2>1, <3>2, <3>3, <3>4
  <2> QED
    BY <2>2, <2>3
<1>8. CASE IsMatched(book, o)
  <2> DEFINE away == book[Opposite(o)]
             i    == FirstHit(o, away)
             m    == Adjusted(o, away[i])
  <2>1. o.operation \in Side /\ o \in Resting
    BY <1>6, <1>8 DEF IsMatched
  <2>2. Opposite(o) \in Queue
    BY <2>1, QueuesOfOrder
  <2>3. i \in 1..Len(away) /\ Trade(book, o) = <<o, m>> /\ m \in Resting
    BY <1>1, <1>8, <2>1, RestOnTrade
  <2>4. m.oid = away[i].oid /\ m.oid \in 1..Len(acked)
    BY <1>3, <2>2, <2>3 DEF Adjusted, Resting, Order
  <2>5. errors = 0 => m.oid \in DOMAIN details
    <3>1. errors = 0 => away[i].oid \in DOMAIN details
      BY <2>2, <2>3, EmptySeq DEF SInv, BookWritten
    <3> QED
      BY <2>4, <3>1
  <2> HIDE DEF m, i, away
  <2>6. trades' = Append(trades, <<o, m>>)
    BY <1>2, <1>8, <2>3
  <2>7. /\ trades' \in Seq(Resting \X Resting)
        /\ Traded' = Traded \cup {o, m}
    <3>1. <<o, m>> \in Resting \X Resting /\ <<o, m>>[1] = o /\ <<o, m>>[2] = m
      BY <2>1, <2>3
    <3> QED
      BY <1>1, <2>6, <3>1, TradedAppend, AppendProperties
  <2>8. ExecutedTraded'
    BY <2>7 DEF SInv, ExecutedTraded
  <2>9. todo' = ExecuteCommands(o, m)
    BY <1>2, <1>8, <2>3 DEF Commands
  <2>10. /\ todo' \in Seq(Command) /\ Len(todo') = 5
         /\ todo'[1].cmd = "details" /\ todo'[1].order = o
         /\ todo'[2].cmd = "execute" /\ todo'[2].order = o
         /\ todo'[3].cmd = "deactivate" /\ todo'[3].order = o
         /\ todo'[4].cmd = "execute" /\ todo'[4].order = m
         /\ todo'[5].cmd = "deactivate" /\ todo'[5].order = m
    <3>1. m \in Order
      BY <2>3 DEF Resting
    <3> QED
      BY <2>9, <3>1, ExecutePlan
  <2>11. TodoSound'
    <3> SUFFICES ASSUME NEW k \in 1..5
                 PROVE  /\ todo'[k].order.oid \in 1..Len(acked)
                        /\ todo'[k].cmd = "details" => todo'[k].order \in Accepted
                        /\ todo'[k].cmd # "activate"
                        /\ todo'[k].cmd = "execute" =>
                             /\ \E t \in Traded' : t.oid = todo'[k].order.oid
                             /\ errors = 0 => Written(k, FALSE)'
      BY <1>4, <2>10 DEF TodoSound
    <3>1. CASE k = 1
      BY <1>6, <2>1, <2>10, <3>1
    <3>2. CASE k = 2
      <4>1. Written(2, FALSE)'
        BY <2>10 DEF Written
      <4> QED
        BY <1>6, <2>1, <2>7, <2>10, <3>2, <4>1
    <3>3. CASE k = 4
      <4>1. errors = 0 => Written(4, FALSE)'
        BY <2>5, <2>10 DEF Written
      <4> QED
        BY <2>4, <2>7, <2>10, <3>3, <4>1
    <3>4. CASE k \in {3, 5}
      BY <1>6, <2>1, <2>4, <2>10, <3>4
    <3>5. k = 1 \/ k = 2 \/ k = 4 \/ k \in {3, 5}
      OBVIOUS
    <3> QED
      BY <3>1, <3>2, <3>3, <3>4, <3>5, Zenon
  <2>12. BookWritten'
    <3> SUFFICES ASSUME errors = 0, NEW q \in Queue, NEW k \in 1..Len(book'[q])
                 PROVE  book'[q][k].oid \in DOMAIN details
      BY DEF BookWritten
    <3>1. \A l \in 1..Len(book[q]) : book[q][l].oid \in DOMAIN details
      BY EmptySeq DEF SInv, BookWritten
    <3> QED
      BY <1>6, <1>8, <2>1, <3>1
  <2> QED
    BY <1>6, <2>1, <2>7, <2>8, <2>10, <2>11, <2>12
<1> QED
  BY <1>5, <1>7, <1>8

\* Replay: the next order read from Redis is handled.
LEMMA ReplayStep == SInv /\ Replay => SInv'
<1> SUFFICES ASSUME SInv, Replay
             PROVE  SInv'
  OBVIOUS
<1> DEFINE o == Head(loading)
<1>1. /\ order_pc = "replay" /\ order_pc' = "redis"
      /\ loading' = Tail(loading) /\ todo = << >>
      /\ order_number' = order_number /\ cid_ip_map' = cid_ip_map /\ order' = order
      /\ details' = details /\ active' = active /\ executed' = executed /\ c2ip' = c2ip
      /\ acked' = acked /\ misread' = misread
      /\ crashes' = crashes /\ errors' = errors
  BY DEF Replay, Match, redis, budget, SInv, InHand
<1>2. /\ loading \in Seq(Resting) /\ loading # << >>
      /\ \A i \in 1..Len(loading) :
           loading[i] \in Accepted /\ loading[i].oid \in DOMAIN details
  BY <1>1 DEF SInv, TypeOK, InHand
<1>3. /\ o \in Resting /\ o = loading[1] /\ 1 \in 1..Len(loading)
      /\ loading' \in Seq(Resting)
      /\ \A i \in 1..Len(loading') : loading'[i] = loading[i + 1] /\ i + 1 \in 1..Len(loading)
  BY <1>1, <1>2, HeadTailProperties, EmptySeq, LenProperties
<1>4. o \in Order /\ o.symbol \in Symbol /\ Normalize(o) = o
  BY <1>3, NormalizeOrder DEF Resting
<1>5. Match(o, TRUE)
  BY <1>4 DEF Replay
<1> HIDE DEF o
<1>6. /\ book' \in Book /\ todo' \in Seq(Command)
      /\ trades' \in Seq(Resting \X Resting)
      /\ InPlace' /\ NoCrossedBook'
      /\ \A q \in Queue : \A i \in 1..Len(book'[q]) : book'[q][i].oid \in 1..Len(acked)
      /\ TodoSound' /\ BookWritten' /\ ExecutedTraded'
  BY <1>1, <1>2, <1>3, <1>4, <1>5, MatchSound
<1>7. TypeOK'
  BY <1>1, <1>3, <1>6 DEF SInv, TypeOK, Pc, IsPartialFunction, Book
<1>8. InHand'
  <2>1. \A i \in 1..Len(loading') :
          loading'[i] \in Accepted' /\ loading'[i].oid \in DOMAIN details'
    BY <1>1, <1>2, <1>3 DEF Accepted
  <2> QED
    BY <1>1, <2>1 DEF InHand
<1>9. NumbersAcked'
  BY <1>1, <1>6 DEF SInv, NumbersAcked
<1> QED
  BY <1>1, <1>6, <1>7, <1>8, <1>9, Frame DEF SInv

\* MatchTrade: the order just acknowledged is handled.
LEMMA MatchTradeStep == SInv /\ MatchTrade => SInv'
<1> SUFFICES ASSUME SInv, MatchTrade
             PROVE  SInv'
  OBVIOUS
<1> DEFINE o == Normalize(order)
<1>1. /\ order_pc = "match" /\ order_pc' = "redis"
      /\ loading' = loading /\ loading = << >> /\ todo = << >> /\ order' = NULL
      /\ order_number' = order_number /\ cid_ip_map' = cid_ip_map
      /\ details' = details /\ active' = active /\ executed' = executed /\ c2ip' = c2ip
      /\ acked' = acked /\ misread' = misread
      /\ crashes' = crashes /\ errors' = errors
  BY DEF MatchTrade, Match, redis, budget, SInv, InHand
<1>2. /\ order \in Order
      /\ order.operation \in Side => Normalize(order) \in Accepted
  BY <1>1 DEF SInv, InHand
<1>3. /\ o \in Order /\ o.symbol \in Symbol
      /\ o.operation \in Side => o \in Accepted
  BY <1>2, NormalizeOrder
<1>4. Match(o, FALSE)
  BY DEF MatchTrade
<1> HIDE DEF o
<1>5. /\ book' \in Book /\ todo' \in Seq(Command)
      /\ trades' \in Seq(Resting \X Resting)
      /\ InPlace' /\ NoCrossedBook'
      /\ \A q \in Queue : \A i \in 1..Len(book'[q]) : book'[q][i].oid \in 1..Len(acked)
      /\ TodoSound' /\ BookWritten' /\ ExecutedTraded'
  BY <1>1, <1>3, <1>4, MatchSound
<1>6. TypeOK'
  BY <1>1, <1>5 DEF SInv, TypeOK, Pc, IsPartialFunction, Book
<1>7. InHand'
  BY <1>1, EmptySeq DEF InHand
<1>8. NumbersAcked'
  BY <1>1, <1>5 DEF SInv, NumbersAcked
<1> QED
  BY <1>1, <1>5, <1>6, <1>7, <1>8, Frame DEF SInv

\* Accept: the order has the next number, which no acknowledged order has yet.
LEMMA AcceptStep ==
  ASSUME SInv, NEW r \in Request, NEW ip \in Ip, Accept(r, ip)
  PROVE  SInv'
<1>1. /\ order_pc = "accept" /\ order_pc' = "reply" /\ Len(acked) < MaxOrders
      /\ order_number' = order_number + 1 /\ order' = Numbered(r, order_number + 1)
      /\ book' = book /\ loading' = loading /\ todo' = todo
      /\ details' = details /\ active' = active /\ executed' = executed
      /\ acked' = acked /\ trades' = trades /\ misread' = misread
      /\ crashes' = crashes
      /\ todo = << >> /\ loading = << >>
  BY DEF Accept, history, SInv, InHand
<1>2. order_number \in Nat /\ errors \in 0..MaxErrors /\ MaxErrors \in Nat
  BY BoundsAssumption DEF SInv, TypeOK
<1>3. order' \in Order /\ order'.oid = order_number'
  BY <1>1, <1>2 DEF Numbered, Request, Order
<1>4. /\ IsPartialFunction(cid_ip_map', Cid, Ip)
      /\ IsPartialFunction(c2ip', Cid, Ip)
      /\ errors' \in 0..MaxErrors
      /\ errors' = 0 => errors = 0
  <2>1. r.cid \in Cid
    BY DEF Request
  <2>2. ASSUME NEW m, IsPartialFunction(m, Cid, Ip)
        PROVE  IsPartialFunction(Put(m, r.cid, ip), Cid, Ip)
    BY <2>1, <2>2 DEF Put, IsPartialFunction
  <2>3. IsPartialFunction(cid_ip_map, Cid, Ip) /\ IsPartialFunction(c2ip, Cid, Ip)
    BY DEF SInv, TypeOK
  <2> QED
    BY <1>2, <2>2, <2>3 DEF Accept, UpdateCidIp
<1>5. TypeOK'
  BY <1>1, <1>3, <1>4 DEF SInv, TypeOK, Pc
<1>6. InHand'
  <2>1. Len(loading') = 0
    BY <1>1, EmptySeq
  <2> QED
    BY <1>1, <1>3, <2>1 DEF InHand
<1>7. NumbersAcked'
  <2>1. Len(acked) \in Nat
    BY LenProperties DEF SInv, TypeOK
  <2> QED
    BY <1>1, <1>2, <2>1 DEF SInv, NumbersAcked
<1>8. TodoSound'
  BY <1>1, EmptySeq DEF TodoSound
<1>9. BookWritten' /\ ExecutedHaveDetails'
  BY <1>1, <1>4 DEF SInv, BookWritten, ExecutedHaveDetails
<1>10. MisreadCounted'
  BY <1>1, <1>4, Frame
<1> QED
  BY <1>1, <1>5, <1>6, <1>7, <1>8, <1>9, <1>10, Frame DEF SInv

\* Reply: the order in hand is an accepted one from now on.
LEMMA ReplyStep == SInv /\ Reply => SInv'
<1> SUFFICES ASSUME SInv, Reply
             PROVE  SInv'
  OBVIOUS
<1>1. /\ order_pc = "reply" /\ order_pc' = "match" /\ acked' = Append(acked, order)
      /\ order_number' = order_number /\ book' = book /\ cid_ip_map' = cid_ip_map
      /\ order' = order /\ loading' = loading /\ todo' = todo
      /\ details' = details /\ active' = active /\ executed' = executed /\ c2ip' = c2ip
      /\ trades' = trades /\ misread' = misread
      /\ crashes' = crashes /\ errors' = errors
      /\ todo = << >> /\ loading = << >>
  BY DEF Reply, memory, redis, budget, SInv, InHand
<1>2. acked \in Seq(Order) /\ order \in Order /\ order.oid = order_number
  BY <1>1 DEF SInv, TypeOK, InHand
<1>3. /\ Len(acked) \in Nat /\ acked' \in Seq(Order) /\ Len(acked') = Len(acked) + 1
      /\ \A i \in 1..Len(acked) : acked'[i] = acked[i]
      /\ acked'[Len(acked) + 1] = order
  BY <1>1, <1>2, AppendProperties, LenProperties
<1>4. /\ Accepted \subseteq Accepted'
      /\ order.operation \in Side => Normalize(order) \in Accepted'
  BY <1>1, <1>2, AcceptedAppend
<1>5. TypeOK'
  BY <1>1, <1>3 DEF SInv, TypeOK, Pc, IsPartialFunction
<1>6. StoreSound' /\ ActiveHaveDetails'
  BY <1>1, <1>4 DEF SInv, StoreSound, ActiveHaveDetails
<1>7. InHand'
  BY <1>1, <1>2, <1>4, EmptySeq DEF InHand
<1>8. NumbersAcked'
  <2>1. MaxOrders \in Nat /\ order_number \in 1..(Len(acked) + 1) /\ Len(acked) < MaxOrders
    BY <1>1, BoundsAssumption DEF SInv, NumbersAcked
  <2>2. \A i \in 1..Len(acked') : i \in 1..Len(acked) \/ i = Len(acked) + 1
    BY <1>3
  <2>3. \A i \in 1..Len(acked') : acked'[i].oid \in 1..Len(acked')
    BY <1>2, <1>3, <2>1, <2>2 DEF SInv, NumbersAcked
  <2>4. \A q \in Queue : \A i \in 1..Len(book'[q]) : book'[q][i].oid \in 1..Len(acked')
    BY <1>1, <1>3 DEF SInv, NumbersAcked
  <2> QED
    BY <1>1, <1>3, <2>1, <2>3, <2>4 DEF NumbersAcked
<1>9. TodoSound'
  BY <1>1, EmptySeq DEF TodoSound
<1> QED
  BY <1>1, <1>5, <1>6, <1>7, <1>8, <1>9, Frame DEF SInv

\* A command is what comes first in the plan; the rest of the plan stays sound.
LEMMA TailOfTodo ==
  ASSUME todo \in Seq(Command), todo # << >>
  PROVE  /\ Head(todo) = todo[1] /\ todo[1] \in Command /\ 1 \in 1..Len(todo)
         /\ Tail(todo) \in Seq(Command)
         /\ Len(todo) \in Nat /\ Len(Tail(todo)) = Len(todo) - 1
         /\ \A i \in 1..Len(Tail(todo)) :
              Tail(todo)[i] = todo[i + 1] /\ i + 1 \in 1..Len(todo)
         /\ \A j \in 1..Len(todo) : j # 1 =>
              j - 1 \in 1..Len(Tail(todo)) /\ Tail(todo)[j - 1] = todo[j]
<1>1. Len(todo) \in Nat /\ Len(todo) # 0
  BY EmptySeq, LenProperties
<1>2. /\ Head(todo) \in Command /\ Tail(todo) \in Seq(Command)
      /\ Len(Tail(todo)) = Len(todo) - 1
      /\ \A i \in 1..Len(Tail(todo)) : Tail(todo)[i] = todo[i + 1]
  BY HeadTailProperties
<1>3. Head(todo) = todo[1]
  BY HeadTailProperties
<1>4. \A j \in 1..Len(todo) : j # 1 =>
        j - 1 \in 1..Len(Tail(todo)) /\ (j - 1) + 1 = j
  BY <1>1, <1>2
<1> QED
  BY <1>1, <1>2, <1>3, <1>4

\* RedisCommand: what the command writes is what the rest of the plan counts on.
LEMMA RedisCommandStep == SInv /\ RedisCommand => SInv'
<1> SUFFICES ASSUME SInv, RedisCommand
             PROVE  SInv'
  OBVIOUS
<1> DEFINE c == todo[1]
<1>1. /\ order_pc = "redis" /\ order_pc' = order_pc /\ todo # << >>
      /\ order_number' = order_number /\ book' = book /\ cid_ip_map' = cid_ip_map
      /\ order' = order /\ loading' = loading /\ todo' = Tail(todo)
      /\ c2ip' = c2ip /\ acked' = acked /\ trades' = trades /\ misread' = misread
      /\ crashes' = crashes /\ errors' = errors
  BY DEF RedisCommand, Perform, history, budget
<1>2. /\ c = Head(todo) /\ c \in Command /\ 1 \in 1..Len(todo)
      /\ todo' \in Seq(Command)
      /\ \A i \in 1..Len(todo') : todo'[i] = todo[i + 1] /\ i + 1 \in 1..Len(todo)
      /\ \A j \in 1..Len(todo) : j # 1 =>
           j - 1 \in 1..Len(todo') /\ todo'[j - 1] = todo[j]
  BY <1>1, TailOfTodo DEF SInv, TypeOK
<1>3. /\ Len(acked) \in Nat /\ Len(todo') \in Nat /\ Len(todo) \in Nat
      /\ Accepted' = Accepted /\ Traded' = Traded
  BY <1>1, <1>2, LenProperties DEF SInv, TypeOK, Accepted, Traded
<1>4. /\ c.order \in Order /\ c.order.oid \in Nat /\ c.order.oid \in 1..Len(acked)
      /\ c.cmd = "details" => c.order \in Accepted /\ c.order \in Resting
      /\ c.cmd = "activate" => c.order.oid \in DOMAIN details
      /\ c.cmd = "execute" =>
           /\ \E t \in Traded : t.oid = c.order.oid
           /\ errors = 0 => c.order.oid \in DOMAIN details
  <2>1. c.order \in Order /\ c.order.oid \in Nat
    BY <1>2 DEF Command, Order
  <2>2. Written(1, TRUE) \/ Written(1, FALSE) => c.order.oid \in DOMAIN details
    BY DEF Written
  <2> QED
    BY <1>2, <2>1, <2>2, AcceptedOrders DEF SInv, TodoSound
<1>5. /\ details' = IF c.cmd = "details" THEN Put(details, c.order.oid, c.order) ELSE details
      /\ active' = IF c.cmd = "activate" THEN HSet(active, c.order.oid)
                   ELSE IF c.cmd = "deactivate" THEN HDel(active, c.order.oid)
                   ELSE active
      /\ executed' = IF c.cmd = "execute" THEN HSet(executed, c.order.oid) ELSE executed
  BY <1>2 DEF RedisCommand, Perform
<1> HIDE DEF c
<1>6. /\ DOMAIN details' = DOMAIN details
                            \cup (IF c.cmd = "details" THEN {c.order.oid} ELSE {})
      /\ \A oid \in DOMAIN details' :
           \/ oid \in DOMAIN details /\ details'[oid] = details[oid]
           \/ c.cmd = "details" /\ oid = c.order.oid /\ details'[oid] = c.order
      /\ IsPartialFunction(details', Nat, Resting)
  <2>1. IsPartialFunction(details, Nat, Resting)
    BY DEF SInv, TypeOK
  <2>2. CASE c.cmd # "details"
    BY <1>5, <2>1, <2>2
  <2>3. CASE c.cmd = "details"
    <3>1. details' = Put(details, c.order.oid, c.order)
      BY <1>5, <2>3
    <3>2. /\ DOMAIN details' = DOMAIN details \cup {c.order.oid}
          /\ details'[c.order.oid] = c.order
          /\ \A oid \in DOMAIN details : oid # c.order.oid => details'[oid] = details[oid]
          /\ details' = [oid \in DOMAIN details' |-> details'[oid]]
      BY <3>1 DEF Put
    <3>3. /\ DOMAIN details \subseteq Nat
          /\ \A oid \in DOMAIN details : details[oid] \in Resting
      BY <2>1 DEF IsPartialFunction
    <3>4. IsPartialFunction(details', Nat, Resting)
      BY <1>4, <2>3, <3>2, <3>3 DEF IsPartialFunction
    <3> QED
      BY <2>3, <3>2, <3>4
  <2> QED
    BY <2>2, <2>3
<1>7. /\ active' \in Hash(Nat) /\ FieldsOnce(active')
      /\ Fields(active') \subseteq Fields(active)
                                \cup (IF c.cmd = "activate" THEN {c.order.oid} ELSE {})
  <2>1. active \in Hash(Nat) /\ FieldsOnce(active)
    BY DEF SInv, TypeOK, StoreSound
  <2> QED
    BY <1>4, <1>5, <2>1, HSetFields, HDelFields
<1>8. /\ executed' \in Hash(Nat)
      /\ Fields(executed') \subseteq Fields(executed)
                                \cup (IF c.cmd = "execute" THEN {c.order.oid} ELSE {})
  <2>1. executed \in Hash(Nat)
    BY DEF SInv, TypeOK
  <2> QED
    BY <1>4, <1>5, <2>1, HSetFields
<1>9. TypeOK'
  BY <1>1, <1>2, <1>6, <1>7, <1>8 DEF SInv, TypeOK
<1>10. StoreSound' /\ ActiveHaveDetails'
  BY <1>3, <1>4, <1>6, <1>7 DEF SInv, StoreSound, ActiveHaveDetails
<1>11. InHand' /\ NumbersAcked'
  BY <1>1, <1>3, <1>6 DEF SInv, InHand, NumbersAcked
<1>12. ASSUME NEW i \in 1..Len(todo'), NEW needed \in BOOLEAN, Written(i + 1, needed)
       PROVE  Written(i, needed)'
  <2>1. i \in Nat /\ i + 1 \in Nat /\ todo'[i] = todo[i + 1] /\ i + 1 \in 1..Len(todo)
    BY <1>2, <1>3
  <2>2. CASE todo[i + 1].order.oid \in DOMAIN details
    BY <1>6, <2>1, <2>2 DEF Written
  <2>3. CASE \E j \in 1..((i + 1) - 1) :
               /\ todo[j].cmd = "details" /\ todo[j].order.oid = todo[i + 1].order.oid
               /\ needed => todo[j].required
    <3>1. PICK j \in 1..i :
               /\ todo[j].cmd = "details" /\ todo[j].order.oid = todo[i + 1].order.oid
               /\ needed => todo[j].required
      BY <2>1, <2>3
    <3>2. CASE j = 1
      BY <1>6, <2>1, <3>1, <3>2 DEF Written, c
    <3>3. CASE j # 1
      <4>1. j - 1 \in 1..(i - 1) /\ todo'[j - 1] = todo[j]
        BY <1>2, <1>3, <2>1, <3>1, <3>3
      <4> QED
        BY <2>1, <3>1, <4>1 DEF Written
    <3> QED
      BY <3>2, <3>3
  <2> QED
    BY <1>12, <2>2, <2>3 DEF Written
<1>13. TodoSound'
  <2> SUFFICES ASSUME NEW i \in 1..Len(todo')
               PROVE  /\ todo'[i].order.oid \in 1..Len(acked)
                      /\ todo'[i].cmd = "details" => todo'[i].order \in Accepted
                      /\ todo'[i].cmd = "activate" => Written(i, TRUE)'
                      /\ todo'[i].cmd = "execute" =>
                           /\ \E t \in Traded : t.oid = todo'[i].order.oid
                           /\ errors = 0 => Written(i, FALSE)'
    BY <1>1, <1>3, Zenon DEF TodoSound
  <2>1. todo'[i] = todo[i + 1] /\ i + 1 \in 1..Len(todo)
    BY <1>2
  <2> QED
    BY <1>12, <2>1 DEF SInv, TodoSound
<1>14. BookWritten'
  <2> SUFFICES ASSUME errors = 0, NEW q \in Queue, NEW i \in 1..Len(book[q]),
                      book[q][i].oid \notin DOMAIN details'
               PROVE  \E j \in 1..Len(todo') :
                        todo'[j].cmd = "details" /\ todo'[j].order.oid = book[q][i].oid
    BY <1>1 DEF BookWritten
  <2>1. PICK j \in 1..Len(todo) :
          todo[j].cmd = "details" /\ todo[j].order.oid = book[q][i].oid
    BY <1>6 DEF SInv, BookWritten
  <2>2. j # 1
    BY <1>6, <2>1 DEF c
  <2>3. j - 1 \in 1..Len(todo') /\ todo'[j - 1] = todo[j]
    BY <1>2, <2>2
  <2>4. todo'[j - 1].cmd = "details" /\ todo'[j - 1].order.oid = book[q][i].oid
    BY <2>1, <2>3
  <2> QED
    BY <2>3, <2>4
<1>15. ExecutedHaveDetails' /\ ExecutedTraded'
  BY <1>1, <1>3, <1>4, <1>6, <1>8 DEF SInv, ExecutedHaveDetails, ExecutedTraded
<1> QED
  BY <1>1, <1>9, <1>10, <1>11, <1>13, <1>14, <1>15, Frame DEF SInv

\* RedisError: what an order of the plan needs is not skipped alone.
LEMMA RedisErrorStep == SInv /\ RedisError => SInv'
<1> SUFFICES ASSUME SInv, RedisError
             PROVE  SInv'
  OBVIOUS
<1> DEFINE c == todo[1]
<1>1. /\ order_pc = "redis" /\ order_pc' = order_pc /\ todo # << >>
      /\ order_number' = order_number /\ book' = book /\ cid_ip_map' = cid_ip_map
      /\ order' = order /\ loading' = loading
      /\ details' = details /\ active' = active /\ executed' = executed /\ c2ip' = c2ip
      /\ acked' = acked /\ trades' = trades /\ misread' = misread
      /\ crashes' = crashes /\ errors' = errors + 1 /\ errors < MaxErrors
  BY DEF RedisError, redis, history
<1>2. errors' \in 0..MaxErrors /\ errors' # 0
  BY <1>1, BoundsAssumption DEF SInv, TypeOK
<1>3. /\ c = Head(todo) /\ c \in Command /\ 1 \in 1..Len(todo)
      /\ Tail(todo) \in Seq(Command)
      /\ \A i \in 1..Len(Tail(todo)) :
           Tail(todo)[i] = todo[i + 1] /\ i + 1 \in 1..Len(todo)
      /\ \A j \in 1..Len(todo) : j # 1 =>
           j - 1 \in 1..Len(Tail(todo)) /\ Tail(todo)[j - 1] = todo[j]
  BY <1>1, TailOfTodo DEF SInv, TypeOK
<1>4. todo' = IF c.required THEN << >> ELSE Tail(todo)
  BY <1>3 DEF RedisError
<1>5. todo' \in Seq(Command)
  BY <1>3, <1>4, EmptySeq
<1>6. TypeOK'
  BY <1>1, <1>2, <1>5 DEF SInv, TypeOK
<1>7. InHand' /\ NumbersAcked'
  BY <1>1 DEF SInv, InHand, NumbersAcked, Accepted
<1>8. TodoSound'
  <2>1. CASE c.required
    BY <1>4, <2>1, EmptySeq DEF TodoSound
  <2>2. CASE ~c.required
    <3> SUFFICES ASSUME NEW i \in 1..Len(todo')
                 PROVE  /\ todo'[i].order.oid \in 1..Len(acked)
                        /\ todo'[i].cmd = "details" => todo'[i].order \in Accepted
                        /\ todo'[i].cmd = "activate" => Written(i, TRUE)'
                        /\ todo'[i].cmd = "execute" =>
                             \E t \in Traded : t.oid = todo'[i].order.oid
      BY <1>1, <1>2, Zenon DEF TodoSound, Accepted, Traded
    <3>1. todo'[i] = todo[i + 1] /\ i + 1 \in 1..Len(todo) /\ i \in Nat /\ Len(todo) \in Nat
      BY <1>3, <1>4, <2>2, LenProperties DEF SInv, TypeOK
    <3>2. ASSUME Written(i + 1, TRUE)
          PROVE  Written(i, TRUE)'
      <4>1. CASE todo[i + 1].order.oid \in DOMAIN details
        BY <1>1, <3>1, <4>1 DEF Written
      <4>2. ASSUME NEW j \in 1..((i + 1) - 1), todo[j].cmd = "details",
                   todo[j].order.oid = todo[i + 1].order.oid, todo[j].required
            PROVE  Written(i, TRUE)'
        <5>1. j # 1 /\ j - 1 \in 1..(i - 1) /\ todo'[j - 1] = todo[j]
          BY <1>3, <1>4, <2>2, <3>1, <4>2
        <5> QED
          BY <3>1, <4>2, <5>1 DEF Written
      <4> QED
        BY <3>2, <4>1, <4>2 DEF Written
    <3> QED
      BY <3>1, <3>2 DEF SInv, TodoSound
  <2> QED
    BY <2>1, <2>2
<1>9. BookWritten' /\ ExecutedHaveDetails'
  BY <1>2 DEF BookWritten, ExecutedHaveDetails
<1>10. MisreadCounted'
  BY <1>2 DEF MisreadCounted
<1> QED
  BY <1>1, <1>6, <1>7, <1>8, <1>9, <1>10, Frame DEF SInv

\* Return: nothing is left to be sent.
LEMMA ReturnStep == SInv /\ Return => SInv'
<1> SUFFICES ASSUME SInv, Return
             PROVE  SInv'
  OBVIOUS
<1>1. /\ order_pc = "redis" /\ order_pc' = Resume(loading) /\ todo = << >>
      /\ order_number' = order_number /\ book' = book /\ cid_ip_map' = cid_ip_map
      /\ order' = order /\ loading' = loading /\ todo' = todo
      /\ details' = details /\ active' = active /\ executed' = executed /\ c2ip' = c2ip
      /\ acked' = acked /\ trades' = trades /\ misread' = misread
      /\ crashes' = crashes /\ errors' = errors
  BY DEF Return, memory, redis, history, budget
<1>2. /\ order_pc' \in {"replay", "accept"}
      /\ order_pc' = "accept" => loading = << >>
      /\ order_pc' = "replay" => loading # << >>
  BY <1>1 DEF Resume
<1>3. TypeOK'
  BY <1>1, <1>2 DEF SInv, TypeOK, Pc
<1>4. InHand' /\ NumbersAcked'
  BY <1>1, <1>2 DEF SInv, InHand, NumbersAcked, Accepted
<1> QED
  BY <1>1, <1>3, <1>4, Frame DEF SInv

\* Stop: the store is left as it is.
LEMMA StopStep == SInv /\ Stop => SInv'
<1> SUFFICES ASSUME SInv, Stop
             PROVE  SInv'
  OBVIOUS
<1>1. /\ order_pc' = "down" /\ order_number' = 0 /\ book' = EmptyBook
      /\ cid_ip_map' = EmptyMap /\ order' = NULL /\ loading' = << >> /\ todo' = << >>
      /\ details' = details /\ active' = active /\ executed' = executed /\ c2ip' = c2ip
      /\ acked' = acked /\ trades' = trades /\ misread' = misread
      /\ crashes' = crashes + 1 /\ crashes < MaxCrashes /\ errors' = errors
  BY DEF Stop, redis, history
<1>2. \A q \in Queue : book'[q] = << >> /\ Len(book'[q]) = 0
  BY <1>1, EmptySeq DEF EmptyBook
<1>3. crashes' \in 0..MaxCrashes
  BY <1>1, BoundsAssumption DEF SInv, TypeOK
<1>4. TypeOK'
  BY <1>1, <1>3, EmptySeq
  DEF SInv, TypeOK, Pc, EmptyBook, EmptyMap, IsPartialFunction
<1>5. InPlace' /\ NoCrossedBook' /\ BookWritten'
  BY <1>2, QueueOfSymbol DEF InPlace, NoCrossedBook, InQueue, BookWritten
<1>6. InHand' /\ NumbersAcked' /\ TodoSound'
  <2>1. Len(acked) \in Nat
    BY LenProperties DEF SInv, TypeOK
  <2> QED
    BY <1>1, <1>2, <2>1, EmptySeq DEF SInv, InHand, NumbersAcked, TodoSound
<1> QED
  BY <1>1, <1>4, <1>5, <1>6, Frame DEF SInv

\* The process does nothing.
LEMMA StutterSInv == SInv /\ UNCHANGED serverVars => SInv'
<1> SUFFICES ASSUME SInv, UNCHANGED serverVars
             PROVE  SInv'
  OBVIOUS
<1>1. /\ order_pc' = order_pc
      /\ order_number' = order_number /\ book' = book /\ cid_ip_map' = cid_ip_map
      /\ order' = order /\ loading' = loading /\ todo' = todo
      /\ details' = details /\ active' = active /\ executed' = executed /\ c2ip' = c2ip
      /\ acked' = acked /\ trades' = trades /\ misread' = misread
      /\ crashes' = crashes /\ errors' = errors
  BY DEF serverVars, memory, redis, history, budget
<1>2. TypeOK'
  BY <1>1 DEF SInv, TypeOK
<1>3. InHand' /\ NumbersAcked'
  BY <1>1 DEF SInv, InHand, NumbersAcked, Accepted
<1> QED
  BY <1>1, <1>2, <1>3, Frame DEF SInv

\* No step breaks the invariant.
LEMMA SInvStep == SInv /\ [Next]_serverVars => SInv'
  BY StartStep, StartErrorStep, ReplayStep, MatchTradeStep, AcceptStep, ReplyStep, RedisCommandStep,
     RedisErrorStep, ReturnStep, StopStep, StutterSInv
  DEF Next, ServerStep

\* The invariant holds in every state, whatever Redis answers and whenever the
\* process stops.
THEOREM SInvAlways == Spec => []SInv
  BY InitSInv, SInvStep, PTL DEF Spec

\* Every variable keeps its type.
THEOREM Types == Spec => []TypeOK
  BY SInvAlways, PTL DEF SInv

\* The restart and the market data find the details of every active order they
\* read, whatever fails and whenever the process stopped.
THEOREM ActiveAreReadable == Spec => []ActiveHaveDetails
  BY SInvAlways, PTL DEF SInv

\* The process `exec` finds the details of every executed order it reads, as
\* long as no write failed.
THEOREM ExecutedAreReadable == Spec => []ExecutedHaveDetails
  BY SInvAlways, PTL DEF SInv

\* No customer is told of an execution that did not take place.
THEOREM OnlyTradedExecuted == Spec => []ExecutedTraded
  BY SInvAlways, PTL DEF SInv

\* The book is never crossed, also after orders were read back from Redis in
\* any order.
THEOREM NeverCrossed == Spec => []NoCrossedBook
  BY SInvAlways, PTL DEF SInv
-------------------------------------------------------------------------------
\* The abstract store is built from the same operators.
LEMMA SameOperators ==
  /\ Store!EmptyMap = EmptyMap /\ Store!EmptyHash = EmptyHash
  /\ Store!Request = Request /\ Store!Side = Side
  /\ \A r, oid : Store!Normalize(Store!Numbered(r, oid)) = Normalize(Numbered(r, oid))
  /\ \A m, f, v : Store!Put(m, f, v) = Put(m, f, v)
  /\ \A h, f : Store!HSet(h, f) = HSet(h, f) /\ Store!HDel(h, f) = HDel(h, f)
<1>1. Store!EmptyMap = EmptyMap /\ Store!EmptyHash = EmptyHash
  BY Zenon DEF Store!EmptyMap, Store!EmptyHash, EmptyMap, EmptyHash
<1>2. Store!Request = Request /\ Store!Side = Side
  BY DEF Store!Request, Store!Side, Store!Operation, Store!SELL, Store!BUY,
         Store!CANCEL, Request, Side, Operation, SELL, BUY, CANCEL
<1>3. \A r, oid : Store!Normalize(Store!Numbered(r, oid)) = Normalize(Numbered(r, oid))
  BY Zenon DEF Store!Normalize, Store!Numbered, Normalize, Numbered
<1>4. \A m, f, v : Store!Put(m, f, v) = Put(m, f, v)
  BY Zenon DEF Store!Put, Put
<1>5. \A h, f : Store!HSet(h, f) = HSet(h, f) /\ Store!HDel(h, f) = HDel(h, f)
  BY Zenon DEF Store!HSet, Store!HDel, Store!Fields, HSet, HDel, Fields
<1> QED
  BY <1>1, <1>2, <1>3, <1>4, <1>5

\* Reply is where an order is accepted.
LEMMA ReplyAccepts ==
  ASSUME SInv, Reply
  PROVE  Store!StoreNext \/ UNCHANGED <<details, active, Accepted>>
<1>1. /\ acked' = Append(acked, order) /\ details' = details /\ active' = active
      /\ acked \in Seq(Order) /\ order \in Order
  BY DEF Reply, redis, SInv, TypeOK, InHand
<1>2. Accepted' = Accepted \cup (IF order.operation \in Side THEN {Normalize(order)} ELSE {})
  BY <1>1, AcceptedAppend
<1>3. CASE order.operation \notin Side
  BY <1>1, <1>2, <1>3
<1>4. CASE order.operation \in Side
  <2> DEFINE r == [cid |-> order.cid, symbol |-> order.symbol,
                   operation |-> order.operation, price |-> order.price,
                   quantity |-> order.quantity]
  <2>1. r \in Request /\ order = Numbered(r, order.oid) /\ r.operation \in Side
    BY <1>1, <1>4 DEF Order, Request, Numbered
  <2> HIDE DEF r
  <2>2. order.oid \in 1..MaxOrders
    <3>1. /\ order.oid = order_number /\ order_number \in 1..(Len(acked) + 1)
          /\ Len(acked) < MaxOrders /\ Len(acked) \in Nat
      BY <1>1, LenProperties DEF Reply, SInv, InHand, NumbersAcked
    <3> QED
      BY <3>1, BoundsAssumption
  <2>3. Store!Accept(r, order.oid)
    BY <1>1, <1>2, <1>4, <2>1, SameOperators DEF Store!Accept
  <2> QED
    BY <2>1, <2>2, <2>3, SameOperators DEF Store!StoreNext
<1> QED
  BY <1>3, <1>4

\* A command that is carried out is an operation of the abstract store.
LEMMA CommandImplements ==
  ASSUME SInv, RedisCommand
  PROVE  Store!StoreNext \/ UNCHANGED <<details, active, Accepted>>
<1> DEFINE c == todo[1]
<1>1. /\ c = Head(todo) /\ c \in Command /\ 1 \in 1..Len(todo)
      /\ acked' = acked /\ Perform(c)
  BY TailOfTodo DEF RedisCommand, history, SInv, TypeOK
<1>2. /\ Accepted' = Accepted
      /\ c.order.oid \in 1..Len(acked) /\ 1..Len(acked) \subseteq 1..MaxOrders
      /\ c.cmd = "details" => c.order \in Accepted
      /\ c.cmd = "activate" => c.order.oid \in DOMAIN details
  <2>1. Written(1, TRUE) => c.order.oid \in DOMAIN details
    BY DEF Written
  <2>2. Len(acked) \in Nat /\ Len(acked) <= MaxOrders
    BY LenProperties DEF SInv, TypeOK, NumbersAcked
  <2>3. 1..Len(acked) \subseteq 1..MaxOrders
    BY <2>2, BoundsAssumption
  <2> QED
    BY <1>1, <2>1, <2>3 DEF SInv, TodoSound, Accepted
<1>3. /\ details' = IF c.cmd = "details" THEN Put(details, c.order.oid, c.order) ELSE details
      /\ active' = IF c.cmd = "activate" THEN HSet(active, c.order.oid)
                   ELSE IF c.cmd = "deactivate" THEN HDel(active, c.order.oid)
                   ELSE active
  BY <1>1 DEF Perform
<1> HIDE DEF c
<1>4. CASE c.cmd = "details"
  BY <1>2, <1>3, <1>4, SameOperators DEF Store!StoreNext, Store!WriteDetails
<1>5. CASE c.cmd = "activate"
  BY <1>2, <1>3, <1>5, SameOperators DEF Store!StoreNext, Store!Activate
<1>6. CASE c.cmd = "deactivate"
  BY <1>2, <1>3, <1>6, SameOperators DEF Store!StoreNext, Store!Deactivate
<1>7. CASE c.cmd \notin {"details", "activate", "deactivate"}
  BY <1>2, <1>3, <1>7
<1> QED
  BY <1>4, <1>5, <1>6, <1>7

\* What the market data and the restart read is written as the abstract store
\* says: every step of the process is one of the store's or leaves it alone.
THEOREM StoreImplemented == Spec => ImplementsActiveOrders
<1>1. Init => Store!StoreInit
  <2>1. Init => Accepted = {}
    BY EmptySeq DEF Init, Accepted
  <2> QED
    BY <2>1, SameOperators DEF Init, Store!StoreInit
<1>2. SInv /\ [Next]_serverVars => [Store!StoreNext]_(Store!storeVars)
  <2> SUFFICES ASSUME SInv, [Next]_serverVars
               PROVE  Store!StoreNext \/ UNCHANGED <<details, active, Accepted>>
    BY DEF Store!storeVars
  <2>1. details' = details /\ active' = active /\ acked' = acked
          => UNCHANGED <<details, active, Accepted>>
    BY DEF Accepted
  <2>2. ASSUME NEW r \in Request, NEW ip \in Ip, Accept(r, ip)
        PROVE  UNCHANGED <<details, active, Accepted>>
    BY <2>1, <2>2 DEF Accept, history
  <2>3. CASE Start
    BY <2>1, <2>3 DEF Start, redis, history
  <2>10. CASE StartError
    BY <2>1, <2>10 DEF StartError, redis
  <2>4. CASE Replay
    BY <2>1, <2>4 DEF Replay, redis
  <2>5. CASE MatchTrade
    BY <2>1, <2>5 DEF MatchTrade, redis
  <2>6. CASE RedisError
    BY <2>1, <2>6 DEF RedisError, redis, history
  <2>7. CASE Return
    BY <2>1, <2>7 DEF Return, redis, history
  <2>8. CASE Stop
    BY <2>1, <2>8 DEF Stop, redis, history
  <2>9. CASE UNCHANGED serverVars
    BY <2>1, <2>9 DEF serverVars, redis, history
  <2> QED
    BY <2>2, <2>3, <2>4, <2>5, <2>6, <2>7, <2>8, <2>9, <2>10, ReplyAccepts,
       CommandImplements
    DEF Next, ServerStep
<1> QED
  BY <1>1, <1>2, SInvAlways, PTL DEF Spec, ImplementsActiveOrders, Store!StoreSpec
-------------------------------------------------------------------------------
(* Without stops and errors: the orders of a trade are moved.              *)

\* Nothing was traded at first.
LEMMA InitSettled == Init => Settled
<1>1. Init => Traded = {} /\ Len(acked) = 0 /\ Fields(active) = {}
  BY EmptySeq, EmptyHashFields DEF Init, Traded
<1> QED
  BY <1>1 DEF Init, Settled

\* A step that touches neither Redis nor the plan, and makes no trade.
LEMMA SettledFrame ==
  ASSUME SInv, Settled,
         UNCHANGED <<todo, active, executed, trades>>,
         crashes' = 0 /\ errors' = 0 => crashes = 0 /\ errors = 0,
         crashes' = 0 /\ errors' = 0 =>
           /\ loading' = << >> /\ order_pc' \notin {"replay", "down"}
           /\ order_number' = Len(acked') + (IF order_pc' = "reply" THEN 1 ELSE 0)
           /\ Len(acked) <= Len(acked') /\ Len(acked') \in Nat
           /\ order_pc' = "match" =>
                /\ Len(acked) < order_number'
                /\ book' = book
  PROVE  Settled'
<1> SUFFICES ASSUME crashes' = 0, errors' = 0
             PROVE  Settled'
  BY DEF Settled
<1>1. /\ loading' = << >> /\ order_pc' \notin {"replay", "down"}
      /\ order_number' = Len(acked') + (IF order_pc' = "reply" THEN 1 ELSE 0)
      /\ Len(acked) <= Len(acked') /\ Len(acked') \in Nat /\ Len(acked) \in Nat
      /\ order_pc' = "match" => Len(acked) < order_number' /\ book' = book
      /\ Traded' = Traded
  BY LenProperties DEF SInv, TypeOK, Traded
<1>2. order_pc' = "match" =>
        \A q \in Queue : \A i \in 1..Len(book'[q]) : book'[q][i].oid < order_number'
  BY <1>1 DEF SInv, NumbersAcked
<1>3. ASSUME NEW t \in Traded
      PROVE  /\ t.oid \in 1..Len(acked')
             /\ order_pc' = "match" => t.oid < order_number'
             /\ \/ t.oid \in Fields(executed')
                \/ \E j \in 1..Len(todo') :
                     todo'[j].cmd = "execute" /\ todo'[j].order.oid = t.oid
             /\ \/ t.oid \notin Fields(active')
                \/ \E j \in 1..Len(todo') :
                     todo'[j].cmd = "deactivate" /\ todo'[j].order.oid = t.oid
             /\ \A j \in 1..Len(todo') :
                  todo'[j].cmd = "activate" => todo'[j].order.oid # t.oid
  <2>1. t.oid \in 1..Len(acked)
    BY DEF Settled
  <2>2. t.oid \in 1..Len(acked') /\ (order_pc' = "match" => t.oid < order_number')
    BY <1>1, <2>1
  <2> QED
    BY <2>2 DEF Settled
<1> QED
  BY <1>1, <1>2, <1>3, Zenon DEF Settled

\* MatchTrade: the two orders of a trade are to be moved; an order that is to
\* become active has not traded.
LEMMA MatchTradeSettled == SInv /\ Settled /\ MatchTrade => Settled'
<1> SUFFICES ASSUME SInv, Settled, MatchTrade, crashes' = 0, errors' = 0
             PROVE  Settled'
  BY DEF Settled
<1> DEFINE o == Normalize(order)
<1>1. /\ order_pc = "match" /\ order_pc' = "redis"
      /\ loading' = loading /\ loading = << >> /\ todo = << >> /\ Len(todo) = 0
      /\ order_number' = order_number /\ active' = active /\ executed' = executed
      /\ acked' = acked /\ crashes = 0 /\ errors = 0
      /\ book' = Rest(book, o)
      /\ trades' = IF IsMatched(book, o)
                     THEN Append(trades, Trade(book, o)) ELSE trades
      /\ todo' = Commands(book, o, FALSE)
  BY EmptySeq DEF MatchTrade, Match, redis, budget, SInv, InHand
<1>2. /\ o \in Order /\ o.oid = order_number /\ order_number = Len(acked)
      /\ o.operation \in Side => o \in Resting
      /\ Len(acked) \in Nat /\ o.oid \in 1..Len(acked)
  <2>1. /\ order \in Order /\ order.oid = order_number /\ order_number \in 1..Len(acked)
        /\ order_number = Len(acked) + 0 /\ Len(acked) \in Nat
    BY <1>1, LenProperties DEF SInv, TypeOK, InHand, NumbersAcked, Settled
  <2> QED
    BY <2>1, NormalizeOrder
<1> HIDE DEF o
<1>3. /\ \A t \in Traded :
           /\ t.oid \in 1..Len(acked) /\ t.oid < order_number
           /\ t.oid \in Fields(executed) /\ t.oid \notin Fields(active)
      /\ order_pc' # "match" /\ order_pc' # "reply" /\ order_pc' # "down" /\ order_pc' # "replay"
  BY <1>1 DEF Settled
<1>4. SUFFICES
        \A t \in Traded' :
          /\ t.oid \in 1..Len(acked)
          /\ \/ t.oid \in Fields(executed)
             \/ \E j \in 1..Len(todo') :
                  todo'[j].cmd = "execute" /\ todo'[j].order.oid = t.oid
          /\ \/ t.oid \notin Fields(active)
             \/ \E j \in 1..Len(todo') :
                  todo'[j].cmd = "deactivate" /\ todo'[j].order.oid = t.oid
          /\ \A j \in 1..Len(todo') :
               todo'[j].cmd = "activate" => todo'[j].order.oid # t.oid
  <2>1. order_number' = Len(acked') + (IF order_pc' = "reply" THEN 1 ELSE 0)
    BY <1>1, <1>2
  <2>2. loading' = << >> /\ order_pc' = "redis"
    BY <1>1
  <2> QED
    BY <1>1, <2>1, <2>2, ZenonT(30) DEF Settled
<1>5. CASE ~IsMatched(book, o)
  <2>1. Traded' = Traded
    BY <1>1, <1>5 DEF Traded
  <2>2. \A j \in 1..Len(todo') : todo'[j].order.oid = order_number
    <3>1. CASE o.operation \in Side
      BY <1>1, <1>2, <1>5, <3>1, AddPlan DEF Commands
    <3>2. CASE o.operation \notin Side
      BY <1>1, <1>5, <3>2, EmptySeq DEF Commands
    <3> QED
      BY <3>1, <3>2
  <2> QED
    BY <1>2, <1>3, <2>1, <2>2
<1>6. CASE IsMatched(book, o)
  <2> DEFINE away == book[Opposite(o)]
             i    == FirstHit(o, away)
             m    == Adjusted(o, away[i])
  <2>1. o \in Resting /\ Opposite(o) \in Queue /\ book \in Book
    BY <1>2, <1>6, QueuesOfOrder DEF IsMatched, SInv, TypeOK, Book
  <2>2. i \in 1..Len(away) /\ Trade(book, o) = <<o, m>> /\ m \in Resting
    BY <1>6, <2>1, RestOnTrade
  <2>3. away[i] \in Resting /\ m.oid = away[i].oid /\ m.oid \in 1..Len(acked)
    <3>1. away[i] \in Resting /\ away[i].oid \in 1..Len(acked)
      BY <2>1, <2>2, ElementOfSeq DEF SInv, NumbersAcked, Book
    <3> QED
      BY <3>1 DEF Adjusted, Resting, Order
  <2> HIDE DEF m, i, away
  <2>4. Traded' = Traded \cup {o, m}
    <3>1. <<o, m>> \in Resting \X Resting /\ <<o, m>>[1] = o /\ <<o, m>>[2] = m
      BY <2>1, <2>2
    <3> QED
      BY <1>1, <1>6, <2>2, <3>1, TradedAppend DEF SInv, TypeOK
  <2>5. todo' = ExecuteCommands(o, m)
    BY <1>1, <1>6, <2>2 DEF Commands
  <2>6. /\ Len(todo') = 5
        /\ todo'[1].cmd = "details"
        /\ todo'[2].cmd = "execute" /\ todo'[2].order = o
        /\ todo'[3].cmd = "deactivate" /\ todo'[3].order = o
        /\ todo'[4].cmd = "execute" /\ todo'[4].order = m
        /\ todo'[5].cmd = "deactivate" /\ todo'[5].order = m
    <3>1. m \in Order /\ o \in Order
      BY <2>1, <2>2 DEF Resting
    <3> QED
      BY <2>5, <3>1, ExecutePlan
  <2>7. \A j \in 1..Len(todo') : todo'[j].cmd # "activate"
    <3>1. \A j \in 1..5 : j = 1 \/ j = 2 \/ j = 3 \/ j = 4 \/ j = 5
      OBVIOUS
    <3> QED
      BY <2>6, <3>1
  <2> QED
    BY <1>2, <1>3, <2>3, <2>4, <2>6, <2>7
<1> QED
  BY <1>5, <1>6

\* RedisCommand: what a command was to do is done.
LEMMA RedisCommandSettled == SInv /\ Settled /\ RedisCommand => Settled'
<1> SUFFICES ASSUME SInv, Settled, RedisCommand, crashes' = 0, errors' = 0
             PROVE  Settled'
  BY DEF Settled
<1> DEFINE c == todo[1]
<1>1. /\ order_pc = "redis" /\ order_pc' = order_pc /\ todo # << >>
      /\ loading' = loading /\ book' = book
      /\ order_number' = order_number /\ todo' = Tail(todo)
      /\ acked' = acked /\ trades' = trades /\ Traded' = Traded
      /\ crashes = 0 /\ errors = 0
  BY DEF RedisCommand, Perform, history, budget, Traded
<1>2. /\ c = Head(todo) /\ c \in Command /\ 1 \in 1..Len(todo)
      /\ \A j \in 1..Len(todo') : todo'[j] = todo[j + 1] /\ j + 1 \in 1..Len(todo)
      /\ \A j \in 1..Len(todo) : j # 1 =>
           j - 1 \in 1..Len(todo') /\ todo'[j - 1] = todo[j]
  BY <1>1, TailOfTodo DEF SInv, TypeOK
<1>3. /\ active' = IF c.cmd = "activate" THEN HSet(active, c.order.oid)
                   ELSE IF c.cmd = "deactivate" THEN HDel(active, c.order.oid)
                   ELSE active
      /\ executed' = IF c.cmd = "execute" THEN HSet(executed, c.order.oid) ELSE executed
  BY <1>2 DEF RedisCommand, Perform
<1>4. /\ active \in Hash(Nat) /\ executed \in Hash(Nat) /\ FieldsOnce(active)
      /\ c.order.oid \in Nat
  BY <1>2 DEF SInv, TypeOK, StoreSound, Command, Order
<1>5. /\ Fields(active') = IF c.cmd = "activate" THEN Fields(active) \cup {c.order.oid}
                           ELSE IF c.cmd = "deactivate" THEN Fields(active) \ {c.order.oid}
                           ELSE Fields(active)
      /\ Fields(executed') = IF c.cmd = "execute" THEN Fields(executed) \cup {c.order.oid}
                             ELSE Fields(executed)
  <2> HIDE DEF c
  <2>1. /\ Fields(HSet(active, c.order.oid)) = Fields(active) \cup {c.order.oid}
        /\ Fields(HDel(active, c.order.oid)) = Fields(active) \ {c.order.oid}
        /\ Fields(HSet(executed, c.order.oid)) = Fields(executed) \cup {c.order.oid}
    BY <1>4, HSetFields, HDelFields
  <2> QED
    BY <1>3, <2>1
<1>6. ASSUME NEW t \in Traded
      PROVE  /\ \/ t.oid \in Fields(executed')
                \/ \E j \in 1..Len(todo') :
                     todo'[j].cmd = "execute" /\ todo'[j].order.oid = t.oid
             /\ \/ t.oid \notin Fields(active')
                \/ \E j \in 1..Len(todo') :
                     todo'[j].cmd = "deactivate" /\ todo'[j].order.oid = t.oid
             /\ \A j \in 1..Len(todo') :
                  todo'[j].cmd = "activate" => todo'[j].order.oid # t.oid
  <2>1. \A j \in 1..Len(todo) : todo[j].cmd = "activate" => todo[j].order.oid # t.oid
    BY <1>1 DEF Settled
  <2>2. \/ t.oid \in Fields(executed')
        \/ \E j \in 1..Len(todo') :
             todo'[j].cmd = "execute" /\ todo'[j].order.oid = t.oid
    <3>1. CASE t.oid \in Fields(executed)
      BY <1>5, <3>1
    <3>2. ASSUME NEW j \in 1..Len(todo), todo[j].cmd = "execute", todo[j].order.oid = t.oid
          PROVE  \/ t.oid \in Fields(executed')
                 \/ \E k \in 1..Len(todo') :
                      todo'[k].cmd = "execute" /\ todo'[k].order.oid = t.oid
      <4>1. CASE j = 1
        BY <1>5, <3>2, <4>1
      <4>2. CASE j # 1
        BY <1>2, <3>2, <4>2
      <4> QED
        BY <4>1, <4>2
    <3> QED
      BY <1>1, <3>1, <3>2 DEF Settled
  <2>3. \/ t.oid \notin Fields(active')
        \/ \E j \in 1..Len(todo') :
             todo'[j].cmd = "deactivate" /\ todo'[j].order.oid = t.oid
    <3>1. CASE t.oid \notin Fields(active)
      BY <1>2, <1>5, <2>1, <3>1
    <3>2. ASSUME NEW j \in 1..Len(todo), todo[j].cmd = "deactivate", todo[j].order.oid = t.oid
          PROVE  \/ t.oid \notin Fields(active')
                 \/ \E k \in 1..Len(todo') :
                      todo'[k].cmd = "deactivate" /\ todo'[k].order.oid = t.oid
      <4>1. CASE j = 1
        BY <1>5, <3>2, <4>1
      <4>2. CASE j # 1
        BY <1>2, <3>2, <4>2
      <4> QED
        BY <4>1, <4>2
    <3> QED
      BY <1>1, <3>1, <3>2 DEF Settled
  <2>4. \A j \in 1..Len(todo') : todo'[j].cmd = "activate" => todo'[j].order.oid # t.oid
    BY <1>2, <2>1
  <2> QED
    BY <2>2, <2>3, <2>4
<1> QED
  BY <1>1, <1>6 DEF Settled

\* Trades are settled in Redis as long as the process was not stopped and no
\* command failed.
LEMMA SettledAlways == Spec => []Settled
<1>1. SInv /\ Settled /\ [Next]_serverVars => Settled'
  <2> SUFFICES ASSUME SInv, Settled, [Next]_serverVars
               PROVE  Settled'
    OBVIOUS
  <2>0. Len(acked) \in Nat /\ acked \in Seq(Order)
    BY LenProperties DEF SInv, TypeOK
  <2>1. ASSUME NEW r \in Request, NEW ip \in Ip, Accept(r, ip)
        PROVE  Settled'
    <3>1. /\ order_pc = "accept" /\ order_pc' = "reply" /\ loading' = loading
          /\ UNCHANGED <<todo, active, executed, trades, acked, crashes>>
          /\ order_number' = order_number + 1 /\ errors \in Nat /\ MaxErrors \in Nat
          /\ errors' = errors \/ errors' = errors + 1
      BY <2>1, BoundsAssumption DEF Accept, UpdateCidIp, history, SInv, TypeOK
    <3>2. crashes' = 0 /\ errors' = 0 => crashes = 0 /\ errors = 0
      BY <3>1
    <3>3. crashes = 0 /\ errors = 0 => loading = << >> /\ order_number = Len(acked) + 0
      BY <3>1 DEF Settled
    <3> QED
      BY <2>0, <3>1, <3>2, <3>3, SettledFrame
  <2>2. CASE Start
    <3> SUFFICES ASSUME crashes' = 0, errors' = 0
                 PROVE  Settled'
      BY DEF Settled
    <3>1. PICK keys \in HKeys(active) :
            /\ order_pc = "down"
            /\ loading' = [i \in 1..Len(keys) |-> details[keys[i]]]
            /\ order_number' = LastNumber(keys)
            /\ order_pc' = Resume(loading')
            /\ UNCHANGED <<todo, redis, history, budget>>
      BY <2>2 DEF Start
    <3>2. /\ UNCHANGED <<todo, active, executed, trades, acked, crashes, errors>>
          /\ crashes = 0 /\ errors = 0 /\ acked = << >> /\ Fields(active) = {}
      BY <3>1 DEF redis, history, budget, Settled
    <3>3. keys \in Seq(Nat) /\ \A i \in 1..Len(keys) : keys[i] \in Fields(active)
      BY HKeysFields DEF SInv, TypeOK
    <3>4. keys = << >>
      <4>1. Len(keys) \in Nat /\ (Len(keys) # 0 => 1 \in 1..Len(keys))
        BY <3>3, LenProperties
      <4> QED
        BY <3>2, <3>3, <4>1, EmptySeq
    <3>5. loading' = << >> /\ order_number' = 0 /\ Len(acked') = 0
      BY <3>1, <3>2, <3>4, EmptySeq DEF LastNumber
    <3>6. order_pc' = "accept"
      BY <3>1, <3>5 DEF Resume
    <3> QED
      BY <2>0, <3>2, <3>5, <3>6, SettledFrame
  <2>3. CASE Replay
    <3>1. order_pc = "replay" /\ UNCHANGED budget
      BY <2>3 DEF Replay
    <3> QED
      BY <3>1 DEF Settled, budget
  <2>4. CASE Reply
    <3>1. /\ order_pc = "reply" /\ order_pc' = "match" /\ acked' = Append(acked, order)
          /\ UNCHANGED <<todo, active, executed, trades, loading, book, order_number,
                         crashes, errors>>
      BY <2>4 DEF Reply, memory, redis, budget
    <3>2. Len(acked') = Len(acked) + 1
      BY <2>0, <3>1, AppendProperties DEF SInv, InHand
    <3>3. crashes = 0 /\ errors = 0 => loading = << >> /\ order_number = Len(acked) + 1
      BY <3>1 DEF Settled
    <3> QED
      BY <2>0, <3>1, <3>2, <3>3, SettledFrame
  <2>5. CASE RedisError
    <3>1. errors' = errors + 1 /\ errors \in Nat
      BY <2>5, BoundsAssumption DEF RedisError, SInv, TypeOK
    <3> QED
      BY <3>1 DEF Settled
  <2>9. CASE StartError
    <3>1. errors' = errors + 1 /\ errors \in Nat
      BY <2>9, BoundsAssumption DEF StartError, SInv, TypeOK
    <3> QED
      BY <3>1 DEF Settled
  <2>6. CASE Return
    <3>1. /\ order_pc = "redis" /\ order_pc' = Resume(loading)
          /\ UNCHANGED <<todo, active, executed, trades, loading, book, order_number,
                         acked, crashes, errors>>
      BY <2>6 DEF Return, memory, redis, history, budget
    <3>2. crashes = 0 /\ errors = 0 => loading = << >> /\ order_number = Len(acked) + 0
      BY <3>1 DEF Settled
    <3>3. loading = << >> => order_pc' = "accept"
      BY <3>1 DEF Resume
    <3> QED
      BY <2>0, <3>1, <3>2, <3>3, SettledFrame
  <2>7. CASE Stop
    <3>1. crashes' = crashes + 1 /\ crashes \in Nat
      BY <2>7, BoundsAssumption DEF Stop, SInv, TypeOK
    <3> QED
      BY <3>1 DEF Settled
  <2>8. CASE UNCHANGED serverVars
    BY <2>8 DEF Settled, Traded, serverVars, memory, redis, history, budget
  <2> QED
    BY <2>1, <2>2, <2>3, <2>4, <2>5, <2>6, <2>7, <2>8, <2>9,
       MatchTradeSettled, RedisCommandSettled
    DEF Next, ServerStep
<1> QED
  BY InitSettled, SInvAlways, <1>1, PTL DEF Spec

\* As long as the process was not stopped and no command failed, both orders of
\* a trade are in executed_orders and out of active_orders when the next order
\* is accepted.
THEOREM TradesMoved == Spec => []TradesInRedis
<1>1. SInv /\ Settled => TradesInRedis
  <2> SUFFICES ASSUME SInv, Settled, order_pc = "accept", crashes = 0, errors = 0,
                      NEW t \in Traded
               PROVE  t.oid \in Fields(executed) /\ t.oid \notin Fields(active)
    BY DEF TradesInRedis
  <2>1. Len(todo) = 0
    BY EmptySeq DEF SInv, InHand
  <2> QED
    BY <2>1 DEF Settled
<1> QED
  BY <1>1, SInvAlways, SettledAlways, PTL
-------------------------------------------------------------------------------
(* As long as HKEYS answers in the order of insertion: numbers keep        *)
(* increasing across restarts, and so do the queues.                       *)

\* What is sent for a trade is about the taker and the maker.
LEMMA TradePlan ==
  ASSUME NEW b \in Book, NEW o \in Resting, IsMatched(b, o),
         NEW p, p = ExecuteCommands(Trade(b, o)[1], Trade(b, o)[2])
  PROVE  \A j \in 1..Len(p) :
           /\ p[j].cmd # "activate"
           /\ p[j].cmd = "details" => p[j].order = o
           /\ \/ p[j].order = o
              \/ p[j].order.oid = b[Opposite(o)][FirstHit(o, b[Opposite(o)])].oid
<1> DEFINE away == b[Opposite(o)]
           i    == FirstHit(o, away)
           m    == Adjusted(o, away[i])
<1>1. Opposite(o) \in Queue
  BY QueuesOfOrder
<1>2. i \in 1..Len(away) /\ Trade(b, o) = <<o, m>> /\ m \in Resting
  BY RestOnTrade
<1>3. away[i] \in Resting /\ m.oid = away[i].oid /\ m \in Order /\ o \in Order
  <2>1. away[i] \in Resting
    BY <1>1, <1>2, BookEntries
  <2> QED
    BY <1>2, <2>1 DEF Adjusted, Resting, Order
<1>4. p = ExecuteCommands(o, m)
  BY <1>2
<1> HIDE DEF m
<1>5. /\ Len(p) = 5
      /\ p[1].cmd = "details" /\ p[1].order = o
      /\ p[2].cmd = "execute" /\ p[2].order = o
      /\ p[3].cmd = "deactivate" /\ p[3].order = o
      /\ p[4].cmd = "execute" /\ p[4].order = m
      /\ p[5].cmd = "deactivate" /\ p[5].order = m
  BY <1>3, <1>4, ExecutePlan
<1>6. \A j \in 1..5 : j = 1 \/ j = 2 \/ j = 3 \/ j = 4 \/ j = 5
  OBVIOUS
<1> QED
  BY <1>3, <1>5, <1>6

\* What match_trade plans to send for an order just acknowledged: only its own
\* entry becomes active, and that comes last.
LEMMA PlanOfNew ==
  ASSUME NEW b \in Book, NEW o \in Order, o.symbol \in Symbol,
         NEW p, p = IF IsMatched(b, o)
                      THEN ExecuteCommands(Trade(b, o)[1], Trade(b, o)[2])
                    ELSE IF o.operation \in Side THEN AddCommands(o) ELSE << >>
  PROVE  /\ \A j \in 1..Len(p) :
              /\ p[j].cmd = "activate" => p[j].order = o /\ j = Len(p)
              /\ p[j].cmd = "details" => p[j].order = o
              /\ p[j].cmd = "deactivate" => IsMatched(b, o)
              /\ \/ p[j].order = o
                 \/ /\ IsMatched(b, o)
                    /\ p[j].order.oid = b[Opposite(o)][FirstHit(o, b[Opposite(o)])].oid
         /\ o.operation \in Side /\ ~IsMatched(b, o) =>
              /\ Len(p) = 2
              /\ p[1].cmd = "details" /\ p[1].order = o
              /\ p[2].cmd = "activate" /\ p[2].order = o
<1>1. CASE IsMatched(b, o)
  <2>1. o \in Resting /\ p = ExecuteCommands(Trade(b, o)[1], Trade(b, o)[2])
    BY <1>1 DEF IsMatched, Resting
  <2> QED
    BY <1>1, <2>1, TradePlan
<1>2. CASE ~IsMatched(b, o) /\ o.operation \in Side
  <2>1. p = AddCommands(o)
    BY <1>2
  <2>2. /\ Len(p) = 2
        /\ p[1].cmd = "details" /\ p[1].order = o
        /\ p[2].cmd = "activate" /\ p[2].order = o
    BY <2>1, AddPlan
  <2>3. \A j \in 1..2 : j = 1 \/ j = 2
    OBVIOUS
  <2> QED
    BY <1>2, <2>2, <2>3
<1>3. CASE ~IsMatched(b, o) /\ o.operation \notin Side
  <2>1. Len(p) = 0
    BY <1>3, EmptySeq
  <2> QED
    BY <1>3, <2>1
<1> QED
  BY <1>1, <1>2, <1>3

\* The same for an order read back: nothing becomes active.
LEMMA PlanOfOld ==
  ASSUME NEW b \in Book, NEW o \in Resting,
         NEW p, p = IF IsMatched(b, o)
                      THEN ExecuteCommands(Trade(b, o)[1], Trade(b, o)[2]) ELSE << >>
  PROVE  /\ \A j \in 1..Len(p) :
              /\ p[j].cmd # "activate" /\ IsMatched(b, o)
              /\ \/ p[j].order = o
                 \/ p[j].order.oid = b[Opposite(o)][FirstHit(o, b[Opposite(o)])].oid
<1>1. CASE IsMatched(b, o)
  <2>1. p = ExecuteCommands(Trade(b, o)[1], Trade(b, o)[2])
    BY <1>1
  <2> QED
    BY <1>1, <2>1, TradePlan
<1>2. CASE ~IsMatched(b, o)
  <2>1. Len(p) = 0
    BY <1>2, EmptySeq
  <2> QED
    BY <1>2, <2>1
<1> QED
  BY <1>1, <1>2

\* The queues after match_trade of an order with a higher number than all that
\* rest; none of those that rest then is touched by what is to be sent.
LEMMA MatchOrdered ==
  ASSUME SInv, OldestFirst, RestingOnce,
         NEW o \in Order, o.operation \in Side => o \in Resting,
         \A q \in Queue : \A i \in 1..Len(book[q]) : book[q][i].oid < o.oid,
         book' = Rest(book, o)
  PROVE  /\ OldestFirst' /\ RestingOnce'
         /\ \A q \in Queue : \A i \in 1..Len(book'[q]) :
              \/ /\ \E k \in 1..Len(book[q]) : book'[q][i] = book[q][k]
                 /\ IsMatched(book, o) =>
                      book'[q][i].oid # book[Opposite(o)][FirstHit(o, book[Opposite(o)])].oid
              \/ o.operation \in Side /\ ~IsMatched(book, o) /\ book'[q][i] = o
<1>1. book \in Book /\ Ascending(book) /\ Distinct(book)
  BY DEF SInv, TypeOK, Book, OldestFirst, RestingOnce, Ascending, Distinct
<1>2. CASE o.operation \notin Side
  <2>1. book' = book /\ ~IsMatched(book, o)
    BY <1>2, RestOnCancel
  <2> QED
    BY <2>1 DEF OldestFirst, RestingOnce
<1>3. CASE o.operation \in Side
  <2>1. Ascending(Rest(book, o)) /\ Distinct(Rest(book, o))
    BY <1>1, <1>3, RestAscending, RestDistinct
  <2>2. \A q \in Queue : \A i \in 1..Len(book'[q]) :
          \/ \E k \in 1..Len(book[q]) : book'[q][i] = book[q][k]
          \/ ~IsMatched(book, o) /\ book'[q][i] = o
    BY <1>1, <1>3, RestEntries
  <2>3. IsMatched(book, o) =>
          \A q \in Queue : \A i \in 1..Len(book'[q]) :
            book'[q][i].oid # book[Opposite(o)][FirstHit(o, book[Opposite(o)])].oid
    BY <1>1, <1>3, RestWithoutMaker
  <2> QED
    <3>1. OldestFirst' /\ RestingOnce'
      BY <2>1 DEF OldestFirst, RestingOnce, Ascending, Distinct
    <3> QED
      BY <1>3, <2>2, <2>3, <3>1, Zenon
<1> QED
  BY <1>2, <1>3

\* Nothing rests and nothing is active at first.
LEMMA InitInOrder == Init => InOrder
<1> SUFFICES ASSUME Init
             PROVE  InOrder
  OBVIOUS
<1>1. /\ \A q \in Queue : book[q] = << >> /\ Len(book[q]) = 0
      /\ Len(todo) = 0 /\ Len(loading) = 0
      /\ ~active.hashtable /\ Len(active.keys) = 0
  BY EmptySeq DEF Init, EmptyBook, EmptyHash
<1> QED
  BY <1>1 DEF Init, InOrder, OldestFirst, RestingOnce

\* Start: the orders are read in the order of their numbers, and numbering goes
\* on from the last of them.
LEMMA StartInOrder == SInv /\ InOrder /\ Start => InOrder'
<1>0. SUFFICES ASSUME SInv, InOrder, NEW keys \in HKeys(active),
                    order_pc = "down",
                    loading' = [i \in 1..Len(keys) |-> details[keys[i]]],
                    order_number' = LastNumber(keys),
                    order_pc' = Resume(loading'),
                    UNCHANGED <<book, todo, redis>>
             PROVE  InOrder'
  BY DEF Start
<1>1. /\ book' = book /\ todo' = todo /\ active' = active /\ Len(todo) = 0
      /\ order_pc' \in {"replay", "accept"}
  BY <1>0, EmptySeq DEF redis, Resume, SInv, InHand
<1>2. /\ keys = active.keys /\ keys \in Seq(Nat) /\ Len(keys) \in Nat
      /\ \A i \in 1..Len(keys) : keys[i] \in Fields(active) /\ keys[i] \in Nat
      /\ \A f \in Fields(active) : \E i \in 1..Len(keys) : keys[i] = f
  <2>1. active \in Hash(Nat) /\ ~active.hashtable
    BY <1>0 DEF SInv, TypeOK, InOrder
  <2>2. keys = active.keys /\ keys \in Seq(Nat)
    BY <1>0, <2>1, HKeysFields
  <2>3. \A i \in 1..Len(keys) : keys[i] \in Nat
    BY <2>2, ElementOfSeq
  <2> QED
    BY <2>1, <2>2, <2>3, FieldsType
<1>3. /\ Len(loading') = Len(keys)
      /\ \A i \in 1..Len(loading') : loading'[i].oid = keys[i]
  <2>1. \A i \in 1..Len(keys) : details[keys[i]].oid = keys[i]
    BY <1>0, <1>2 DEF SInv, ActiveHaveDetails, StoreSound
  <2> QED
    BY <1>0, <1>2, <2>1
<1>4. \A i, j \in 1..Len(keys) : i < j => keys[i] < keys[j]
  BY <1>0, <1>2 DEF InOrder
<1>5. \A i \in 1..Len(keys) : keys[i] <= order_number'
  <2> SUFFICES ASSUME NEW i \in 1..Len(keys)
               PROVE  keys[i] <= order_number'
    OBVIOUS
  <2>1. order_number' = keys[Len(keys)] /\ Len(keys) \in 1..Len(keys)
    BY <1>0, <1>2, EmptySeq DEF LastNumber
  <2> QED
    BY <1>2, <1>4, <2>1, SMTT(30)
<1>6. \A q \in Queue : book[q] = << >> /\ Len(book[q]) = 0
  BY <1>0, EmptySeq DEF InOrder
<1>7. order_number' \in Nat
  BY <1>0, <1>2, EmptySeq DEF LastNumber
<1>8. Below(order_number + 1)'
  BY <1>1, <1>2, <1>5, <1>6, <1>7, SMTT(30) DEF Below
<1>9. OldestFirst' /\ RestingOnce'
  BY <1>1, <1>6 DEF OldestFirst, RestingOnce
<1>10. /\ ~active'.hashtable
       /\ \A i, j \in 1..Len(active'.keys) : i < j => active'.keys[i] < active'.keys[j]
  BY <1>0, <1>1 DEF InOrder
<1>11. \A i, j \in 1..Len(loading') : i < j => loading'[i].oid < loading'[j].oid
  BY <1>3, <1>4
<1>12. \A l \in 1..Len(loading') :
         /\ loading'[l].oid <= order_number'
         /\ \A q \in Queue : \A i \in 1..Len(book'[q]) : book'[q][i].oid < loading'[l].oid
  BY <1>1, <1>3, <1>5, <1>6
<1> QED
  BY <1>1, <1>8, <1>9, <1>10, <1>11, <1>12 DEF InOrder

\* Replay: the order put in the book was accepted after all that are in it.
LEMMA ReplayInOrder == SInv /\ InOrder /\ Replay => InOrder'
<1> SUFFICES ASSUME SInv, InOrder, Replay
             PROVE  InOrder'
  OBVIOUS
<1> DEFINE o == loading[1]
<1>1. /\ order_pc = "replay" /\ order_pc' = "redis" /\ loading' = Tail(loading)
      /\ order_number' = order_number /\ active' = active
      /\ loading \in Seq(Resting) /\ loading # << >>
  BY DEF Replay, Match, redis, SInv, InHand, TypeOK
<1>2. /\ o \in Resting /\ o = Head(loading) /\ 1 \in 1..Len(loading)
      /\ \A i \in 1..Len(loading') : loading'[i] = loading[i + 1] /\ i + 1 \in 1..Len(loading)
  BY <1>1, HeadTailProperties, EmptySeq, LenProperties
<1>3. o \in Order /\ Normalize(o) = o /\ o.oid \in Nat /\ order_number \in Nat
  BY <1>2, NormalizeOrder DEF Resting, Order, SInv, TypeOK
<1>4. /\ book' = Rest(book, o) /\ book \in Book
      /\ todo' = IF IsMatched(book, o)
                   THEN ExecuteCommands(Trade(book, o)[1], Trade(book, o)[2]) ELSE << >>
  BY <1>2, <1>3 DEF Replay, Match, Commands, SInv, TypeOK, Book
<1>5. /\ o.oid <= order_number
      /\ \A q \in Queue : \A i \in 1..Len(book[q]) : book[q][i].oid < o.oid
      /\ \A i \in 1..Len(loading') :
           o.oid < loading'[i].oid /\ loading'[i].oid <= order_number
      /\ \A i, j \in 1..Len(loading') : i < j => loading'[i].oid < loading'[j].oid
      /\ \A i \in 1..Len(loading') : loading'[i].oid \in Nat
  <2>1. \A i, j \in 1..Len(loading') : 1 < i + 1 /\ (i < j => i + 1 < j + 1)
    OBVIOUS
  <2>2. \A i \in 1..Len(loading) : loading[i].oid \in Nat
    BY <1>1, ElementOfSeq DEF Resting, Order
  <2> QED
    BY <1>2, <2>1, <2>2 DEF InOrder
<1> HIDE DEF o
<1>6. /\ OldestFirst' /\ RestingOnce'
      /\ \A q \in Queue : \A i \in 1..Len(book'[q]) :
           (\E k \in 1..Len(book[q]) : book'[q][i] = book[q][k]) \/ book'[q][i] = o
  BY <1>2, <1>3, <1>4, <1>5, MatchOrdered, SMTT(30) DEF InOrder
<1>7. \A q \in Queue : \A i \in 1..Len(book'[q]) :
        book'[q][i].oid \in Nat /\ book'[q][i].oid <= o.oid
  <2>1. \A q \in Queue : \A k \in 1..Len(book[q]) :
          book[q][k].oid \in Nat /\ book[q][k].oid <= o.oid
    BY <1>3, <1>4, <1>5, BookEntries
  <2>2. o.oid <= o.oid
    BY <1>3
  <2> QED
    BY <1>3, <1>6, <2>1, <2>2, Zenon
<1>8. \A j \in 1..Len(todo') : todo'[j].cmd # "activate"
  BY <1>2, <1>4, PlanOfOld
<1>9. Below(order_number + 1)'
  BY <1>1, <1>3, <1>5, <1>7 DEF InOrder, Below
<1>10. \A l \in 1..Len(loading') : \A q \in Queue : \A i \in 1..Len(book'[q]) :
         book'[q][i].oid < loading'[l].oid
  BY <1>3, <1>5, <1>7, SMTT(30)
<1> QED
  BY <1>1, <1>5, <1>6, <1>8, <1>9, <1>10 DEF InOrder

\* MatchTrade: so is the order just acknowledged.
LEMMA MatchTradeInOrder == SInv /\ InOrder /\ MatchTrade => InOrder'
<1> SUFFICES ASSUME SInv, InOrder, MatchTrade
             PROVE  InOrder'
  OBVIOUS
<1> DEFINE o == Normalize(order)
<1>1. /\ order_pc = "match" /\ order_pc' = "redis"
      /\ loading' = loading /\ Len(loading) = 0
      /\ order_number' = order_number /\ active' = active /\ order_number \in Nat
      /\ order \in Order /\ order.oid = order_number
  BY EmptySeq DEF MatchTrade, Match, redis, SInv, InHand, TypeOK
<1>2. /\ o \in Order /\ o.oid = order_number
      /\ o.operation \in Side => o \in Resting
      /\ o.symbol \in Symbol
      /\ book' = Rest(book, o) /\ book \in Book
      /\ todo' = IF IsMatched(book, o)
                   THEN ExecuteCommands(Trade(book, o)[1], Trade(book, o)[2])
                 ELSE IF o.operation \in Side THEN AddCommands(o) ELSE << >>
  BY <1>1, NormalizeOrder DEF MatchTrade, Match, Commands, SInv, TypeOK, Book
<1> HIDE DEF o
<1>3. Below(o.oid)
  BY <1>1, <1>2 DEF InOrder
<1>4. /\ OldestFirst' /\ RestingOnce'
      /\ \A q \in Queue : \A i \in 1..Len(book'[q]) :
           (\E k \in 1..Len(book[q]) : book'[q][i] = book[q][k]) \/ book'[q][i] = o
  BY <1>2, <1>3, MatchOrdered DEF InOrder, Below
<1>5. Below(order_number + 1)'
  <2>1. \A q \in Queue : \A k \in 1..Len(book[q]) : book[q][k].oid \in Nat
    BY <1>2, BookEntries
  <2>2. \A oid \in Fields(active) : oid \in Nat
    BY FieldsType DEF SInv, TypeOK
  <2> QED
    BY <1>1, <1>2, <1>3, <1>4, <2>1, <2>2, SMTT(30) DEF Below
<1>6. \A j \in 1..Len(todo') :
        todo'[j].cmd = "activate" => j = Len(todo') /\ todo'[j].order = o
  BY <1>2, PlanOfNew
<1>7. \A oid \in Fields(active) : oid < order_number
  BY <1>2, <1>3 DEF Below
<1>8. Len(loading') = 0 /\ ~active'.hashtable
  BY <1>1 DEF InOrder
<1>9. \A i, j \in 1..Len(active'.keys) : i < j => active'.keys[i] < active'.keys[j]
  BY <1>1 DEF InOrder
<1> QED
  BY <1>1, <1>2, <1>4, <1>5, <1>6, <1>7, <1>8, <1>9 DEF InOrder

\* RedisCommand: the order that becomes active is the last one, and a listpack
\* stays one.
LEMMA RedisCommandInOrder ==
  SInv /\ InOrder /\ FewActive' /\ RedisCommand => InOrder'
<1> SUFFICES ASSUME SInv, InOrder, FewActive', RedisCommand
             PROVE  InOrder'
  OBVIOUS
<1> DEFINE c   == todo[1]
           oid == c.order.oid
<1>1. /\ order_pc = "redis" /\ order_pc' = order_pc /\ todo # << >>
      /\ loading' = loading /\ book' = book
      /\ order_number' = order_number /\ todo' = Tail(todo)
      /\ order_number \in Nat
  BY DEF RedisCommand, SInv, TypeOK
<1>2. /\ c = Head(todo) /\ c \in Command /\ 1 \in 1..Len(todo)
      /\ \A j \in 1..Len(todo') : todo'[j] = todo[j + 1] /\ j + 1 \in 1..Len(todo)
  BY <1>1, TailOfTodo DEF SInv, TypeOK
<1>3. active' = IF c.cmd = "activate" THEN HSet(active, oid)
                ELSE IF c.cmd = "deactivate" THEN HDel(active, oid)
                ELSE active
  BY <1>2 DEF RedisCommand, Perform
<1>4. /\ active \in Hash(Nat) /\ FieldsOnce(active) /\ oid \in Nat /\ ~active.hashtable
      /\ \A i, j \in 1..Len(active.keys) : i < j => active.keys[i] < active.keys[j]
      /\ \A i \in 1..Len(active.keys) :
           active.keys[i] \in Fields(active) /\ active.keys[i] \in Nat
      /\ Len(active.keys) \in Nat
  BY <1>2, FieldsType DEF SInv, TypeOK, StoreSound, Command, Order, InOrder
<1>5. c.cmd = "activate" => oid = order_number /\ \A f \in Fields(active) : f < order_number
  BY <1>2 DEF InOrder
<1> HIDE DEF c, oid
<1>6. /\ ~active'.hashtable
      /\ \A i, j \in 1..Len(active'.keys) : i < j => active'.keys[i] < active'.keys[j]
      /\ Fields(active') \subseteq Fields(active)
                               \cup (IF c.cmd = "activate" THEN {order_number} ELSE {})
  <2>1. CASE c.cmd = "activate"
    <3>1. active' = HSet(active, oid) /\ oid \notin Fields(active)
      BY <1>1, <1>3, <1>5, <2>1
    <3>2. /\ Len(active'.keys) = Len(active.keys) + 1
          /\ \A i \in 1..Len(active.keys) : active'.keys[i] = active.keys[i]
          /\ active'.keys[Len(active.keys) + 1] = oid
          /\ Fields(active') = Fields(active) \cup {oid}
          /\ ~active.hashtable /\ Len(active.keys) < ListpackMax => ~active'.hashtable
      BY <1>4, <3>1, HSetFields
    <3>3. ~active'.hashtable
      BY <1>4, <3>2, ListpackAssumption DEF FewActive
    <3>4. ASSUME NEW i \in 1..Len(active'.keys), NEW j \in 1..Len(active'.keys), i < j
          PROVE  active'.keys[i] < active'.keys[j]
      <4>1. /\ i \in 1..Len(active.keys)
            /\ j \in 1..Len(active.keys) \/ j = Len(active.keys) + 1
        BY <1>4, <3>2, <3>4
      <4> QED
        BY <1>4, <1>5, <2>1, <3>2, <3>4, <4>1
    <3> QED
      BY <1>5, <2>1, <3>2, <3>3, <3>4
  <2>2. CASE c.cmd = "deactivate"
    <3>1. active' = HDel(active, oid)
      BY <1>3, <2>2
    <3>2. PICK n \in 1..(Len(active.keys) + 1) :
            \A k \in 1..Len(active'.keys) :
              /\ k < n => k \in 1..Len(active.keys) /\ active'.keys[k] = active.keys[k]
              /\ k >= n => /\ k + 1 \in 1..Len(active.keys)
                           /\ active'.keys[k] = active.keys[k + 1]
      <4>1. \E n \in 1..(Len(active.keys) + 1) :
              \A k \in 1..Len(HDel(active, oid).keys) :
                /\ k < n => /\ k \in 1..Len(active.keys)
                            /\ HDel(active, oid).keys[k] = active.keys[k]
                /\ k >= n => /\ k + 1 \in 1..Len(active.keys)
                             /\ HDel(active, oid).keys[k] = active.keys[k + 1]
        BY <1>4, HDelFields
      <4> QED
        BY <3>1, <4>1
    <3>3. ~active'.hashtable /\ Fields(active') = Fields(active) \ {oid}
      BY <1>4, <3>1, HDelFields
    <3>4. ASSUME NEW i \in 1..Len(active'.keys), NEW j \in 1..Len(active'.keys), i < j
          PROVE  active'.keys[i] < active'.keys[j]
      <4>1. i \in Int /\ j \in Int /\ n \in Int
        BY <1>4
      <4>2. CASE j < n
        <5>1. i < n
          BY <3>4, <4>1, <4>2
        <5> QED
          BY <1>4, <3>2, <3>4, <4>2, <5>1
      <4>3. CASE i < n /\ j >= n
        BY <1>4, <3>2, <3>4, <4>1, <4>3
      <4>4. CASE i >= n
        BY <1>4, <3>2, <3>4, <4>1, <4>4
      <4> QED
        BY <3>4, <4>1, <4>2, <4>3, <4>4
    <3> QED
      BY <2>2, <3>3, <3>4
  <2>3. CASE c.cmd \notin {"activate", "deactivate"}
    BY <1>3, <1>4, <2>3
  <2> QED
    BY <2>1, <2>2, <2>3
<1>7. Below(order_number + 1)'
  BY <1>1, <1>6 DEF InOrder, Below
<1>8. ASSUME NEW j \in 1..Len(todo'), todo'[j].cmd = "activate"
      PROVE  /\ todo'[j].order.oid = order_number
             /\ \A f \in Fields(active') : f < order_number
             /\ j = Len(todo')
  <2>1. todo[j + 1].cmd = "activate" /\ j + 1 \in 1..Len(todo) /\ todo'[j] = todo[j + 1]
    BY <1>2, <1>8
  <2>2. c.cmd # "activate"
    <3>1. Len(todo') # 0 /\ 1 # Len(todo)
      BY <1>1, <1>8, TailOfTodo DEF SInv, TypeOK
    <3> QED
      BY <1>2, <3>1 DEF InOrder, c
  <2>3. Len(todo) \in Nat /\ Len(todo') = Len(todo) - 1
    BY <1>1, TailOfTodo DEF SInv, TypeOK
  <2> QED
    BY <1>6, <2>1, <2>2, <2>3 DEF InOrder
<1>9. /\ \A i, j \in 1..Len(loading') : i < j => loading'[i].oid < loading'[j].oid
      /\ \A l \in 1..Len(loading') :
           /\ loading'[l].oid <= order_number'
           /\ \A q \in Queue : \A i \in 1..Len(book'[q]) : book'[q][i].oid < loading'[l].oid
  BY <1>1 DEF InOrder
<1>10. OldestFirst' /\ RestingOnce'
  BY <1>1 DEF InOrder, OldestFirst, RestingOnce
<1>11. \A j \in 1..Len(todo') : todo'[j].cmd = "activate" =>
         /\ j = Len(todo') /\ todo'[j].order.oid = order_number'
         /\ \A f \in Fields(active') : f < order_number'
  BY <1>1, <1>8
<1>12. order_pc' = "redis"
  BY <1>1
<1> QED
  BY <1>6, <1>7, <1>9, <1>10, <1>11, <1>12 DEF InOrder

\* RedisError: fewer commands are left.
LEMMA RedisErrorInOrder == SInv /\ InOrder /\ RedisError => InOrder'
<1> SUFFICES ASSUME SInv, InOrder, RedisError
             PROVE  InOrder'
  OBVIOUS
<1>1. /\ order_pc = "redis" /\ order_pc' = order_pc /\ todo # << >>
      /\ loading' = loading /\ book' = book
      /\ order_number' = order_number /\ active' = active
      /\ todo' = IF Head(todo).required THEN << >> ELSE Tail(todo)
  BY DEF RedisError, redis
<1>2. /\ Len(todo) \in Nat /\ Len(Tail(todo)) = Len(todo) - 1
      /\ \A j \in 1..Len(Tail(todo)) : Tail(todo)[j] = todo[j + 1] /\ j + 1 \in 1..Len(todo)
  BY <1>1, TailOfTodo DEF SInv, TypeOK
<1>3. \A j \in 1..Len(todo') : todo'[j].cmd = "activate" =>
        /\ j = Len(todo') /\ todo'[j].order.oid = order_number
        /\ \A f \in Fields(active) : f < order_number
  <2>1. CASE Head(todo).required
    BY <1>1, <2>1, EmptySeq
  <2>2. CASE ~Head(todo).required
    <3> SUFFICES ASSUME NEW j \in 1..Len(Tail(todo)), Tail(todo)[j].cmd = "activate"
                 PROVE  /\ j = Len(Tail(todo)) /\ Tail(todo)[j].order.oid = order_number
                        /\ \A f \in Fields(active) : f < order_number
      BY <1>1, <2>2
    <3>1. todo[j + 1].cmd = "activate" /\ j + 1 \in 1..Len(todo) /\ Tail(todo)[j] = todo[j + 1]
      BY <1>2
    <3>2. /\ j + 1 = Len(todo) /\ todo[j + 1].order.oid = order_number
          /\ \A f \in Fields(active) : f < order_number
      BY <3>1 DEF InOrder
    <3> QED
      BY <1>2, <3>1, <3>2
  <2> QED
    BY <2>1, <2>2
<1>4. Below(order_number + 1)' /\ OldestFirst' /\ RestingOnce'
  BY <1>1 DEF InOrder, Below, OldestFirst, RestingOnce
<1> QED
  BY <1>1, <1>3, <1>4 DEF InOrder

\* Accept: the new number is above all others.
LEMMA AcceptInOrder ==
  ASSUME SInv, InOrder, NEW r \in Request, NEW ip \in Ip, Accept(r, ip)
  PROVE  InOrder'
<1>1. /\ order_pc = "accept" /\ order_pc' = "reply"
      /\ order_number' = order_number + 1 /\ order_number \in Nat
      /\ book' = book /\ loading' = loading /\ todo' = todo /\ active' = active
      /\ Len(todo) = 0 /\ Len(loading) = 0
  BY EmptySeq DEF Accept, SInv, InHand, TypeOK
<1>2. /\ \A f \in Fields(active) : f \in Nat
      /\ \A q \in Queue : \A i \in 1..Len(book[q]) : book[q][i].oid \in Nat
  BY FieldsType, BookEntries DEF SInv, TypeOK, Book
<1>3. Below(order_number)' /\ Below(order_number + 1)'
  BY <1>1, <1>2 DEF InOrder, Below
<1>4. OldestFirst' /\ RestingOnce'
  BY <1>1 DEF InOrder, OldestFirst, RestingOnce
<1> QED
  BY <1>1, <1>3, <1>4 DEF InOrder

\* Reply and Return leave the orders where they are.
LEMMA WaitInOrder ==
  ASSUME SInv, InOrder,
         UNCHANGED <<book, loading, todo, active, order_number>>,
         order_pc = "down" <=> order_pc' = "down",
         order_pc' \in {"reply", "match"} => order_pc \in {"reply", "match"}
  PROVE  InOrder'
<1>1. /\ Below(order_number)' <=> Below(order_number)
      /\ Below(order_number + 1)' <=> Below(order_number + 1)
      /\ OldestFirst' <=> OldestFirst
      /\ RestingOnce' <=> RestingOnce
  BY DEF Below, OldestFirst, RestingOnce
<1> QED
  BY <1>1 DEF InOrder

\* Stop: the book is lost.
LEMMA StopInOrder == SInv /\ InOrder /\ Stop => InOrder'
<1> SUFFICES ASSUME SInv, InOrder, Stop
             PROVE  InOrder'
  OBVIOUS
<1>1. /\ order_pc' = "down" /\ active' = active /\ Len(loading') = 0 /\ Len(todo') = 0
      /\ \A q \in Queue : book'[q] = << >> /\ Len(book'[q]) = 0
  BY EmptySeq DEF Stop, redis, EmptyBook
<1>2. OldestFirst' /\ RestingOnce'
  BY <1>1 DEF OldestFirst, RestingOnce
<1> QED
  BY <1>1, <1>2 DEF InOrder

\* A start whose HVALS gets an error does nothing.
LEMMA StartErrorInOrder == SInv /\ InOrder /\ StartError /\ ~misread' => InOrder'
<1> SUFFICES ASSUME SInv, InOrder, StartError, ~misread'
             PROVE  InOrder'
  OBVIOUS
<1>1. UNCHANGED <<book, loading, todo, active, order_number, order_pc>>
  BY DEF StartError, redis
<1> QED
  BY <1>1, WaitInOrder

\* Numbers keep increasing as long as HKEYS answers, and in the order of insertion.
LEMMA InOrderStep ==
  SInv /\ InOrder /\ FewActive' /\ ~misread' /\ [Next]_serverVars => InOrder'
<1> SUFFICES ASSUME SInv, InOrder, FewActive', ~misread', [Next]_serverVars
             PROVE  InOrder'
  OBVIOUS
<1>1. CASE Reply
  BY <1>1, WaitInOrder DEF Reply, memory, redis
<1>2. CASE Return
  <2>1. /\ UNCHANGED <<book, loading, todo, active, order_number>>
        /\ order_pc = "redis" /\ order_pc' \in {"replay", "accept"}
    BY <1>2 DEF Return, memory, redis, Resume
  <2> QED
    BY <2>1, WaitInOrder
<1>3. CASE UNCHANGED serverVars
  BY <1>3, WaitInOrder DEF serverVars, memory, redis
<1> QED
  BY <1>1, <1>2, <1>3, AcceptInOrder, StartInOrder, ReplayInOrder, MatchTradeInOrder,
     RedisCommandInOrder, RedisErrorInOrder, StopInOrder, StartErrorInOrder
  DEF Next, ServerStep

\* A start that was misread is not forgotten.
LEMMA MisreadStays == SInv /\ misread /\ [Next]_serverVars => misread'
<1> SUFFICES ASSUME SInv, misread, [Next]_serverVars
             PROVE  misread'
  OBVIOUS
<1>1. UNCHANGED history => misread'
  BY DEF history
<1>2. ASSUME NEW r \in Request, NEW ip \in Ip, Accept(r, ip)
      PROVE  misread'
  BY <1>1, <1>2 DEF Accept
<1>3. CASE Start
  BY <1>1, <1>3 DEF Start
<1>4. CASE StartError
  BY <1>4 DEF StartError
<1>5. CASE Replay \/ Reply \/ MatchTrade
  BY <1>5 DEF Replay, Reply, MatchTrade
<1>6. CASE RedisCommand \/ RedisError \/ Return \/ Stop
  BY <1>1, <1>6 DEF RedisCommand, RedisError, Return, Stop
<1>7. CASE UNCHANGED serverVars
  BY <1>1, <1>7 DEF serverVars
<1> QED
  BY <1>2, <1>3, <1>4, <1>5, <1>6, <1>7 DEF Next, ServerStep
-------------------------------------------------------------------------------
(* Under the same condition, and as long as no command failed: the book    *)
(* can be rebuilt from Redis.                                              *)

\* What rests or is to be replayed, is one of the queues' or of those read back.
LEMMA KeptMembers ==
  ASSUME NEW o \in Orders(book)'
  PROVE  \E q \in Queue : \E i \in 1..Len(book'[q]) : o = book'[q][i]
  BY DEF Orders, InQueue

\* Nothing is to be kept at first.
LEMMA InitBookKept == Init => BookKept
  BY EmptySeq DEF Init, BookKept, EmptyBook, Orders, InQueue

\* A step that leaves Redis and the plan alone, and adds nothing to the book or
\* to the orders to be replayed.
LEMMA KeptFrame ==
  ASSUME BookKept, UNCHANGED <<todo, details, active>>, errors' = 0 => errors = 0,
         (Orders(book) \cup InQueue(loading))' \subseteq Orders(book) \cup InQueue(loading)
  PROVE  BookKept'
<1>1. \A o : Kept(o) => Kept(o)'
  BY DEF Kept
<1> QED
  BY <1>1 DEF BookKept

\* Start: an active order is in Redis.
LEMMA StartKept == SInv /\ InOrder /\ Start => BookKept'
<1> SUFFICES ASSUME SInv, InOrder, Start, NEW o \in (Orders(book) \cup InQueue(loading))'
             PROVE  Kept(o)'
  BY DEF BookKept
<1>1. PICK keys \in HKeys(active) :
        /\ order_pc = "down"
        /\ loading' = [i \in 1..Len(keys) |-> details[keys[i]]]
        /\ UNCHANGED <<book, todo, redis>>
  BY DEF Start
<1>2. /\ book' = book /\ Len(todo') = 0 /\ active' = active /\ details' = details
      /\ \A q \in Queue : Len(book[q]) = 0
  BY <1>1, EmptySeq DEF redis, SInv, InHand, InOrder
<1>3. o \notin Orders(book)'
  BY <1>2, KeptMembers
<1>4. PICK i \in 1..Len(loading') : o = loading'[i]
  BY <1>3 DEF InQueue
<1>5. keys \in Seq(Nat) /\ \A k \in 1..Len(keys) : keys[k] \in Fields(active)
  BY HKeysFields DEF SInv, TypeOK
<1>6. i \in 1..Len(keys) /\ o = details[keys[i]] /\ keys[i] \in Fields(active)
  <2>1. Len(keys) \in Nat
    BY <1>5, LenProperties
  <2> QED
    BY <1>1, <1>4, <1>5, <2>1
<1>7. keys[i] \in DOMAIN details /\ o.oid = keys[i]
  BY <1>6 DEF SInv, ActiveHaveDetails, StoreSound
<1> QED
  BY <1>2, <1>6, <1>7 DEF Kept

\* What nothing is planned for stays as it is in Redis.
LEMMA KeptApart ==
  ASSUME NEW o, Kept(o), Len(todo) = 0, UNCHANGED <<details, active>>,
         \A j \in 1..Len(todo') : todo'[j].order.oid # o.oid
  PROVE  Kept(o)'
  BY DEF Kept

\* Replay: what is sent for an order that trades is about orders that leave.
LEMMA ReplayKept == SInv /\ InOrder /\ BookKept /\ Replay => BookKept'
<1> SUFFICES ASSUME SInv, InOrder, BookKept, Replay, errors' = 0,
                    NEW e \in (Orders(book) \cup InQueue(loading))'
             PROVE  Kept(e)'
  BY DEF BookKept
<1> DEFINE o == loading[1]
<1>1. /\ loading' = Tail(loading) /\ errors = 0 /\ Len(todo) = 0
      /\ loading \in Seq(Resting) /\ loading # << >>
      /\ UNCHANGED <<details, active>>
  BY EmptySeq DEF Replay, Match, redis, budget, SInv, InHand, TypeOK
<1>2. /\ o \in Resting /\ o = Head(loading) /\ 1 \in 1..Len(loading)
      /\ \A i \in 1..Len(loading') : loading'[i] = loading[i + 1] /\ i + 1 \in 1..Len(loading)
  BY <1>1, HeadTailProperties, EmptySeq, LenProperties
<1>3. o \in Order /\ Normalize(o) = o /\ o.oid \in Nat
  BY <1>2, NormalizeOrder DEF Resting, Order
<1>4. /\ book' = Rest(book, o) /\ book \in Book
      /\ todo' = IF IsMatched(book, o)
                   THEN ExecuteCommands(Trade(book, o)[1], Trade(book, o)[2]) ELSE << >>
  BY <1>2, <1>3 DEF Replay, Match, Commands, SInv, TypeOK, Book
<1>5. /\ \A q \in Queue : \A i \in 1..Len(book[q]) :
           book[q][i].oid < o.oid /\ book[q][i].oid \in Nat
      /\ \A i \in 1..Len(loading') : o.oid < loading'[i].oid /\ loading'[i].oid \in Nat
  <2>1. \A i \in 1..Len(loading') : 1 < i + 1
    OBVIOUS
  <2>2. \A i \in 1..Len(loading) : loading[i].oid \in Nat
    BY <1>1, ElementOfSeq DEF Resting, Order
  <2> QED
    BY <1>2, <1>4, <2>1, <2>2, BookEntries DEF InOrder
<1>6. Kept(o)
  BY <1>1, <1>2 DEF BookKept, InQueue
<1> DEFINE maker == book[Opposite(o)][FirstHit(o, book[Opposite(o)])].oid
<1>7. \A j \in 1..Len(todo') :
        IsMatched(book, o) /\ (todo'[j].order = o \/ todo'[j].order.oid = maker)
  BY <1>2, <1>4, PlanOfOld
<1>8. IsMatched(book, o) => maker < o.oid /\ maker \in Nat
  <2>1. IsMatched(book, o) =>
          /\ Opposite(o) \in Queue
          /\ FirstHit(o, book[Opposite(o)]) \in 1..Len(book[Opposite(o)])
    BY <1>2, <1>4, RestOnTrade, QueuesOfOrder
  <2> QED
    BY <1>5, <2>1
<1> HIDE DEF o
<1>9. CASE e \in Orders(book)'
  <2>0. PICK q \in Queue : \E i \in 1..Len(book'[q]) : e = book'[q][i]
    BY <1>9, KeptMembers
  <2>1. PICK i \in 1..Len(book'[q]) : e = book'[q][i]
    BY <2>0
  <2>2. \/ /\ \E k \in 1..Len(book[q]) : e = book[q][k]
           /\ IsMatched(book, o) => e.oid # maker
        \/ ~IsMatched(book, o) /\ e = o
    BY <1>2, <1>3, <1>4, <1>5, <2>1, MatchOrdered DEF InOrder
  <2> HIDE DEF maker
  <2>3. ASSUME NEW k \in 1..Len(book[q]), e = book[q][k], IsMatched(book, o) => e.oid # maker
        PROVE  Kept(e)'
    <3>1. Kept(e)
      BY <1>1, <2>3 DEF BookKept, Orders, InQueue
    <3>2. e.oid # o.oid
      BY <1>3, <1>5, <2>3
    <3> QED
      BY <1>1, <1>7, <2>3, <3>1, <3>2, KeptApart
  <2>4. CASE ~IsMatched(book, o) /\ e = o
    BY <1>1, <1>6, <1>7, <2>4, KeptApart
  <2> QED
    BY <2>2, <2>3, <2>4
<1>10. CASE e \in InQueue(loading)'
  <2>1. PICK i \in 1..Len(loading') : e = loading'[i]
    BY <1>10 DEF InQueue
  <2>2. Kept(e)
    BY <1>1, <1>2, <2>1 DEF BookKept, InQueue
  <2> HIDE DEF maker
  <2>3. e.oid # o.oid /\ (IsMatched(book, o) => e.oid # maker)
    BY <1>3, <1>5, <1>8, <2>1
  <2> QED
    BY <1>1, <1>7, <2>2, <2>3, KeptApart
<1> QED
  BY <1>9, <1>10

\* MatchTrade: an order that comes to rest is to be written, and it is written
\* over no other.
LEMMA MatchTradeKept == SInv /\ InOrder /\ BookKept /\ MatchTrade => BookKept'
<1> SUFFICES ASSUME SInv, InOrder, BookKept, MatchTrade, errors' = 0,
                    NEW e \in (Orders(book) \cup InQueue(loading))'
             PROVE  Kept(e)'
  BY DEF BookKept
<1> DEFINE o == Normalize(order)
<1>1. /\ order_pc = "match" /\ Len(todo) = 0 /\ errors = 0
      /\ loading' = loading /\ Len(loading) = 0
      /\ UNCHANGED <<details, active>>
      /\ order \in Order /\ order.oid = order_number /\ order_number \in Nat
  BY EmptySeq DEF MatchTrade, Match, redis, budget, SInv, InHand, TypeOK
<1>2. /\ o \in Order /\ o.oid = order_number
      /\ o.operation \in Side => o \in Resting
      /\ o.symbol \in Symbol
      /\ book' = Rest(book, o) /\ book \in Book
      /\ todo' = IF IsMatched(book, o)
                   THEN ExecuteCommands(Trade(book, o)[1], Trade(book, o)[2])
                 ELSE IF o.operation \in Side THEN AddCommands(o) ELSE << >>
  BY <1>1, NormalizeOrder DEF MatchTrade, Match, Commands, SInv, TypeOK, Book
<1> HIDE DEF o
<1> DEFINE maker == book[Opposite(o)][FirstHit(o, book[Opposite(o)])].oid
<1>3. \A q \in Queue : \A i \in 1..Len(book[q]) :
        book[q][i].oid < o.oid /\ book[q][i].oid \in Nat
  BY <1>1, <1>2, BookEntries DEF InOrder, Below
<1>4. /\ \A j \in 1..Len(todo') :
           /\ todo'[j].cmd = "details" => todo'[j].order = o
           /\ todo'[j].cmd = "deactivate" => IsMatched(book, o)
           /\ todo'[j].order = o \/ (IsMatched(book, o) /\ todo'[j].order.oid = maker)
      /\ o.operation \in Side /\ ~IsMatched(book, o) =>
           /\ Len(todo') = 2
           /\ todo'[1].cmd = "details" /\ todo'[1].order = o
           /\ todo'[2].cmd = "activate" /\ todo'[2].order = o
  BY <1>2, PlanOfNew
<1>5. e \in Orders(book)'
  BY <1>1 DEF InQueue
<1>6. PICK q \in Queue : \E i \in 1..Len(book'[q]) : e = book'[q][i]
  BY <1>5, KeptMembers
<1>7. \/ /\ \E k \in 1..Len(book[q]) : e = book[q][k]
         /\ IsMatched(book, o) => e.oid # maker
      \/ o.operation \in Side /\ ~IsMatched(book, o) /\ e = o
  BY <1>2, <1>3, <1>6, MatchOrdered DEF InOrder
<1> HIDE DEF maker
<1>8. ASSUME NEW k \in 1..Len(book[q]), e = book[q][k], IsMatched(book, o) => e.oid # maker
      PROVE  Kept(e)'
  <2>1. Kept(e)
    BY <1>1, <1>8 DEF BookKept, Orders, InQueue
  <2>2. e.oid # o.oid
    BY <1>1, <1>2, <1>3, <1>8
  <2> QED
    BY <1>1, <1>4, <1>8, <2>1, <2>2, KeptApart
<1>9. CASE o.operation \in Side /\ ~IsMatched(book, o) /\ e = o
  BY <1>4, <1>9 DEF Kept
<1> QED
  BY <1>7, <1>8, <1>9

\* RedisCommand: a command does what it was to do, and nothing to the others.
LEMMA RedisCommandKept == SInv /\ BookKept /\ RedisCommand => BookKept'
<1> SUFFICES ASSUME SInv, BookKept, RedisCommand, errors' = 0,
                    NEW e \in (Orders(book) \cup InQueue(loading))'
             PROVE  Kept(e)'
  BY DEF BookKept
<1> DEFINE c   == todo[1]
           oid == c.order.oid
<1>1. /\ todo # << >> /\ loading' = loading /\ book' = book
      /\ todo' = Tail(todo) /\ errors = 0
  BY DEF RedisCommand, budget
<1>2. /\ c = Head(todo) /\ c \in Command /\ 1 \in 1..Len(todo)
      /\ \A j \in 1..Len(todo') : todo'[j] = todo[j + 1] /\ j + 1 \in 1..Len(todo)
      /\ \A j \in 1..Len(todo) : j # 1 =>
           j - 1 \in 1..Len(todo') /\ todo'[j - 1] = todo[j]
  BY <1>1, TailOfTodo DEF SInv, TypeOK
<1>3. /\ active' = IF c.cmd = "activate" THEN HSet(active, oid)
                   ELSE IF c.cmd = "deactivate" THEN HDel(active, oid)
                   ELSE active
      /\ details' = IF c.cmd = "details" THEN Put(details, oid, c.order) ELSE details
  BY <1>2 DEF RedisCommand, Perform
<1>4. active \in Hash(Nat) /\ FieldsOnce(active) /\ oid \in Nat
  BY <1>2 DEF SInv, TypeOK, StoreSound, Command, Order
<1>5. /\ Fields(HSet(active, oid)) = Fields(active) \cup {oid}
      /\ Fields(HDel(active, oid)) = Fields(active) \ {oid}
  BY <1>4, HSetFields, HDelFields
<1>6. Kept(e)
  BY <1>1 DEF BookKept, Orders, InQueue
<1>7. \A j \in 1..Len(todo') : todo'[j].order.oid = e.oid =>
        todo'[j].cmd # "deactivate" /\ (todo'[j].cmd = "details" => todo'[j].order = e)
  BY <1>2, <1>6 DEF Kept
<1>8. oid = e.oid => c.cmd # "deactivate" /\ (c.cmd = "details" => c.order = e)
  BY <1>2, <1>6 DEF Kept
<1>9. \/ e.oid \in Fields(active')
      \/ \E j \in 1..Len(todo') : todo'[j].cmd = "activate" /\ todo'[j].order.oid = e.oid
  <2>1. CASE e.oid \in Fields(active)
    BY <1>3, <1>5, <1>8, <2>1
  <2>2. ASSUME NEW j \in 1..Len(todo), todo[j].cmd = "activate", todo[j].order.oid = e.oid
        PROVE  \/ e.oid \in Fields(active')
               \/ \E k \in 1..Len(todo') :
                    todo'[k].cmd = "activate" /\ todo'[k].order.oid = e.oid
    <3>1. CASE j = 1
      BY <1>3, <1>5, <2>2, <3>1
    <3>2. CASE j # 1
      BY <1>2, <2>2, <3>2
    <3> QED
      BY <3>1, <3>2
  <2> QED
    BY <1>6, <2>1, <2>2 DEF Kept
<1>10. \/ e.oid \in DOMAIN details' /\ details'[e.oid] = e
       \/ \E j \in 1..Len(todo') : todo'[j].cmd = "details" /\ todo'[j].order = e
  <2>1. CASE c.cmd = "details" /\ oid = e.oid
    <3>1. details' = Put(details, e.oid, e)
      BY <1>3, <1>8, <2>1
    <3> QED
      BY <3>1 DEF Put
  <2>2. CASE ~(c.cmd = "details" /\ oid = e.oid) /\ e.oid \in DOMAIN details /\ details[e.oid] = e
    <3>1. details' = Put(details, oid, c.order) \/ details' = details
      BY <1>3
    <3>2. CASE c.cmd = "details"
      <4>1. details' = Put(details, oid, c.order) /\ oid # e.oid
        BY <1>3, <2>2, <3>2
      <4> QED
        BY <2>2, <4>1 DEF Put
    <3>3. CASE c.cmd # "details"
      BY <1>3, <2>2, <3>3
    <3> QED
      BY <3>2, <3>3
  <2>3. ASSUME NEW j \in 1..Len(todo), todo[j].cmd = "details", todo[j].order = e,
               ~(c.cmd = "details" /\ oid = e.oid)
        PROVE  \E k \in 1..Len(todo') : todo'[k].cmd = "details" /\ todo'[k].order = e
    <3>1. j # 1
      BY <2>3
    <3> QED
      BY <1>2, <2>3, <3>1, SMTT(30)
  <2> QED
    BY <1>6, <2>1, <2>2, <2>3 DEF Kept
<1> QED
  BY <1>7, <1>9, <1>10 DEF Kept

\* The orders that rest stay in Redis until they trade.
LEMMA BookKeptStep == SInv /\ (~misread => InOrder) /\ BookKept /\ [Next]_serverVars => BookKept'
<1> SUFFICES ASSUME SInv, ~misread => InOrder, BookKept, [Next]_serverVars
             PROVE  BookKept'
  OBVIOUS
<1>0. CASE misread
  <2>1. MisreadCounted' /\ misread'
    BY <1>0, MisreadStays, SInvStep DEF SInv
  <2> QED
    BY <2>1 DEF MisreadCounted, BookKept
<1>1. ASSUME NEW r \in Request, NEW ip \in Ip, Accept(r, ip)
      PROVE  BookKept'
  <2>1. UNCHANGED <<todo, details, active, book, loading>> /\ errors \in Nat
        /\ (errors' = errors \/ errors' = errors + 1)
    BY <1>1, BoundsAssumption DEF Accept, UpdateCidIp, SInv, TypeOK
  <2> QED
    BY <2>1, KeptFrame DEF Orders, InQueue
<1>2. CASE Reply
  BY <1>2, KeptFrame DEF Reply, memory, redis, budget, Orders, InQueue
<1>3. CASE Return
  BY <1>3, KeptFrame DEF Return, memory, redis, budget, Orders, InQueue
<1>4. CASE UNCHANGED serverVars
  BY <1>4, KeptFrame DEF serverVars, memory, redis, budget, Orders, InQueue
<1>5. CASE RedisError
  <2>1. errors' = errors + 1 /\ errors \in Nat
    BY <1>5, BoundsAssumption DEF RedisError, SInv, TypeOK
  <2> QED
    BY <2>1 DEF BookKept
<1>6. CASE Stop
  <2>1. (Orders(book) \cup InQueue(loading))' = {}
    BY <1>6, EmptySeq DEF Stop, Orders, InQueue, EmptyBook
  <2> QED
    BY <2>1 DEF BookKept
<1>7. CASE StartError
  <2>1. errors' = errors + 1 /\ errors \in Nat
    BY <1>7, BoundsAssumption DEF StartError, SInv, TypeOK
  <2> QED
    BY <2>1 DEF BookKept
<1> QED
  BY <1>0, <1>1, <1>2, <1>3, <1>4, <1>5, <1>6, <1>7, StartKept, ReplayKept,
     MatchTradeKept, RedisCommandKept
  DEF Next, ServerStep

\* Both parts of the invariant hold as long as there are never more active
\* orders than a listpack holds.
LEMMA FewActiveInv ==
  Spec /\ []FewActive => [](SInv /\ (~misread => InOrder) /\ BookKept)
<1>1. Init => (~misread => InOrder) /\ BookKept
  BY InitInOrder, InitBookKept
<1>2. SInv /\ (~misread => InOrder) /\ FewActive' /\ [Next]_serverVars
        => (~misread => InOrder)'
  BY InOrderStep, MisreadStays
<1> QED
  BY <1>1, <1>2, BookKeptStep, SInvAlways, PTL DEF Spec

\* A new order gets a number above those of the active orders, across restarts,
\* as long as there are never more active orders than a listpack holds, and until
\* a start takes an error reply of HKEYS for "no orders": both are conditions of
\* the statement, the second in NumbersAhead.
THEOREM FreshNumbers == Spec /\ []FewActive => []NumbersAhead
<1>1. SInv /\ (~misread => InOrder) => NumbersAhead
  <2> SUFFICES ASSUME SInv, InOrder, order_pc = "accept", NEW oid \in Fields(active)
               PROVE  oid <= order_number
    BY DEF NumbersAhead
  <2>1. oid < order_number + 1 /\ oid \in Nat /\ order_number \in Nat
    BY FieldsType DEF InOrder, Below, SInv, TypeOK
  <2> QED
    BY <2>1
<1> QED
  BY <1>1, FewActiveInv, PTL

\* Under the same two conditions time priority survives a restart: every queue
\* holds its orders in the order in which they were accepted.
THEOREM PrioritySurvives == Spec /\ []FewActive => []ArrivalOrder
<1>1. (~misread => InOrder) => ArrivalOrder
  BY DEF InOrder, ArrivalOrder
<1> QED
  BY <1>1, FewActiveInv, PTL

\* Under the same condition, and as long as no command failed, the book can be
\* rebuilt: between two orders every resting order is active in Redis, with the
\* details it has in memory.
THEOREM BookRecoverable == Spec /\ []FewActive => []BookInRedis
<1>1. SInv /\ BookKept => BookInRedis
  <2> SUFFICES ASSUME SInv, BookKept, order_pc = "accept", errors = 0,
                      NEW o \in Orders(book)
               PROVE  o.oid \in Fields(active) /\ details[o.oid] = o
    BY DEF BookInRedis
  <2>1. Kept(o) /\ Len(todo) = 0
    BY EmptySeq DEF BookKept, SInv, InHand
  <2> QED
    BY <2>1 DEF Kept
<1> QED
  BY <1>1, FewActiveInv, PTL
===============================================================================
