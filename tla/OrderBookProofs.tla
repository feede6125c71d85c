--------------------------- MODULE OrderBookProofs ---------------------------
(***************************************************************************)
(* The invariants of OrderBook hold for all symbols, prices, quantities    *)
(* and any number of orders.  The inductive invariant is IInv: to see that *)
(* a new order that finds no partner leaves the book uncrossed, one has to *)
(* know that a queue holds only orders of its own symbol and side; to see  *)
(* that an order is not executed twice, that numbers are handed out in     *)
(* increasing order and are in one place only.                             *)
(***************************************************************************)
EXTENDS OrderBook, OperatorLemmas

\* Initially the book is empty and nothing was traded.
LEMMA InitIInv == Init => IInv
<1> SUFFICES ASSUME Init
             PROVE  IInv
  OBVIOUS
<1>1. \A q \in Queue : book[q] = << >> /\ Len(book[q]) = 0
  BY EmptySeq DEF Init, EmptyBook
<1>2. trades = << >> /\ Len(trades) = 0 /\ order_number = 0
  BY EmptySeq DEF Init
<1>3. TypeOK
  BY <1>2, EmptySeq, MaxOrdersAssumption DEF Init, TypeOK, EmptyBook
<1>4. NoCrossedBook
  BY <1>1, QueueOfSymbol DEF NoCrossedBook, InQueue
<1> QED
  BY <1>1, <1>2, <1>3, <1>4
  DEF IInv, InPlace, NumbersSoFar, RestingOnce, ArrivalOrder, ExecutedOnce

\* A cancellation uses up a number and changes nothing else.
LEMMA CancelStep ==
  ASSUME IInv, NEW r \in Request, NEW oid \in 1..MaxOrders,
         oid > order_number, MatchTrade(r, oid), r.operation \notin Side
  PROVE  IInv'
<1> DEFINE o == Normalize(Numbered(r, oid))
<1>1. o.operation \notin Side
  BY NormalizeType
<1>2. book' = book /\ trades' = trades /\ order_number' = oid
  BY <1>1, RestOnCancel DEF MatchTrade
<1>3. order_number \in Nat /\ oid \in Nat /\ MaxOrders \in Nat
  BY MaxOrdersAssumption DEF IInv, TypeOK
<1>4. TypeOK'
  BY <1>2, <1>3 DEF IInv, TypeOK
<1>5. NumbersSoFar'
  <2>1. \A q \in Queue : \A i \in 1..Len(book[q]) :
          book[q][i].oid \in Nat /\ book[q][i].oid <= order_number
    <3>1. \A q \in Queue : book[q] \in Seq(Resting)
      BY DEF IInv, TypeOK
    <3>2. \A q \in Queue : \A i \in 1..Len(book[q]) : book[q][i] \in Resting
      BY <3>1, ElementOfSeq
    <3> QED
      BY <3>2 DEF IInv, NumbersSoFar, Resting, Order
  <2>2. \A n \in 1..Len(trades), k \in 1..2 :
          trades[n][k].oid \in Nat /\ trades[n][k].oid <= order_number
    <3>1. \A n \in 1..Len(trades) : trades[n] \in Resting \X Resting
      BY ElementOfSeq DEF IInv, TypeOK
    <3> QED
      BY <3>1 DEF IInv, NumbersSoFar, Resting, Order
  <2> QED
    BY <1>2, <1>3, <2>1, <2>2 DEF NumbersSoFar
<1> QED
  BY <1>2, <1>4, <1>5
  DEF IInv, InPlace, RestingOnce, NoCrossedBook, ArrivalOrder, ExecutedOnce

\* A new order trades: one queue loses orders from its head, and the trade is
\* of an order that was in the book and of one that never was.
LEMMA TradeStep ==
  ASSUME IInv, NEW r \in Request, NEW oid \in 1..MaxOrders,
         oid > order_number, MatchTrade(r, oid),
         IsMatched(book, Normalize(Numbered(r, oid)))
  PROVE  IInv'
<1> DEFINE o    == Normalize(Numbered(r, oid))
           q0   == Opposite(o)
           i    == FirstHit(o, book[q0])
           m    == Adjusted(o, book[q0][i])
           shift(q) == IF q = q0 THEN i ELSE 0
<1>1. o \in Resting /\ o.oid = oid
  BY NormalizeType DEF IsMatched
<1>2. book \in Book /\ trades \in Seq(Resting \X Resting)
  BY DEF IInv, TypeOK, Book
<1>3. book' = Rest(book, o) /\ trades' = Append(trades, Trade(book, o))
      /\ order_number' = oid
  BY DEF MatchTrade
<1>4. /\ i \in 1..Len(book[q0])
      /\ Trade(book, o) = <<o, m>>
      /\ m \in Resting
      /\ book' \in Book
      /\ \A q \in Queue : q # q0 => book'[q] = book[q]
      /\ Len(book'[q0]) = Len(book[q0]) - i
      /\ \A k \in 1..(Len(book[q0]) - i) : book'[q0][k] = book[q0][i + k]
  <2> DEFINE away == book[Opposite(o)]
             a    == Adjusted(o, away[i])
  <2>1. IsMatched(book, o) /\ i = FirstHit(o, away)
    OBVIOUS
  <2>2. q0 = Opposite(o) /\ away = book[q0] /\ m = a
    OBVIOUS
  <2> HIDE DEF o, q0, i, m
  <2>3. /\ i \in 1..Len(away)
        /\ Trade(book, o) = <<o, Adjusted(o, away[i])>>
        /\ Adjusted(o, away[i]) \in Resting
        /\ Rest(book, o) \in Book
        /\ \A q \in Queue : q # Opposite(o) => Rest(book, o)[q] = book[q]
        /\ Len(Rest(book, o)[Opposite(o)]) = Len(away) - i
        /\ \A k \in 1..(Len(away) - i) :
             Rest(book, o)[Opposite(o)][k] = away[i + k]
    <3> HIDE DEF away
    <3>1. away = book[Opposite(o)]
      BY DEF away
    <3> QED
      BY <1>1, <1>2, <2>1, <3>1, RestOnTrade
  <2> HIDE DEF away, a
  <2>4. Trade(book, o) = <<o, m>> /\ m \in Resting
    BY <2>2, <2>3 DEF a
  <2> QED
    BY <1>3, <2>2, <2>3, <2>4
<1>5. q0 \in Queue
  BY <1>1, QueuesOfOrder
<1>0. m.oid = book[q0][i].oid
  <2>1. book[q0][i] \in Resting
    BY <1>2, <1>4, <1>5, ElementOfSeq DEF Book
  <2> QED
    BY <2>1 DEF Adjusted, Resting, Order
<1> HIDE DEF o, q0, i, m
<1>6. \A q \in Queue : Len(book[q]) \in Nat
  BY <1>2, LenProperties DEF Book
<1>7. \A q \in Queue : \A k \in 1..Len(book'[q]) :
        /\ k + shift(q) \in 1..Len(book[q])
        /\ book'[q][k] = book[q][k + shift(q)]
  <2> SUFFICES ASSUME NEW q \in Queue, NEW k \in 1..Len(book'[q])
               PROVE  /\ k + shift(q) \in 1..Len(book[q])
                      /\ book'[q][k] = book[q][k + shift(q)]
    OBVIOUS
  <2>1. CASE q = q0
    BY <2>1, <1>4, <1>5, <1>6
  <2>2. CASE q # q0
    BY <2>2, <1>4, <1>6
  <2> QED
    BY <2>1, <2>2
<1>9. \A q \in Queue : \A k \in 1..Len(book[q]) :
        /\ book[q][k] \in Resting
        /\ book[q][k].oid \in Nat
        /\ book[q][k].oid <= order_number
        /\ book[q][k].oid < oid
  <2>1. \A q \in Queue : \A k \in 1..Len(book[q]) : book[q][k] \in Resting
    BY <1>2, ElementOfSeq DEF Book
  <2>2. order_number \in Nat
    BY MaxOrdersAssumption DEF IInv, TypeOK
  <2> QED
    BY <2>1, <2>2 DEF IInv, NumbersSoFar, Resting, Order
<1>10. /\ Len(trades) \in Nat
       /\ Len(trades') = Len(trades) + 1
       /\ \A n \in 1..Len(trades) : trades'[n] = trades[n]
       /\ trades'[Len(trades) + 1] = <<o, m>>
       /\ trades' \in Seq(Resting \X Resting)
  <2>1. Trade(book, o) \in Resting \X Resting
    BY <1>1, <1>4
  <2> QED
    BY <1>2, <1>3, <1>4, <2>1, AppendProperties, LenProperties
<1>11. \A n \in 1..Len(trades), k \in 1..2 :
         trades[n][k].oid \in Nat /\ trades[n][k].oid < oid
  <2>1. \A n \in 1..Len(trades) : trades[n] \in Resting \X Resting
    BY <1>2, ElementOfSeq
  <2>2. order_number \in Nat
    BY MaxOrdersAssumption DEF IInv, TypeOK
  <2> QED
    BY <2>1, <2>2 DEF IInv, NumbersSoFar, Resting, Order
<1>12. TypeOK'
  BY <1>3, <1>4, <1>10, MaxOrdersAssumption DEF TypeOK, Book
<1>13. InPlace'
  BY <1>7 DEF IInv, InPlace
<1>14. NumbersSoFar'
  <2>1. \A n \in 1..Len(trades'), k \in 1..2 : trades'[n][k].oid <= oid
    <3> SUFFICES ASSUME NEW n \in 1..Len(trades'), NEW k \in 1..2
                 PROVE  trades'[n][k].oid <= oid
      OBVIOUS
    <3>1. CASE n \in 1..Len(trades)
      BY <1>10, <1>11, <3>1
    <3>2. CASE n = Len(trades) + 1
      <4>1. trades'[n] = <<o, m>>
        BY <1>10, <3>2
      <4>2. m.oid < oid /\ m.oid \in Nat /\ oid \in Nat
        BY <1>4, <1>5, <1>0, <1>9
      <4> QED
        BY <1>1, <4>1, <4>2
    <3> QED
      BY <1>10, <3>1, <3>2
  <2>2. \A q \in Queue : \A k \in 1..Len(book'[q]) : book'[q][k].oid <= oid
    BY <1>7, <1>9, SMTT(30)
  <2> QED
    BY <1>3, <2>1, <2>2 DEF NumbersSoFar
<1>15. RestingOnce'
  <2> SUFFICES ASSUME NEW p \in Queue, NEW q \in Queue,
                      NEW k \in 1..Len(book'[p]), NEW l \in 1..Len(book'[q]),
                      book'[p][k].oid = book'[q][l].oid
               PROVE  p = q /\ k = l
    BY DEF RestingOnce
  <2>1. p = q /\ k + shift(p) = l + shift(q)
    <3> HIDE DEF shift
    <3>1. book[p][k + shift(p)].oid = book[q][l + shift(q)].oid
      BY <1>7
    <3>2. k + shift(p) \in 1..Len(book[p]) /\ l + shift(q) \in 1..Len(book[q])
      BY <1>7
    <3>3. RestingOnce
      BY DEF IInv
    <3> QED
      BY <3>1, <3>2, <3>3 DEF RestingOnce
  <2>2. shift(p) \in Nat
    BY <1>4, <1>5, <1>6
  <2>3. k \in Nat /\ l \in Nat
    BY <1>4, <1>5, LenProperties DEF Book
  <2> QED
    BY <2>1, <2>2, <2>3
<1>16. NoCrossedBook'
  <2>1. \A q \in Queue : InQueue(book'[q]) \subseteq InQueue(book[q])
    BY <1>7 DEF InQueue
  <2> QED
    BY <2>1, QueueOfSymbol DEF IInv, NoCrossedBook
<1>17. ArrivalOrder'
  <2> SUFFICES ASSUME NEW q \in Queue,
                      NEW k \in 1..Len(book'[q]), NEW l \in 1..Len(book'[q]),
                      k < l
               PROVE  book'[q][k].oid < book'[q][l].oid
    BY DEF ArrivalOrder
  <2>1. shift(q) \in Nat /\ k \in Nat /\ l \in Nat
    BY <1>4, <1>5, <1>6, LenProperties DEF Book
  <2>2. k + shift(q) < l + shift(q)
    BY <2>1
  <2> QED
    BY <1>7, <2>2 DEF IInv, ArrivalOrder
<1>18. ExecutedOnce'
  <2>1. ASSUME NEW q \in Queue, NEW k \in 1..Len(book'[q])
        PROVE  /\ book'[q][k].oid # oid
               /\ book'[q][k].oid # m.oid
               /\ \A n \in 1..Len(trades), l \in 1..2 :
                    book'[q][k].oid # trades[n][l].oid
    <3>1. book'[q][k].oid # oid
      BY <1>7, <1>9, SMTT(30)
    <3>2. ~(q = q0 /\ k + shift(q) = i)
      BY <1>4, <1>5, <1>6
    <3>3. book'[q][k].oid # m.oid
      <4> HIDE DEF shift
      <4>1. book[q][k + shift(q)].oid # book[q0][i].oid
        <5>1. k + shift(q) \in 1..Len(book[q]) /\ i \in 1..Len(book[q0])
          BY <1>4, <1>7
        <5>2. RestingOnce
          BY DEF IInv
        <5> QED
          BY <1>5, <3>2, <5>1, <5>2 DEF RestingOnce
      <4> QED
        BY <1>7, <1>0, <4>1
    <3>4. \A n \in 1..Len(trades), l \in 1..2 :
            book'[q][k].oid # trades[n][l].oid
      <4> HIDE DEF shift
      <4>1. /\ k + shift(q) \in 1..Len(book[q])
            /\ book'[q][k] = book[q][k + shift(q)]
        BY <1>7
      <4>2. ExecutedOnce
        BY DEF IInv
      <4>3. \A n \in 1..Len(trades), l \in 1..2 :
              book[q][k + shift(q)].oid # trades[n][l].oid
        BY <4>1, <4>2 DEF ExecutedOnce
      <4> QED
        BY <4>1, <4>3
    <3> QED
      BY <3>1, <3>3, <3>4
  <2>2. /\ m.oid < oid /\ m.oid \in Nat
        /\ \A n \in 1..Len(trades), l \in 1..2 : m.oid # trades[n][l].oid
    <3>1. m.oid < oid /\ m.oid \in Nat
      BY <1>4, <1>5, <1>0, <1>9
    <3>2. \A n \in 1..Len(trades), l \in 1..2 :
            book[q0][i].oid # trades[n][l].oid
      BY <1>4, <1>5 DEF IInv, ExecutedOnce
    <3> QED
      BY <1>0, <3>1, <3>2
  <2>3. \A q \in Queue : \A k \in 1..Len(book'[q]) :
          \A n \in 1..Len(trades'), l \in 1..2 :
            book'[q][k].oid # trades'[n][l].oid
    <3> SUFFICES ASSUME NEW q \in Queue, NEW k \in 1..Len(book'[q]),
                        NEW n \in 1..Len(trades'), NEW l \in 1..2
                 PROVE  book'[q][k].oid # trades'[n][l].oid
      OBVIOUS
    <3>1. CASE n \in 1..Len(trades)
      BY <1>10, <2>1, <3>1
    <3>2. CASE n = Len(trades) + 1
      BY <1>1, <1>10, <2>1, <3>2
    <3> QED
      BY <1>10, <3>1, <3>2
  <2>4. \A n1, n2 \in 1..Len(trades') : \A k, l \in 1..2 :
          trades'[n1][k].oid = trades'[n2][l].oid => n1 = n2 /\ k = l
    <3> SUFFICES ASSUME NEW n1 \in 1..Len(trades'), NEW n2 \in 1..Len(trades'),
                        NEW k \in 1..2, NEW l \in 1..2,
                        trades'[n1][k].oid = trades'[n2][l].oid
                 PROVE  n1 = n2 /\ k = l
      OBVIOUS
    <3>1. CASE n1 \in 1..Len(trades) /\ n2 \in 1..Len(trades)
      BY <1>10, <3>1, SMTT(30) DEF IInv, ExecutedOnce
    <3>2. CASE n1 = Len(trades) + 1 /\ n2 = Len(trades) + 1
      BY <1>1, <1>10, <2>2, <3>2
    <3>3. CASE n1 \in 1..Len(trades) /\ n2 = Len(trades) + 1
      BY <1>1, <1>10, <1>11, <2>2, <3>3
    <3>4. CASE n1 = Len(trades) + 1 /\ n2 \in 1..Len(trades)
      BY <1>1, <1>10, <1>11, <2>2, <3>4
    <3> QED
      BY <1>10, <3>1, <3>2, <3>3, <3>4
  <2> QED
    BY <2>3, <2>4 DEF ExecutedOnce
<1> QED
  BY <1>12, <1>13, <1>14, <1>15, <1>16, <1>17, <1>18 DEF IInv

\* A new order finds no partner and becomes the last of its queue.
LEMMA EnqueueStep ==
  ASSUME IInv, NEW r \in Request, NEW oid \in 1..MaxOrders,
         oid > order_number, MatchTrade(r, oid), r.operation \in Side,
         ~IsMatched(book, Normalize(Numbered(r, oid)))
  PROVE  IInv'
<1> DEFINE o  == Normalize(Numbered(r, oid))
           q0 == Own(o)
           n0 == Len(book[q0]) + 1
<1>1. o \in Resting /\ o.oid = oid
  BY NormalizeType
<1>2. book \in Book
  BY DEF IInv, TypeOK, Book
<1>3. book' = Rest(book, o) /\ trades' = trades /\ order_number' = oid
  BY DEF MatchTrade
<1>4. /\ book' \in Book
      /\ \A q \in Queue : q # q0 => book'[q] = book[q]
      /\ Len(book'[q0]) = n0
      /\ \A k \in 1..Len(book[q0]) : book'[q0][k] = book[q0][k]
      /\ book'[q0][n0] = o
      /\ \A k \in 1..Len(book[Opposite(o)]) : ~Compatible(o, book[Opposite(o)][k])
  <2>1. ~IsMatched(book, o)
    OBVIOUS
  <2> HIDE DEF o
  <2> QED
    BY <1>1, <1>2, <1>3, <2>1, RestOnEnqueue
<1>5. /\ q0 \in Queue /\ Opposite(o) \in Queue /\ q0 # Opposite(o)
      /\ q0 = <<o.symbol, o.operation>> /\ Opposite(o) = <<o.symbol, 1 - o.operation>>
      /\ o.operation \in Side /\ o.symbol \in Symbol
  BY <1>1, QueuesOfOrder DEF Own, Opposite
<1> HIDE DEF o, q0
<1>6. \A q \in Queue : Len(book[q]) \in Nat
  BY <1>2, LenProperties DEF Book
<1>7. order_number \in Nat /\ oid \in Nat
  BY MaxOrdersAssumption DEF IInv, TypeOK
<1>8. \A q \in Queue : \A k \in 1..Len(book[q]) :
        /\ book[q][k] \in Resting
        /\ book[q][k].oid \in Nat
        /\ book[q][k].oid < oid
  <2>1. \A q \in Queue : \A k \in 1..Len(book[q]) : book[q][k] \in Resting
    BY <1>2, ElementOfSeq DEF Book
  <2> QED
    BY <1>7, <2>1 DEF IInv, NumbersSoFar, Resting, Order
\* An entry of the new book is the new order or an entry of the old one.
<1>9. \A q \in Queue : \A k \in 1..Len(book'[q]) :
        \/ k \in 1..Len(book[q]) /\ book'[q][k] = book[q][k]
        \/ q = q0 /\ k = n0 /\ book'[q][k] = o
  <2> SUFFICES ASSUME NEW q \in Queue, NEW k \in 1..Len(book'[q])
               PROVE  \/ k \in 1..Len(book[q]) /\ book'[q][k] = book[q][k]
                      \/ q = q0 /\ k = n0 /\ book'[q][k] = o
    OBVIOUS
  <2>1. CASE q = q0
    <3> HIDE DEF n0
    <3>1. n0 = Len(book[q]) + 1 /\ Len(book[q]) \in Nat
      BY <1>5, <1>6, <2>1 DEF n0
    <3>2. k \in 1..n0
      BY <1>4, <2>1
    <3>3. CASE k \in 1..Len(book[q])
      BY <1>4, <2>1, <3>3
    <3>4. CASE k = n0
      BY <1>4, <2>1, <3>4
    <3> QED
      BY <3>1, <3>2, <3>3, <3>4
  <2>2. CASE q # q0
    BY <2>2, <1>4
  <2> QED
    BY <2>1, <2>2
<1>10. TypeOK'
  BY <1>3, <1>4, <1>7, MaxOrdersAssumption DEF IInv, TypeOK, Book
<1>11. InPlace'
  <2>1. Own(o) = q0
    BY DEF q0
  <2> QED
    BY <1>9, <2>1 DEF IInv, InPlace
<1>12. NumbersSoFar'
  <2>1. \A q \in Queue : \A k \in 1..Len(book'[q]) : book'[q][k].oid <= oid
    BY <1>1, <1>7, <1>8, <1>9
  <2>2. \A n \in 1..Len(trades), k \in 1..2 : trades[n][k].oid <= oid
    <3>1. trades \in Seq(Resting \X Resting)
      BY DEF IInv, TypeOK
    <3>2. \A n \in 1..Len(trades) : trades[n] \in Resting \X Resting
      BY <3>1, ElementOfSeq
    <3>3. \A n \in 1..Len(trades), k \in 1..2 : trades[n][k].oid \in Nat
      BY <3>2 DEF Resting, Order
    <3> QED
      BY <1>7, <3>3 DEF IInv, NumbersSoFar
  <2> QED
    BY <1>3, <2>1, <2>2 DEF NumbersSoFar
<1>13. RestingOnce'
  <2> SUFFICES ASSUME NEW p \in Queue, NEW q \in Queue,
                      NEW k \in 1..Len(book'[p]), NEW l \in 1..Len(book'[q]),
                      book'[p][k].oid = book'[q][l].oid
               PROVE  p = q /\ k = l
    BY DEF RestingOnce
  <2>1. CASE /\ k \in 1..Len(book[p]) /\ book'[p][k] = book[p][k]
             /\ l \in 1..Len(book[q]) /\ book'[q][l] = book[q][l]
    BY <2>1 DEF IInv, RestingOnce
  <2>2. CASE /\ k \in 1..Len(book[p]) /\ book'[p][k] = book[p][k]
             /\ q = q0 /\ l = n0 /\ book'[q][l] = o
    BY <2>2, <1>1, <1>7, <1>8
  <2>3. CASE /\ l \in 1..Len(book[q]) /\ book'[q][l] = book[q][l]
             /\ p = q0 /\ k = n0 /\ book'[p][k] = o
    BY <2>3, <1>1, <1>7, <1>8
  <2> QED
    BY <1>9, <2>1, <2>2, <2>3
<1>14. ArrivalOrder'
  <2> SUFFICES ASSUME NEW q \in Queue,
                      NEW k \in 1..Len(book'[q]), NEW l \in 1..Len(book'[q]),
                      k < l
               PROVE  book'[q][k].oid < book'[q][l].oid
    BY DEF ArrivalOrder
  <2>1. CASE /\ k \in 1..Len(book[q]) /\ book'[q][k] = book[q][k]
             /\ l \in 1..Len(book[q]) /\ book'[q][l] = book[q][l]
    BY <2>1 DEF IInv, ArrivalOrder
  <2>2. CASE /\ k \in 1..Len(book[q]) /\ book'[q][k] = book[q][k]
             /\ book'[q][l] = o
    BY <2>2, <1>1, <1>8
  <2>3. CASE q = q0 /\ k = n0
    BY <2>3, <1>4, <1>5, <1>6
  <2> QED
    BY <1>9, <2>1, <2>2, <2>3
<1>15. NoCrossedBook'
  <2>1. ASSUME NEW s \in Symbol,
               NEW k \in 1..Len(book'[<<s, BUY>>]), NEW l \in 1..Len(book'[<<s, SELL>>])
        PROVE  ~Compatible(book'[<<s, BUY>>][k], book'[<<s, SELL>>][l])
    <3> DEFINE qb == <<s, BUY>>
               qs == <<s, SELL>>
    <3>1. qb \in Queue /\ qs \in Queue /\ qb # qs
      BY QueueOfSymbol
    <3>2. CASE /\ k \in 1..Len(book[qb]) /\ book'[qb][k] = book[qb][k]
               /\ l \in 1..Len(book[qs]) /\ book'[qs][l] = book[qs][l]
      <4>1. book[qb][k] \in InQueue(book[qb]) /\ book[qs][l] \in InQueue(book[qs])
        BY <3>2 DEF InQueue
      <4> QED
        BY <3>2, <4>1 DEF IInv, NoCrossedBook
    <3>3. CASE /\ qb = q0 /\ book'[qb][k] = o
               /\ l \in 1..Len(book[qs]) /\ book'[qs][l] = book[qs][l]
      <4>1. Opposite(o) = qs
        BY <1>5, <3>3 DEF BUY, SELL
      <4> QED
        BY <1>4, <3>3, <4>1
    <3>4. CASE /\ k \in 1..Len(book[qb]) /\ book'[qb][k] = book[qb][k]
               /\ qs = q0 /\ book'[qs][l] = o
      <4>1. Opposite(o) = qb /\ o.operation = SELL
        BY <1>5, <3>4 DEF BUY, SELL
      <4>2. ~Compatible(o, book[qb][k])
        BY <1>4, <3>4, <4>1
      <4>3. Own(book[qb][k]) = qb
        BY <3>1, <3>4 DEF IInv, InPlace
      <4>4. book[qb][k].operation = BUY
        BY <4>3 DEF Own
      <4>5. o.price \in Nat /\ book[qb][k].price \in Nat
        BY <1>1, <1>8, <3>1, <3>4, NumberAssumption DEF Resting, Order
      <4> QED
        BY <3>4, <4>1, <4>2, <4>4, <4>5 DEF Compatible, PricesCross, BUY, SELL
    <3> QED
      BY <1>9, <3>1, <3>2, <3>3, <3>4
  <2> QED
    BY <2>1 DEF NoCrossedBook, InQueue
<1>16. ExecutedOnce'
  <2>1. ASSUME NEW n \in 1..Len(trades), NEW k \in 1..2
        PROVE  trades[n][k].oid # oid
    <3>1. trades \in Seq(Resting \X Resting)
      BY DEF IInv, TypeOK
    <3>2. trades[n] \in Resting \X Resting
      BY <3>1, ElementOfSeq
    <3>3. trades[n][k].oid \in Nat
      BY <3>2 DEF Resting, Order
    <3> QED
      BY <1>7, <3>3 DEF IInv, NumbersSoFar
  <2>2. \A q \in Queue : \A k \in 1..Len(book'[q]) :
          \A n \in 1..Len(trades), l \in 1..2 : book'[q][k].oid # trades[n][l].oid
    <3> SUFFICES ASSUME NEW q \in Queue, NEW k \in 1..Len(book'[q]),
                        NEW n \in 1..Len(trades), NEW l \in 1..2
                 PROVE  book'[q][k].oid # trades[n][l].oid
      OBVIOUS
    <3>1. CASE k \in 1..Len(book[q]) /\ book'[q][k] = book[q][k]
      BY <3>1 DEF IInv, ExecutedOnce
    <3>2. CASE book'[q][k] = o
      BY <1>1, <2>1, <3>2
    <3> QED
      BY <1>9, <3>1, <3>2
  <2> QED
    BY <1>3, <2>2 DEF IInv, ExecutedOnce
<1> QED
  BY <1>10, <1>11, <1>12, <1>13, <1>14, <1>15, <1>16 DEF IInv

-------------------------------------------------------------------------------
\* The inductive invariant holds in every reachable state.
THEOREM Inductive == Spec => []IInv
<1>1. IInv /\ [Next]_vars => IInv'
  <2> SUFFICES ASSUME IInv, [Next]_vars
               PROVE  IInv'
    OBVIOUS
  <2>1. CASE UNCHANGED vars
    <3>1. book' = book /\ trades' = trades /\ order_number' = order_number
      BY <2>1 DEF vars
    <3>2. TypeOK' /\ InPlace' /\ NumbersSoFar'
      BY <3>1 DEF IInv, TypeOK, InPlace, NumbersSoFar
    <3>3. RestingOnce' /\ NoCrossedBook' /\ ArrivalOrder'
      BY <3>1 DEF IInv, RestingOnce, NoCrossedBook, ArrivalOrder
    <3>4. ExecutedOnce'
      BY <3>1 DEF IInv, ExecutedOnce
    <3> QED
      BY <3>2, <3>3, <3>4 DEF IInv
  <2>2. ASSUME NEW r \in Request, NEW oid \in 1..MaxOrders,
               oid > order_number, MatchTrade(r, oid)
        PROVE  IInv'
    <3>1. CASE r.operation \notin Side
      BY <2>2, <3>1, CancelStep
    <3>2. CASE IsMatched(book, Normalize(Numbered(r, oid)))
      BY <2>2, <3>2, TradeStep
    <3>3. CASE /\ r.operation \in Side
               /\ ~IsMatched(book, Normalize(Numbered(r, oid)))
      BY <2>2, <3>3, EnqueueStep
    <3> QED
      BY <3>1, <3>2, <3>3
  <2> QED
    BY <2>1, <2>2 DEF Next
<1> QED
  BY <1>1, InitIInv, PTL DEF Spec

\* Every variable of the order book has its type: in particular a queue holds
\* only buy and sell orders, with normalised symbols.
THEOREM TypeCorrect == Spec => []TypeOK
<1>1. IInv => TypeOK
  BY DEF IInv
<1> QED
  BY <1>1, Inductive, PTL

\* The book is never crossed (the scans of match_trade leave no pair behind
\* that could trade).
THEOREM NeverCrossed == Spec => []NoCrossedBook
<1>1. IInv => NoCrossedBook
  BY DEF IInv
<1> QED
  BY <1>1, Inductive, PTL

\* The queues are in the order of arrival (match_trade appends at the tail and
\* unlinks without reordering).
THEOREM TimePriority == Spec => []ArrivalOrder
<1>1. IInv => ArrivalOrder
  BY DEF IInv
<1> QED
  BY <1>1, Inductive, PTL

\* No order is executed twice, or executed and still in the book.
THEOREM AtMostOnce == Spec => []ExecutedOnce
<1>1. IInv => ExecutedOnce
  BY DEF IInv
<1> QED
  BY <1>1, Inductive, PTL
===============================================================================
