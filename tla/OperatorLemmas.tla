---------------------------- MODULE OperatorLemmas ----------------------------
(***************************************************************************)
(* Facts about the operators of Matching and RedisStore that the proofs    *)
(* about the components cite: which order a scan stops at, what the queues *)
(* hold after an order was handled, what a hash holds after HSET and HDEL, *)
(* what HKEYS may answer, and what a partial function holds after Put.     *)
(***************************************************************************)
EXTENDS Matching, RedisStore, SequenceTheorems, WellFoundedInduction, TLAPS

Book == [Queue -> Seq(Resting)]

\* Normalising an order makes its symbol one that owns queues, and changes
\* nothing else; normalising twice is normalising once.
LEMMA NormalizeType ==
  ASSUME NEW r \in Request, NEW oid \in Nat
  PROVE  /\ Normalize(Numbered(r, oid)) \in Order
         /\ Normalize(Numbered(r, oid)).symbol \in Symbol
         /\ Normalize(Numbered(r, oid)).oid = oid
         /\ Normalize(Numbered(r, oid)).operation = r.operation
         /\ r.operation \in Side => Normalize(Numbered(r, oid)) \in Resting
  BY SpellingAssumption
  DEF Normalize, Numbered, Request, Order, Resting, Symbol

\* The same of any order; one that rests is normalised already.
LEMMA NormalizeOrder ==
  ASSUME NEW o \in Order
  PROVE  /\ Normalize(o) \in Order
         /\ Normalize(o).symbol \in Symbol
         /\ Normalize(o).oid = o.oid /\ Normalize(o).cid = o.cid
         /\ Normalize(o).operation = o.operation
         /\ o.operation \in Side => Normalize(o) \in Resting
         /\ o \in Resting => Normalize(o) = o
  BY SpellingAssumption DEF Normalize, Order, Resting, Symbol

\* The two queues of an order exist and are different ones.
LEMMA QueuesOfOrder ==
  ASSUME NEW o \in Resting
  PROVE  /\ Own(o) \in Queue
         /\ Opposite(o) \in Queue
         /\ Own(o) # Opposite(o)
         /\ o.operation \in Side
         /\ o.symbol \in Symbol
  BY DEF Own, Opposite, Queue, Resting, Side, BUY, SELL

\* Every symbol has a queue of buyers and one of sellers.
LEMMA QueueOfSymbol ==
  ASSUME NEW s \in Symbol
  PROVE  /\ <<s, BUY>> \in Queue /\ <<s, SELL>> \in Queue
         /\ <<s, BUY>> # <<s, SELL>>
  BY DEF Queue, Side, BUY, SELL

\* A scan that hits at all stops at an order that is compatible, and no order
\* ahead of it is.
LEMMA FirstHitIsFirst ==
  ASSUME NEW S, NEW queue \in Seq(S), NEW o, Hits(o, queue) # {}
  PROVE  /\ FirstHit(o, queue) \in 1..Len(queue)
         /\ Compatible(o, queue[FirstHit(o, queue)])
         /\ \A j \in 1..(FirstHit(o, queue) - 1) : ~Compatible(o, queue[j])
<1>1. Len(queue) \in Nat
  BY LenProperties
<1>2. Hits(o, queue) \subseteq Nat
  BY <1>1 DEF Hits
<1>3. \E i \in Hits(o, queue) :
        \A j \in Hits(o, queue) : ~(<<j, i>> \in OpToRel(<, Nat))
  BY <1>2, NatLessThanWellFounded, WFMin
<1>4. \E i \in Hits(o, queue) : \A j \in Hits(o, queue) : i <= j
  <2>1. PICK i \in Hits(o, queue) :
          \A j \in Hits(o, queue) : ~(<<j, i>> \in OpToRel(<, Nat))
    BY <1>3
  <2>2. ASSUME NEW j \in Hits(o, queue)
        PROVE  i <= j
    <3>1. i \in Nat /\ j \in Nat
      BY <1>2
    <3>2. ~(j < i)
      BY <2>1, <3>1 DEF OpToRel
    <3> QED
      BY <3>1, <3>2
  <2> QED
    BY <2>2
<1>5. /\ FirstHit(o, queue) \in Hits(o, queue)
      /\ \A j \in Hits(o, queue) : FirstHit(o, queue) <= j
  BY <1>4 DEF FirstHit
<1>6. \A j \in 1..(FirstHit(o, queue) - 1) : ~Compatible(o, queue[j])
  BY <1>1, <1>5 DEF Hits
<1> QED
  BY <1>5, <1>6 DEF Hits

\* When an order trades, its partner and all orders ahead of the partner leave
\* the opposite queue; the other queues stay as they are.
LEMMA RestOnTrade ==
  ASSUME NEW book \in Book, NEW o \in Resting, IsMatched(book, o),
         NEW away, away = book[Opposite(o)],
         NEW i, i = FirstHit(o, away)
  PROVE  /\ i \in 1..Len(away)
         /\ Compatible(o, away[i])
         /\ Trade(book, o) = <<o, Adjusted(o, away[i])>>
         /\ Adjusted(o, away[i]) \in Resting
         /\ Rest(book, o) \in Book
         /\ \A q \in Queue : q # Opposite(o) => Rest(book, o)[q] = book[q]
         /\ Rest(book, o)[Opposite(o)] = SubSeq(away, i + 1, Len(away))
         /\ Len(Rest(book, o)[Opposite(o)]) = Len(away) - i
         /\ \A k \in 1..(Len(away) - i) :
              Rest(book, o)[Opposite(o)][k] = away[i + k]
<1>1. away \in Seq(Resting)
  BY QueuesOfOrder DEF Book
<1>2. Len(away) \in Nat /\ \A k \in 1..Len(away) : away[k] \in Resting
  BY <1>1, LenProperties, ElementOfSeq
<1>3. i \in 1..Len(away) /\ Compatible(o, away[i])
  BY <1>1, FirstHitIsFirst DEF IsMatched
<1>4. /\ SubSeq(away, i + 1, Len(away)) \in Seq(Resting)
      /\ Len(SubSeq(away, i + 1, Len(away))) = Len(away) - i
      /\ \A k \in 1..(Len(away) - i) :
           SubSeq(away, i + 1, Len(away))[k] = away[i + k]
  <2>1. i + 1 \in Int /\ Len(away) \in Int
    BY <1>2, <1>3
  <2>2. \A k \in (i + 1)..Len(away) : away[k] \in Resting
    BY <1>2, <1>3
  <2>3. /\ SubSeq(away, i + 1, Len(away)) \in Seq(Resting)
        /\ Len(SubSeq(away, i + 1, Len(away)))
             = IF i + 1 <= Len(away) THEN Len(away) - (i + 1) + 1 ELSE 0
        /\ \A k \in 1..(Len(away) - (i + 1) + 1) :
             SubSeq(away, i + 1, Len(away))[k] = away[(i + 1) + k - 1]
    BY <2>1, <2>2, SubSeqProperties
  <2> QED
    BY <2>3, <1>2, <1>3, SMTT(30)
<1>5. Rest(book, o) = [book EXCEPT ![Opposite(o)] = SubSeq(away, i + 1, Len(away))]
  BY DEF Rest
<1>6. Adjusted(o, away[i]) \in Resting
  BY <1>2, <1>3 DEF Adjusted, Resting, Order
<1>7. Trade(book, o) = <<o, Adjusted(o, away[i])>>
  BY DEF Trade, Maker
<1>8. /\ Rest(book, o)[Opposite(o)] = SubSeq(away, i + 1, Len(away))
      /\ \A q \in Queue : q # Opposite(o) => Rest(book, o)[q] = book[q]
  BY <1>5, QueuesOfOrder DEF Book
<1>9. Rest(book, o) \in Book
  BY <1>4, <1>5, QueuesOfOrder DEF Book
<1> QED
  BY <1>3, <1>4, <1>6, <1>7, <1>8, <1>9

\* An order that trades with none becomes the last of its own queue.
LEMMA RestOnEnqueue ==
  ASSUME NEW book \in Book, NEW o \in Resting, ~IsMatched(book, o)
  PROVE  /\ Rest(book, o) \in Book
         /\ \A q \in Queue : q # Own(o) => Rest(book, o)[q] = book[q]
         /\ Rest(book, o)[Own(o)] = Append(book[Own(o)], o)
         /\ Len(Rest(book, o)[Own(o)]) = Len(book[Own(o)]) + 1
         /\ \A k \in 1..Len(book[Own(o)]) :
              Rest(book, o)[Own(o)][k] = book[Own(o)][k]
         /\ Rest(book, o)[Own(o)][Len(book[Own(o)]) + 1] = o
         /\ \A k \in 1..Len(book[Opposite(o)]) :
              ~Compatible(o, book[Opposite(o)][k])
<1>1. book[Own(o)] \in Seq(Resting)
  BY QueuesOfOrder DEF Book
<1>2. Rest(book, o) = [book EXCEPT ![Own(o)] = Append(book[Own(o)], o)]
  BY QueuesOfOrder DEF Rest
<1>3. \A k \in 1..Len(book[Opposite(o)]) : ~Compatible(o, book[Opposite(o)][k])
  BY QueuesOfOrder DEF IsMatched, Hits
<1>4. /\ Append(book[Own(o)], o) \in Seq(Resting)
      /\ Len(Append(book[Own(o)], o)) = Len(book[Own(o)]) + 1
      /\ \A k \in 1..Len(book[Own(o)]) :
           Append(book[Own(o)], o)[k] = book[Own(o)][k]
      /\ Append(book[Own(o)], o)[Len(book[Own(o)]) + 1] = o
  BY <1>1, AppendProperties
<1>5. Rest(book, o)[Own(o)] = Append(book[Own(o)], o)
  BY <1>2, QueuesOfOrder DEF Book
<1>6. /\ Rest(book, o) \in Book
      /\ \A q \in Queue : q # Own(o) => Rest(book, o)[q] = book[q]
  BY <1>2, <1>4 DEF Book
<1> QED
  BY <1>3, <1>4, <1>5, <1>6

\* A cancellation changes nothing and trades with none.
LEMMA RestOnCancel ==
  ASSUME NEW book, NEW o, o.operation \notin Side
  PROVE  Rest(book, o) = book /\ ~IsMatched(book, o)
  BY DEF Rest, IsMatched
-------------------------------------------------------------------------------
(* What every book has whose orders came one after the other.              *)

\* An order rests in the queue of its symbol and side.
Placed(book) == \A q \in Queue : \A i \in 1..Len(book[q]) : Own(book[q][i]) = q

\* No two resting orders could trade with each other.
Uncrossed(book) ==
  \A s \in Symbol :
    \A b \in InQueue(book[<<s, BUY>>]), a \in InQueue(book[<<s, SELL>>]) :
      ~Compatible(b, a)

\* A trade takes the same number of orders from the head of a queue, for most
\* queues none: what is left was there before.
LEMMA RestAfterTrade ==
  ASSUME NEW book \in Book, NEW o \in Resting, IsMatched(book, o),
         NEW q \in Queue
  PROVE  \E d \in Nat :
           /\ q # Opposite(o) => d = 0
           /\ q = Opposite(o) => d = FirstHit(o, book[q])
           /\ \A k \in 1..Len(Rest(book, o)[q]) :
                /\ k + d \in 1..Len(book[q])
                /\ Rest(book, o)[q][k] = book[q][k + d]
<1>1. book[q] \in Seq(Resting) /\ Len(book[q]) \in Nat
  BY LenProperties DEF Book
<1>2. CASE q = Opposite(o)
  <2> DEFINE i == FirstHit(o, book[q])
  <2>1. /\ i \in 1..Len(book[q])
        /\ Len(Rest(book, o)[q]) = Len(book[q]) - i
        /\ \A k \in 1..(Len(book[q]) - i) : Rest(book, o)[q][k] = book[q][i + k]
    BY <1>2, RestOnTrade, SMTT(30)
  <2> HIDE DEF i
  <2>2. /\ i \in Nat
        /\ \A k \in 1..Len(Rest(book, o)[q]) :
             k + i \in 1..Len(book[q]) /\ Rest(book, o)[q][k] = book[q][k + i]
    BY <1>1, <2>1
  <2> QED
    BY <1>2, <2>2 DEF i
<1>3. CASE q # Opposite(o)
  <2>1. Rest(book, o)[q] = book[q]
    BY <1>3, RestOnTrade
  <2>2. \A k \in 1..Len(book[q]) : k + 0 = k
    BY <1>1
  <2> QED
    BY <1>3, <2>1, <2>2
<1> QED
  BY <1>2, <1>3

\* Every order in the book after an order was handled was there at the same or
\* a later place, or is the order itself.
LEMMA RestEntries ==
  ASSUME NEW book \in Book, NEW o \in Resting, NEW q \in Queue,
         NEW k \in 1..Len(Rest(book, o)[q])
  PROVE  \/ \E l \in 1..Len(book[q]) : Rest(book, o)[q][k] = book[q][l]
         \/ /\ ~IsMatched(book, o) /\ q = Own(o)
            /\ Rest(book, o)[q][k] = o /\ k = Len(book[q]) + 1
<1>1. CASE IsMatched(book, o)
  BY <1>1, RestAfterTrade
<1>2. CASE ~IsMatched(book, o)
  <2>1. Len(book[q]) \in Nat
    BY LenProperties DEF Book
  <2>2. CASE q # Own(o)
    BY <1>2, <2>2, RestOnEnqueue
  <2>3. CASE q = Own(o)
    <3>1. /\ Len(Rest(book, o)[q]) = Len(book[q]) + 1
          /\ \A l \in 1..Len(book[q]) : Rest(book, o)[q][l] = book[q][l]
          /\ Rest(book, o)[q][Len(book[q]) + 1] = o
      BY <1>2, <2>3, RestOnEnqueue
    <3>2. k \in 1..Len(book[q]) \/ k = Len(book[q]) + 1
      BY <2>1, <3>1
    <3> QED
      BY <1>2, <2>3, <3>1, <3>2
  <2> QED
    BY <2>2, <2>3
<1> QED
  BY <1>1, <1>2

\* The handling of an order keeps every order in its place ...
LEMMA RestPlaced ==
  ASSUME NEW book \in Book, NEW o \in Resting, Placed(book)
  PROVE  Placed(Rest(book, o))
  BY RestEntries DEF Placed

\* ... and crosses no book: the scan has compared the order that comes to rest
\* with all it could trade with.
LEMMA RestUncrossed ==
  ASSUME NEW book \in Book, NEW o \in Resting, Placed(book), Uncrossed(book)
  PROVE  Uncrossed(Rest(book, o))
<1> SUFFICES ASSUME NEW s \in Symbol,
                    NEW k \in 1..Len(Rest(book, o)[<<s, BUY>>]),
                    NEW l \in 1..Len(Rest(book, o)[<<s, SELL>>])
             PROVE  ~Compatible(Rest(book, o)[<<s, BUY>>][k],
                                Rest(book, o)[<<s, SELL>>][l])
  BY DEF Uncrossed, InQueue
<1> DEFINE qb == <<s, BUY>>
           qs == <<s, SELL>>
           b  == Rest(book, o)[qb][k]
           a  == Rest(book, o)[qs][l]
<1>1. qb \in Queue /\ qs \in Queue /\ qb # qs
  BY QueueOfSymbol
<1>2. /\ o.operation \in Side
      /\ Own(o) = <<o.symbol, o.operation>>
      /\ Opposite(o) = <<o.symbol, 1 - o.operation>>
      /\ Opposite(o) \in Queue
  BY QueuesOfOrder DEF Own, Opposite
<1>3. \A q \in Queue : \A i \in 1..Len(book[q]) :
        book[q][i] \in Resting /\ Own(book[q][i]) = q
  BY ElementOfSeq DEF Book, Placed
<1>4. CASE /\ \E i \in 1..Len(book[qb]) : b = book[qb][i]
           /\ \E j \in 1..Len(book[qs]) : a = book[qs][j]
  BY <1>4 DEF Uncrossed, InQueue
<1>5. CASE ~IsMatched(book, o) /\ qb = Own(o) /\ b = o
  <2>1. Opposite(o) = qs
    BY <1>2, <1>5 DEF BUY, SELL
  <2>2. PICK j \in 1..Len(book[qs]) : a = book[qs][j]
    BY <1>1, <1>5, RestEntries
  <2>3. \A i \in 1..Len(book[Opposite(o)]) : ~Compatible(o, book[Opposite(o)][i])
    BY <1>5, RestOnEnqueue
  <2>4. ~Compatible(o, a)
    <3> HIDE DEF a
    <3> QED
      BY <2>1, <2>2, <2>3
  <2> QED
    BY <1>5, <2>4
<1>6. CASE ~IsMatched(book, o) /\ qs = Own(o) /\ a = o
  <2>1. Opposite(o) = qb /\ o.operation = SELL
    BY <1>2, <1>6 DEF BUY, SELL
  <2>2. PICK i \in 1..Len(book[qb]) : b = book[qb][i]
    BY <1>1, <1>6, RestEntries
  <2>3. ~Compatible(o, b)
    <3>1. \A j \in 1..Len(book[Opposite(o)]) : ~Compatible(o, book[Opposite(o)][j])
      BY <1>6, RestOnEnqueue
    <3> HIDE DEF b
    <3> QED
      BY <2>1, <2>2, <3>1
  <2>4. b \in Resting /\ b.operation = BUY
    BY <1>1, <1>3, <2>2 DEF Own
  <2>5. o.price \in Nat /\ b.price \in Nat
    BY <2>4, NumberAssumption DEF Resting, Order
  <2> QED
    BY <1>6, <2>1, <2>3, <2>4, <2>5 DEF Compatible, PricesCross, BUY, SELL
<1>7. \/ \E i \in 1..Len(book[qb]) : b = book[qb][i]
      \/ ~IsMatched(book, o) /\ qb = Own(o) /\ b = o
  BY <1>1, RestEntries
<1>8. \/ \E j \in 1..Len(book[qs]) : a = book[qs][j]
      \/ ~IsMatched(book, o) /\ qs = Own(o) /\ a = o
  BY <1>1, RestEntries
<1> QED
  BY <1>4, <1>5, <1>6, <1>7, <1>8

\* What is in a queue may rest and has a number.
LEMMA BookEntries ==
  ASSUME NEW book \in Book, NEW q \in Queue, NEW k \in 1..Len(book[q])
  PROVE  book[q][k] \in Resting /\ book[q][k].oid \in Nat
<1>1. book[q][k] \in Resting
  BY ElementOfSeq DEF Book
<1> QED
  BY <1>1 DEF Resting, Order

\* The numbers in a queue increase, and no number rests in two queues.
Ascending(book) ==
  \A q \in Queue : \A i, j \in 1..Len(book[q]) : i < j => book[q][i].oid < book[q][j].oid

Distinct(book) ==
  \A p, q \in Queue : p # q =>
    \A i \in 1..Len(book[p]), j \in 1..Len(book[q]) : book[p][i].oid # book[q][j].oid

\* An order with a higher number than all that rest goes behind them.
LEMMA RestAscending ==
  ASSUME NEW book \in Book, NEW o \in Resting, Ascending(book),
         \A q \in Queue : \A i \in 1..Len(book[q]) : book[q][i].oid < o.oid
  PROVE  Ascending(Rest(book, o))
<1> SUFFICES ASSUME NEW q \in Queue,
                    NEW i \in 1..Len(Rest(book, o)[q]),
                    NEW j \in 1..Len(Rest(book, o)[q]), i < j
             PROVE  Rest(book, o)[q][i].oid < Rest(book, o)[q][j].oid
  BY DEF Ascending
<1>1. Len(book[q]) \in Nat
  BY LenProperties DEF Book
<1>2. CASE IsMatched(book, o)
  <2>1. PICK d \in Nat :
          \A k \in 1..Len(Rest(book, o)[q]) :
            k + d \in 1..Len(book[q]) /\ Rest(book, o)[q][k] = book[q][k + d]
    BY <1>2, RestAfterTrade
  <2>2. i + d < j + d
    OBVIOUS
  <2> QED
    BY <2>1, <2>2 DEF Ascending
<1>3. CASE ~IsMatched(book, o)
  <2>1. /\ i \in 1..Len(book[q]) => Rest(book, o)[q][i] = book[q][i]
        /\ \/ j \in 1..Len(book[q]) /\ Rest(book, o)[q][j] = book[q][j]
           \/ j = Len(book[q]) + 1 /\ Rest(book, o)[q][j] = o
    <3>1. CASE q # Own(o)
      BY <1>3, <3>1, RestOnEnqueue
    <3>2. CASE q = Own(o)
      <4>1. /\ Len(Rest(book, o)[q]) = Len(book[q]) + 1
            /\ \A l \in 1..Len(book[q]) : Rest(book, o)[q][l] = book[q][l]
            /\ Rest(book, o)[q][Len(book[q]) + 1] = o
        BY <1>3, <3>2, RestOnEnqueue, SMTT(30)
      <4>2. j \in 1..Len(book[q]) \/ j = Len(book[q]) + 1
        BY <1>1, <4>1
      <4> QED
        BY <4>1, <4>2
    <3> QED
      BY <3>1, <3>2
  <2>2. i \in 1..Len(book[q])
    BY <1>1, <2>1
  <2> QED
    BY <2>1, <2>2 DEF Ascending
<1> QED
  BY <1>2, <1>3

\* Orders in different queues keep having different numbers when one with a
\* higher number than all of them is handled.
LEMMA RestDistinct ==
  ASSUME NEW book \in Book, NEW o \in Resting, Distinct(book),
         \A q \in Queue : \A i \in 1..Len(book[q]) : book[q][i].oid < o.oid
  PROVE  Distinct(Rest(book, o))
<1> SUFFICES ASSUME NEW p \in Queue, NEW q \in Queue, p # q,
                    NEW i \in 1..Len(Rest(book, o)[p]),
                    NEW j \in 1..Len(Rest(book, o)[q])
             PROVE  Rest(book, o)[p][i].oid # Rest(book, o)[q][j].oid
  BY DEF Distinct
<1>1. \A r \in Queue : \A k \in 1..Len(book[r]) : book[r][k].oid # o.oid
  <2>1. \A r \in Queue : \A k \in 1..Len(book[r]) : book[r][k].oid \in Nat
    BY BookEntries
  <2> QED
    BY <2>1 DEF Resting, Order
<1>2. /\ \/ \E k \in 1..Len(book[p]) : Rest(book, o)[p][i] = book[p][k]
         \/ p = Own(o) /\ Rest(book, o)[p][i] = o
      /\ \/ \E l \in 1..Len(book[q]) : Rest(book, o)[q][j] = book[q][l]
         \/ q = Own(o) /\ Rest(book, o)[q][j] = o
  BY RestEntries
<1>3. CASE p = Own(o) /\ Rest(book, o)[p][i] = o
  <2>1. PICK l \in 1..Len(book[q]) : Rest(book, o)[q][j] = book[q][l]
    BY <1>2, <1>3
  <2> QED
    BY <1>1, <1>3, <2>1
<1>4. CASE q = Own(o) /\ Rest(book, o)[q][j] = o
  <2>1. PICK k \in 1..Len(book[p]) : Rest(book, o)[p][i] = book[p][k]
    BY <1>2, <1>4
  <2> QED
    BY <1>1, <1>4, <2>1
<1>5. ASSUME NEW k \in 1..Len(book[p]), Rest(book, o)[p][i] = book[p][k],
             NEW l \in 1..Len(book[q]), Rest(book, o)[q][j] = book[q][l]
      PROVE  Rest(book, o)[p][i].oid # Rest(book, o)[q][j].oid
  BY <1>5 DEF Distinct
<1> QED
  BY <1>2, <1>3, <1>4, <1>5

\* The number of the order that a trade was made with does not rest any more.
LEMMA RestWithoutMaker ==
  ASSUME NEW book \in Book, NEW o \in Resting, IsMatched(book, o),
         Ascending(book), Distinct(book),
         NEW q \in Queue, NEW k \in 1..Len(Rest(book, o)[q])
  PROVE  LET away == book[Opposite(o)] IN
         Rest(book, o)[q][k].oid # away[FirstHit(o, away)].oid
<1> DEFINE away == book[Opposite(o)]
           i    == FirstHit(o, away)
<1>1. i \in 1..Len(away) /\ Opposite(o) \in Queue /\ Len(away) \in Nat
  BY RestOnTrade, QueuesOfOrder, LenProperties DEF Book
<1>2. PICK d \in Nat :
        /\ q = Opposite(o) => d = i
        /\ k + d \in 1..Len(book[q])
        /\ Rest(book, o)[q][k] = book[q][k + d]
  <2>1. PICK d \in Nat :
          /\ q = Opposite(o) => d = FirstHit(o, book[q])
          /\ \A l \in 1..Len(Rest(book, o)[q]) :
               l + d \in 1..Len(book[q]) /\ Rest(book, o)[q][l] = book[q][l + d]
    BY RestAfterTrade
  <2>2. q = Opposite(o) => d = i
    BY <2>1
  <2> QED
    BY <2>1, <2>2
<1> HIDE DEF i
<1>3. CASE q = Opposite(o)
  <2>1. i < k + d
    BY <1>1, <1>2, <1>3
  <2>2. away[i].oid < away[k + d].oid
    BY <1>1, <1>2, <1>3, <2>1 DEF Ascending
  <2>3. away[i].oid \in Nat /\ away[k + d].oid \in Nat
    BY <1>1, <1>2, <1>3, BookEntries
  <2> QED
    BY <1>2, <1>3, <2>2, <2>3 DEF i
<1>4. CASE q # Opposite(o)
  BY <1>1, <1>2, <1>4 DEF Distinct, i
<1> QED
  BY <1>3, <1>4
-------------------------------------------------------------------------------
\* The empty hash has no fields.
LEMMA EmptyHashFields ==
  ASSUME NEW F
  PROVE  EmptyHash \in Hash(F) /\ Fields(EmptyHash) = {} /\ FieldsOnce(EmptyHash)
<1>1. EmptyHash.keys = << >> /\ EmptyHash.hashtable = FALSE
  BY DEF EmptyHash
<1>2. << >> \in Seq(F) /\ Len(<< >>) = 0
  BY EmptySeq
<1> QED
  BY <1>1, <1>2 DEF EmptyHash, Hash, Fields, FieldsOnce

\* The fields of a hash are what its keys are.
LEMMA FieldsType ==
  ASSUME NEW F, NEW h \in Hash(F)
  PROVE  /\ Len(h.keys) \in Nat
         /\ Fields(h) \subseteq F
         /\ \A f \in Fields(h) : \E i \in 1..Len(h.keys) : h.keys[i] = f
         /\ \A i \in 1..Len(h.keys) : h.keys[i] \in Fields(h)
  BY LenProperties, ElementOfSeq DEF Hash, Fields

\* HSET adds the field, behind all others if it is new.
LEMMA HSetFields ==
  ASSUME NEW F, NEW h \in Hash(F), NEW f \in F
  PROVE  /\ HSet(h, f) \in Hash(F)
         /\ Fields(HSet(h, f)) = Fields(h) \cup {f}
         /\ FieldsOnce(h) => FieldsOnce(HSet(h, f))
         /\ f \in Fields(h) => HSet(h, f) = h
         /\ f \notin Fields(h) =>
              /\ Len(HSet(h, f).keys) = Len(h.keys) + 1
              /\ \A i \in 1..Len(h.keys) : HSet(h, f).keys[i] = h.keys[i]
              /\ HSet(h, f).keys[Len(h.keys) + 1] = f
              /\ ~h.hashtable /\ Len(h.keys) < ListpackMax => ~HSet(h, f).hashtable
<1>1. CASE f \in Fields(h)
  BY <1>1 DEF HSet
<1>2. CASE f \notin Fields(h)
  <2> DEFINE grown == Append(h.keys, f)
             table == h.hashtable \/ Len(h.keys) >= ListpackMax
             g     == [keys |-> grown, hashtable |-> table]
  <2>1. HSet(h, f) = g /\ h.keys \in Seq(F)
    BY <1>2 DEF HSet, Hash
  <2>2. table \in BOOLEAN
    BY Zenon
  <2>3. /\ grown \in Seq(F)
        /\ Len(h.keys) \in Nat
        /\ Len(grown) = Len(h.keys) + 1
        /\ \A i \in 1..Len(h.keys) : grown[i] = h.keys[i]
        /\ grown[Len(h.keys) + 1] = f
    BY <2>1, AppendProperties, LenProperties
  <2>4. /\ g.keys = grown /\ g.hashtable = table
        /\ g \in Hash(F)
    <3> HIDE DEF grown, table
    <3> QED
      BY <2>2, <2>3 DEF Hash
  <2>5. ~h.hashtable /\ Len(h.keys) < ListpackMax => ~table
    BY <2>3, ListpackAssumption
  <2> HIDE DEF g, grown, table
  <2>6. Fields(g) = Fields(h) \cup {f}
    BY <2>3, <2>4 DEF Fields
  <2>7. FieldsOnce(h) => FieldsOnce(g)
    BY <1>2, <2>3, <2>4 DEF Fields, FieldsOnce
  <2> QED
    BY <1>2, <2>1, <2>3, <2>4, <2>5, <2>6, <2>7
<1> QED
  BY <1>1, <1>2

\* HDEL deletes the field and keeps the order of the others: each moves at
\* most one place to the front.
LEMMA HDelFields ==
  ASSUME NEW F, NEW h \in Hash(F), NEW f, FieldsOnce(h)
  PROVE  /\ HDel(h, f) \in Hash(F)
         /\ Fields(HDel(h, f)) = Fields(h) \ {f}
         /\ FieldsOnce(HDel(h, f))
         /\ ~h.hashtable => ~HDel(h, f).hashtable
         /\ \E i \in 1..(Len(h.keys) + 1) :
              /\ \A k \in 1..Len(HDel(h, f).keys) :
                   /\ k < i => k \in 1..Len(h.keys) /\ HDel(h, f).keys[k] = h.keys[k]
                   /\ k >= i => /\ k + 1 \in 1..Len(h.keys)
                                /\ HDel(h, f).keys[k] = h.keys[k + 1]
<1>1. /\ h.keys \in Seq(F) /\ Len(h.keys) \in Nat
      /\ \A j \in 1..Len(h.keys) : h.keys[j] \in F
  BY LenProperties, ElementOfSeq DEF Hash
<1>2. CASE f \notin Fields(h)
  <2>1. HDel(h, f) = h /\ Len(h.keys) + 1 \in 1..(Len(h.keys) + 1)
    BY <1>1, <1>2 DEF HDel
  <2> QED
    BY <1>1, <1>2, <2>1
<1>3. CASE f \in Fields(h)
  <2> DEFINE i     == CHOOSE j \in 1..Len(h.keys) : h.keys[j] = f
             left  == SubSeq(h.keys, 1, i - 1)
             right == SubSeq(h.keys, i + 1, Len(h.keys))
             rest  == left \o right
             table == h.hashtable /\ rest # << >>
             g     == [keys |-> rest, hashtable |-> table]
  <2>1. i \in 1..Len(h.keys) /\ h.keys[i] = f
    BY <1>3 DEF Fields
  <2>2. HDel(h, f) = g
    BY <1>3 DEF HDel
  <2> HIDE DEF i
  <2>3. /\ left \in Seq(F) /\ Len(left) = i - 1
        /\ \A k \in 1..(i - 1) : left[k] = h.keys[k]
    BY <1>1, <2>1, SubSeqProperties
  <2>4. /\ right \in Seq(F) /\ Len(right) = Len(h.keys) - i
        /\ \A k \in 1..(Len(h.keys) - i) : right[k] = h.keys[i + k]
    <3>1. \A k \in (i + 1)..Len(h.keys) : h.keys[k] \in F
      BY <1>1, <2>1
    <3>2. /\ right \in Seq(F)
          /\ Len(right) = IF i + 1 <= Len(h.keys) THEN Len(h.keys) - (i + 1) + 1 ELSE 0
          /\ \A k \in 1..(Len(h.keys) - (i + 1) + 1) : right[k] = h.keys[(i + 1) + k - 1]
      BY <1>1, <2>1, <3>1, SubSeqProperties
    <3> QED
      BY <1>1, <2>1, <3>2
  <2> HIDE DEF left, right
  <2>5. /\ rest \in Seq(F)
        /\ Len(rest) = Len(h.keys) - 1
        /\ \A k \in 1..Len(rest) : rest[k] = IF k < i THEN h.keys[k] ELSE h.keys[k + 1]
    <3>1. /\ rest \in Seq(F)
          /\ Len(rest) = Len(left) + Len(right)
          /\ \A k \in 1..(Len(left) + Len(right)) :
               rest[k] = IF k <= Len(left) THEN left[k] ELSE right[k - Len(left)]
      BY <2>3, <2>4, ConcatProperties
    <3> HIDE DEF rest
    <3> QED
      BY <1>1, <2>1, <2>3, <2>4, <3>1
  <2>6. /\ g.keys = rest /\ g.hashtable = table
        /\ g \in Hash(F)
    <3>1. table \in BOOLEAN
      BY Zenon
    <3> HIDE DEF table, rest
    <3> QED
      BY <2>5, <3>1 DEF Hash
  <2> HIDE DEF rest
  <2>7. ~h.hashtable => ~table
    OBVIOUS
  <2> HIDE DEF g, table
  <2>8. \A k \in 1..Len(rest) :
          /\ k < i => k \in 1..Len(h.keys) /\ rest[k] = h.keys[k]
          /\ k >= i => k + 1 \in 1..Len(h.keys) /\ rest[k] = h.keys[k + 1]
    BY <1>1, <2>1, <2>5
  <2>9. Fields(g) = Fields(h) \ {f}
    <3>1. ASSUME NEW k \in 1..Len(rest)
          PROVE  rest[k] \in Fields(h) /\ rest[k] # f
      <4>1. PICK l \in 1..Len(h.keys) : l # i /\ rest[k] = h.keys[l]
        BY <1>1, <2>1, <2>8
      <4> QED
        BY <2>1, <4>1 DEF Fields, FieldsOnce
    <3>2. ASSUME NEW k \in 1..Len(h.keys), k # i
          PROVE  \E l \in 1..Len(rest) : rest[l] = h.keys[k]
      <4>1. CASE k < i
        BY <1>1, <2>1, <2>5, <3>2, <4>1
      <4>2. CASE k > i
        <5>1. k - 1 \in 1..Len(rest) /\ ~(k - 1 < i) /\ (k - 1) + 1 = k
          BY <1>1, <2>1, <2>5, <4>2
        <5> QED
          BY <2>5, <5>1
      <4> QED
        BY <2>1, <3>2, <4>1, <4>2
    <3> QED
      BY <2>1, <2>6, <3>1, <3>2 DEF Fields
  <2>10. FieldsOnce(g)
    BY <1>1, <2>1, <2>5, <2>6, SMTT(30) DEF FieldsOnce
  <2>11. i \in 1..(Len(h.keys) + 1)
    BY <1>1, <2>1
  <2> QED
    BY <2>2, <2>6, <2>7, <2>9, <2>10, <2>8, <2>11
<1> QED
  BY <1>2, <1>3

\* HKEYS answers with fields of the hash, as many as there are, and below
\* ListpackMax in the order of insertion.
LEMMA HKeysFields ==
  ASSUME NEW F, NEW h \in Hash(F), NEW keys \in HKeys(h)
  PROVE  /\ keys \in Seq(F)
         /\ Len(keys) = Len(h.keys)
         /\ \A i \in 1..Len(keys) : keys[i] \in Fields(h)
         /\ ~h.hashtable => keys = h.keys
<1>1. /\ h.keys \in Seq(F) /\ Len(h.keys) \in Nat
      /\ \A j \in 1..Len(h.keys) : h.keys[j] \in F
      /\ h.hashtable \in BOOLEAN
  BY LenProperties, ElementOfSeq DEF Hash
<1>2. CASE ~h.hashtable
  BY <1>1, <1>2 DEF HKeys, Fields
<1>3. CASE h.hashtable
  <2>1. keys \in [1..Len(h.keys) -> Fields(h)]
    BY <1>3 DEF HKeys
  <2>2. Fields(h) \subseteq F
    BY <1>1 DEF Fields
  <2>3. keys \in Seq(F) /\ Len(keys) = Len(h.keys)
    BY <1>1, <2>1, <2>2
  <2> QED
    BY <1>3, <2>1, <2>3
<1> QED
  BY <1>2, <1>3
===============================================================================
