------------------------------ MODULE OrderBook ------------------------------
(***************************************************************************)
(* What the matching engine promises: orders arrive one after the other,   *)
(* each with a higher number than all before it; an order either trades    *)
(* with the first compatible order of the opposite queue or rests at the   *)
(* end of its own.  This is the abstract specification that TradingTrie,   *)
(* the engine's linked lists, is shown to implement; OrderServer applies   *)
(* the same rule within the process.                                       *)
(***************************************************************************)
EXTENDS Matching

CONSTANT MaxOrders   \* bound on the order numbers handed out

ASSUME MaxOrdersAssumption == MaxOrders \in Nat

VARIABLES
  order_number,   \* the number of the last order that arrived
  book,           \* [Queue -> Seq(Order)], heads first
  trades          \* the trades so far, each <<taker, maker>>

vars == <<order_number, book, trades>>

Init ==
  /\ order_number = 0
  /\ book = EmptyBook
  /\ trades = << >>

\* Faulty variant of MatchTrade: the order number is incremented twice.
MatchTradeCountsTwice(r, oid) ==
  LET order == Normalize(Numbered(r, oid)) IN
  /\ order_number' = oid + 1
  /\ book' = Rest(book, order)
  /\ trades' = IF IsMatched(book, order)
                 THEN Append(trades, Trade(book, order)) ELSE trades

\* match_trade(tt, order, ...) for the order numbered oid.
MatchTrade(r, oid) ==
  LET order == Normalize(Numbered(r, oid)) IN
  /\ order_number' = oid
  /\ book' = Rest(book, order)
  /\ trades' = IF IsMatched(book, order)
                 THEN Append(trades, Trade(book, order)) ELSE trades

Next == \E r \in Request, oid \in 1..MaxOrders :
          oid > order_number /\ MatchTrade(r, oid)

Spec == Init /\ [][Next]_vars
-------------------------------------------------------------------------------
TypeOK ==
  /\ order_number \in 0..MaxOrders
  /\ book \in [Queue -> Seq(Resting)]
  /\ trades \in Seq(Resting \X Resting)

\* The book is never crossed: no resting buyer and seller of one symbol
\* could trade with each other.  An engine that stops its scan early, or
\* scans the wrong queue, leaves a pair behind that nobody looks at again.
NoCrossedBook ==
  \A s \in Symbol :
    \A b \in InQueue(book[<<s, BUY>>]), a \in InQueue(book[<<s, SELL>>]) :
      ~Compatible(b, a)

\* Orders wait in the order in which they arrived: time priority.
ArrivalOrder ==
  \A q \in Queue : \A i, j \in 1..Len(book[q]) :
    i < j => book[q][i].oid < book[q][j].oid

\* An order is executed at most once, and an executed order is out of the
\* book for good: no order number occurs twice in the trades, or in a trade
\* and in the book.
ExecutedOnce ==
  /\ \A q \in Queue : \A i \in 1..Len(book[q]) :
       \A n \in 1..Len(trades), k \in 1..2 : book[q][i].oid # trades[n][k].oid
  /\ \A m, n \in 1..Len(trades) : \A k, l \in 1..2 :
       trades[m][k].oid = trades[n][l].oid => m = n /\ k = l

-------------------------------------------------------------------------------
(* What makes these invariants inductive.                                  *)

\* An order rests in the queue of its symbol and side.
InPlace ==
  \A q \in Queue : \A i \in 1..Len(book[q]) : Own(book[q][i]) = q

\* No number is used before it is handed out.
NumbersSoFar ==
  /\ \A q \in Queue : \A i \in 1..Len(book[q]) : book[q][i].oid <= order_number
  /\ \A n \in 1..Len(trades), k \in 1..2 : trades[n][k].oid <= order_number

\* No number is at two places of the book.
RestingOnce ==
  \A p, q \in Queue : \A i \in 1..Len(book[p]), j \in 1..Len(book[q]) :
    book[p][i].oid = book[q][j].oid => p = q /\ i = j

IInv ==
  /\ TypeOK
  /\ InPlace
  /\ NumbersSoFar
  /\ RestingOnce
  /\ NoCrossedBook
  /\ ArrivalOrder
  /\ ExecutedOnce
==============================================================================
