------------------------------- MODULE Matching -------------------------------
(***************************************************************************)
(* The matching rule of exchange/matching_engine.c, without pointers and   *)
(* without Redis: what an order is, which resting order a new order        *)
(* trades with, and what the queues of the trading trie hold afterwards.   *)
(*                                                                         *)
(* A ticker symbol is written by a client in some spelling; the trie walk  *)
(* normalises it with toupper, so the symbols that own queues are the      *)
(* images of toupper.  A path of the trie is its leaf, named by its        *)
(* symbol; the nodes above it hold no order of this symbol.                *)
(***************************************************************************)
EXTENDS Naturals, Sequences

CONSTANTS
  Cid,        \* customer identifiers (the UUIDs of the clients)
  Spelling,   \* ticker symbols as clients write them
  toupper,    \* the C library's normalisation, [Spelling -> Spelling]
  Price,      \* prices, in the unit the exchange stores (hundredths)
  Quantity    \* quantities

\* toupper maps spellings to spellings, and its images to themselves.
ASSUME SpellingAssumption ==
  /\ toupper \in [Spelling -> Spelling]
  /\ \A s \in Spelling : toupper[toupper[s]] = toupper[s]

\* Prices and quantities are numbers; prices are ordered.
ASSUME NumberAssumption == Price \subseteq Nat /\ Quantity \subseteq Nat

\* The three values of order_t.operation that the engine tells apart.
SELL   == 0
BUY    == 1
CANCEL == 2

Side      == {SELL, BUY}
Operation == {SELL, BUY, CANCEL}

\* The symbols that have a leaf in the trie.
Symbol == {toupper[s] : s \in Spelling}

\* order_t, without the timestamps and the list pointers.
Request == [cid : Cid, symbol : Spelling, operation : Operation,
            price : Price, quantity : Quantity]
Order   == [oid : Nat, cid : Cid, symbol : Spelling, operation : Operation,
            price : Price, quantity : Quantity]

\* An order as it rests in a queue: of one side, with a normalised symbol.
Resting == {o \in Order : o.symbol \in Symbol /\ o.operation \in Side}

\* The order that a request becomes when the server numbers it.
Numbered(r, oid) ==
  [oid |-> oid, cid |-> r.cid, symbol |-> r.symbol, operation |-> r.operation,
   price |-> r.price, quantity |-> r.quantity]

\* The trie walk leaves the order with its symbol in upper case.
Normalize(o) == [o EXCEPT !.symbol = toupper[@]]

-------------------------------------------------------------------------------
\* The queues: one per symbol and side.
Queue == Symbol \X Side
EmptyBook == [q \in Queue |-> << >>]

\* The queue in which o rests, and the queue in which o looks for a partner.
Own(o)      == <<o.symbol, o.operation>>
Opposite(o) == <<o.symbol, 1 - o.operation>>

\* A buyer accepts any price up to its own, a seller any from its own on.
PricesCross(o, r) ==
  IF o.operation = BUY THEN o.price >= r.price ELSE o.price <= r.price

\* An order trades only with one of exactly its quantity: there are no
\* partial executions.
Compatible(o, r) == PricesCross(o, r) /\ o.quantity = r.quantity

Hits(o, queue) == {i \in 1..Len(queue) : Compatible(o, queue[i])}

\* The scan starts at the head of the queue and stops at its first hit.
FirstHit(o, queue) ==
  CHOOSE i \in Hits(o, queue) : \A j \in Hits(o, queue) : i <= j

\* Faulty variants, each the way a plausible bug would write the definition
\* that follows; the properties are checked to tell them apart.
MatchesHeadOnly(book, o) ==
  /\ o.operation \in Side
  /\ book[Opposite(o)] # << >>
  /\ Compatible(o, book[Opposite(o)][1])

IsMatched(book, o) == o.operation \in Side /\ Hits(o, book[Opposite(o)]) # {}

Maker(book, o) == book[Opposite(o)][FirstHit(o, book[Opposite(o)])]

\* The price at which the maker leaves the queue: the taker's, since the
\* prices cross (equal, or adjusted "for more prefferable one").
Adjusted(o, r) == [r EXCEPT !.price = o.price]

\* The two orders of a trade, taker first.
Trade(book, o) == <<o, Adjusted(o, Maker(book, o))>>

\* Faulty variants of Rest: the matched order is not unlinked; a resting
\* order is put at the head of its queue.
RestKeepsMatched(book, o) ==
  LET away == book[Opposite(o)] IN
  IF IsMatched(book, o)
    THEN [book EXCEPT ![Opposite(o)] =
                        SubSeq(away, FirstHit(o, away), Len(away))]
  ELSE IF o.operation \in Side
    THEN [book EXCEPT ![Own(o)] = Append(@, o)]
  ELSE book

RestAtHead(book, o) ==
  LET away == book[Opposite(o)] IN
  IF IsMatched(book, o)
    THEN [book EXCEPT ![Opposite(o)] =
                        SubSeq(away, FirstHit(o, away) + 1, Len(away))]
  ELSE IF o.operation \in Side
    THEN [book EXCEPT ![Own(o)] = <<o>> \o @]
  ELSE book

\* The book after the order was handled.  Unlinking the matched order sets
\* the head of its queue to its successor, because no order of a queue has
\* a previous one: the orders ahead of it leave the book with it.
\* A cancellation is not implemented: it changes nothing.
Rest(book, o) ==
  LET away == book[Opposite(o)] IN
  IF IsMatched(book, o)
    THEN [book EXCEPT ![Opposite(o)] =
                        SubSeq(away, FirstHit(o, away) + 1, Len(away))]
  ELSE IF o.operation \in Side
    THEN [book EXCEPT ![Own(o)] = Append(@, o)]
  ELSE book

\* The orders that rest in the book.
InQueue(queue) == {queue[i] : i \in 1..Len(queue)}
Orders(book)   == UNION {InQueue(book[q]) : q \in Queue}
===============================================================================
