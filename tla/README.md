# Verification of the stock exchange prototype

This directory holds TLA+ models of the programs under `src/`, the TLC
configurations that check them on small instances, and proofs of all their safety
properties and refinements for instances of any size.

    tlc -workers 2 -config MCOrderServer.cfg MCOrderServer    # check a run
    tlapm OrderBookProofs.tla                                 # check the proofs

`PROJECT.json` lists the runs with their properties, for every property a
mutation of the code that breaks it, the source lines of every definition,
the hazards of the code with the properties that watch them, and the theorems.

## 1. The system

    client_s --TCP 11001--> order ==Redis==> exec --TCP 11002--> client_receiver
       |                      |                                      |      ^
       |                      +==Redis==> market_data --UDP multicast-------+
       +--------> customer's Redis <---------------------------------+

Three processes of the exchange share nothing but one Redis; each customer has
a Redis and a few programs of its own. No Redis command is part of a
transaction, so every program sees the store between any two commands of the
others. Nothing is threaded inside a process.

| Component | State | Operations | Talks to |
|---|---|---|---|
| order server, `exchange/order.c`, `comm.c` | last order number, addresses of customers, the trie | start and replay of the active orders; accept, number, acknowledge, match | client_s (TCP), Redis |
| matching engine, `exchange/matching_engine.c` | a trie of symbols; at each leaf a buy and a sell queue, as linked lists with head and tail | `match_trade`: scan the opposite queue; unlink and pair, or append | called by the order server; Redis |
| Redis writes, `exchange/helper.c` | hashes `order:<oid>`, `active_orders`, `executed_orders`, `c2ip` | `add_order_to_redis`, `move_orders_to_exec_queue_redis`, `update_cid_ip` | Redis |
| exec server, `exchange/exec.c` | the orders and addresses it has just read | poll, read details, read addresses, notify, check the answer, delete | Redis, the customers' receivers (TCP) |
| market data server, `exchange/market_data.c` | none across two rounds but a message counter | every second: read the active orders, send the tape | Redis, multicast |
| feed receiver, `clients/client_receiver.c`, `client_l_m.c` | hashes `c-order:<oid>`, `customer_all_orders` | store the quotes of a tape, delete those with another time | multicast, the customer's Redis |
| notification receiver, `client_receiver.c`, `client_l_u.c` | hash `customer_my_orders` | answer a notification, delete the order from the list | exec, the customer's Redis |
| order sender, `clients/client_s.c`, `comm.c` | hash `customer_my_orders` | send an order, record it with the number it got | order server, the customer's Redis |
| wire formats, `exchange/serializers.c`, `clients/helper.c` | none | text and struct to `order_t` and back | |

### What is hard here, and what makes each part correct

* **Matching engine.** Four copies of a pointer dance over lists that are used
  by the next call. Correct means: the lists stay well formed and never reach
  freed memory, the scan misses nobody and ends, the book is never crossed, time
  priority holds, no order trades twice.
* **Order server.** Book and store are two copies of one truth, kept in step by
  single Redis commands, each of which may fail, in a process that may stop
  between any two and then has only the store. Correct means: readers of the
  store never find an active or executed order without details; the book can be
  rebuilt; what was acknowledged is not lost; numbers of live orders are not
  given out again.
* **Exec server.** Reads three hashes that the order server is writing; retries
  by dying and being started again. Correct means: no notification is lost, the
  right customer gets it, nobody waits for ever, none is sent twice without need.
* **Market data.** A sequence of reads that is not a snapshot, then a network that
  loses, delays and reorders, then a copy repaired in place command by command.
  Correct means: quotes are orders that exist with their own details, and the copy
  converges to the book.
* **Customer's own orders.** client_s and the receiver write one list of orders, and
  client_s and the feed the same keys of details, in an order the network decides.
  Correct means: an open order is listed and shown as what it is, an executed one
  leaves the list, and a listing always finds its details.
* **Wire.** An amount passes seven conversions between two widths. Correct means:
  everybody sees the amount that was typed in.

## 2. The modules

| Module | Models | Source |
|---|---|---|
| `Matching` | orders, the two queues of a symbol, when two orders trade, with whom a new one trades, the book after it | `match_trade` as a function |
| `OrderBook` | **abstract**: orders arrive with growing numbers, trade or rest | what the engine promises |
| `TradingTrie` | nodes, `next`, `previous`, heads and tails, the scan one node at a time, unlink, append, `free_order_list` | `matching_engine.c:46-447` |
| `TradingTrieRefinement` | the same with an auxiliary variable `chain`, the nodes of each queue, and the mapping to `OrderBook` | |
| `RedisStore` | the hash commands, with the order in which HKEYS answers | external: Redis |
| `ActiveOrders` | **abstract**: what programs that read the active orders may rely on | what `helper.c` promises |
| `OrderServer` | the process `order`: start, replay, accept, reply, match, one Redis command at a time, errors, stop | `order.c`, `comm.c`, `helper.c` |
| `ExecServer` | the process `exec`, read by read | `exec.c`, `serializers.c:94-224` |
| `Exchange` | `OrderServer` composed with `ExecServer`, the TCP connection and the hosts of the customers | |
| `MarketData` | the process `market_data`, read by read | `market_data.c:95-164` |
| `QuoteReceiver` | the handling of a tape, write by write | `client_receiver.c:456-518`, `clients/helper.c:100-340` |
| `Feed` | composes `ActiveOrders`, `MarketData`, `QuoteReceiver` and the network, with client_s as the other writer of `c-order:<oid>` | `client_s.c:30-50`, `clients/helper.c:203-217` |
| `OrderLife` | **abstract**: the exchange as its customers see it, from the number an order is given to its notification | what `order` and `exec` promise |
| `Wire` | the widths an amount passes through | `cli_args.c:64-98`, `exchange/serializers.c:12-157`, `exchange/helper.c:136-151`, `clients/helper.c:139-172` |
| `Customer` | the runs of client_s and the receiver of one customer on its Redis, over `OrderLife`, with the amounts of `Wire` | `client_s.c`, `clients/comm.c`, `client_receiver.c:302-454`, `clients/helper.c:203-276`, `476-497` |
| `OperatorLemmas` | proofs about the operators of `Matching` and `RedisStore` | |
| `OrderBookProofs`, `TrieProofs`, `OrderServerProofs`, `ExchangeProofs`, `FeedProofs`, `CustomerProofs`, `WireProofs` | proofs about the module that each is named for (`TrieProofs`: `TradingTrieRefinement`) | |
| `MC*` | instances for TLC | |

How they fit: `TradingTrie` implements `OrderBook` (proved), both with the
operators of `Matching`. `OrderServer` uses `Matching` directly, one call of
`match_trade` being one step up to its first Redis command: the trie is private
to the process, so nobody can see it half-way. `OrderServer` implements
`ActiveOrders` (proved), and `Feed` is built on `ActiveOrders`, so what holds
of the feed holds of the order server's real writes without their detail.
`Exchange` EXTENDS `OrderServer` and instantiates `ExecServer`. It implements
`OrderLife` (proved), and `Customer` is built on `OrderLife`, so what holds of the
customer's list holds with the two real processes of the exchange behind it. `Customer`
EXTENDS `Wire`.

### State and actions

*Matching, OrderBook.* `book[<<symbol, side>>]` is the queue of a leaf, head
first. `Compatible` is the pair of conditions of the scan (price on the right
side, quantities equal: there are no partial fills), `FirstHit` the order the scan
stops at, `Rest` the book after the call, `Trade` the pair with the resting
order's price adjusted. A symbol is a model value with several `Spelling`s that
`toupper` maps to it, which is what the walk down the trie does to it. A
cancellation is numbered and dropped, as in the code. What `Rest` says of the
left part of a queue is what the code does: **unlinking a matched order also drops
the orders ahead of it** (finding 1).

*TradingTrie.* `data` is partial: reading a freed or never allocated node is an
evaluation error that TLC reports. `Receive` is the call up to the scan, `ScanNext`
and `ScanHit` the loop, `Enqueue` the append. The buy and sell copies of the code
are one action over `Queue`; they were compared line by line.

*OrderServer.* `todo` is the list of commands that one call will send, `required`
says whether an error makes the caller return. `details`, `active`, `executed`,
`c2ip` are the hashes. `acked` and `trades` are history. `Stop` empties everything
but the store; `Start` reads it back. An error reply means that the command changed
nothing. At the start an error does not look like one: that of HKEYS has no elements, as
an empty hash has none, so the process goes on with an empty book and number 0
(`StartError`, recorded in `misread`); one while the details are read ends it.

*ExecServer.* `exec_pc` walks through the loop; the acknowledgement checks
(`exec.c:117-123`) are one condition, `Deletable`. Every `return` of the loop is
an exit of the process, and so is an error reply to one of its reads (`ReadFails`).
A notification that it had sent stays on the way when it ends (`stray`): the receiver
reads and answers it all the same, at any time, and nobody reads the answer.

*OrderLife.* An order is a pair of number and customer, since a number may be handed
out again; two orders that share a number may even trade with each other. An order may be
notified any number of times, also when it has left the queue, and leaves it once
somebody was. In `Exchange` its variables are `acked`, the orders in `trades`, the fields of
`executed`, and the history `notified`.

*Customer.* A run of client_s is in `send_order` ("send"), before the HSET of the
details, before that of the list, or done; it fails at any point, with its order on
the way ("gone") or not. `Closed` is the answer of a server that ended: recv returns 0,
and the run goes on with number 0. The receiver has answered a notification when it is
at "unlist" and comes to the HDEL next; it stores quotes in between (`StoreQuote`), of
any order that ever had the number, because tapes may be late (`Feed` has the rest of
that program), garbled ones among them (`StoreGarbled`). `c_order` holds whose order a
key shows, and its quantity, or NULL for a garbled quote. `overtaken`
and `interrupted` are history and name the two ways in which the list goes wrong.
A cancellation is an order that never trades, and needs no action of its own.

*Wire.* A `long` is cut to an `int` by its low bits, an `int` becomes a `uint64_t`
modulo its range, `strtol` saturates. The widths are constants.

*Feed.* A tape is `[time, entries]`. Receivers compare times for equality only, so
a time is any number no living message or quote carries. An error reply to HKEYS makes
an empty tape. One to HVALS, as the reply for an order that lacks fields, leaves a number
without details, and also without the ':' that ends an entry: the receivers parse it
together with the entry behind it as one order that nobody placed (`md_open`,
`PutEntry`; its details are NULL). The network is a set: `Deliver` takes any message,
`Lose` drops one. client_s stores what was typed under the number it got
(`ClientWrites`): the symbol in any spelling, or a cancellation that the exchange dropped.

## 3. The runs

| Run | Instance | Result |
|---|---|---|
| `OrderBook` | 4 orders, 1 symbol in 2 spellings, 2 prices, 2 quantities | pass |
| `TradingTrie` | 3 nodes for 5 orders | pass |
| `OrderServer` | 4 orders, 1 stop, 1 Redis error | pass |
| `Exchange` | 2 customers, 2 orders, 1 stop of each process, 1 Redis error, 1 unreliable host | pass |
| `Feed` | 2 orders, 1 tape under way and 1 being handled, 1 stop or error reply | pass |
| `FeedFollows` | 1 number used twice, 2 tapes under way, 1 stop, 1 own order stored by client_s | pass |
| `Customer` | 2 runs of client_s, 1 other customer, 2 numbers, 1 stop, Redis error or garbled quote | pass |
| `TrieLeaves`, `MoveNotAtomic`, `AckLost`, `NumberReused`, `Starved` | as their components | violation |

**OrderBook** checks the rule itself: `NoCrossedBook`, `ArrivalOrder`,
`ExecutedOnce`. That dropped orders do not spoil these is not obvious; they hold
because dropping only shortens a queue from the left.

**TradingTrie** checks the pointers: `Linked` (heads, tails and next pointers
agree with the chain), `NoSharing` (no list reaches a freed node or another list),
`ScanSound` (what lies behind the cursor was compared), `EveryCallReturns`
(no cycle), and `ImplementsOrderBook`. Two orders must rest and a third trade for
an unlinking in the middle, a node must be freed and reused for a stale pointer to
matter: three nodes and five orders do both.

**OrderServer** checks that details precede entries (`ActiveHaveDetails`,
`ExecutedHaveDetails`), that the book is a part of the store (`BookInRedis`), that
executed orders traded and trades are recorded (`ExecutedTraded`, `TradesInRedis`),
that a rebuilt book is uncrossed (`NoCrossedBook`), that numbering stays ahead of the
active orders and priority survives (`NumbersAhead`, `ArrivalOrder`), except after a
start that Redis answered with an error (`~misread`), that acknowledged orders get there
(`AckedRecorded`), and that the store is an `ActiveOrders` store to its readers
(`ImplementsActiveOrders`). Four orders are the least with which the replay itself
trades: one must be dropped by a trade behind it, and one that suits it rest later.

**Exchange** checks that the two processes, interleaved command by command, never
meet a missing detail or address (`DetailsKnown`, `AddressKnown`), that what customers
see is the life of an order whatever stops, fails or arrives late
(`ImplementsOrderLife`: only acknowledged orders trade, only traded ones are queued, none
leaves the queue before somebody was told), that the
right customer is told (`OwnerNotified`), once if exec does not end (`NotifiedOnce`),
and eventually: `EventuallyNotified` assumes only that hosts stop going down and exec
stops ending *from some time on*, so it says that no earlier stop, error or refused
answer leaves a state that keeps an order from its notification. Two orders make one
trade, of one or of two customers, the latter with a healthy and a sick host; a larger
queue adds only repetitions of the loop.

**Feed** checks that a tape has the details of all it lists unless Redis answered with an
error (`TapeComplete`), that a quote is an accepted order of its number, or garbled by
an error (`QuotesAccepted`), that between tapes the quotes are those of the last tape,
whatever stopped before (`QuotesOfLastTape`), and that a tape without an error leaves no
garbled quote (`CompleteTapeRepairs`). Two orders are needed for one to go and one to
stay, for a tape to be half stored, and for an entry without details to swallow another.
The run does not combine stop and error (`MaxFaults`): what either left is repaired by
the same writes of the next tape, and the proofs allow any number of both.

**FeedFollows** has client_s write the details of its own order, as typed, over and under
the quotes of that number (`QuotesAccepted`), and checks that the copy follows the
store for good (`QuotesFollowActive`), with one number whose order changes, and room for
tapes to overtake each other.

**Customer** checks that a listing finds its details (`ListedHaveDetails`), that an
open order is listed, as itself and with the amount that was typed in unless a garbled
quote is in its place (`OpenListed`), that an executed order leaves the list
(`ExecutedUnlisted`, provided that the exchange does tell: `Telling`), and that where one
stays, it is by one of two races (`ToldUnlisted`): its notification overtook client_s, or
the receiver ended between answer and deletion. Two runs and two numbers are what it takes
for orders with a number each, for two with one number, and for one whose number
another customer has; one amount is an `int` of the instance and one is not.

The conditions in front of some properties are part of what they say: `crashes = 0`
or `errors = 0` marks a promise the code keeps only without a stop or an error reply,
because the error is printed and ignored, or numbers are used again. What happens
otherwise is the subject of section 6.

### Bounds

`MaxOrders`, `MaxCrashes`, `MaxErrors`, `MaxFlight`, `MaxStops`, `MaxFaults`,
`MayAccept`, `MayType`, `MayGet` and `Time` bound what is unbounded. Each appears in the guard of
the step it limits. `MayGet` gives the first run number 1, the second either number and
the other customer number 2: up to renaming, every way to share a number.
Prices and quantities are compared and never computed with, so two of each show
every outcome; one price suffices where the pairing is not the question. `Time`
has one value more than can be in use. `ListpackMax` is the number of fields up to
which HKEYS answers in the order of insertion (Redis: `hash-max-listpack-entries`),
beyond it in any order; the runs stay below, as in section 6.

### Fairness

* A process that can go on does: weak fairness of the steps of `match_trade`, of
  the order server, exec, market data server and receiver. They are loops without
  conditions, blocked only by the calls the actions' guards stand for.
* Processes that ended are started again, in `Exchange` and `Feed`: the properties
  there are about what a restart can and cannot mend. `OrderServer` starts by
  the same assumption.
* A receiver that is up answers a notification (`WF(Answers)`): its loop does
  nothing else. A host that is down need not come back.
* In `Customer` the receiver goes on and is started again. That the exchange tells the
  customer is not assumed: it is `EventuallyNotified` of `Exchange`, which has conditions
  of its own (`Recovered`), and `Starved` shows that another customer's host is enough to
  prevent it. So it is the premise of `ExecutedUnlisted` (`Telling`).
* The network delivers some of the tapes that are sent again and again (`SF(Deliver)`);
  it may lose any number.
* Nothing is assumed of clients: orders may come or not, so `Accept` has no fairness.

## 4. What is proved

Every safety invariant and action property of a passing run, and the three refinements,
are theorems, for all values of the constants that satisfy the `ASSUME`s:

| Module | Theorem: property | Condition |
|---|---|---|
| `OrderBookProofs` | `TypeCorrect`: `TypeOK`, `NeverCrossed`: `NoCrossedBook`, `TimePriority`: `ArrivalOrder`, `AtMostOnce`: `ExecutedOnce` | |
| `TrieProofs` | `Types`: `ChainTypeOK`, `ListsWellFormed`: `Linked`, `NodesApart`: `NoSharing`, `ScanMissesNone`: `ScanSound`, `BookImplemented`: `ImplementsOrderBook` | |
| `OrderServerProofs` | `Types`: `TypeOK`, `ActiveAreReadable`: `ActiveHaveDetails`, `ExecutedAreReadable`: `ExecutedHaveDetails`, `OnlyTradedExecuted`: `ExecutedTraded`, `NeverCrossed`: `NoCrossedBook`, `TradesMoved`: `TradesInRedis`, `StoreImplemented`: `ImplementsActiveOrders` | |
| | `FreshNumbers`: `NumbersAhead`, `PrioritySurvives`: `ArrivalOrder`, `BookRecoverable`: `BookInRedis` | `[]FewActive` |
| `ExchangeProofs` | `ExchangeTypes`: `ExchangeTypeOK`, `DetailsThere`: `DetailsKnown`, `AddressThere`: `AddressKnown`, `OwnersTold`: `OwnerNotified`, `ToldOnlyOnce`: `NotifiedOnce`, `LifeImplemented`: `ImplementsOrderLife` | |
| `FeedProofs` | `Types`: `TypeOK`, `TapesComplete`: `TapeComplete`, `AcceptedShown`: `QuotesAccepted`, `LastTapeShown`: `QuotesOfLastTape`, `GarbledRepaired`: `CompleteTapeRepairs` | |
| `CustomerProofs` | `Types`: `TypeOK`, `ListedAreReadable`: `ListedHaveDetails`, `ListedAsTheyAre`: `OpenListed`, `OnlyRacesKeepListed`: `ToldUnlisted` | |
| `WireProofs` | `AmountArrives`, `QuantityKept`, `WrappedAlike` (facts about the operators) | |

A property that is promised only without a stop, a failed command or a misread start
has that premise in its definition (`crashes = 0`, `errors = 0`, `~misread`): the theorem
is about every behaviour.

`FewActive` says that `active_orders` never has more fields than HKEYS returns in the
order of insertion (`ListpackMax`, Redis: `hash-max-listpack-entries`). The
condition is a real one: `order.c:57` goes on numbering from the last order it reads
back, and beyond that size the last key need not be the largest number. TLC finds
the reuse with `ListpackMax = 1` (section 6). What does not need the condition is proved
without it: readability of the store, the uncrossed book, what exec tells whom, the life
of an order.

### From which assumptions

Prices and quantities are numbers, a `Spelling` names one symbol (`Matching`), bounds are
numbers, every customer has a host (`AddressAssumption`), a `long` has at least two
ranges of `int` (`WireAssumption`), and `NULL` is none of the values it is compared with
(`NullAssumption` of `Feed` and `Customer`). `TimeAssumption` of `Feed`: there are
more times than messages under way and orders together, that is, the clock that stamps the
tapes does not come back to a time that somebody still holds. TLC evaluates all of
them in the runs.

### Along which argument

Each module has one inductive invariant, stated in the module of the component (after
its properties) and checked by TLC on the instances of section 3 before it was proved.
A module of proofs has a lemma for each action, with a step for each conjunct of the
invariant that the action can disturb.

*OrderBook* (`IInv`). That a new order joins the right queue needs `InPlace` (every
order rests in the queue of its own symbol and side), that it is younger than all
needs `NumbersSoFar` (no number in book or trades exceeds the last one handed out),
and that executing one order removes its number from the whole book needs `RestingOnce`.

*TradingTrie* (`IInv` of `TradingTrieRefinement`). The pointers are compared with
`chain`, the nodes of each queue. `InHand` says that the node of the new order is
allocated and in no queue, so that appending it makes no cycle; `ChainSound` that no
resting node has a `previous`. The latter is why finding 1 does not corrupt memory:
unlinking always takes the branch for a head, hence drops the nodes ahead as a whole.
`BookImplemented` then maps `chain` to `book`: the arrival of an order and the steps of
the scan change nothing, and the hit or the append is the whole of `MatchTrade`, because
by `ScanSound` the scan stops where `FirstHit` is.

*OrderServer*, three layers. `SInv` holds whatever fails and whatever HKEYS answers.
Its core is `TodoSound`: the details of the order of a pending command are written, or
are written by an earlier command of the plan, one whose failure ends the call where
the entry would become active (`Written`). `StoreSound`, `InHand` and `BookWritten` carry
the same across match and restart: an order hash holds an accepted order, what is read
back was accepted, what rests has its details. `Settled` adds, while nothing stopped
or failed, that both orders of every trade are moved or about to be, and that no
pending command makes one active again. `InOrder` and `BookKept` hold under `FewActive`
while no start was misread (such a start is an error, `MisreadCounted`): active, read back
and resting orders are in the order of their numbers, below the next one; and every
resting order is active with its own details or will be (`Kept`).
`StoreImplemented` shows that `Reply` is the abstract store's acceptance, each
command one of its writes, and every other step a stutter.

*Exchange*. `XInv` is `SInv`, kept by the steps of exec as well (they only take
fields from `executed`), with what ties the two processes: `AddressesFirst` (an address
is stored before its customer has the number of an order), `OrdersOwned` (what rests
or traded belongs to a customer that was given its number), `ExecReading` (what exec
has read is still in the queue, each order once, and keeps its details),
`ExecTelling` (the connection is about the first of these) and `StraySound` (a
notification that exec left behind is about an order that was queued, and goes to the
host of a customer that was given its number). From `NumbersUnique`, that
there is one owner of a number until the order server is stopped, follows
`OwnersTold`. `NotifiedOnce` needs two more: `QueuedOnce`, that no order trades twice
or is put in the queue twice, and `ToldOnce`, that an order that is still queued was not
told, but for the one that exec is about to delete. `LifeImplemented` takes from `ExecTelling`
that only an order somebody was told of is deleted; that numbers are different it does
not need.

*Feed* (`IInv`). `StoreSound` (details are never taken back) makes it harmless that
keys and details are read at different times; `TapesSound` says it of all that is
under way, and that an entry without details takes an error. `CopySound` says what can
stand under a number (`Known`), which only grows, and has the details of a quote before
its entry. `Handling` gives the exact state half-way through a message: the entries from the end of the tape on are
the quotes with its time. That this is all one needs to clean up is `TimesApart`: no
quote carries the time of a message that has not arrived. `GarbledRepaired` adds
`Repaired`: while a complete tape is handled, no quote that carries its time is garbled.

*Customer* (`IInv`). `NumbersKept` (who has a number, and that only numbers of this
customer are told at its host), `DetailsFirst` (also for the order a feed may
overwrite: the details are then those of the own order, by `AmountArrives`),
`ListedUntilTold`, and `ToldBeforeListed`, which is `ToldUnlisted` for runs that have
not listed their order yet.

*Wire*. The `int` of the `uint64_t` of an `int` is that `int` (`IntOfUnsigned`), so a
value that was once an `int` survives the rest of the way.

`OperatorLemmas` says what the operators do, each once: the queues an order belongs to
and is compared with, the first compatible place, what `Rest` does to the book when an
order trades (one queue loses everything up to that place), rests (one grows by one) or
is a cancellation (nothing), and what HSET, HDEL and HKEYS do to the fields of a hash.

### What is only model-checked

* All liveness: `EveryCallReturns`, `AckedRecorded`, `EventuallyNotified`,
  `QuotesFollowActive`, `ExecutedUnlisted`. Fairness and ENABLED are beyond the provers.
* The violations of section 6, which are counterexamples.

## 5. Assumptions of the models

* A Redis command is atomic; an error reply means no effect; the store survives.
* A customer stays at one host. `update_cid_ip` keeps the first address for good, so
  a customer that moves is not reached; this is plain from the code and not a run.
* `order.c:57` reads the number of the last replayed order, which `match_trade` has freed
  if that order traded. Nothing is allocated in between, and a free writes only to the
  first bytes of a block, in front of `oid` (offset 40): the number is still there, and
  `LastNumber` takes it from the last key.
* Text is split at its colons as it was joined. Prices are hundredths:
  `%.2f` there and `%f`/`atof` back is then the identity on the values used.
* The HSET of `exchange/helper.c:172` has two conversions and one argument, so the
  value in `active_orders` is undefined. No program reads it; the models keep the
  fields of that hash only.

## 6. Where the code and its documentation part

1. `TrieLeaves`. Appending does not set `previous`, so unlinking an order that is not
   the head makes its successor the head: the orders ahead of it leave the book, while
   they stay in Redis and on the tape. They come back at a restart.
2. `MoveNotAtomic`. A stop between HSET and HDEL of a move leaves an order in both
   hashes, and the restart puts an executed order in the book again.
3. `AckLost`. The reply is sent before the order is matched or stored: a stop in between
   loses an order whose number the client holds.
4. `NumberReused`. Numbering goes on from the last active order, so a restart gives a
   new order the number of an executed one that exec has yet to read: the customer that
   has the number now is told, and exec may delete a newly queued order together with the
   old one.
5. `Starved`. One host that is down ends exec at the same order every time; the
   customers behind it are never told.

Observed, without a run of its own (the models have all of these steps; the passing
properties name them as their exceptions):

* The "more prefferable" price (`matching_engine.c:140`) is set in memory and freed: the
  record that exec reads has the old one.
* An error reply to HKEYS at the start is taken for no active orders: the process numbers
  from 1 below them (`UniqueOrderID` fails with `MaxErrors = 1` in this way).
* With `ListpackMax = 1` (a hash of more than 128 or 512 fields) `NumbersAhead` fails
  after a restart, because the last key of HKEYS is no longer the last order.
* An error between the two moves of a trade leaves the taker queued and the maker active.
* An error while the details of a taker or the address of a customer are written is
  ignored: exec then ends over that order each time, though every host is up
  (`ReliableNotified` fails with `MaxErrors = 1` and `Unreliable = {}`).
* An error reply to HVALS puts an order on the tape that nobody placed, in the place of
  two that somebody did; it stays until the next tape arrives (`CompleteTapeRepairs`).
* `ToldUnlisted` fails without `s \in overtaken`: an order that is executed before
  client_s has listed it stays in `list --my`, which promises "only your own open
  quotes" (`cli_args.c:29`), for good.
* A run of client_s whose connection is closed without an answer reports success and
  lists its order with number 0.
* `cancel ID` sends no ID: the exchange drops the order, and client_s lists it.

## 7. Not modelled, and the plan

Not modelled for good: socket set-up, environment and clock helpers, printing, the
test and automated-client fragments that are not part of a program, the poll table of
client_receiver (exec opens one connection at a time), the memory that client_l_u
reads behind its message, and bytes: the 1024-byte tape, indexes of symbols outside
A-Z, the terminator of a ten-letter symbol. A client that connects to the order server
and sends nothing is not modelled either: it would block it (`exchange/comm.c:127`).

The system is modelled as far as these boundaries, and its safety is proved. What could
still be done:

1. The theorems of `OrderServer` under `FewActive` for `Exchange` as well: `XInv` carries
   `SInv` there already, `InOrder`, `BookKept` and `Settled` would follow.
2. The safety part of `AckedRecorded`: when the process accepts the next order and
   nothing stopped or failed, every acknowledged order is recorded.
3. Safety lemmas on which other liveness properties rest, such as a bound on the steps
   of a scan (the part of a chain behind the cursor shrinks).
4. A customer that moves: `update_cid_ip` compares the customer only, so the first address
   stays.
