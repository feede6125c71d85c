----------------------------- MODULE OrderServer -----------------------------
(***************************************************************************)
(* The process `order`: exchange/order.c (start and replay of the active   *)
(* orders), exchange/comm.c (the loop that accepts, numbers, acknowledges  *)
(* and matches one order after the other) and the writes to Redis of       *)
(* exchange/matching_engine.c and exchange/helper.c, one command at a      *)
(* time, since the other processes read the store between any two.         *)
(*                                                                         *)
(* The process may stop at any point and be started again; a Redis command *)
(* may answer with an error, in which case it has changed nothing.         *)
(***************************************************************************)
EXTENDS Matching, RedisStore

CONSTANTS
  Ip,           \* addresses of client hosts
  NULL,
  MaxOrders,    \* bound on the orders acknowledged
  MaxCrashes,   \* bound on the stops of the process
  MaxErrors     \* bound on the error replies of Redis

ASSUME BoundsAssumption ==
  MaxOrders \in Nat /\ MaxCrashes \in Nat /\ MaxErrors \in Nat

VARIABLES
  (* the process *)
  order_pc,       \* where it is: "down", "replay", "accept", "reply",
                  \* "match" or "redis"
  order_number,   \* the number of the last order
  book,           \* the trading trie: [Queue -> Seq(Resting)]
  cid_ip_map,     \* the addresses it knows: a partial function of Cid
  order,          \* the order being handled, or NULL
  loading,        \* the orders read from Redis and not yet replayed
  todo,           \* the Redis commands still to be sent for the order
  (* the store *)
  details,        \* order:<oid>, a partial function of the order numbers
  active,         \* active_orders, a hash of order numbers
  executed,       \* executed_orders, a hash of order numbers
  c2ip,           \* c2ip, a partial function of Cid
  (* history, read by no action *)
  acked,          \* the orders acknowledged to their client, in order
  trades,         \* the trades made in memory, each <<taker, maker>>
  misread,        \* whether a start was not told the active orders
  (* budgets *)
  crashes, errors

memory  == <<order_number, book, cid_ip_map, order, loading, todo>>
redis   == <<details, active, executed, c2ip>>
history == <<acked, trades, misread>>
budget  == <<crashes, errors>>
serverVars == <<order_pc, memory, redis, history, budget>>

Pc == {"down", "replay", "accept", "reply", "match", "redis"}

-------------------------------------------------------------------------------
\* The commands that match_trade sends.  `required`: an error reply makes the
\* caller return, so that the commands after it are not sent.
Command == [cmd : {"details", "activate", "execute", "deactivate"},
            order : Order, required : BOOLEAN]

Cmd(cmd, o, required) == [cmd |-> cmd, order |-> o, required |-> required]

\* Faulty variants: the entry is made before the details; the entry goes to
\* the wrong hash; the maker is forgotten; the details come last.
AddCommandsReversed(o)  == <<Cmd("activate", o, TRUE), Cmd("details", o, TRUE)>>
AddCommandsWrongHash(o) == <<Cmd("details", o, TRUE), Cmd("execute", o, TRUE)>>
ExecuteCommandsTakerOnly(taker, maker) ==
  <<Cmd("details", taker, FALSE),
    Cmd("execute", taker, TRUE), Cmd("deactivate", taker, TRUE)>>
ExecuteCommandsDetailsLast(taker, maker) ==
  <<Cmd("execute", taker, TRUE), Cmd("deactivate", taker, TRUE),
    Cmd("execute", maker, TRUE), Cmd("deactivate", maker, TRUE),
    Cmd("details", taker, FALSE)>>

\* add_order_to_redis: first the details, then the entry in active_orders.
AddCommands(o) == <<Cmd("details", o, TRUE), Cmd("activate", o, TRUE)>>

\* add_order_to_redis_details for the taker, whose failure is only printed,
\* then move_orders_to_exec_queue_redis for the taker and the maker.
ExecuteCommands(taker, maker) ==
  <<Cmd("details", taker, FALSE),
    Cmd("execute", taker, TRUE), Cmd("deactivate", taker, TRUE),
    Cmd("execute", maker, TRUE), Cmd("deactivate", maker, TRUE)>>

\* Faulty variants of Commands: a cancellation is written like an order; the
\* sense of init is inverted.
CommandsOfCancel(b, o, init) ==
  IF IsMatched(b, o)
    THEN ExecuteCommands(Trade(b, o)[1], Trade(b, o)[2])
  ELSE IF ~init
    THEN AddCommands(o)
  ELSE << >>

CommandsInitInverted(b, o, init) ==
  IF IsMatched(b, o)
    THEN ExecuteCommands(Trade(b, o)[1], Trade(b, o)[2])
  ELSE IF o.operation \in Side /\ init
    THEN AddCommands(o)
  ELSE << >>

\* What match_trade sends; an order read back at the start (init) that does
\* not trade is in active_orders already and is not written again.
Commands(b, o, init) ==
  IF IsMatched(b, o)
    THEN ExecuteCommands(Trade(b, o)[1], Trade(b, o)[2])
  ELSE IF o.operation \in Side /\ ~init
    THEN AddCommands(o)
  ELSE << >>

\* Where the process goes when it is done with an order.
Resume(l) == IF l # << >> THEN "replay" ELSE "accept"
-------------------------------------------------------------------------------
Init ==
  /\ order_pc = "down"
  /\ order_number = 0
  /\ book = EmptyBook
  /\ cid_ip_map = EmptyMap
  /\ order = NULL
  /\ loading = << >>
  /\ todo = << >>
  /\ details = EmptyMap
  /\ active = EmptyHash
  /\ executed = EmptyHash
  /\ c2ip = EmptyMap
  /\ acked = << >>
  /\ trades = << >>
  /\ misread = FALSE
  /\ crashes = 0
  /\ errors = 0

\* Faulty variant of LastNumber: the number of the first active order.
FirstNumber(keys) == IF keys = << >> THEN 0 ELSE keys[1]

\* The number with which numbering goes on after a restart: that of the last
\* active order read, 0 if there is none.
LastNumber(keys) == IF keys = << >> THEN 0 ELSE keys[Len(keys)]

\* main: deserialize_order_redis reads the active orders and their details.
\* (Only this process writes these hashes, so reading them is one step.)  That
\* every active order has details to read is the invariant ActiveHaveDetails.
Start ==
  \E keys \in HKeys(active) :
    /\ order_pc = "down"
    /\ loading' = [i \in 1..Len(keys) |-> details[keys[i]]]
    /\ order_number' = LastNumber(keys)
    /\ order_pc' = Resume(loading')
    /\ UNCHANGED <<book, cid_ip_map, order, todo, redis, history, budget>>

\* Redis answers with an error.  Such a reply to HKEYS has no elements, which is
\* taken for "no orders": the process starts with an empty book and number 0,
\* whatever is active.  A reply to HVALS without elements is read all the same:
\* the process ends before it has done anything.
StartError ==
  /\ order_pc = "down"
  /\ errors < MaxErrors
  /\ errors' = errors + 1
  /\ \/ /\ misread' = TRUE
        /\ order_number' = 0
        /\ loading' = << >>
        /\ order_pc' = "accept"
     \/ /\ active.keys # << >>
        /\ UNCHANGED <<misread, order_number, loading, order_pc>>
  /\ UNCHANGED <<book, cid_ip_map, order, todo, redis, acked, trades, crashes>>

\* match_trade, up to its first Redis command.
Match(o, init) ==
  /\ book' = Rest(book, o)
  /\ trades' = IF IsMatched(book, o)
                 THEN Append(trades, Trade(book, o)) ELSE trades
  /\ todo' = Commands(book, o, init)
  /\ order_pc' = "redis"

\* main: the next order read from Redis is put in the trie (init is true).
Replay ==
  /\ order_pc = "replay"
  /\ Match(Normalize(Head(loading)), TRUE)
  /\ loading' = Tail(loading)
  /\ UNCHANGED <<order_number, cid_ip_map, order, redis, acked, misread, budget>>

\* Faulty variants of UpdateCidIp: the address is not stored in Redis; the
\* arguments of HSET are mixed up.
UpdateCidIpInMemory(cid, ip) ==
  /\ cid_ip_map' = Put(cid_ip_map, cid, ip)
  /\ UNCHANGED <<c2ip, errors>>

UpdateCidIpMixedUp(cid, ip) ==
  /\ cid_ip_map' = Put(cid_ip_map, cid, ip)
  /\ c2ip' = Put(c2ip, cid, cid)
  /\ UNCHANGED errors

\* update_cid_ip: only the first address of a customer is kept and stored; the
\* reply of Redis is not looked at.
UpdateCidIp(cid, ip) ==
  IF cid \in DOMAIN cid_ip_map
    THEN UNCHANGED <<cid_ip_map, c2ip, errors>>
    ELSE /\ cid_ip_map' = Put(cid_ip_map, cid, ip)
         /\ \/ c2ip' = Put(c2ip, cid, ip) /\ UNCHANGED errors
            \/ /\ errors < MaxErrors
               /\ errors' = errors + 1
               /\ UNCHANGED c2ip

\* receive_orders: a connection is accepted, the order received and numbered.
Accept(r, ip) ==
  /\ order_pc = "accept"
  /\ Len(acked) < MaxOrders
  /\ order_number' = order_number + 1
  /\ UpdateCidIp(r.cid, ip)
  /\ order' = Numbered(r, order_number + 1)
  /\ order_pc' = "reply"
  /\ UNCHANGED <<book, loading, todo, details, active, executed, history, crashes>>

\* The client is told the number of its order, before the order is matched.
Reply ==
  /\ order_pc = "reply"
  /\ acked' = Append(acked, order)
  /\ order_pc' = "match"
  /\ UNCHANGED <<memory, redis, trades, misread, budget>>

\* match_trade for the order just acknowledged (init is false).
MatchTrade ==
  /\ order_pc = "match"
  /\ Match(Normalize(order), FALSE)
  /\ order' = NULL
  /\ UNCHANGED <<order_number, cid_ip_map, loading, redis, acked, misread, budget>>

\* One command is carried out.
Perform(c) ==
  LET oid == c.order.oid IN
  /\ details' = IF c.cmd = "details" THEN Put(details, oid, c.order) ELSE details
  /\ active' = IF c.cmd = "activate" THEN HSet(active, oid)
               ELSE IF c.cmd = "deactivate" THEN HDel(active, oid)
               ELSE active
  /\ executed' = IF c.cmd = "execute" THEN HSet(executed, oid) ELSE executed
  /\ UNCHANGED c2ip

RedisCommand ==
  /\ order_pc = "redis"
  /\ todo # << >>
  /\ Perform(Head(todo))
  /\ todo' = Tail(todo)
  /\ UNCHANGED <<order_pc, order_number, book, cid_ip_map, order, loading,
                 history, budget>>

\* Redis answers with an error, which is printed.
RedisError ==
  /\ order_pc = "redis"
  /\ todo # << >>
  /\ errors < MaxErrors
  /\ errors' = errors + 1
  /\ todo' = IF Head(todo).required THEN << >> ELSE Tail(todo)
  /\ UNCHANGED <<order_pc, order_number, book, cid_ip_map, order, loading,
                 redis, history, crashes>>

\* match_trade returns.
Return ==
  /\ order_pc = "redis"
  /\ todo = << >>
  /\ order_pc' = Resume(loading)
  /\ UNCHANGED <<memory, redis, history, budget>>

\* The process ends: it is killed, or accept, recv or send fail and main
\* returns.  Nothing but the store survives.
Stop ==
  /\ order_pc # "down"
  /\ crashes < MaxCrashes
  /\ crashes' = crashes + 1
  /\ order_pc' = "down"
  /\ order_number' = 0
  /\ book' = EmptyBook
  /\ cid_ip_map' = EmptyMap
  /\ order' = NULL
  /\ loading' = << >>
  /\ todo' = << >>
  /\ UNCHANGED <<redis, history, errors>>

\* The steps the process takes by itself, once it runs or has an order.
ServerStep ==
  \/ Start \/ StartError \/ Replay \/ Reply \/ MatchTrade
  \/ RedisCommand \/ RedisError \/ Return

Next ==
  \/ \E r \in Request, ip \in Ip : Accept(r, ip)
  \/ ServerStep
  \/ Stop

\* A process that runs goes on; a client may send nothing.
Spec == Init /\ [][Next]_serverVars /\ WF_serverVars(ServerStep)
-------------------------------------------------------------------------------
Traded == UNION {{trades[n][1], trades[n][2]} : n \in 1..Len(trades)}

IsPartialFunction(f, S, T) == DOMAIN f \subseteq S /\ f \in [DOMAIN f -> T]

TypeOK ==
  /\ order_pc \in Pc
  /\ order_number \in Nat
  /\ book \in [Queue -> Seq(Resting)]
  /\ IsPartialFunction(cid_ip_map, Cid, Ip)
  /\ order \in Order \cup {NULL}
  /\ loading \in Seq(Resting)
  /\ todo \in Seq(Command)
  /\ IsPartialFunction(details, Nat, Resting)
  /\ active \in Hash(Nat)
  /\ executed \in Hash(Nat)
  /\ IsPartialFunction(c2ip, Cid, Ip)
  /\ acked \in Seq(Order)
  /\ trades \in Seq(Resting \X Resting)
  /\ misread \in BOOLEAN
  /\ crashes \in 0..MaxCrashes
  /\ errors \in 0..MaxErrors

\* Whatever fails and whenever the process stops, an active order has its
\* details: the restart and the market data read them without a check.
ActiveHaveDetails == Fields(active) \subseteq DOMAIN details

\* Without an error of Redis, an executed order has its details too: the
\* process `exec` reads them without a check.
ExecutedHaveDetails == errors = 0 => Fields(executed) \subseteq DOMAIN details

\* The book can be rebuilt: between two orders, every resting order is active
\* in Redis, with the details it has in memory.  Across restarts, too.
BookInRedis ==
  order_pc = "accept" /\ errors = 0 =>
    \A o \in Orders(book) :
      o.oid \in Fields(active) /\ details[o.oid] = o

\* No order is reported as executed that did not trade.
ExecutedTraded ==
  \A oid \in Fields(executed) : \E t \in Traded : t.oid = oid

\* Without stops and errors, the two orders of a trade are in executed_orders
\* and out of active_orders when the next order is accepted.
TradesInRedis ==
  order_pc = "accept" /\ crashes = 0 /\ errors = 0 =>
    \A t \in Traded :
      t.oid \in Fields(executed) /\ t.oid \notin Fields(active)

\* A new order gets a number above those of the active orders, whose entry
\* and details it would otherwise overwrite, unless Redis answered a start with
\* an error.  After a restart this also rests on the order in which HKEYS
\* answers: while that is the order of insertion.
NumbersAhead ==
  order_pc = "accept" /\ ~misread =>
    \A oid \in Fields(active) : oid <= order_number

\* No resting buyer and seller could trade with each other, across restarts.
NoCrossedBook ==
  \A s \in Symbol :
    \A b \in InQueue(book[<<s, BUY>>]), a \in InQueue(book[<<s, SELL>>]) :
      ~Compatible(b, a)

\* Time priority survives a restart, if Redis told it the active orders.
OldestFirst ==
  \A q \in Queue : \A i, j \in 1..Len(book[q]) :
    i < j => book[q][i].oid < book[q][j].oid

ArrivalOrder == ~misread => OldestFirst

\* An acknowledged buy or sell order is eventually in Redis, active or
\* executed, unless the process stopped or Redis failed.
Recorded(oid) == oid \in Fields(active) \cup Fields(executed)
AckedRecorded ==
  \A oid \in 1..MaxOrders :
    (\E i \in 1..Len(acked) : acked[i].oid = oid /\ acked[i].operation \in Side)
      ~> (Recorded(oid) \/ crashes > 0 \/ errors > 0)

-------------------------------------------------------------------------------
\* What the programs that read the active orders may rely on, between any two
\* commands: the process implements the abstract store.
Accepted == {Normalize(acked[i]) :
               i \in {j \in 1..Len(acked) : acked[j].operation \in Side}}

Store == INSTANCE ActiveOrders WITH accepted <- Accepted

ImplementsActiveOrders == Store!StoreSpec

-------------------------------------------------------------------------------
(* What makes these invariants inductive: first, whatever fails and        *)
(* whatever HKEYS answers.                                                 *)

\* An order rests in the queue of its symbol and side.
InPlace ==
  \A q \in Queue : \A i \in 1..Len(book[q]) : Own(book[q][i]) = q

\* An order hash holds an order with that number that was accepted.
StoreSound ==
  /\ FieldsOnce(active)
  /\ \A oid \in DOMAIN details :
       details[oid] \in Accepted /\ details[oid].oid = oid

\* The orders that the process works on are accepted ones.
InHand ==
  /\ order_pc \in {"reply", "match"} => order \in Order /\ order.oid = order_number
  /\ order_pc = "match" /\ order.operation \in Side => Normalize(order) \in Accepted
  /\ order_pc # "redis" => todo = << >>
  /\ order_pc \in {"down", "accept", "reply", "match"} => loading = << >>
  /\ order_pc = "replay" => loading # << >>
  /\ \A i \in 1..Len(loading) :
       loading[i] \in Accepted /\ loading[i].oid \in DOMAIN details

\* Numbers never run ahead of the acknowledgements by more than the order that
\* is about to be acknowledged.
NumbersAcked ==
  /\ \A i \in 1..Len(acked) : acked[i].oid \in 1..Len(acked)
  /\ Len(acked) <= MaxOrders
  /\ order_pc # "reply" => order_number <= Len(acked)
  /\ order_pc = "reply" => order_number \in 1..(Len(acked) + 1) /\ Len(acked) < MaxOrders
  /\ order_pc = "match" => order_number \in 1..Len(acked)
  /\ \A q \in Queue : \A i \in 1..Len(book[q]) : book[q][i].oid \in 1..Len(acked)

\* The details of the i-th command's order are written or will be before it:
\* if need be, by a command whose failure ends the call.
Written(i, needed) ==
  \/ todo[i].order.oid \in DOMAIN details
  \/ \E j \in 1..(i - 1) :
       /\ todo[j].cmd = "details" /\ todo[j].order.oid = todo[i].order.oid
       /\ needed => todo[j].required

\* What is still to be sent is about accepted orders and in the right order.
TodoSound ==
  \A i \in 1..Len(todo) :
    /\ todo[i].order.oid \in 1..Len(acked)
    /\ todo[i].cmd = "details" => todo[i].order \in Accepted
    /\ todo[i].cmd = "activate" => Written(i, TRUE)
    /\ todo[i].cmd = "execute" =>
         /\ \E t \in Traded : t.oid = todo[i].order.oid
         /\ errors = 0 => Written(i, FALSE)

\* A resting order has its details, or gets them next.
BookWritten ==
  errors = 0 =>
    \A q \in Queue : \A i \in 1..Len(book[q]) :
      \/ book[q][i].oid \in DOMAIN details
      \/ \E j \in 1..Len(todo) :
           todo[j].cmd = "details" /\ todo[j].order.oid = book[q][i].oid

\* A start that was not told the active orders is one of the errors.
MisreadCounted == misread => errors # 0

SInv ==
  /\ TypeOK /\ InPlace /\ NoCrossedBook
  /\ StoreSound /\ ActiveHaveDetails
  /\ InHand /\ NumbersAcked /\ TodoSound
  /\ BookWritten /\ ExecutedHaveDetails /\ ExecutedTraded
  /\ MisreadCounted

-------------------------------------------------------------------------------
(* Further: as long as the process was not stopped and nothing failed.     *)

\* The numbers are those of the acknowledgements, and the two orders of a
\* trade are moved in Redis, or are about to be; no command undoes that.
Settled ==
  crashes = 0 /\ errors = 0 =>
    /\ loading = << >> /\ order_pc # "replay"
    /\ order_pc = "down" => acked = << >> /\ trades = << >> /\ Fields(active) = {}
    /\ order_number = Len(acked) + (IF order_pc = "reply" THEN 1 ELSE 0)
    /\ order_pc = "match" =>
         \A q \in Queue : \A i \in 1..Len(book[q]) : book[q][i].oid < order_number
    /\ \A t \in Traded :
         /\ t.oid \in 1..Len(acked)
         /\ order_pc = "match" => t.oid < order_number
         /\ \/ t.oid \in Fields(executed)
            \/ \E j \in 1..Len(todo) :
                 todo[j].cmd = "execute" /\ todo[j].order.oid = t.oid
         /\ \/ t.oid \notin Fields(active)
            \/ \E j \in 1..Len(todo) :
                 todo[j].cmd = "deactivate" /\ todo[j].order.oid = t.oid
         /\ \A j \in 1..Len(todo) :
              todo[j].cmd = "activate" => todo[j].order.oid # t.oid

(* And further, whenever the process stops, as long as HKEYS answers in    *)
(* the order of insertion and no start gets an error for an answer.        *)

\* There are never more active orders than a listpack holds.
FewActive == Len(active.keys) <= ListpackMax

\* The active and the resting orders have numbers below n.
Below(n) ==
  /\ \A oid \in Fields(active) : oid < n
  /\ \A q \in Queue : \A i \in 1..Len(book[q]) : book[q][i].oid < n

\* No number rests in two queues.
RestingOnce ==
  \A p, q \in Queue : p # q =>
    \A i \in 1..Len(book[p]), j \in 1..Len(book[q]) : book[p][i].oid # book[q][j].oid

\* Orders become active, are read back and come to rest in the order of their
\* numbers.
InOrder ==
  /\ ~active.hashtable
  /\ \A i, j \in 1..Len(active.keys) : i < j => active.keys[i] < active.keys[j]
  /\ \A i, j \in 1..Len(loading) : i < j => loading[i].oid < loading[j].oid
  /\ \A l \in 1..Len(loading) :
       /\ loading[l].oid <= order_number
       /\ \A q \in Queue : \A i \in 1..Len(book[q]) : book[q][i].oid < loading[l].oid
  /\ order_pc = "down" => \A q \in Queue : book[q] = << >>
  /\ order_pc # "down" => Below(order_number + 1)
  /\ order_pc \in {"reply", "match"} => Below(order_number)
  /\ \A j \in 1..Len(todo) : todo[j].cmd = "activate" =>
       /\ j = Len(todo) /\ todo[j].order.oid = order_number
       /\ \A oid \in Fields(active) : oid < order_number
  /\ OldestFirst /\ RestingOnce

\* An order is active with its own details or will be, and no command that is
\* still to be sent changes that.
Kept(o) ==
  /\ \/ o.oid \in Fields(active)
     \/ \E j \in 1..Len(todo) : todo[j].cmd = "activate" /\ todo[j].order.oid = o.oid
  /\ \/ o.oid \in DOMAIN details /\ details[o.oid] = o
     \/ \E j \in 1..Len(todo) : todo[j].cmd = "details" /\ todo[j].order = o
  /\ \A j \in 1..Len(todo) : todo[j].order.oid = o.oid =>
       todo[j].cmd # "deactivate" /\ (todo[j].cmd = "details" => todo[j].order = o)

\* This goes for the orders in the book and those still to be replayed.
BookKept ==
  errors = 0 =>
    \A o \in Orders(book) \cup InQueue(loading) : Kept(o)

-------------------------------------------------------------------------------
(* What the repository says of the process and the code does not do.       *)

\* "Function to move orders from active_orders hash to executed_orders"
\* (helper.c:228): an order in the one is not in the other, once the process
\* accepts orders.
NeverInBoth ==
  order_pc = "accept" /\ errors = 0 =>
    Fields(active) \cap Fields(executed) = {}

\* "ID - is your unique order ID" (clients/cli_args.c:40): no order is given the
\* number of one that is active, or executed with its customer still to be
\* notified.
UniqueOrderID ==
  [][Len(acked') > Len(acked) =>
       acked'[Len(acked')].oid \notin Fields(active) \cup Fields(executed)]_serverVars

\* The client "receives the response if the order was added to the orderbook
\* or not" (README.md:44): an order that was acknowledged gets there.
AckedReachesBook ==
  \A oid \in 1..MaxOrders :
    (\E i \in 1..Len(acked) : acked[i].oid = oid /\ acked[i].operation \in Side)
      ~> Recorded(oid)
===============================================================================
