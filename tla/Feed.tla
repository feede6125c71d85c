--------------------------------- MODULE Feed ---------------------------------
(***************************************************************************)
(* The market data from end to end: the order server writes active_orders  *)
(* (as ActiveOrders has it, which OrderServer implements), the market data *)
(* server reads it command by command and sends it, the network loses,     *)
(* delays and reorders the messages, and a customer's receiver makes its   *)
(* copy of the book from those that arrive.  Nothing is acknowledged and   *)
(* nothing is sent twice.  Redis may answer the market data server with an *)
(* error, and client_s of the customer writes into the same copy.          *)
(***************************************************************************)
EXTENDS Matching, RedisStore, FiniteSets

CONSTANTS
  NULL,
  MaxOrders,    \* bound on the order numbers
  MayAccept,    \* bound: the orders that may be accepted
  MayType,      \* bound: what client_s may store
  MaxFlight,    \* bound on the messages in the network
  Time,         \* the times a message may carry
  MaxStops,     \* bound on the stops of market data server and receiver
  MaxErrors,    \* bound on the error replies to the market data server
  MaxFaults,    \* bound on stops and error replies together
  Me            \* the customer whose receiver this is

ASSUME FeedAssumption ==
  /\ MaxOrders \in Nat /\ MaxFlight \in Nat
  /\ MaxStops \in Nat /\ MaxErrors \in Nat /\ MaxFaults \in Nat
  /\ Time \subseteq Nat \ {0}

\* There is always a time that no message in the network, no quote and not the
\* message at hand carries.
ASSUME TimeAssumption ==
  IsFiniteSet(Time) => Cardinality(Time) > MaxFlight + MaxOrders

VARIABLES
  details, active, accepted,
  md_pc, md_keys, md_entries, md_open, tape,
  c_order, all_orders, rcv_pc, rcv_message, rcv_todo, handled,
  stops, errors

Store    == INSTANCE ActiveOrders
Data     == INSTANCE MarketData
Receiver == INSTANCE QuoteReceiver

storeVars == <<details, active, accepted>>
mdVars    == <<md_pc, md_keys, md_entries, md_open>>
rcvVars   == <<c_order, all_orders, rcv_pc, rcv_message, rcv_todo, handled>>
budget    == <<stops, errors>>
vars      == <<storeVars, mdVars, tape, rcvVars, budget>>

Init ==
  /\ Store!StoreInit
  /\ Data!MdInit
  /\ Receiver!RcvInit
  /\ stops = 0
  /\ errors = 0

-------------------------------------------------------------------------------
StoreStep ==
  /\ Store!StoreNext
  /\ accepted' \subseteq MayAccept
  /\ UNCHANGED <<mdVars, tape, rcvVars, budget>>

\* The times that a message or a quote carries.
TimesInUse == {m.time : m \in tape}
              \cup {all_orders[oid] : oid \in DOMAIN all_orders}
              \cup (IF rcv_message = NULL THEN {} ELSE {rcv_message.time})

MdStep == /\ Data!MdStep(TimesInUse)
          /\ UNCHANGED <<storeVars, rcvVars, budget>>

MdError ==
  /\ errors < MaxErrors /\ stops + errors < MaxFaults
  /\ errors' = errors + 1
  /\ Data!ReadError
  /\ UNCHANGED <<storeVars, rcvVars, stops>>

MdStop ==
  /\ stops < MaxStops /\ stops + errors < MaxFaults
  /\ stops' = stops + 1
  /\ Data!MdStop
  /\ UNCHANGED <<storeVars, rcvVars, errors>>

RcvStep == Receiver!RcvStep /\ UNCHANGED <<storeVars, mdVars, budget>>

RcvStop ==
  /\ stops < MaxStops /\ stops + errors < MaxFaults
  /\ stops' = stops + 1
  /\ Receiver!RcvStop
  /\ UNCHANGED <<storeVars, mdVars, errors>>

Deliver ==
  /\ \E m \in tape : Receiver!Receive(m)
  /\ UNCHANGED <<storeVars, mdVars, budget>>

\* The network loses a message.
Lose ==
  /\ \E m \in tape : tape' = tape \ {m}
  /\ UNCHANGED <<storeVars, mdVars, rcvVars, budget>>

\* What client_s of the customer stores under a number that it was given: the
\* order as it was typed, the symbol in any spelling, or a cancellation, which is
\* numbered but never accepted.
OwnText(oid) ==
  {Numbered(r, oid) :
     r \in {q \in Request : /\ q.cid = Me
                            /\ q.operation \in Side =>
                                 Normalize(Numbered(q, oid)) \in accepted}}

\* Faulty variant of ClientWrites: the exchange is not waited for.
ClientWritesAtOnce ==
  /\ \E oid \in 1..MaxOrders : \E text \in MayType :
       c_order' = Put(c_order, oid, text)
  /\ UNCHANGED <<storeVars, mdVars, tape, all_orders, rcv_pc, rcv_message, rcv_todo,
                 handled, budget>>

\* client_s was given the number of its order and writes the details, however much
\* later.  (Not kept is which orders it has written, so that it may write one again.)
ClientWrites ==
  /\ \E oid \in 1..MaxOrders : \E text \in OwnText(oid) \cap MayType :
       c_order' = Put(c_order, oid, text)
  /\ UNCHANGED <<storeVars, mdVars, tape, all_orders, rcv_pc, rcv_message, rcv_todo,
                 handled, budget>>

Next ==
  \/ StoreStep
  \/ MdStep \/ MdError \/ MdStop
  \/ RcvStep \/ RcvStop \/ Deliver
  \/ Lose
  \/ ClientWrites

\* Market data server and receiver run on and are started again; of messages
\* sent again and again, some arrive.  Orders may come or not.
Fairness ==
  /\ WF_vars(MdStep)
  /\ WF_vars(RcvStep)
  /\ SF_vars(Deliver)

Spec == Init /\ [][Next]_vars /\ Fairness
-------------------------------------------------------------------------------
Entries == [oid : Nat, details : Resting \cup {NULL}]
Message == [time : Time, entries : Seq(Entries)]

ASSUME NullAssumption == NULL \notin Order \cup Message

TypeOK ==
  /\ DOMAIN details \subseteq 1..MaxOrders
  /\ details \in [DOMAIN details -> accepted]
  /\ active \in Hash(1..MaxOrders)
  /\ accepted \subseteq Resting
  /\ md_pc \in {"down", "poll", "read", "send"}
  /\ md_keys \in Seq(Nat)
  /\ md_entries \in Seq(Entries)
  /\ md_open \in (1..MaxOrders) \cup {NULL}
  /\ tape \subseteq Message
  /\ DOMAIN c_order \subseteq Nat
  /\ all_orders \in [DOMAIN all_orders -> Time]
  /\ rcv_pc \in {"down", "wait", "details", "list", "clean"}
  /\ rcv_message \in Message \cup {NULL}
  /\ rcv_todo \in Seq(Entries)
  /\ handled \in (SUBSET (1..MaxOrders)) \cup {NULL}
  /\ stops \in 0..MaxStops
  /\ errors \in 0..MaxErrors

\* The receiver parses an entry without details together with the one behind
\* it.  Unless Redis answered with an error there is none: whenever the details
\* of a key are read, they are there, however much later than the key.
TapeComplete ==
  errors = 0 =>
    /\ md_open = NULL
    /\ \A i \in 1..Len(md_entries) : md_entries[i].details # NULL

\* What can stand under a number in a customer's copy: an order the exchange
\* accepted, with the details it was accepted with; what the customer typed; and,
\* once Redis answered the market data server with an error, something else.
Known(oid, d) ==
  \/ d \in accepted /\ d.oid = oid
  \/ d \in OwnText(oid)
  \/ d = NULL /\ errors > 0

\* So it is with every quote that a customer can list.
QuotesAccepted ==
  \A oid \in DOMAIN all_orders : oid \in DOMAIN c_order /\ Known(oid, c_order[oid])

\* Between two messages the quotes are those of the last message handled:
\* none that was not on it survives, of whatever message it came, and none
\* is missing.  (Not after the receiver ended in the middle of one.)
QuotesOfLastTape ==
  rcv_pc = "wait" /\ handled # NULL =>
    DOMAIN all_orders = handled

\* The copy follows the book: an order that is active is shown or no longer
\* active, and a quote of an order that is not active disappears, or the order
\* is active again, whatever is lost on the way.
QuotesFollowActive ==
  \A oid \in 1..MaxOrders :
    /\ oid \in Fields(active)
         ~> (oid \in DOMAIN all_orders \/ oid \notin Fields(active))
    /\ oid \in DOMAIN all_orders
         ~> (oid \notin DOMAIN all_orders \/ oid \in Fields(active))

\* The quotes that are no offers, because an error of Redis garbled a tape.
Garbled == {oid \in DOMAIN all_orders : c_order[oid] = NULL}

\* Once a receiver has handled a tape that an error did not touch, no garbled
\* quote is left, of whatever tapes and stops the others came, and whatever
\* client_s wrote in between.
CompleteTapeRepairs ==
  [][/\ rcv_pc = "clean" /\ rcv_pc' = "wait"
     /\ \A i \in 1..Len(rcv_message.entries) : rcv_message.entries[i].details # NULL
     => Garbled' = {}]_vars
-------------------------------------------------------------------------------
(* What makes the invariants inductive.                                    *)

\* The store never takes back the details of an order, and a number is active
\* only once it has some.
StoreSound ==
  /\ \A o \in accepted : o.oid \in 1..MaxOrders
  /\ \A oid \in DOMAIN details : details[oid].oid = oid
  /\ Fields(active) \subseteq DOMAIN details
  /\ FieldsOnce(active)

\* An entry of a tape shows an accepted order under its own number, or is the
\* consequence of an error.
Shown(e) ==
  /\ e.oid \in 1..MaxOrders
  /\ \/ e.details \in accepted /\ e.details.oid = e.oid
     \/ e.details = NULL /\ errors > 0

\* So do the entries of the message being made, of those in the network and of
\* the one at hand.
TapesSound ==
  /\ \A i \in 1..Len(md_keys) : md_keys[i] \in DOMAIN details
  /\ md_pc = "read" => md_keys # << >>
  /\ md_pc \in {"down", "poll"} => md_entries = << >>
  /\ md_open # NULL => errors > 0
  /\ \A i \in 1..Len(md_entries) : Shown(md_entries[i])
  /\ \A m \in tape : \A i \in 1..Len(m.entries) : Shown(m.entries[i])
  /\ rcv_message # NULL =>
       \A i \in 1..Len(rcv_message.entries) : Shown(rcv_message.entries[i])

\* The details of a quote are stored before it is listed.
CopySound ==
  /\ DOMAIN c_order \subseteq 1..MaxOrders
  /\ \A oid \in DOMAIN c_order : Known(oid, c_order[oid])
  /\ DOMAIN all_orders \subseteq DOMAIN c_order

\* No two messages carry the same time, and no quote the time of a message that
\* has not arrived: what an earlier tape has left behind is told apart.
TimesApart ==
  /\ IsFiniteSet(tape) /\ Cardinality(tape) <= MaxFlight
  /\ \A m, n \in tape : m.time = n.time => m = n
  /\ \A m \in tape : \A oid \in DOMAIN all_orders : all_orders[oid] # m.time
  /\ rcv_message # NULL => \A m \in tape : m.time # rcv_message.time

\* The entries of the message at hand are stored from its end on: the ones that
\* are done are the quotes that carry its time.
Handling ==
  /\ rcv_pc \in {"down", "wait"} => rcv_message = NULL
  /\ handled # NULL => rcv_pc = "wait"
  /\ rcv_pc \in {"details", "list", "clean"} =>
       LET all  == rcv_message.entries
           left == Len(rcv_todo)
       IN
       /\ rcv_message # NULL
       /\ left <= Len(all)
       /\ rcv_pc = "clean" <=> left = 0
       /\ \A i \in 1..left : rcv_todo[i] = all[left + 1 - i]
       /\ \A i \in (left + 1)..Len(all) :
            all[i].oid \in DOMAIN all_orders /\ all_orders[all[i].oid] = rcv_message.time
       /\ \A oid \in DOMAIN all_orders :
            all_orders[oid] = rcv_message.time =>
              \E i \in (left + 1)..Len(all) : all[i].oid = oid
       /\ rcv_pc = "list" => all[left].oid \in DOMAIN c_order

IInv ==
  /\ TypeOK
  /\ StoreSound
  /\ TapesSound
  /\ CopySound
  /\ TimesApart
  /\ Handling
  /\ QuotesOfLastTape

\* On top of IInv: while a complete tape is handled, no quote that carries its
\* time is garbled.
Repaired ==
  /\ rcv_pc \in {"details", "list", "clean"}
  /\ \A i \in 1..Len(rcv_message.entries) : rcv_message.entries[i].details # NULL
  => /\ \A oid \in DOMAIN all_orders :
          all_orders[oid] = rcv_message.time => c_order[oid] # NULL
     /\ rcv_pc = "list" => c_order[Head(rcv_todo).oid] # NULL
===============================================================================
