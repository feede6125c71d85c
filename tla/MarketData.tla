------------------------------ MODULE MarketData ------------------------------
(***************************************************************************)
(* The process `market_data` (exchange/market_data.c): once a second it    *)
(* reads the active orders and their details from Redis, one command at a  *)
(* time, and sends them as one message, the tape, to a multicast group.    *)
(*                                                                         *)
(* A message carries the time at which it was made.  The receivers only    *)
(* compare times for equality, so a time is any number that no other       *)
(* message or quote carries; 0 is left free.  It is chosen when the message *)
(* is sent rather than when its head is written, a second number that the  *)
(* state would have to hold until then.  The message counter is read by    *)
(* nobody and left out.                                                    *)
(***************************************************************************)
EXTENDS Matching, RedisStore, FiniteSets

CONSTANTS
  NULL,
  MaxFlight,   \* bound on the messages in the network
  Time         \* the times a message may carry

VARIABLES
  details, active,   \* the store, shared with the order server
  md_pc,       \* "down", "poll", "read" or "send"
  md_keys,     \* the active orders whose details are still to be read
  md_entries,  \* the entries appended to the message so far
  md_open,     \* the number that an entry without details left at its end, or
               \* NULL
  tape         \* the messages in the network: a set of [time, entries]

mdVars == <<md_pc, md_keys, md_entries, md_open>>

\* An entry of the tape, as the receivers parse it: a number and an order's
\* details, NULL if what is parsed for them is something else.
Entry(oid, d) == [oid |-> oid, details |-> d]

MdInit ==
  /\ md_pc = "down"
  /\ md_keys = << >>
  /\ md_entries = << >>
  /\ md_open = NULL
  /\ tape = {}

MdStart ==
  /\ md_pc = "down"
  /\ md_pc' = "poll"
  /\ UNCHANGED <<md_keys, md_entries, md_open, tape>>

\* HKEYS active_orders.
ReadActive ==
  /\ md_pc = "poll"
  /\ md_keys' \in HKeys(active)
  /\ md_entries' = << >>
  /\ md_pc' = IF md_keys' = << >> THEN "send" ELSE "read"
  /\ UNCHANGED <<md_open, tape>>

\* The next number and then d, the details Redis answered with, "if provided"
\* (else NULL), are put in the message.  Only details end in the ':' that ends an
\* entry: a number without them and the entry that comes next are parsed as one,
\* which has the first number and no details that make sense.
PutEntry(d) ==
  LET oid == Head(md_keys) IN
  /\ md_entries' = IF d = NULL THEN md_entries
                   ELSE Append(md_entries, IF md_open = NULL THEN Entry(oid, d)
                                                             ELSE Entry(md_open, NULL))
  /\ md_open' = IF d # NULL THEN NULL
                ELSE IF md_open = NULL THEN oid ELSE md_open
  /\ md_keys' = Tail(md_keys)
  /\ md_pc' = IF md_keys' = << >> THEN "send" ELSE "read"
  /\ UNCHANGED tape

\* HVALS order:<oid>; the details are all seven fields or none.
Details(oid) == IF oid \in DOMAIN details THEN details[oid] ELSE NULL

\* Faulty variant of ReadEntry: the details of the first order for all.
ReadFirstEntry ==
  /\ md_pc = "read"
  /\ PutEntry(Details(IF md_entries = << >> THEN Head(md_keys) ELSE md_entries[1].oid))

\* HVALS order:<oid> for the next key.
ReadEntry ==
  /\ md_pc = "read"
  /\ PutEntry(Details(Head(md_keys)))

\* Redis answers with an error, a reply without elements: that of HKEYS is taken
\* for "no active orders", that of HVALS for an order without details.
ReadError ==
  \/ /\ md_pc = "poll"
     /\ md_pc' = "send"
     /\ UNCHANGED <<md_keys, md_entries, md_open, tape>>
  \/ /\ md_pc = "read"
     /\ PutEntry(NULL)

\* sendto; a message the network has no room for is lost.  A number left at the
\* end is not parsed.
Send(inUse) ==
  /\ md_pc = "send"
  /\ tape' = IF Cardinality(tape) < MaxFlight
               THEN tape \cup {[time |-> CHOOSE t \in Time \ inUse : TRUE,
                             entries |-> md_entries]}
               ELSE tape
  /\ md_pc' = "poll"
  /\ md_entries' = << >>
  /\ md_open' = NULL
  /\ UNCHANGED md_keys

\* sendto fails, or the process is killed.
MdStop ==
  /\ md_pc # "down"
  /\ md_pc' = "down"
  /\ md_keys' = << >>
  /\ md_entries' = << >>
  /\ md_open' = NULL
  /\ UNCHANGED tape

MdStep(inUse) == MdStart \/ ReadActive \/ ReadEntry \/ Send(inUse)
===============================================================================
