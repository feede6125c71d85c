--------------------------------- MODULE Wire ---------------------------------
(***************************************************************************)
(* What becomes of an AMOUNT on its way from the command line of client_s  *)
(* through the order server, Redis and the tape to the quotes of the       *)
(* customers: the widths of the C types it passes through.  A text of      *)
(* digits is the number it denotes; a uint64_t and an int are the numbers  *)
(* they hold.                                                              *)
(*                                                                         *)
(* The widths are parameters.  On the machines the programs are built for, *)
(* IntHalf is 2^31 and Wide is 2^31, so that a long has 64 bits.           *)
(***************************************************************************)
EXTENDS Integers

CONSTANTS
  IntHalf,    \* one more than the largest int
  Wide        \* how many ranges of int there are up to the largest long

ASSUME WireAssumption == IntHalf \in Nat \ {0} /\ Wide \in Nat \ {0}

IntRange  == 2 * IntHalf
LongHalf  == Wide * IntRange
LongRange == 2 * LongHalf

Unsigned == 0..(LongRange - 1)     \* the values of uint64_t

-------------------------------------------------------------------------------
\* strtol: a number out of range becomes the nearest long.
strtol(n) ==
  IF n < -LongHalf THEN -LongHalf
  ELSE IF n >= LongHalf THEN LongHalf - 1
  ELSE n

\* The conversion of a long or uint64_t to int: the low bits.
ToInt(n) ==
  LET low == n % IntRange IN
  IF low < IntHalf THEN low ELSE low - IntRange

\* The conversion of an int or a long to uint64_t.
ToUnsigned(n) == n % LongRange

\* Faulty variant of Typed: the int is taken for what it is.
TypedSigned(n) == ToInt(strtol(n))

\* process_cli_args: quantity = (int32_t)strtol(AMOUNT).
Typed(n) == ToUnsigned(ToInt(strtol(n)))

\* AMOUNT is refused unless it is positive.
IsAmount(n) == strtol(n) > 0

\* deserialize_order_wire: quantity = atoi(text), the text made with %lu.
Arrived(n) == ToUnsigned(ToInt(strtol(Typed(n))))

\* add_order_to_redis_details stores it with "%i".
Stored(n) == ToInt(Arrived(n))

\* deserialize_order_redis at a restart: quantity = atol(text).
Replayed(n) == ToUnsigned(strtol(Stored(n)))

\* get_orders_from_tape reads it with "%lu", which takes a minus sign, too.
Quoted(n) == ToUnsigned(Stored(n))
===============================================================================
