------------------------------ MODULE WireProofs ------------------------------
(***************************************************************************)
(* What the conversions of Wire do to every amount, for any widths.        *)
(***************************************************************************)
EXTENDS Wire, TLAPS

\* The widths are ordered as the conversions need it.
LEMMA Widths ==
  /\ IntHalf \in Nat \ {0} /\ IntRange \in Nat \ {0}
  /\ LongHalf \in Nat \ {0} /\ LongRange \in Nat \ {0}
  /\ IntRange = 2 * IntHalf /\ LongRange = 2 * LongHalf
  /\ LongHalf >= IntRange
<1>1. IntHalf \in Nat \ {0} /\ Wide \in Nat \ {0}
  BY WireAssumption
<1>2. IntRange \in Nat \ {0} /\ IntRange = 2 * IntHalf
  BY <1>1 DEF IntRange
<1>3. /\ Wide * IntRange \in Nat \ {0}
      /\ Wide * IntRange >= IntRange
  BY <1>1, <1>2
<1> QED
  BY <1>1, <1>2, <1>3 DEF LongHalf, LongRange

\* The remainder of a number, and how to recognise it.
LEMMA Remainder ==
  ASSUME NEW m \in Nat \ {0}, NEW n \in Int
  PROVE  n % m \in 0..(m - 1)
  OBVIOUS

\* Whoever writes a number as a multiple and a rest has its remainder.
LEMMA RemainderIs ==
  ASSUME NEW m \in Nat \ {0}, NEW r \in 0..(m - 1), NEW q \in Int
  PROVE  (q * m + r) % m = r
  OBVIOUS

\* strtol gives a long, ToInt an int, and ToUnsigned a uint64_t.
LEMMA LongOf ==
  ASSUME NEW n \in Int
  PROVE  strtol(n) \in -LongHalf .. (LongHalf - 1)
  BY Widths DEF strtol

\* Whatever number is cast to int, what comes out is one.
LEMMA IntOf ==
  ASSUME NEW n \in Int
  PROVE  ToInt(n) \in -IntHalf .. (IntHalf - 1)
<1>1. n % IntRange \in 0..(IntRange - 1)
  BY Widths, Remainder
<1> QED
  BY <1>1, Widths DEF ToInt

\* The uint64_t of an int: a negative one is counted from the top.
LEMMA UnsignedOfInt ==
  ASSUME NEW i \in -IntHalf .. (IntHalf - 1)
  PROVE  /\ i >= 0 => ToUnsigned(i) = i
         /\ i < 0 => ToUnsigned(i) = i + LongRange
         /\ ToUnsigned(i) \in Unsigned
<1>1. CASE i >= 0
  <2>1. i \in 0..(LongRange - 1)
    BY <1>1, Widths
  <2>2. i % LongRange = i
    BY <2>1, Widths
  <2> QED
    BY <1>1, <2>1, <2>2 DEF ToUnsigned, Unsigned
<1>2. CASE i < 0
  <2>1. i + LongRange \in 0..(LongRange - 1)
    BY <1>2, Widths
  <2>2. (-1 * LongRange + (i + LongRange)) % LongRange = i + LongRange
    BY <2>1, Widths, RemainderIs
  <2>3. i % LongRange = i + LongRange
    BY <2>2, Widths
  <2> QED
    BY <1>2, <2>1, <2>3 DEF ToUnsigned, Unsigned
<1> QED
  BY <1>1, <1>2, Widths

\* The int of the uint64_t of an int is that int.
LEMMA IntOfUnsigned ==
  ASSUME NEW i \in -IntHalf .. (IntHalf - 1)
  PROVE  ToInt(ToUnsigned(i)) = i
<1>1. CASE i >= 0
  <2>1. i % IntRange = i
    BY <1>1, Widths
  <2> QED
    BY <1>1, <2>1, UnsignedOfInt, Widths DEF ToInt
<1>2. CASE i < 0
  <2>1. /\ i + IntRange \in IntHalf .. (IntRange - 1)
        /\ i + IntRange \in 0..(IntRange - 1)
        /\ 2 * Wide - 1 \in Int
        /\ IntRange \in Nat \ {0}
    BY <1>2, Widths, WireAssumption
  <2>2. ((2 * Wide - 1) * IntRange + (i + IntRange)) % IntRange = i + IntRange
    BY <2>1, RemainderIs
  <2>3. (2 * Wide - 1) * IntRange + (i + IntRange) = i + LongRange
    BY Widths, WireAssumption DEF LongRange, LongHalf
  <2>4. ToUnsigned(i) % IntRange = i + IntRange
    BY <1>2, <2>2, <2>3, UnsignedOfInt
  <2> QED
    BY <2>1, <2>4, Widths DEF ToInt
<1> QED
  BY <1>1, <1>2, Widths

\* An amount that is an int is what was typed in wherever it is held or shown:
\* at client_s, at the exchange before and after a restart, in the quotes.
THEOREM AmountArrives ==
  \A n \in 1..(IntHalf - 1) :
    Typed(n) = n /\ Arrived(n) = n /\ Stored(n) = n /\ Replayed(n) = n /\ Quoted(n) = n
<1> SUFFICES ASSUME NEW n \in 1..(IntHalf - 1)
             PROVE  /\ Typed(n) = n /\ Arrived(n) = n /\ Stored(n) = n
                    /\ Replayed(n) = n /\ Quoted(n) = n
  OBVIOUS
<1>1. strtol(n) = n
  BY Widths DEF strtol
<1>2. ToUnsigned(n) = n
  BY UnsignedOfInt, Widths
<1>3. ToInt(n) = n
  BY <1>2, IntOfUnsigned, Widths
<1> QED
  BY <1>1, <1>2, <1>3 DEF Typed, Arrived, Stored, Replayed, Quoted

\* A restart of the order server and a tape give every order the quantity it
\* was matched with, whatever number was typed in.
THEOREM QuantityKept ==
  \A n \in Int : Replayed(n) = Arrived(n) /\ Quoted(n) = Arrived(n)
<1> SUFFICES ASSUME NEW n \in Int
             PROVE  Replayed(n) = Arrived(n) /\ Quoted(n) = Arrived(n)
  OBVIOUS
<1> DEFINE i == ToInt(strtol(Typed(n)))
<1>1. Typed(n) \in Int
  <2>1. strtol(n) \in Int
    BY LongOf, Widths
  <2> QED
    BY <2>1, IntOf, UnsignedOfInt, Widths DEF Typed, Unsigned
<1>2. strtol(Typed(n)) \in Int
  BY <1>1, LongOf, Widths
<1>3. i \in -IntHalf .. (IntHalf - 1)
  BY <1>2, IntOf
<1>4. Arrived(n) = ToUnsigned(i)
  BY DEF Arrived
<1> HIDE DEF i
<1>5. Stored(n) = i
  BY <1>3, <1>4, IntOfUnsigned DEF Stored
<1>6. strtol(i) = i
  BY <1>3, Widths DEF strtol
<1> QED
  BY <1>4, <1>5, <1>6 DEF Replayed, Quoted

\* An amount that the cast to int makes negative is 2^64 - 1 at the exchange:
\* orders for any two such amounts match each other.
THEOREM WrappedAlike ==
  \A n \in Int : ToInt(strtol(n)) < 0 => Arrived(n) = LongRange - 1
<1> SUFFICES ASSUME NEW n \in Int, ToInt(strtol(n)) < 0
             PROVE  Arrived(n) = LongRange - 1
  OBVIOUS
<1>1. ToInt(strtol(n)) \in -IntHalf .. -1
  BY LongOf, IntOf, Widths
<1>2. Typed(n) = ToInt(strtol(n)) + LongRange
  BY <1>1, UnsignedOfInt, Widths DEF Typed
<1>3. Typed(n) \in Int /\ Typed(n) >= LongHalf
  BY <1>1, <1>2, Widths
<1>4. strtol(Typed(n)) = LongHalf - 1
  BY <1>3, Widths DEF strtol
<1>5. ToInt(LongHalf - 1) = -1
  <2> SUFFICES ASSUME /\ Wide - 1 \in Int
                      /\ IntRange \in Nat \ {0}
                      /\ IntRange - 1 \in 0..(IntRange - 1)
               PROVE  ToInt(LongHalf - 1) = -1
    BY Widths, WireAssumption
  <2>1. ((Wide - 1) * IntRange + (IntRange - 1)) % IntRange = IntRange - 1
    BY RemainderIs
  <2>2. (Wide - 1) * IntRange + (IntRange - 1) = LongHalf - 1
    BY Widths, WireAssumption DEF LongHalf
  <2>3. (LongHalf - 1) % IntRange = IntRange - 1
    BY <2>1, <2>2
  <2> QED
    BY <2>3, Widths DEF ToInt
<1>6. ToUnsigned(-1) = LongRange - 1
  BY UnsignedOfInt, Widths
<1> QED
  BY <1>4, <1>5, <1>6 DEF Arrived
===============================================================================
