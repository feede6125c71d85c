----------------------------- MODULE FeedProofs -----------------------------
(***************************************************************************)
(* The invariants of Feed, for any number of orders, messages and stops:   *)
(* the quotes of a customer are orders that were accepted, with the        *)
(* details they were accepted with, or what the customer typed itself,     *)
(* unless Redis answered the market data server with an error, and between *)
(* two messages they are those of the last message that was handled to its *)
(* end, whatever Redis answered.                                           *)
(*                                                                         *)
(* The inductive invariant is IInv.  That a tape shows only what was       *)
(* accepted rests on the order in which the store is written (StoreSound)  *)
(* and is passed on with every copy of an entry (TapesSound, CopySound);   *)
(* that the quotes are those of one tape rests on the times being          *)
(* different (TimesApart) and on how far the handling has come (Handling). *)
(***************************************************************************)
EXTENDS Feed, OperatorLemmas, FiniteSetTheorems

\* The operators of the instantiated modules are the ones of this module.
LEMMA StoreOperators ==
  /\ \A m, f, v : Store!Put(m, f, v) = Put(m, f, v)
  /\ \A h, f : Store!HSet(h, f) = HSet(h, f)
  /\ \A h, f : Store!HDel(h, f) = HDel(h, f)
  /\ \A r, oid : Store!Normalize(Store!Numbered(r, oid)) = Normalize(Numbered(r, oid))
  /\ Store!Request = Request /\ Store!Side = Side
  /\ Store!EmptyMap = EmptyMap /\ Store!EmptyHash = EmptyHash
  BY DEF Store!Put, Put, Store!HSet, HSet, Store!HDel, HDel, Store!Fields, Fields,
         Store!Normalize, Normalize, Store!Numbered, Numbered,
         Store!Request, Request, Store!Operation, Operation, Store!Side, Side,
         Store!BUY, BUY, Store!SELL, SELL, Store!CANCEL, CANCEL,
         Store!EmptyMap, EmptyMap, Store!EmptyHash, EmptyHash

\* The market data server's: its keys are HKEYS of the store, an entry is a
\* number with the details read for it.
LEMMA DataOperators ==
  /\ \A h : Data!HKeys(h) = HKeys(h)
  /\ \A oid, d : Data!Entry(oid, d) = [oid |-> oid, details |-> d]
  /\ \A oid : Data!Details(oid) = IF oid \in DOMAIN details THEN details[oid] ELSE NULL
  /\ \A S : Data!Cardinality(S) = Cardinality(S)
<1>1. \A S : Data!Cardinality(S) = Cardinality(S)
  BY DEF Data!Cardinality, Cardinality
<1> QED
  BY <1>1 DEF Data!HKeys, HKeys, Data!Fields, Fields, Data!Entry, Data!Details

\* The receiver writes its hashes as every program does.
LEMMA ReceiverOperators ==
  /\ \A m, f, v : Receiver!Put(m, f, v) = Put(m, f, v)
  /\ Receiver!EmptyMap = EmptyMap
  BY DEF Receiver!Put, Put, Receiver!EmptyMap, EmptyMap

\* What is known stays known, and a tape that shows something goes on showing it.
LEMMA KnownGrows ==
  ASSUME accepted \subseteq accepted', errors > 0 => errors' > 0
  PROVE  /\ \A oid, d : Known(oid, d) => Known(oid, d)'
         /\ \A e : Shown(e) => Shown(e)'
<1>1. \A oid, d : d \in OwnText(oid) => d \in OwnText(oid)'
  BY Zenon DEF OwnText
<1> QED
  BY <1>1 DEF Known, Shown

LEMMA CopyFrame ==
  ASSUME CopySound, c_order' = c_order, all_orders' = all_orders,
         accepted \subseteq accepted', errors > 0 => errors' > 0
  PROVE  CopySound'
<1>1. \A oid, d : Known(oid, d) => Known(oid, d)'
  BY KnownGrows
<1>2. \A oid \in DOMAIN c_order' : Known(oid, c_order[oid])'
  BY <1>1 DEF CopySound
<1> QED
  BY <1>2 DEF CopySound

\* NULL is neither an accepted order nor a message.
LEMMA NullApart == NULL \notin Resting /\ NULL \notin Message
  BY NullAssumption DEF Resting

\* Initially nothing is accepted, sent or shown.
LEMMA InitIInv == Init => IInv
<1> SUFFICES ASSUME Init
             PROVE  IInv
  OBVIOUS
<1>1. /\ details = EmptyMap /\ active = EmptyHash /\ accepted = {}
      /\ md_pc = "down" /\ md_keys = << >> /\ md_entries = << >> /\ tape = {}
      /\ md_open = NULL /\ stops = 0 /\ errors = 0
      /\ c_order = EmptyMap /\ all_orders = EmptyMap
      /\ rcv_pc = "down" /\ rcv_message = NULL /\ rcv_todo = << >>
      /\ handled = NULL
  BY StoreOperators, ReceiverOperators
  DEF Init, Store!StoreInit, Data!MdInit, Receiver!RcvInit
<1>2. DOMAIN EmptyMap = {} /\ Len(<< >>) = 0 /\ \A S : << >> \in Seq(S)
  BY EmptySeq DEF EmptyMap
<1>3. /\ EmptyHash \in Hash(1..MaxOrders)
      /\ Fields(EmptyHash) = {} /\ FieldsOnce(EmptyHash)
  BY EmptyHashFields
<1>4. TypeOK
  <2>1. \A S : EmptyMap \in [DOMAIN EmptyMap -> S]
    BY <1>2 DEF EmptyMap
  <2> QED
    BY <1>1, <1>2, <1>3, <2>1, FeedAssumption DEF TypeOK
<1>5. StoreSound
  BY <1>1, <1>2, <1>3 DEF StoreSound
<1>6. TapesSound
  BY <1>1, <1>2 DEF TapesSound
<1>7. CopySound
  BY <1>1, <1>2 DEF CopySound
<1>8. TimesApart
  BY <1>1, FS_EmptySet, FeedAssumption DEF TimesApart
<1>9. Handling /\ QuotesOfLastTape
  BY <1>1 DEF Handling, QuotesOfLastTape
<1> QED
  BY <1>4, <1>5, <1>6, <1>7, <1>8, <1>9 DEF IInv

-------------------------------------------------------------------------------
\* What is accepted stays accepted, and what has details keeps some.
LEMMA StoreGrows ==
  ASSUME IInv, Store!StoreNext
  PROVE  /\ accepted \subseteq accepted' /\ DOMAIN details \subseteq DOMAIN details'
         /\ accepted' \subseteq Resting
         /\ DOMAIN details' \subseteq 1..MaxOrders
         /\ details' \in [DOMAIN details' -> accepted']
         /\ active' \in Hash(1..MaxOrders)
         /\ StoreSound'
<1>1. /\ accepted \subseteq Resting /\ DOMAIN details \subseteq 1..MaxOrders
      /\ details \in [DOMAIN details -> accepted]
      /\ active \in Hash(1..MaxOrders)
      /\ StoreSound
  BY DEF IInv, TypeOK
<1>2. ASSUME NEW r \in Request, NEW oid \in 1..MaxOrders, r.operation \in Side,
             accepted' = accepted \cup {Normalize(Numbered(r, oid))},
             details' = details, active' = active
      PROVE  /\ accepted \subseteq accepted' /\ accepted' \subseteq Resting
             /\ details' \in [DOMAIN details' -> accepted']
             /\ StoreSound'
  <2> DEFINE o == Normalize(Numbered(r, oid))
  <2>1. o \in Resting /\ o.oid \in 1..MaxOrders
    BY <1>2, NormalizeType
  <2> HIDE DEF o
  <2>2. accepted' = accepted \cup {o}
    BY <1>2 DEF o
  <2>3. StoreSound'
    BY <1>1, <1>2, <2>1, <2>2 DEF StoreSound
  <2> QED
    BY <1>1, <1>2, <2>1, <2>2, <2>3
<1>3. ASSUME NEW o \in accepted, details' = Put(details, o.oid, o),
             active' = active, accepted' = accepted
      PROVE  /\ DOMAIN details \subseteq DOMAIN details'
             /\ DOMAIN details' \subseteq 1..MaxOrders
             /\ details' \in [DOMAIN details' -> accepted']
             /\ StoreSound'
  <2>1. o.oid \in 1..MaxOrders
    BY <1>1 DEF StoreSound
  <2>2. /\ DOMAIN details' = DOMAIN details \cup {o.oid}
        /\ details'[o.oid] = o
        /\ \A g \in DOMAIN details : g # o.oid => details'[g] = details[g]
    BY <1>3 DEF Put
  <2>3. details' = [g \in DOMAIN details' |-> details'[g]]
    BY <1>3 DEF Put
  <2>4. \A g \in DOMAIN details' : details'[g] \in accepted /\ details'[g].oid = g
    BY <1>1, <2>2 DEF StoreSound
  <2>5. StoreSound'
    BY <1>1, <1>3, <2>2, <2>4 DEF StoreSound
  <2> QED
    BY <1>1, <1>3, <2>1, <2>2, <2>3, <2>4, <2>5
<1>4. ASSUME NEW oid \in 1..MaxOrders, oid \in DOMAIN details,
             active' = HSet(active, oid), details' = details, accepted' = accepted
      PROVE  active' \in Hash(1..MaxOrders) /\ StoreSound'
  <2>1. /\ active' \in Hash(1..MaxOrders)
        /\ Fields(active') = Fields(active) \cup {oid}
        /\ FieldsOnce(active')
    <3> DEFINE N == 1..MaxOrders
    <3>1. active \in Hash(N) /\ oid \in N /\ FieldsOnce(active)
      BY <1>1 DEF StoreSound
    <3> HIDE DEF N
    <3>2. /\ HSet(active, oid) \in Hash(N)
          /\ Fields(HSet(active, oid)) = Fields(active) \cup {oid}
          /\ FieldsOnce(HSet(active, oid))
      BY <3>1, HSetFields
    <3> QED
      BY <1>4, <3>2 DEF N
  <2> QED
    BY <1>1, <1>4, <2>1 DEF StoreSound
<1>5. ASSUME NEW oid \in 1..MaxOrders,
             active' = HDel(active, oid), details' = details, accepted' = accepted
      PROVE  active' \in Hash(1..MaxOrders) /\ StoreSound'
  <2>1. /\ active' \in Hash(1..MaxOrders)
        /\ Fields(active') = Fields(active) \ {oid}
        /\ FieldsOnce(active')
    BY <1>1, <1>5, HDelFields DEF StoreSound
  <2> QED
    BY <1>1, <1>5, <2>1 DEF StoreSound
<1> QED
  BY <1>1, <1>2, <1>3, <1>4, <1>5, StoreOperators
  DEF Store!StoreNext, Store!Accept, Store!WriteDetails, Store!Activate,
      Store!Deactivate

\* A command of the order server.
LEMMA StoreStepStep == IInv /\ StoreStep => IInv'
<1> SUFFICES ASSUME IInv, StoreStep
             PROVE  IInv'
  OBVIOUS
<1>1. /\ md_pc' = md_pc /\ md_keys' = md_keys /\ md_entries' = md_entries
      /\ tape' = tape /\ c_order' = c_order /\ all_orders' = all_orders
      /\ rcv_pc' = rcv_pc /\ rcv_message' = rcv_message /\ rcv_todo' = rcv_todo
      /\ handled' = handled
      /\ md_open' = md_open /\ errors' = errors /\ stops' = stops
  BY DEF StoreStep, mdVars, rcvVars, budget
<1>2. /\ accepted \subseteq accepted' /\ DOMAIN details \subseteq DOMAIN details'
      /\ accepted' \subseteq Resting
      /\ DOMAIN details' \subseteq 1..MaxOrders
      /\ details' \in [DOMAIN details' -> accepted']
      /\ active' \in Hash(1..MaxOrders)
      /\ StoreSound'
  BY StoreGrows DEF StoreStep
<1>3. TypeOK'
  BY <1>1, <1>2 DEF IInv, TypeOK
<1>4. TapesSound'
  <2>1. \A e : Shown(e) => Shown(e)'
    BY <1>1, <1>2, KnownGrows
  <2> QED
    BY <1>1, <1>2, <2>1 DEF IInv, TapesSound
<1>5. CopySound'
  BY <1>1, <1>2, CopyFrame DEF IInv
<1>6. TimesApart' /\ Handling' /\ QuotesOfLastTape'
  BY <1>1 DEF IInv, TimesApart, Handling, QuotesOfLastTape
<1> QED
  BY <1>2, <1>3, <1>4, <1>5, <1>6 DEF IInv
-------------------------------------------------------------------------------
\* A set has no more images than elements.
LEMMA Images ==
  ASSUME NEW S, IsFiniteSet(S), NEW f, NEW T, T = {f[x] : x \in S}
  PROVE  IsFiniteSet(T) /\ Cardinality(T) <= Cardinality(S)
<1> DEFINE g == [x \in S |-> f[x]]
<1>1. g \in Surjection(S, T)
  BY DEF Surjection
<1> HIDE DEF g
<1> QED
  BY <1>1, FS_Surjection

\* As long as the network has room, there is a time that nothing carries.
LEMMA FreshTime ==
  ASSUME IInv, Cardinality(tape) < MaxFlight
  PROVE  (CHOOSE t \in Time \ TimesInUse : TRUE) \in Time \ TimesInUse
<1> DEFINE A == {m.time : m \in tape}
           B == {all_orders[oid] : oid \in DOMAIN all_orders}
           C == IF rcv_message = NULL THEN {} ELSE {rcv_message.time}
<1>1. IsFiniteSet(A) /\ Cardinality(A) <= Cardinality(tape)
  <2> DEFINE f == [m \in tape |-> m.time]
  <2>1. A = {f[m] : m \in tape} /\ IsFiniteSet(tape)
    BY DEF IInv, TimesApart
  <2> HIDE DEF f, A
  <2> QED
    BY <2>1, Images
<1>2. IsFiniteSet(B) /\ Cardinality(B) <= MaxOrders
  <2>1. DOMAIN all_orders \in SUBSET (1..MaxOrders)
    BY DEF IInv, CopySound
  <2>2. /\ IsFiniteSet(1..MaxOrders) /\ Cardinality(1..MaxOrders) = MaxOrders
        /\ MaxOrders \in Nat
    BY FS_Interval, FeedAssumption
  <2>3. /\ IsFiniteSet(DOMAIN all_orders)
        /\ Cardinality(DOMAIN all_orders) <= MaxOrders
    BY <2>1, <2>2, FS_Subset
  <2> HIDE DEF B
  <2>4. IsFiniteSet(B) /\ Cardinality(B) <= Cardinality(DOMAIN all_orders)
    BY <2>3, Images DEF B
  <2>5. Cardinality(B) \in Nat /\ Cardinality(DOMAIN all_orders) \in Nat
    BY <2>3, <2>4, FS_CardinalityType
  <2> QED
    BY <2>2, <2>3, <2>4, <2>5
<1>3. IsFiniteSet(C) /\ Cardinality(C) <= 1
  <2>1. C = {} \/ \E x : C = {x}
    OBVIOUS
  <2> HIDE DEF C
  <2>2. \A x : IsFiniteSet({x}) /\ Cardinality({x}) = 1
    BY FS_Singleton
  <2>3. IsFiniteSet({}) /\ Cardinality({}) = 0
    BY FS_EmptySet
  <2>4. IsFiniteSet(C) /\ (Cardinality(C) = 0 \/ Cardinality(C) = 1)
    BY <2>1, <2>2, <2>3, Zenon
  <2> QED
    BY <2>4
<1>4. TimesInUse = (A \cup B) \cup C
  BY DEF TimesInUse
<1> HIDE DEF A, B, C
<1>5. /\ IsFiniteSet(A \cup B)
      /\ Cardinality(A \cup B) = Cardinality(A) + Cardinality(B) - Cardinality(A \cap B)
      /\ IsFiniteSet(A \cap B)
  BY <1>1, <1>2, FS_Union, FS_Intersection
<1>6. /\ IsFiniteSet(TimesInUse)
      /\ Cardinality(TimesInUse)
           = Cardinality(A \cup B) + Cardinality(C) - Cardinality((A \cup B) \cap C)
      /\ IsFiniteSet((A \cup B) \cap C)
  BY <1>3, <1>4, <1>5, FS_Union, FS_Intersection
<1>7. /\ Cardinality(A) \in Nat /\ Cardinality(B) \in Nat /\ Cardinality(C) \in Nat
      /\ Cardinality(A \cup B) \in Nat /\ Cardinality(A \cap B) \in Nat
      /\ Cardinality(TimesInUse) \in Nat /\ Cardinality((A \cup B) \cap C) \in Nat
      /\ Cardinality(tape) \in Nat
  BY <1>1, <1>2, <1>3, <1>5, <1>6, FS_CardinalityType DEF IInv, TimesApart
<1>8. Cardinality(TimesInUse) <= MaxFlight + MaxOrders
  BY <1>1, <1>2, <1>3, <1>5, <1>6, <1>7, FeedAssumption
<1>9. ~(Time \subseteq TimesInUse)
  <2> SUFFICES ASSUME Time \in SUBSET TimesInUse
               PROVE  FALSE
    OBVIOUS
  <2>1. IsFiniteSet(Time) /\ Cardinality(Time) <= Cardinality(TimesInUse)
    BY <1>6, FS_Subset
  <2>2. Cardinality(Time) \in Nat
    BY <2>1, FS_CardinalityType
  <2> QED
    BY <1>7, <1>8, <2>1, <2>2, TimeAssumption, FeedAssumption
<1>10. \E t \in Time \ TimesInUse : TRUE
  BY <1>9
<1> HIDE DEF TimesInUse
<1> QED
  BY <1>10

\* The number of the next key and what Redis answered for it.
LEMMA PutEntryGrows ==
  ASSUME IInv, md_pc = "read", NEW d \in accepted \cup {NULL}, Data!PutEntry(d),
         d # NULL => d.oid = Head(md_keys),
         d = NULL => errors' > 0,
         errors' \in Nat, errors' >= errors
  PROVE  /\ md_pc' \in {"read", "send"}
         /\ md_keys' \in Seq(Nat) /\ md_entries' \in Seq(Entries)
         /\ \A i \in 1..Len(md_keys') : md_keys'[i] \in DOMAIN details
         /\ md_pc' = "read" => md_keys' # << >>
         /\ md_open' \in (1..MaxOrders) \cup {NULL}
         /\ md_open' # NULL => errors' > 0
         /\ \A i \in 1..Len(md_entries') :
              /\ md_entries'[i].oid \in 1..MaxOrders
              /\ \/ /\ md_entries'[i].details \in accepted
                    /\ md_entries'[i].details.oid = md_entries'[i].oid
                 \/ md_entries'[i].details = NULL /\ errors' > 0
<1> DEFINE oid == Head(md_keys)
           e   == IF md_open = NULL THEN [oid |-> oid, details |-> d]
                                    ELSE [oid |-> md_open, details |-> NULL]
<1>0. /\ md_keys \in Seq(Nat) /\ md_entries \in Seq(Entries)
      /\ \A i \in 1..Len(md_keys) : md_keys[i] \in DOMAIN details
      /\ md_keys # << >> /\ errors \in Nat
      /\ md_open \in (1..MaxOrders) \cup {NULL}
      /\ md_open # NULL => errors > 0
      /\ \A i \in 1..Len(md_entries) : Shown(md_entries[i])
      /\ DOMAIN details \subseteq 1..MaxOrders /\ accepted \subseteq Resting
  BY DEF IInv, TypeOK, TapesSound
<1>1. /\ md_keys' = Tail(md_keys)
      /\ md_pc' = IF md_keys' = << >> THEN "send" ELSE "read"
      /\ md_open' = IF d # NULL THEN NULL ELSE IF md_open = NULL THEN oid ELSE md_open
      /\ md_entries' = IF d = NULL THEN md_entries ELSE Append(md_entries, e)
  BY DataOperators DEF Data!PutEntry
<1>2. /\ oid = md_keys[1] /\ 1 \in 1..Len(md_keys)
      /\ md_keys' \in Seq(Nat)
      /\ Len(md_keys') = Len(md_keys) - 1 /\ Len(md_keys) \in Nat
      /\ \A i \in 1..Len(md_keys') : md_keys'[i] = md_keys[i + 1]
  BY <1>0, <1>1, HeadTailProperties, EmptySeq, LenProperties
<1>3. \A i \in 1..Len(md_keys') : md_keys'[i] \in DOMAIN details
  <2> TAKE i \in 1..Len(md_keys')
  <2>1. i + 1 \in 1..Len(md_keys)
    BY <1>2
  <2> QED
    BY <1>0, <1>2, <2>1
<1>4. oid \in 1..MaxOrders
  BY <1>0, <1>2
<1>5. \A i \in 1..Len(md_entries) :
        /\ md_entries[i].oid \in 1..MaxOrders
        /\ \/ /\ md_entries[i].details \in accepted
              /\ md_entries[i].details.oid = md_entries[i].oid
           \/ md_entries[i].details = NULL /\ errors' > 0
  BY <1>0 DEF Shown
<1>6. CASE d = NULL
  BY <1>0, <1>1, <1>2, <1>3, <1>4, <1>5, <1>6
<1>7. CASE d # NULL
  <2>1. /\ e.oid \in 1..MaxOrders
        /\ \/ e.details \in accepted /\ e.details.oid = e.oid
           \/ e.details = NULL /\ errors' > 0
        /\ e.details \in Resting \cup {NULL}
        /\ e = [oid |-> e.oid, details |-> e.details]
    <3>1. CASE md_open = NULL
      BY <1>0, <1>4, <1>7, <3>1
    <3>2. CASE md_open # NULL
      BY <1>0, <3>2
    <3> QED
      BY <3>1, <3>2
  <2> HIDE DEF oid, e
  <2>2. e \in Entries
    BY <2>1 DEF Entries
  <2>3. /\ md_entries' \in Seq(Entries)
        /\ Len(md_entries') = Len(md_entries) + 1 /\ Len(md_entries) \in Nat
        /\ \A i \in 1..Len(md_entries) : md_entries'[i] = md_entries[i]
        /\ md_entries'[Len(md_entries) + 1] = e
    BY <1>0, <1>1, <1>7, <2>2, AppendProperties, LenProperties
  <2>4. ASSUME NEW i \in 1..Len(md_entries')
        PROVE  /\ md_entries'[i].oid \in 1..MaxOrders
               /\ \/ /\ md_entries'[i].details \in accepted
                     /\ md_entries'[i].details.oid = md_entries'[i].oid
                  \/ md_entries'[i].details = NULL /\ errors' > 0
    <3>1. i \in 1..Len(md_entries) \/ i = Len(md_entries) + 1
      BY <2>3
    <3> QED
      BY <1>5, <2>1, <2>3, <3>1
  <2> QED
    BY <1>1, <1>2, <1>3, <1>7, <2>3, <2>4
<1> QED
  BY <1>6, <1>7

\* The market data server starts, reads the active orders or the details of
\* one, is answered with an error, or is stopped: the network is left alone.
LEMMA MdQuiet ==
  ASSUME IInv, UNCHANGED <<storeVars, tape, rcvVars>>,
         stops' \in 0..MaxStops,
         \/ /\ errors' = errors
            /\ Data!MdStart \/ Data!ReadActive \/ Data!ReadEntry \/ Data!MdStop
         \/ errors' = errors + 1 /\ errors < MaxErrors /\ Data!ReadError
  PROVE  IInv'
<1>0. errors \in Nat /\ MaxErrors \in Nat /\ errors' \in 0..MaxErrors /\ errors' >= errors
  BY FeedAssumption DEF IInv, TypeOK
<1>1. /\ details' = details /\ active' = active /\ accepted' = accepted
      /\ tape' = tape /\ c_order' = c_order /\ all_orders' = all_orders
      /\ rcv_pc' = rcv_pc /\ rcv_message' = rcv_message /\ rcv_todo' = rcv_todo
      /\ handled' = handled
  BY DEF storeVars, rcvVars
<1> DEFINE InTape(e) == /\ e.oid \in 1..MaxOrders
                        /\ \/ e.details \in accepted /\ e.details.oid = e.oid
                           \/ e.details = NULL /\ errors' > 0
<1>2. /\ md_pc' \in {"down", "poll", "read", "send"}
      /\ md_keys' \in Seq(Nat) /\ md_entries' \in Seq(Entries)
      /\ \A i \in 1..Len(md_keys') : md_keys'[i] \in DOMAIN details
      /\ md_pc' = "read" => md_keys' # << >>
      /\ md_pc' \in {"down", "poll"} => md_entries' = << >>
      /\ md_open' \in (1..MaxOrders) \cup {NULL}
      /\ md_open' # NULL => errors' > 0
      /\ \A i \in 1..Len(md_entries') : InTape(md_entries'[i])
  <2>1. /\ md_keys \in Seq(Nat) /\ md_entries \in Seq(Entries)
        /\ \A i \in 1..Len(md_keys) : md_keys[i] \in DOMAIN details
        /\ md_pc = "read" => md_keys # << >>
        /\ md_pc \in {"down", "poll"} => md_entries = << >>
        /\ md_open \in (1..MaxOrders) \cup {NULL}
        /\ md_open # NULL => errors > 0
        /\ \A i \in 1..Len(md_entries) : Shown(md_entries[i])
    BY DEF IInv, TypeOK, TapesSound
  <2>2. \A S : << >> \in Seq(S) /\ Len(<< >>) = 0
    BY EmptySeq
  <2>3. \A e : Shown(e) => InTape(e)
    BY <1>0 DEF Shown
  <2>4. md_open' = md_open => (md_open' # NULL => errors' > 0)
    BY <1>0, <2>1
  <2> HIDE DEF InTape
  <2>5. CASE Data!MdStart
    BY <2>1, <2>3, <2>4, <2>5 DEF Data!MdStart
  <2>6. CASE Data!ReadActive
    <3>1. /\ md_keys' \in HKeys(active) /\ md_entries' = << >> /\ md_open' = md_open
          /\ md_pc' = IF md_keys' = << >> THEN "send" ELSE "read"
      BY <2>6, DataOperators DEF Data!ReadActive
    <3>2. active \in Hash(1..MaxOrders)
      BY DEF IInv, TypeOK
    <3>3. /\ md_keys' \in Seq(1..MaxOrders)
          /\ \A i \in 1..Len(md_keys') : md_keys'[i] \in Fields(active)
      BY <3>1, <3>2, HKeysFields
    <3>4. md_keys' \in Seq(Nat)
      <4>1. \A i \in 1..Len(md_keys') : md_keys'[i] \in Nat
        <5>1. Fields(active) \subseteq Nat
          BY DEF IInv, TypeOK, StoreSound
        <5> QED
          BY <3>3, <5>1
      <4> QED
        BY <3>3, <4>1, SeqMonotonic
    <3>5. \A i \in 1..Len(md_keys') : md_keys'[i] \in DOMAIN details
      BY <3>3 DEF IInv, StoreSound
    <3> QED
      BY <2>1, <2>2, <2>4, <3>1, <3>4, <3>5
  <2>7. CASE Data!ReadEntry /\ errors' = errors
    <3> DEFINE d == details[Head(md_keys)]
    <3>1. md_pc = "read"
      BY <2>7 DEF Data!ReadEntry
    <3>2. Head(md_keys) \in DOMAIN details
      <4>1. Head(md_keys) = md_keys[1] /\ 1 \in 1..Len(md_keys)
        BY <2>1, <3>1, HeadTailProperties, EmptySeq
      <4> QED
        BY <2>1, <4>1
    <3>3. Data!Details(Head(md_keys)) = d
      BY <3>2, DataOperators
    <3>4. d \in accepted /\ d.oid = Head(md_keys) /\ d # NULL
      BY <3>2, NullApart DEF IInv, TypeOK, StoreSound
    <3>5. Data!PutEntry(d)
      BY <2>7, <3>3, Zenon DEF Data!ReadEntry
    <3> HIDE DEF d
    <3>6. errors' \in Nat /\ errors' >= errors
      BY <1>0
    <3>7. d \in accepted \cup {NULL}
      BY <3>4
    <3> QED
      BY <3>1, <3>4, <3>5, <3>6, <3>7, PutEntryGrows DEF InTape
  <2>8. CASE Data!ReadError /\ errors' = errors + 1
    <3>1. errors' \in Nat /\ errors' >= errors /\ errors' > 0
      BY <1>0, <2>8
    <3>2. CASE md_pc = "read" /\ Data!PutEntry(NULL)
      BY <3>1, <3>2, PutEntryGrows DEF InTape
    <3>3. CASE /\ md_pc = "poll" /\ md_pc' = "send"
               /\ UNCHANGED <<md_keys, md_entries, md_open>>
      BY <2>1, <2>3, <2>4, <3>3
    <3> QED
      BY <2>8, <3>2, <3>3 DEF Data!ReadError
  <2>9. CASE Data!MdStop
    BY <2>2, <2>9 DEF Data!MdStop
  <2> QED
    BY <1>0, <2>5, <2>6, <2>7, <2>8, <2>9
<1>3. TypeOK'
  BY <1>0, <1>1, <1>2 DEF IInv, TypeOK
<1>4. TapesSound'
  <2>1. \A e : Shown(e) => Shown(e)'
    BY <1>0, <1>1, KnownGrows
  <2>2. \A i \in 1..Len(md_entries') : Shown(md_entries[i])'
    BY <1>1, <1>2 DEF Shown
  <2> HIDE DEF InTape
  <2> QED
    BY <1>1, <1>2, <2>1, <2>2 DEF IInv, TapesSound
<1>5. CopySound'
  BY <1>0, <1>1, CopyFrame DEF IInv
<1>6. StoreSound' /\ TimesApart' /\ Handling' /\ QuotesOfLastTape'
  BY <1>1 DEF IInv, StoreSound, TimesApart, Handling, QuotesOfLastTape
<1> QED
  BY <1>3, <1>4, <1>5, <1>6 DEF IInv

\* A message is sent: it carries a time of its own.
LEMMA SendStep ==
  ASSUME IInv, UNCHANGED <<storeVars, rcvVars, budget>>, Data!Send(TimesInUse)
  PROVE  IInv'
<1> DEFINE t == CHOOSE t \in Time \ TimesInUse : TRUE
           m == [time |-> t, entries |-> md_entries]
<1>1. /\ details' = details /\ active' = active /\ accepted' = accepted
      /\ c_order' = c_order /\ all_orders' = all_orders
      /\ rcv_pc' = rcv_pc /\ rcv_message' = rcv_message /\ rcv_todo' = rcv_todo
      /\ handled' = handled /\ stops' = stops /\ errors' = errors
  BY DEF storeVars, rcvVars, budget
<1>2. /\ md_pc' = "poll" /\ md_entries' = << >> /\ md_keys' = md_keys /\ md_open' = NULL
      /\ tape' = IF Cardinality(tape) < MaxFlight THEN tape \cup {m} ELSE tape
  BY DataOperators, Zenon DEF Data!Send
<1> HIDE DEF m
<1>3. Cardinality(tape) < MaxFlight =>
        /\ m \in Message
        /\ m.entries = md_entries
        /\ \A n \in tape : n.time # m.time
        /\ \A oid \in DOMAIN all_orders : all_orders[oid] # m.time
        /\ rcv_message # NULL => rcv_message.time # m.time
  <2> SUFFICES ASSUME Cardinality(tape) < MaxFlight
               PROVE  /\ m \in Message
                      /\ m.entries = md_entries
                      /\ \A n \in tape : n.time # m.time
                      /\ \A oid \in DOMAIN all_orders : all_orders[oid] # m.time
                      /\ rcv_message # NULL => rcv_message.time # m.time
    OBVIOUS
  <2>1. t \in Time \ TimesInUse
    BY FreshTime
  <2> HIDE DEF t
  <2>2. m.time = t /\ m.entries = md_entries
    BY DEF m
  <2>3. m \in Message
    BY <2>1 DEF m, Message, IInv, TypeOK
  <2>4. /\ \A n \in tape : n.time \in TimesInUse
        /\ \A oid \in DOMAIN all_orders : all_orders[oid] \in TimesInUse
        /\ rcv_message # NULL => rcv_message.time \in TimesInUse
    BY DEF TimesInUse
  <2> QED
    BY <2>1, <2>2, <2>3, <2>4
<1>4. << >> \in Seq(Entries) /\ Len(<< >>) = 0
  BY EmptySeq
<1>5. TypeOK'
  BY <1>1, <1>2, <1>3, <1>4 DEF IInv, TypeOK
<1>6. TapesSound'
  BY <1>1, <1>2, <1>3, <1>4 DEF IInv, TapesSound, Shown
<1>7. TimesApart'
  <2>1. IsFiniteSet(tape') /\ Cardinality(tape') <= MaxFlight
    <3>1. IsFiniteSet(tape) /\ Cardinality(tape) <= MaxFlight
      BY DEF IInv, TimesApart
    <3>2. /\ IsFiniteSet(tape \cup {m})
          /\ Cardinality(tape \cup {m})
               = IF m \in tape THEN Cardinality(tape) ELSE Cardinality(tape) + 1
      BY <3>1, FS_AddElement
    <3>3. Cardinality(tape) \in Nat
      BY <3>1, FS_CardinalityType
    <3> QED
      BY <1>2, <3>1, <3>2, <3>3, FeedAssumption
  <2>2. CASE Cardinality(tape) < MaxFlight
    <3>1. tape' = tape \cup {m}
      BY <1>2, <2>2
    <3> QED
      BY <1>1, <1>3, <2>1, <2>2, <3>1 DEF IInv, TimesApart
  <2>3. CASE ~(Cardinality(tape) < MaxFlight)
    BY <1>1, <1>2, <2>1, <2>3 DEF IInv, TimesApart
  <2> QED
    BY <2>2, <2>3
<1>8. StoreSound' /\ Handling' /\ QuotesOfLastTape'
  BY <1>1 DEF IInv, StoreSound, Handling, QuotesOfLastTape
<1>9. CopySound'
  BY <1>1, CopyFrame DEF IInv
<1> QED
  BY <1>5, <1>6, <1>7, <1>8, <1>9 DEF IInv

\* The network loses a message.
LEMMA LoseStep == IInv /\ Lose => IInv'
<1> SUFFICES ASSUME IInv, Lose
             PROVE  IInv'
  OBVIOUS
<1>1. /\ details' = details /\ active' = active /\ accepted' = accepted
      /\ md_pc' = md_pc /\ md_keys' = md_keys /\ md_entries' = md_entries
      /\ c_order' = c_order /\ all_orders' = all_orders
      /\ rcv_pc' = rcv_pc /\ rcv_message' = rcv_message /\ rcv_todo' = rcv_todo
      /\ handled' = handled
      /\ md_open' = md_open /\ stops' = stops /\ errors' = errors
  BY DEF Lose, storeVars, mdVars, rcvVars, budget
<1>2. PICK m \in tape : tape' = tape \ {m}
  BY DEF Lose
<1>3. TypeOK' /\ TapesSound'
  BY <1>1, <1>2 DEF IInv, TypeOK, TapesSound, Shown
<1>4. TimesApart'
  <2>1. tape' \in SUBSET tape
    BY <1>2
  <2>2. /\ IsFiniteSet(tape) /\ Cardinality(tape) <= MaxFlight
        /\ IsFiniteSet(tape') /\ Cardinality(tape') <= Cardinality(tape)
    BY <2>1, FS_Subset DEF IInv, TimesApart
  <2>3. Cardinality(tape') \in Nat /\ Cardinality(tape) \in Nat
    BY <2>2, FS_CardinalityType
  <2>4. Cardinality(tape') <= MaxFlight
    BY <2>2, <2>3, FeedAssumption
  <2> QED
    BY <1>1, <2>1, <2>2, <2>4 DEF IInv, TimesApart
<1>5. StoreSound' /\ Handling' /\ QuotesOfLastTape'
  BY <1>1 DEF IInv, StoreSound, Handling, QuotesOfLastTape
<1>6. CopySound'
  BY <1>1, CopyFrame DEF IInv
<1> QED
  BY <1>3, <1>4, <1>5, <1>6 DEF IInv

\* client_s writes what the customer typed.
LEMMA ClientWritesStep == IInv /\ ClientWrites => IInv'
<1> SUFFICES ASSUME IInv, ClientWrites
             PROVE  IInv'
  OBVIOUS
<1>1. /\ details' = details /\ active' = active /\ accepted' = accepted
      /\ md_pc' = md_pc /\ md_keys' = md_keys /\ md_entries' = md_entries
      /\ md_open' = md_open /\ tape' = tape /\ all_orders' = all_orders
      /\ rcv_pc' = rcv_pc /\ rcv_message' = rcv_message /\ rcv_todo' = rcv_todo
      /\ handled' = handled /\ stops' = stops /\ errors' = errors
  BY DEF ClientWrites, storeVars, mdVars, budget
<1>2. PICK oid \in 1..MaxOrders :
        \E text \in OwnText(oid) : c_order' = Put(c_order, oid, text)
  BY DEF ClientWrites
<1> PICK text \in OwnText(oid) : c_order' = Put(c_order, oid, text)
  BY <1>2
<1>3. /\ DOMAIN c_order' = DOMAIN c_order \cup {oid}
      /\ c_order'[oid] = text
      /\ \A g \in DOMAIN c_order : g # oid => c_order'[g] = c_order[g]
  BY DEF Put
<1>4. CopySound'
  <2>1. \A g, d : Known(g, d) => Known(g, d)'
    BY <1>1, KnownGrows
  <2>2. Known(oid, text)
    BY DEF Known
  <2>3. \A g \in DOMAIN c_order' : Known(g, c_order[g])'
    BY <1>3, <2>1, <2>2 DEF IInv, CopySound
  <2> QED
    BY <1>1, <1>3, <2>3 DEF IInv, CopySound
<1>5. TypeOK'
  BY <1>1, <1>3, FeedAssumption DEF IInv, TypeOK
<1>6. StoreSound' /\ TapesSound' /\ TimesApart' /\ QuotesOfLastTape'
  BY <1>1 DEF IInv, StoreSound, TapesSound, Shown, TimesApart, QuotesOfLastTape
<1>7. Handling'
  BY <1>1, <1>3 DEF IInv, Handling
<1> QED
  BY <1>4, <1>5, <1>6, <1>7 DEF IInv
-------------------------------------------------------------------------------
\* The receiver starts or is stopped.
LEMMA RcvStartStopStep ==
  ASSUME IInv, UNCHANGED <<storeVars, mdVars, errors>>, stops' \in 0..MaxStops,
         Receiver!RcvStart \/ Receiver!RcvStop
  PROVE  IInv'
<1>1. /\ details' = details /\ active' = active /\ accepted' = accepted
      /\ md_pc' = md_pc /\ md_keys' = md_keys /\ md_entries' = md_entries
      /\ md_open' = md_open /\ errors' = errors
  BY DEF storeVars, mdVars
<1>2. /\ tape' = tape /\ c_order' = c_order /\ all_orders' = all_orders
      /\ rcv_pc' \in {"down", "wait"}
      /\ rcv_message' = NULL /\ handled' = NULL
      /\ rcv_todo' = rcv_todo \/ rcv_todo' = << >>
  BY DEF Receiver!RcvStart, Receiver!RcvStop, IInv, Handling
<1>3. << >> \in Seq(Entries)
  BY EmptySeq
<1>4. TypeOK'
  BY <1>1, <1>2, <1>3 DEF IInv, TypeOK
<1>5. TapesSound' /\ TimesApart'
  BY <1>1, <1>2 DEF IInv, TapesSound, Shown, TimesApart
<1>6. StoreSound' /\ CopySound'
  BY <1>1, <1>2, CopyFrame DEF IInv, StoreSound
<1>7. Handling' /\ QuotesOfLastTape'
  BY <1>2 DEF Handling, QuotesOfLastTape
<1> QED
  BY <1>4, <1>5, <1>6, <1>7 DEF IInv

\* A parsed message has the entries of the message in the reverse order.
LEMMA ParsedReverses ==
  ASSUME NEW E, NEW s \in Seq(E)
  PROVE  /\ Receiver!Parsed(s) \in Seq(E)
         /\ Len(Receiver!Parsed(s)) = Len(s)
         /\ \A i \in 1..Len(s) : Receiver!Parsed(s)[i] = s[Len(s) + 1 - i]
<1>1. Len(s) \in Nat /\ \A i \in 1..Len(s) : s[i] \in E
  BY LenProperties, ElementOfSeq
<1>2. \A i \in 1..Len(s) : Len(s) + 1 - i \in 1..Len(s)
  BY <1>1
<1>3. Receiver!Parsed(s) \in [1..Len(s) -> E]
  BY <1>1, <1>2 DEF Receiver!Parsed
<1>4. \A i \in 1..Len(s) : Receiver!Parsed(s)[i] = s[Len(s) + 1 - i]
  BY DEF Receiver!Parsed
<1> HIDE DEF Receiver!Parsed
<1> QED
  BY <1>1, <1>3, <1>4

\* A message arrives: nothing of it is done, and no quote carries its time.
LEMMA DeliverStep == IInv /\ Deliver => IInv'
<1> SUFFICES ASSUME IInv, Deliver
             PROVE  IInv'
  OBVIOUS
<1>1. /\ details' = details /\ active' = active /\ accepted' = accepted
      /\ md_pc' = md_pc /\ md_keys' = md_keys /\ md_entries' = md_entries
      /\ md_open' = md_open /\ stops' = stops /\ errors' = errors
  BY DEF Deliver, storeVars, mdVars, budget
<1>2. PICK m \in tape : Receiver!Receive(m)
  BY DEF Deliver
<1>3. /\ tape' = tape \ {m} /\ rcv_message' = m
      /\ rcv_todo' = Receiver!Parsed(m.entries)
      /\ rcv_pc' = (IF m.entries = << >> THEN "clean" ELSE "details")
      /\ handled' = NULL
      /\ c_order' = c_order /\ all_orders' = all_orders
  BY <1>2 DEF Receiver!Receive
<1>4. /\ m \in Message /\ m.entries \in Seq(Entries)
      /\ \A i \in 1..Len(m.entries) : Shown(m.entries[i])
      /\ m # NULL
  BY NullApart DEF IInv, TypeOK, TapesSound, Message
<1>5. /\ rcv_todo' \in Seq(Entries)
      /\ Len(rcv_todo') = Len(m.entries)
      /\ Len(m.entries) \in Nat
      /\ \A i \in 1..Len(m.entries) : rcv_todo'[i] = m.entries[Len(m.entries) + 1 - i]
      /\ m.entries = << >> <=> Len(m.entries) = 0
  BY <1>3, <1>4, ParsedReverses, LenProperties, EmptySeq
<1>6. TypeOK'
  BY <1>1, <1>3, <1>4, <1>5 DEF IInv, TypeOK
<1>7. TapesSound'
  BY <1>1, <1>3, <1>4 DEF IInv, TapesSound, Shown
<1>8. TimesApart'
  <2>1. tape' \in SUBSET tape
    BY <1>3
  <2>2. /\ IsFiniteSet(tape) /\ Cardinality(tape) <= MaxFlight
        /\ IsFiniteSet(tape') /\ Cardinality(tape') <= Cardinality(tape)
    BY <2>1, FS_Subset DEF IInv, TimesApart
  <2>3. Cardinality(tape') \in Nat /\ Cardinality(tape) \in Nat
    BY <2>2, FS_CardinalityType
  <2>4. Cardinality(tape') <= MaxFlight
    BY <2>2, <2>3, FeedAssumption
  <2> QED
    BY <1>2, <1>3, <2>1, <2>2, <2>4 DEF IInv, TimesApart
<1>9. Handling'
  <2>1. \A oid \in DOMAIN all_orders : all_orders[oid] # m.time
    BY DEF IInv, TimesApart
  <2> QED
    BY <1>3, <1>4, <1>5, <2>1 DEF Handling
<1>10. StoreSound' /\ CopySound' /\ QuotesOfLastTape'
  BY <1>1, <1>3, CopyFrame DEF IInv, StoreSound, QuotesOfLastTape
<1> QED
  BY <1>6, <1>7, <1>8, <1>9, <1>10 DEF IInv

\* What is known of the message at hand and of the next of its entries.
LEMMA AtHand ==
  ASSUME IInv, rcv_pc \in {"details", "list", "clean"}
  PROVE  /\ rcv_message # NULL /\ rcv_message \in Message
         /\ rcv_message.entries \in Seq(Entries)
         /\ rcv_message.time \in Time
         /\ Len(rcv_message.entries) \in Nat /\ Len(rcv_todo) \in Nat
         /\ Len(rcv_todo) <= Len(rcv_message.entries)
         /\ rcv_pc # "clean" =>
              /\ Len(rcv_todo) \in 1..Len(rcv_message.entries)
              /\ rcv_todo # << >>
              /\ Head(rcv_todo) = rcv_message.entries[Len(rcv_todo)]
              /\ Shown(Head(rcv_todo))
<1>1. /\ rcv_message # NULL /\ rcv_message \in Message
      /\ rcv_message.entries \in Seq(Entries) /\ rcv_message.time \in Time
      /\ rcv_todo \in Seq(Entries)
      /\ Len(rcv_todo) <= Len(rcv_message.entries)
      /\ rcv_pc = "clean" <=> Len(rcv_todo) = 0
      /\ \A i \in 1..Len(rcv_todo) :
           rcv_todo[i] = rcv_message.entries[Len(rcv_todo) + 1 - i]
      /\ \A i \in 1..Len(rcv_message.entries) : Shown(rcv_message.entries[i])
  BY DEF IInv, TypeOK, Message, Handling, TapesSound
<1>2. Len(rcv_message.entries) \in Nat /\ Len(rcv_todo) \in Nat
  BY <1>1, LenProperties
<1>3. ASSUME rcv_pc # "clean"
      PROVE  /\ Len(rcv_todo) \in 1..Len(rcv_message.entries)
             /\ rcv_todo # << >>
             /\ Head(rcv_todo) = rcv_message.entries[Len(rcv_todo)]
             /\ Shown(Head(rcv_todo))
  <2>1. /\ Len(rcv_todo) \in 1..Len(rcv_message.entries)
        /\ 1 \in 1..Len(rcv_todo) /\ Len(rcv_todo) + 1 - 1 = Len(rcv_todo)
    BY <1>1, <1>2, <1>3
  <2>2. rcv_todo # << >> /\ Head(rcv_todo) = rcv_todo[1]
    BY <1>1, <2>1, EmptySeq, HeadTailProperties
  <2>3. rcv_todo[1] = rcv_message.entries[Len(rcv_todo)]
    BY <1>1, <2>1
  <2> QED
    BY <1>1, <2>1, <2>2, <2>3
<1> QED
  BY <1>1, <1>2, <1>3

\* The details of the next quote are stored.
LEMMA StoreDetailsStep ==
  ASSUME IInv, UNCHANGED <<storeVars, mdVars, budget>>, Receiver!StoreDetails
  PROVE  IInv'
<1> DEFINE e == Head(rcv_todo)
<1>1. /\ details' = details /\ active' = active /\ accepted' = accepted
      /\ md_pc' = md_pc /\ md_keys' = md_keys /\ md_entries' = md_entries
      /\ md_open' = md_open /\ stops' = stops /\ errors' = errors
  BY DEF storeVars, mdVars, budget
<1>2. /\ rcv_pc = "details" /\ rcv_pc' = "list"
      /\ c_order' = Put(c_order, e.oid, e.details)
      /\ tape' = tape /\ all_orders' = all_orders
      /\ rcv_message' = rcv_message /\ rcv_todo' = rcv_todo /\ handled' = handled
  BY ReceiverOperators DEF Receiver!StoreDetails
<1>3. /\ Len(rcv_todo) \in 1..Len(rcv_message.entries)
      /\ e = rcv_message.entries[Len(rcv_todo)]
      /\ Shown(e)
  BY <1>2, AtHand
<1> HIDE DEF e
<1>4. /\ DOMAIN c_order' = DOMAIN c_order \cup {e.oid}
      /\ c_order'[e.oid] = e.details
      /\ \A g \in DOMAIN c_order : g # e.oid => c_order'[g] = c_order[g]
  BY <1>2 DEF Put
<1>5. CopySound'
  <2>1. \A g, d : Known(g, d) => Known(g, d)'
    BY <1>1, KnownGrows
  <2>2. Known(e.oid, e.details)
    BY <1>3 DEF Shown, Known
  <2>3. \A g \in DOMAIN c_order' : Known(g, c_order[g])'
    BY <1>4, <2>1, <2>2 DEF IInv, CopySound
  <2> QED
    BY <1>1, <1>2, <1>3, <1>4, <2>3 DEF Shown, IInv, CopySound
<1>6. TypeOK'
  BY <1>1, <1>2, <1>3, <1>4, FeedAssumption, SMTT(30) DEF Shown, IInv, TypeOK
<1>7. Handling'
  BY <1>2, <1>3, <1>4 DEF IInv, Handling
<1>8. StoreSound' /\ TapesSound' /\ TimesApart' /\ QuotesOfLastTape'
  BY <1>1, <1>2 DEF IInv, StoreSound, TapesSound, Shown, TimesApart, QuotesOfLastTape
<1> QED
  BY <1>5, <1>6, <1>7, <1>8 DEF IInv

\* The next quote is listed, with the time of its message.
LEMMA ListQuoteStep ==
  ASSUME IInv, UNCHANGED <<storeVars, mdVars, budget>>, Receiver!ListQuote
  PROVE  IInv'
<1> DEFINE e    == Head(rcv_todo)
           all  == rcv_message.entries
           left == Len(rcv_todo)
           t    == rcv_message.time
<1>1. /\ details' = details /\ active' = active /\ accepted' = accepted
      /\ md_pc' = md_pc /\ md_keys' = md_keys /\ md_entries' = md_entries
      /\ md_open' = md_open /\ stops' = stops /\ errors' = errors
  BY DEF storeVars, mdVars, budget
<1>2. /\ rcv_pc = "list"
      /\ all_orders' = Put(all_orders, e.oid, t)
      /\ rcv_todo' = Tail(rcv_todo)
      /\ rcv_pc' = (IF rcv_todo' = << >> THEN "clean" ELSE "details")
      /\ tape' = tape /\ c_order' = c_order
      /\ rcv_message' = rcv_message /\ handled' = handled
  BY ReceiverOperators DEF Receiver!ListQuote
<1>3. /\ rcv_message # NULL /\ t \in Time
      /\ left \in 1..Len(all) /\ Len(all) \in Nat
      /\ rcv_todo # << >>
      /\ e = all[left] /\ Shown(e)
  BY <1>2, AtHand
<1>4. /\ rcv_todo \in Seq(Entries)
      /\ \A i \in 1..left : rcv_todo[i] = all[left + 1 - i]
      /\ \A i \in (left + 1)..Len(all) :
            all[i].oid \in DOMAIN all_orders /\ all_orders[all[i].oid] = t
      /\ \A oid \in DOMAIN all_orders :
            all_orders[oid] = t => \E i \in (left + 1)..Len(all) : all[i].oid = oid
      /\ e.oid \in DOMAIN c_order
      /\ handled = NULL
  BY <1>2, <1>3 DEF IInv, TypeOK, Handling
<1> HIDE DEF e, all, t
<1>5. /\ rcv_todo' \in Seq(Entries)
      /\ Len(rcv_todo') = left - 1
      /\ \A i \in 1..(left - 1) : rcv_todo'[i] = rcv_todo[i + 1]
      /\ rcv_todo' = << >> <=> left - 1 = 0
  BY <1>2, <1>3, <1>4, HeadTailProperties, EmptySeq
<1>6. /\ DOMAIN all_orders' = DOMAIN all_orders \cup {e.oid}
      /\ all_orders'[e.oid] = t
      /\ \A g \in DOMAIN all_orders : g # e.oid => all_orders'[g] = all_orders[g]
      /\ all_orders' = [g \in DOMAIN all_orders' |-> all_orders'[g]]
  BY <1>2 DEF Put
<1>7. TypeOK'
  <2>1. \A g \in DOMAIN all_orders' : all_orders'[g] \in Time
    BY <1>3, <1>6 DEF IInv, TypeOK
  <2>2. all_orders' \in [DOMAIN all_orders' -> Time]
    BY <1>6, <2>1
  <2> QED
    BY <1>1, <1>2, <1>5, <2>2 DEF IInv, TypeOK
<1>8. CopySound'
  <2>1. \A g, d : Known(g, d) => Known(g, d)'
    BY <1>1, KnownGrows
  <2>2. \A g \in DOMAIN c_order' : Known(g, c_order[g])'
    BY <1>2, <2>1 DEF IInv, CopySound
  <2> QED
    BY <1>1, <1>2, <1>4, <1>6, <2>2 DEF IInv, CopySound
<1>9. TimesApart'
  <2>1. \A m \in tape : m.time # t
    BY <1>3 DEF t, IInv, TimesApart
  <2> QED
    BY <1>2, <1>6, <2>1 DEF IInv, TimesApart
<1> HIDE DEF left
<1>10. Handling'
  <2>1. /\ left - 1 <= Len(all)
        /\ rcv_pc' = "clean" <=> left - 1 = 0
        /\ rcv_pc' \in {"details", "clean"}
    BY <1>2, <1>3, <1>5
  <2>2. \A i \in 1..(left - 1) : rcv_todo'[i] = all[left - 1 + 1 - i]
    <3> TAKE i \in 1..(left - 1)
    <3>1. i + 1 \in 1..left /\ left + 1 - (i + 1) = left - 1 + 1 - i
      BY <1>3
    <3> QED
      BY <1>4, <1>5, <3>1
  <2>3. \A i \in (left - 1 + 1)..Len(all) :
          all[i].oid \in DOMAIN all_orders' /\ all_orders'[all[i].oid] = t
    <3> TAKE i \in (left - 1 + 1)..Len(all)
    <3>1. i = left \/ i \in (left + 1)..Len(all)
      BY <1>3
    <3> QED
      BY <1>3, <1>4, <1>6, <3>1
  <2>4. ASSUME NEW oid \in DOMAIN all_orders', all_orders'[oid] = t
        PROVE  \E i \in (left - 1 + 1)..Len(all) : all[i].oid = oid
    <3>1. left \in (left - 1 + 1)..Len(all)
      BY <1>3
    <3>2. CASE oid = e.oid
      BY <1>3, <3>1, <3>2
    <3>3. CASE oid # e.oid
      <4>1. oid \in DOMAIN all_orders /\ all_orders[oid] = t
        BY <1>6, <2>4, <3>3
      <4>2. PICK i \in (left + 1)..Len(all) : all[i].oid = oid
        BY <1>4, <4>1
      <4>3. i \in (left - 1 + 1)..Len(all)
        BY <1>3
      <4> QED
        BY <4>2, <4>3
    <3> QED
      BY <3>2, <3>3
  <2>5. rcv_message' # NULL /\ rcv_message'.entries = all /\ rcv_message'.time = t
    BY <1>2, <1>3 DEF all, t
  <2>6. /\ Len(rcv_todo') <= Len(all)
        /\ rcv_pc' = "clean" <=> Len(rcv_todo') = 0
        /\ \A i \in 1..Len(rcv_todo') : rcv_todo'[i] = all[Len(rcv_todo') + 1 - i]
        /\ \A i \in (Len(rcv_todo') + 1)..Len(all) :
              all[i].oid \in DOMAIN all_orders' /\ all_orders'[all[i].oid] = t
        /\ \A oid \in DOMAIN all_orders' :
              all_orders'[oid] = t =>
                \E i \in (Len(rcv_todo') + 1)..Len(all) : all[i].oid = oid
    BY <1>5, <2>1, <2>2, <2>3, <2>4
  <2> QED
    BY <1>2, <1>4, <2>1, <2>5, <2>6 DEF Handling
<1>11. QuotesOfLastTape'
  BY <1>2, <1>4 DEF QuotesOfLastTape
<1>12. StoreSound' /\ TapesSound'
  BY <1>1, <1>2 DEF IInv, StoreSound, TapesSound, Shown
<1> QED
  BY <1>7, <1>8, <1>9, <1>10, <1>11, <1>12 DEF IInv

\* A quote of another tape is deleted: of the message at hand none goes.
LEMMA DeleteQuoteStep ==
  ASSUME IInv, UNCHANGED <<storeVars, mdVars, budget>>, Receiver!DeleteQuote
  PROVE  IInv'
<1> DEFINE all == rcv_message.entries
           t   == rcv_message.time
<1>1. /\ details' = details /\ active' = active /\ accepted' = accepted
      /\ md_pc' = md_pc /\ md_keys' = md_keys /\ md_entries' = md_entries
      /\ md_open' = md_open /\ stops' = stops /\ errors' = errors
  BY DEF storeVars, mdVars, budget
<1>2. PICK gone \in Receiver!Obsolete :
        all_orders' = [o \in DOMAIN all_orders \ {gone} |-> all_orders[o]]
  BY DEF Receiver!DeleteQuote
<1>3. /\ rcv_pc = "clean" /\ rcv_pc' = rcv_pc
      /\ tape' = tape /\ c_order' = c_order
      /\ rcv_message' = rcv_message /\ rcv_todo' = rcv_todo /\ handled' = handled
  BY DEF Receiver!DeleteQuote
<1>4. /\ DOMAIN all_orders' = DOMAIN all_orders \ {gone}
      /\ \A g \in DOMAIN all_orders' : all_orders'[g] = all_orders[g]
      /\ all_orders' \in [DOMAIN all_orders' -> Time]
  BY <1>2 DEF IInv, TypeOK
<1>5. /\ all \in Seq(Entries) /\ t \in Time /\ Len(all) \in Nat
      /\ Len(rcv_todo) = 0
      /\ \A i \in 1..Len(all) : all[i].oid \in DOMAIN all_orders
                                /\ all_orders[all[i].oid] = t
  BY <1>3, AtHand DEF IInv, Handling
<1>6. \A i \in 1..Len(all) : all[i].oid # gone
  <2> TAKE i \in 1..Len(all)
  <2>1. all # << >>
    BY <1>5, EmptySeq
  <2>2. all_orders[gone] # t
    BY <1>2, <2>1 DEF Receiver!Obsolete, Receiver!LastTime
  <2> QED
    BY <1>5, <2>2
<1>7. TypeOK'
  BY <1>1, <1>3, <1>4 DEF IInv, TypeOK
<1>8. CopySound' /\ TimesApart'
  <2>1. \A g, d : Known(g, d) => Known(g, d)'
    BY <1>1, KnownGrows
  <2>2. \A g \in DOMAIN c_order' : Known(g, c_order[g])'
    BY <1>3, <2>1 DEF IInv, CopySound
  <2> QED
    BY <1>1, <1>3, <1>4, <2>2 DEF IInv, CopySound, TimesApart
<1>9. Handling'
  <2>1. /\ \A i \in 1..Len(all) : all[i].oid \in DOMAIN all_orders'
                                  /\ all_orders'[all[i].oid] = t
        /\ \A oid \in DOMAIN all_orders' :
             all_orders'[oid] = t => \E i \in 1..Len(all) : all[i].oid = oid
    BY <1>3, <1>4, <1>5, <1>6 DEF IInv, Handling
  <2> QED
    BY <1>3, <1>5, <2>1 DEF IInv, Handling
<1>10. StoreSound' /\ TapesSound' /\ QuotesOfLastTape'
  BY <1>1, <1>3 DEF IInv, StoreSound, TapesSound, Shown, QuotesOfLastTape
<1> QED
  BY <1>7, <1>8, <1>9, <1>10 DEF IInv

\* The message is handled: every quote left carries its time.
LEMMA HandledStep ==
  ASSUME IInv, UNCHANGED <<storeVars, mdVars, budget>>, Receiver!Handled
  PROVE  IInv'
<1> DEFINE all == rcv_message.entries
           t   == rcv_message.time
<1>1. /\ details' = details /\ active' = active /\ accepted' = accepted
      /\ md_pc' = md_pc /\ md_keys' = md_keys /\ md_entries' = md_entries
      /\ md_open' = md_open /\ stops' = stops /\ errors' = errors
  BY DEF storeVars, mdVars, budget
<1>2. /\ rcv_pc = "clean" /\ rcv_pc' = "wait" /\ Receiver!Obsolete = {}
      /\ handled' = {all[i].oid : i \in 1..Len(all)}
      /\ rcv_message' = NULL
      /\ tape' = tape /\ c_order' = c_order /\ all_orders' = all_orders
      /\ rcv_todo' = rcv_todo
  BY DEF Receiver!Handled
<1>3. /\ all \in Seq(Entries) /\ Len(all) \in Nat
      /\ Len(rcv_todo) = 0
      /\ \A i \in 1..Len(all) : all[i].oid \in DOMAIN all_orders
      /\ \A oid \in DOMAIN all_orders :
           all_orders[oid] = t => \E i \in 1..Len(all) : all[i].oid = oid
      /\ \A i \in 1..Len(all) : all[i].oid \in 1..MaxOrders
  BY <1>2, AtHand DEF IInv, Handling, TapesSound, Shown
<1>4. \A oid \in DOMAIN all_orders : all_orders[oid] = t
  <2> TAKE oid \in DOMAIN all_orders
  <2>1. all_orders[oid] = Receiver!LastTime
    BY <1>2 DEF Receiver!Obsolete
  <2>2. all_orders[oid] # 0
    BY FeedAssumption DEF IInv, TypeOK
  <2> QED
    BY <2>1, <2>2 DEF Receiver!LastTime
<1>5. DOMAIN all_orders = {all[i].oid : i \in 1..Len(all)}
  BY <1>3, <1>4
<1>6. TypeOK'
  BY <1>1, <1>2, <1>3 DEF IInv, TypeOK
<1>7. Handling' /\ QuotesOfLastTape'
  BY <1>2, <1>5 DEF Handling, QuotesOfLastTape
<1>8. StoreSound' /\ TapesSound' /\ CopySound' /\ TimesApart'
  BY <1>1, <1>2, CopyFrame DEF IInv, StoreSound, TapesSound, Shown, TimesApart
<1> QED
  BY <1>6, <1>7, <1>8 DEF IInv
-------------------------------------------------------------------------------
\* IInv holds in every state that the feed can reach.
THEOREM Inductive == Spec => []IInv
<1>1. Init => IInv
  BY InitIInv
<1>2. IInv /\ [Next]_vars => IInv'
  <2> SUFFICES ASSUME IInv, [Next]_vars
               PROVE  IInv'
    OBVIOUS
  <2>1. CASE StoreStep
    BY <2>1, StoreStepStep
  <2>0. stops \in 0..MaxStops /\ MaxStops \in Nat
    BY FeedAssumption DEF IInv, TypeOK
  <2>2. CASE MdStep
    <3>1. CASE Data!Send(TimesInUse)
      BY <2>2, <3>1, SendStep DEF MdStep
    <3>2. CASE Data!MdStart \/ Data!ReadActive \/ Data!ReadEntry
      <4>1. UNCHANGED <<storeVars, tape, rcvVars>> /\ errors' = errors /\ stops' = stops
        BY <2>2, <3>2
        DEF MdStep, Data!MdStart, Data!ReadActive, Data!ReadEntry, Data!PutEntry, storeVars,
            rcvVars, budget
      <4> QED
        BY <2>0, <3>2, <4>1, MdQuiet
    <3> QED
      BY <2>2, <3>1, <3>2 DEF MdStep, Data!MdStep
  <2>3. CASE MdStop
    <3>1. /\ Data!MdStop /\ UNCHANGED <<storeVars, tape, rcvVars>>
          /\ errors' = errors /\ stops' \in 0..MaxStops
      BY <2>0, <2>3 DEF MdStop, Data!MdStop, storeVars, rcvVars
    <3> QED
      BY <3>1, MdQuiet
  <2>9. CASE MdError
    <3>1. /\ Data!ReadError /\ UNCHANGED <<storeVars, tape, rcvVars>>
          /\ errors' = errors + 1 /\ errors < MaxErrors /\ stops' = stops
      BY <2>9 DEF MdError, Data!ReadError, Data!PutEntry, storeVars, rcvVars
    <3> QED
      BY <2>0, <3>1, MdQuiet
  <2>4. CASE RcvStep
    <3>1. /\ Receiver!RcvStep /\ UNCHANGED <<storeVars, mdVars, budget>>
          /\ UNCHANGED errors /\ stops' = stops
      BY <2>4 DEF RcvStep, storeVars, mdVars, budget
    <3> QED
      BY <2>0, <3>1, RcvStartStopStep, StoreDetailsStep, ListQuoteStep, DeleteQuoteStep,
         HandledStep
      DEF Receiver!RcvStep
  <2>5. CASE RcvStop
    <3>1. /\ Receiver!RcvStop /\ UNCHANGED <<storeVars, mdVars, errors>>
          /\ stops' \in 0..MaxStops
      BY <2>0, <2>5 DEF RcvStop, storeVars, mdVars
    <3> QED
      BY <3>1, RcvStartStopStep
  <2>6. CASE Deliver
    BY <2>6, DeliverStep
  <2>10. CASE ClientWrites
    BY <2>10, ClientWritesStep
  <2>7. CASE Lose
    BY <2>7, LoseStep
  <2>8. CASE UNCHANGED vars
    <3>1. /\ details' = details /\ active' = active /\ accepted' = accepted
          /\ md_pc' = md_pc /\ md_keys' = md_keys /\ md_entries' = md_entries
          /\ tape' = tape /\ c_order' = c_order /\ all_orders' = all_orders
          /\ rcv_pc' = rcv_pc /\ rcv_message' = rcv_message /\ rcv_todo' = rcv_todo
          /\ handled' = handled
          /\ md_open' = md_open /\ stops' = stops /\ errors' = errors
      BY <2>8 DEF vars, storeVars, mdVars, rcvVars, budget
    <3>2. CopySound'
      BY <3>1, CopyFrame DEF IInv
    <3>3. TypeOK' /\ StoreSound' /\ TapesSound' /\ TimesApart' /\ Handling'
          /\ QuotesOfLastTape'
      BY <3>1
      DEF IInv, TypeOK, StoreSound, TapesSound, Shown, TimesApart, Handling,
          QuotesOfLastTape
    <3> QED
      BY <3>2, <3>3 DEF IInv
  <2> QED
    BY <2>1, <2>2, <2>3, <2>4, <2>5, <2>6, <2>7, <2>8, <2>9, <2>10 DEF Next
<1> QED
  BY <1>1, <1>2, PTL DEF Spec

\* What client_s types is an order.
LEMMA TextIsOrder ==
  ASSUME NEW oid \in 1..MaxOrders, NEW text \in OwnText(oid)
  PROVE  text # NULL
<1>1. PICK q \in Request : text = Numbered(q, oid)
  BY DEF OwnText
<1>2. text \in Order
  BY <1>1, FeedAssumption DEF Numbered, Request, Order
<1> QED
  BY <1>2, NullAssumption

\* A step of the receiver or of client_s leaves no quote of a complete tape
\* garbled.
LEMMA CopyRepaired ==
  ASSUME IInv, Repaired,
         \/ Deliver
         \/ RcvStep
         \/ RcvStop
         \/ ClientWrites
  PROVE  Repaired'
<1> SUFFICES ASSUME rcv_pc' \in {"details", "list", "clean"},
                    \A i \in 1..Len(rcv_message'.entries) :
                       rcv_message'.entries[i].details # NULL
             PROVE  /\ \A oid \in DOMAIN all_orders' :
                         all_orders'[oid] = rcv_message'.time => c_order'[oid] # NULL
                    /\ rcv_pc' = "list" => c_order'[Head(rcv_todo').oid] # NULL
  BY DEF Repaired
<1>1. CASE Deliver
  <2>1. PICK m \in tape : Receiver!Receive(m)
    BY <1>1 DEF Deliver
  <2>2. /\ rcv_message' = m /\ rcv_pc' # "list"
        /\ all_orders' = all_orders /\ c_order' = c_order
    BY <2>1 DEF Receiver!Receive
  <2> QED
    BY <2>2 DEF IInv, TimesApart
<1>2. CASE RcvStop \/ (RcvStep /\ (Receiver!RcvStart \/ Receiver!Handled))
  BY <1>2 DEF RcvStop, Receiver!RcvStop, Receiver!RcvStart, Receiver!Handled
<1>3. CASE RcvStep /\ Receiver!StoreDetails
  <2> DEFINE e == Head(rcv_todo)
  <2>1. /\ rcv_pc = "details" /\ c_order' = Put(c_order, e.oid, e.details)
        /\ all_orders' = all_orders
        /\ rcv_message' = rcv_message /\ rcv_todo' = rcv_todo
    BY <1>3, ReceiverOperators DEF Receiver!StoreDetails
  <2>2. e.details # NULL
    BY <2>1, AtHand
  <2> HIDE DEF e
  <2>3. /\ c_order'[e.oid] = e.details
        /\ \A g \in DOMAIN c_order : g # e.oid => c_order'[g] = c_order[g]
    BY <2>1 DEF Put
  <2>4. \A oid \in DOMAIN all_orders :
          all_orders[oid] = rcv_message.time => oid \in DOMAIN c_order /\ c_order[oid] # NULL
    BY <2>1 DEF Repaired, IInv, CopySound
  <2> QED
    BY <2>1, <2>2, <2>3, <2>4 DEF e
<1>4. CASE RcvStep /\ Receiver!ListQuote
  <2> DEFINE e == Head(rcv_todo)
  <2>1. /\ rcv_pc = "list" /\ all_orders' = Put(all_orders, e.oid, rcv_message.time)
        /\ rcv_pc' # "list"
        /\ c_order' = c_order /\ rcv_message' = rcv_message
    BY <1>4, ReceiverOperators DEF Receiver!ListQuote
  <2>2. c_order[e.oid] # NULL
    BY <2>1 DEF Repaired
  <2> HIDE DEF e
  <2>3. /\ DOMAIN all_orders' = DOMAIN all_orders \cup {e.oid}
        /\ \A g \in DOMAIN all_orders : g # e.oid => all_orders'[g] = all_orders[g]
    BY <2>1 DEF Put
  <2> QED
    BY <2>1, <2>2, <2>3 DEF Repaired
<1>5. CASE RcvStep /\ Receiver!DeleteQuote
  <2>1. PICK gone \in Receiver!Obsolete :
          all_orders' = [o \in DOMAIN all_orders \ {gone} |-> all_orders[o]]
    BY <1>5 DEF Receiver!DeleteQuote
  <2>2. /\ rcv_pc = "clean" /\ rcv_pc' = rcv_pc
        /\ c_order' = c_order /\ rcv_message' = rcv_message
    BY <1>5 DEF Receiver!DeleteQuote
  <2> QED
    BY <2>1, <2>2 DEF Repaired
<1>6. CASE ClientWrites
  <2>1. PICK oid \in 1..MaxOrders :
          \E text \in OwnText(oid) \cap MayType : c_order' = Put(c_order, oid, text)
    BY <1>6 DEF ClientWrites
  <2>2. PICK text \in OwnText(oid) : c_order' = Put(c_order, oid, text)
    BY <2>1
  <2>3. /\ rcv_pc' = rcv_pc /\ rcv_message' = rcv_message /\ rcv_todo' = rcv_todo
        /\ all_orders' = all_orders
    BY <1>6 DEF ClientWrites
  <2>4. text # NULL
    BY TextIsOrder
  <2>5. /\ c_order'[oid] = text
        /\ \A g \in DOMAIN c_order : g # oid => c_order'[g] = c_order[g]
    BY <2>2 DEF Put
  <2>6. DOMAIN all_orders \subseteq DOMAIN c_order
    BY DEF IInv, CopySound
  <2>7. ASSUME rcv_pc = "list"
        PROVE  Head(rcv_todo).oid \in DOMAIN c_order
    BY <2>7, AtHand DEF IInv, Handling
  <2> QED
    BY <2>3, <2>4, <2>5, <2>6, <2>7 DEF Repaired
<1> QED
  BY <1>1, <1>2, <1>3, <1>4, <1>5, <1>6 DEF RcvStep, Receiver!RcvStep

\* A tape without an error rids the customer of all garbled quotes.
THEOREM GarbledRepaired == Spec => CompleteTapeRepairs
<1>1. Init => Repaired
  BY DEF Init, Receiver!RcvInit, Repaired
<1>2. IInv /\ Repaired /\ [Next]_vars => Repaired'
  <2> SUFFICES ASSUME IInv, Repaired, [Next]_vars
               PROVE  Repaired'
    OBVIOUS
  <2>1. CASE Deliver \/ RcvStep \/ RcvStop \/ ClientWrites
    BY <2>1, CopyRepaired
  <2>2. CASE StoreStep \/ MdStep \/ MdError \/ MdStop \/ Lose \/ UNCHANGED vars
    <3>1. UNCHANGED rcvVars
      BY <2>2 DEF StoreStep, MdStep, MdError, MdStop, Lose, vars
    <3> QED
      BY <3>1 DEF rcvVars, Repaired
  <2> QED
    BY <2>1, <2>2 DEF Next
<1>3. ASSUME IInv, Repaired, [Next]_vars,
             rcv_pc = "clean", rcv_pc' = "wait",
             \A i \in 1..Len(rcv_message.entries) : rcv_message.entries[i].details # NULL
      PROVE  Garbled' = {}
  <2>1. Receiver!Handled
    BY <1>3
    DEF Next, StoreStep, MdStep, MdError, MdStop, RcvStep, RcvStop, Deliver, Lose,
        ClientWrites, Receiver!RcvStep, Receiver!RcvStart, Receiver!StoreDetails,
        Receiver!ListQuote, Receiver!DeleteQuote, Receiver!RcvStop, Receiver!Receive,
        vars, rcvVars
  <2>2. /\ Receiver!Obsolete = {}
        /\ all_orders' = all_orders /\ c_order' = c_order
    BY <2>1 DEF Receiver!Handled
  <2>3. \A oid \in DOMAIN all_orders : all_orders[oid] = rcv_message.time
    <3> TAKE oid \in DOMAIN all_orders
    <3>1. all_orders[oid] = Receiver!LastTime
      BY <2>2 DEF Receiver!Obsolete
    <3>2. all_orders[oid] # 0
      BY <1>3, FeedAssumption DEF IInv, TypeOK
    <3> QED
      BY <3>1, <3>2 DEF Receiver!LastTime
  <2>4. \A oid \in DOMAIN all_orders : c_order[oid] # NULL
    BY <1>3, <2>3 DEF Repaired
  <2> QED
    BY <2>2, <2>4 DEF Garbled
<1>4. Spec => []Repaired
  BY <1>1, <1>2, Inductive, PTL DEF Spec
<1>5. IInv /\ Repaired /\ [Next]_vars =>
        [/\ rcv_pc = "clean" /\ rcv_pc' = "wait"
         /\ \A i \in 1..Len(rcv_message.entries) : rcv_message.entries[i].details # NULL
         => Garbled' = {}]_vars
  BY <1>3
<1> QED
  BY <1>4, <1>5, Inductive, PTL DEF Spec, CompleteTapeRepairs

\* The variables have their types, whatever is accepted, lost or stopped.
THEOREM Types == Spec => []TypeOK
<1>1. IInv => TypeOK
  BY DEF IInv
<1> QED
  BY <1>1, Inductive, PTL

\* As long as Redis answers, the market data server leaves no entry without
\* details, however much later than its key it reads them.
THEOREM TapesComplete == Spec => []TapeComplete
<1>1. IInv => TapeComplete
  <2> SUFFICES ASSUME IInv, errors = 0
               PROVE  /\ md_open = NULL
                      /\ \A i \in 1..Len(md_entries) : md_entries[i].details # NULL
    BY DEF TapeComplete
  <2>1. \A i \in 1..Len(md_entries) : md_entries[i].details \in accepted
    BY DEF IInv, TapesSound, Shown
  <2> QED
    BY <2>1, NullApart DEF IInv, TypeOK, TapesSound
<1> QED
  BY <1>1, Inductive, PTL

\* A customer lists only quotes of orders that the exchange accepted, with the
\* details they were accepted with or as it typed them itself; after an error of
\* Redis, a quote may have no sensible details.
THEOREM AcceptedShown == Spec => []QuotesAccepted
<1>1. IInv => QuotesAccepted
  BY DEF IInv, CopySound, QuotesAccepted
<1> QED
  BY <1>1, Inductive, PTL

\* Between two messages the quotes are those of the last one that was handled,
\* whatever the network has lost, delayed or reordered.
THEOREM LastTapeShown == Spec => []QuotesOfLastTape
<1>1. IInv => QuotesOfLastTape
  BY DEF IInv
<1> QED
  BY <1>1, Inductive, PTL
===============================================================================
