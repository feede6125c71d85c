----------------------------- MODULE TrieProofs -----------------------------
(***************************************************************************)
(* The linked lists of the trading trie stay well formed, whatever orders  *)
(* arrive and whichever address malloc returns, and the engine that works  *)
(* on them implements OrderBook.                                           *)
(*                                                                         *)
(* The inductive invariant is IInv: to see that unlinking a node keeps the *)
(* lists linked one has to know which node the cursor stands at            *)
(* (ScanSound) and that no node of a queue has a previous one              *)
(* (ChainSound); to see that freeing the two nodes of a trade leaves no    *)
(* queue with a freed node, that no node is in two places (NoSharing) and  *)
(* that the node in hand is in none (InHand).                              *)
(***************************************************************************)
EXTENDS TradingTrieRefinement, OperatorLemmas

\* What the invariant says of one node of a queue.
LEMMA NodeOfChain ==
  ASSUME IInv, NEW q \in Queue, NEW i \in 1..Len(chain[q])
  PROVE  /\ chain[q][i] \in Node /\ chain[q][i] \in alloc
         /\ chain[q][i] # NULL
         /\ data[chain[q][i]] \in Resting
         /\ previous[chain[q][i]] = NULL
         /\ next[chain[q][i]] = IF i = Len(chain[q]) THEN NULL ELSE chain[q][i + 1]
<1>1. chain[q][i] \in Node
  BY ElementOfSeq DEF IInv, ChainTypeOK
<1>2. next[chain[q][i]] = IF i = Len(chain[q]) THEN NULL ELSE chain[q][i + 1]
  BY DEF IInv, Linked
<1> QED
  BY <1>1, <1>2, NodeAssumption DEF IInv, NoSharing, ChainSound

\* The queues have lengths, and the last place of one that is not empty is
\* among its places.
LEMMA LengthOfChain ==
  ASSUME IInv, NEW q \in Queue
  PROVE  /\ Len(chain[q]) \in Nat
         /\ chain[q] \in Seq(Node)
         /\ chain[q] = << >> <=> Len(chain[q]) = 0
<1>1. chain[q] \in Seq(Node)
  BY DEF IInv, ChainTypeOK
<1> QED
  BY <1>1, LenProperties, EmptySeq

\* Initially every queue is empty.
LEMMA InitIInv == HInit => IInv
<1> SUFFICES ASSUME HInit
             PROVE  IInv
  OBVIOUS
<1>1. chain = [q \in Queue |-> << >>] /\ \A q \in Queue : Len(chain[q]) = 0
  BY EmptySeq DEF HInit
<1>2. TypeOK
  BY EmptySeq, MaxOrdersAssumption DEF HInit, Init, TypeOK, Pointer, alloc
<1>3. ChainTypeOK
  BY <1>1, <1>2, EmptySeq DEF ChainTypeOK
<1>4. Linked
  BY <1>1 DEF HInit, Init, Linked
<1>5. NoSharing /\ ChainSound
  BY <1>1 DEF NoSharing, ChainSound
<1>6. ScanSound /\ InHand
  BY DEF HInit, Init, ScanSound, InHand
<1> QED
  BY <1>3, <1>4, <1>5, <1>6 DEF IInv
-------------------------------------------------------------------------------
\* An order or a cancellation is read into a node that malloc returns: the
\* queues do not reach it, so they are what they were.
LEMMA ReceiveStep ==
  ASSUME IInv, NEW n \in Node, NEW r \in Request, HReceive(n, r)
  PROVE  IInv'
<1> DEFINE o == Normalize(Numbered(r, order_number + 1))
<1>1. /\ order_number \in Nat /\ order_number + 1 \in 0..MaxOrders
      /\ n \notin alloc /\ pc = "receive"
      /\ order_number' = order_number + 1
      /\ data' = Allocated(n, o)
      /\ next' = [next EXCEPT ![n] = NULL]
      /\ previous' = [previous EXCEPT ![n] = NULL]
      /\ UNCHANGED <<queues, trades, chain>>
  BY MaxOrdersAssumption
  DEF HReceive, Receive, ReceiveCancel, IInv, ChainTypeOK, TypeOK
<1>2. /\ o \in Order /\ o.oid = order_number + 1
      /\ o.operation = r.operation
      /\ r.operation \in Side => o \in Resting
  BY <1>1, NormalizeType
<1> HIDE DEF o
<1>3. /\ alloc' = alloc \cup {n} /\ data'[n] = o
      /\ \A m \in alloc : data'[m] = data[m]
      /\ data' \in [alloc' -> Order]
  BY <1>1, <1>2 DEF Allocated, alloc, IInv, ChainTypeOK, TypeOK
<1>4. head' = head /\ tail' = tail /\ chain' = chain /\ trades' = trades
  BY <1>1 DEF queues
<1>5. \A q \in Queue : \A i \in 1..Len(chain[q]) :
        /\ chain[q][i] \in Node /\ chain[q][i] # n /\ chain[q][i] \in alloc
        /\ data'[chain[q][i]] = data[chain[q][i]]
        /\ next'[chain[q][i]] = next[chain[q][i]]
        /\ previous'[chain[q][i]] = previous[chain[q][i]]
  BY <1>1, <1>3, NodeOfChain DEF IInv, ChainTypeOK, TypeOK
<1>6. /\ next' \in [Node -> Pointer] /\ previous' \in [Node -> Pointer]
      /\ next'[n] = NULL /\ previous'[n] = NULL
  BY <1>1 DEF IInv, ChainTypeOK, TypeOK, Pointer
<1>7. \/ /\ r.operation \in Side /\ order' = n /\ pc' = "scan"
         /\ cursor' = head[Opposite(o)]
      \/ pc' = "receive" /\ order' = order /\ cursor' = cursor
  BY <1>1 DEF HReceive, Receive, ReceiveCancel, o
<1>8. \A q \in Queue : head[q] \in Pointer
  BY DEF IInv, ChainTypeOK, TypeOK
<1>9. ChainTypeOK'
  <2>1. order' \in Pointer /\ cursor' \in Pointer /\ pc' \in {"receive", "scan"}
    BY <1>2, <1>7, <1>8, QueuesOfOrder DEF IInv, ChainTypeOK, TypeOK, Pointer
  <2>2. alloc' \subseteq Node
    BY <1>3 DEF IInv, ChainTypeOK, TypeOK
  <2> QED
    BY <1>1, <1>3, <1>4, <1>6, <2>1, <2>2 DEF IInv, ChainTypeOK, TypeOK
<1>10. Linked'
  BY <1>4, <1>5 DEF IInv, Linked
<1>11. NoSharing'
  BY <1>3, <1>4 DEF IInv, NoSharing
<1>12. ChainSound'
  BY <1>4, <1>5 DEF IInv, ChainSound
<1>13. ScanSound'
  <2> SUFFICES ASSUME pc' = "scan"
               PROVE  ScanSound'
    BY DEF ScanSound
  <2>1. /\ order' = n /\ data'[order'] = o /\ o \in Resting
        /\ cursor' = head[Opposite(o)]
    BY <1>1, <1>2, <1>3, <1>7
  <2> DEFINE s == chain[Opposite(o)]
  <2>2. Opposite(o) \in Queue /\ Len(s) \in Nat /\ (s = << >> <=> Len(s) = 0)
    BY <2>1, QueuesOfOrder, LengthOfChain
  <2>3. cursor' = IF s = << >> THEN NULL ELSE s[1]
    BY <2>1, <2>2 DEF IInv, Linked
  <2>4. /\ 1 \in 1..(Len(s) + 1)
        /\ cursor' = IF 1 = Len(s) + 1 THEN NULL ELSE s[1]
        /\ 1..(1 - 1) = {}
    BY <2>2, <2>3
  <2>5. s = chain'[Opposite(data'[order'])]
    BY <1>4, <2>1
  <2> HIDE DEF s
  <2> QED
    BY <2>4, <2>5 DEF ScanSound
<1>14. InHand'
  <2>1. CASE order' = n /\ pc' = "scan" /\ r.operation \in Side
    <3>1. /\ n \in alloc' /\ data'[n] \in Resting
          /\ data'[n].oid = order_number' /\ order_number' > 0
      BY <1>1, <1>2, <1>3, <2>1
    <3> QED
      BY <1>4, <1>5, <1>6, <2>1, <3>1 DEF InHand
  <2>2. CASE pc' = "receive" /\ order' = order /\ cursor' = cursor
    BY <1>1, <2>2 DEF IInv, InHand
  <2> QED
    BY <1>7, <2>1, <2>2
<1> QED
  BY <1>9, <1>10, <1>11, <1>12, <1>13, <1>14 DEF IInv

\* The cursor moves to the next node: one more order of the queue was looked
\* at and is not compatible.
LEMMA ScanNextStep == IInv /\ HScanNext => IInv'
<1> SUFFICES ASSUME IInv, HScanNext
             PROVE  IInv'
  OBVIOUS
<1>1. /\ pc = "scan" /\ cursor # NULL /\ cursor' = next[cursor]
      /\ ~Compatible(data[order], data[cursor])
      /\ data' = data /\ next' = next /\ previous' = previous /\ pc' = pc
      /\ head' = head /\ tail' = tail /\ order' = order /\ chain' = chain
      /\ order_number' = order_number /\ trades' = trades
  BY DEF HScanNext, ScanNext, heap, queues
<1> DEFINE q == Opposite(data[order])
           s == chain[q]
<1>2. q \in Queue /\ Len(s) \in Nat
  BY <1>1, QueuesOfOrder, LengthOfChain DEF IInv, InHand
<1>3. PICK i \in 1..(Len(s) + 1) :
        /\ cursor = IF i = Len(s) + 1 THEN NULL ELSE s[i]
        /\ \A j \in 1..(i - 1) : ~Compatible(data[order], data[s[j]])
  BY <1>1 DEF IInv, ScanSound
<1>4. i \in 1..Len(s) /\ cursor = s[i]
  BY <1>1, <1>2, <1>3
<1>5. cursor' = IF i + 1 = Len(s) + 1 THEN NULL ELSE s[i + 1]
  <2>1. next[s[i]] = IF i = Len(s) THEN NULL ELSE s[i + 1]
    BY <1>2, <1>4, NodeOfChain
  <2> HIDE DEF s
  <2> QED
    BY <1>1, <1>2, <1>4, <2>1
<1>6. \A j \in 1..((i + 1) - 1) : ~Compatible(data[order], data[s[j]])
  <2>1. ASSUME NEW j \in 1..((i + 1) - 1), j # i
        PROVE  j \in 1..(i - 1)
    BY <1>2, <2>1
  <2> QED
    BY <1>1, <1>3, <1>4, <2>1
<1>7. i + 1 \in 1..(Len(s) + 1)
  BY <1>2, <1>4
<1>8. ScanSound'
  <2>1. s = chain'[Opposite(data'[order'])]
    BY <1>1
  <2> HIDE DEF s
  <2> QED
    BY <1>1, <1>5, <1>6, <1>7, <2>1 DEF ScanSound
<1>9. ChainTypeOK'
  <2>1. cursor \in Node
    BY <1>2, <1>4, NodeOfChain
  <2>2. cursor' \in Pointer
    BY <1>1, <2>1 DEF IInv, ChainTypeOK, TypeOK
  <2> QED
    BY <1>1, <2>2 DEF IInv, ChainTypeOK, TypeOK, alloc
<1>10. Linked' /\ NoSharing' /\ ChainSound'
  BY <1>1 DEF IInv, Linked, NoSharing, ChainSound, alloc
<1>11. InHand'
  BY <1>1 DEF IInv, InHand, alloc
<1> QED
  BY <1>8, <1>9, <1>10, <1>11 DEF IInv
-------------------------------------------------------------------------------
\* Where the cursor stands when it is not NULL, and that no order ahead of it
\* is compatible with the new one.
LEMMA CursorPlace ==
  ASSUME IInv, pc = "scan", cursor # NULL,
         NEW q, q = Opposite(data[order]), NEW i, i = Place(q, cursor)
  PROVE  /\ q \in Queue
         /\ i \in 1..Len(chain[q]) /\ chain[q][i] = cursor
         /\ \A j \in 1..(i - 1) : ~Compatible(data[order], data[chain[q][j]])
<1>1. q \in Queue /\ Len(chain[q]) \in Nat
  BY QueuesOfOrder, LengthOfChain DEF IInv, InHand
<1>2. PICK k \in 1..(Len(chain[q]) + 1) :
        /\ cursor = IF k = Len(chain[q]) + 1 THEN NULL ELSE chain[q][k]
        /\ \A j \in 1..(k - 1) : ~Compatible(data[order], data[chain[q][j]])
  BY DEF IInv, ScanSound
<1>3. k \in 1..Len(chain[q]) /\ cursor = chain[q][k]
  BY <1>1, <1>2
<1>4. i \in 1..Len(chain[q]) /\ chain[q][i] = cursor
  BY <1>3 DEF Place
<1>5. i = k
  BY <1>1, <1>3, <1>4 DEF IInv, NoSharing
<1> QED
  BY <1>1, <1>2, <1>4, <1>5

\* Unlinking the node at the cursor: the head moves behind it, the tail goes
\* if it was the last, and no link of another node changes.
LEMMA HitEffect ==
  ASSUME IInv, HScanHit,
         NEW q, q = Opposite(data[order]), NEW i, i = Place(q, cursor)
  PROVE  /\ q \in Queue
         /\ i \in 1..Len(chain[q]) /\ chain[q][i] = cursor
         /\ next' = next /\ previous' = previous
         /\ head' = [head EXCEPT ![q] = next[cursor]]
         /\ tail' = IF i = Len(chain[q]) THEN [tail EXCEPT ![q] = NULL] ELSE tail
         /\ chain' \in [Queue -> Seq(Node)]
         /\ \A p \in Queue : p # q => chain'[p] = chain[p]
         /\ Len(chain'[q]) = Len(chain[q]) - i
         /\ \A k \in 1..(Len(chain[q]) - i) : chain'[q][k] = chain[q][i + k]
         /\ alloc' = alloc \ {order, cursor}
         /\ \A n \in alloc' : data'[n] = data[n]
<1>1. pc = "scan" /\ cursor # NULL
  BY DEF HScanHit, ScanHit
<1>2. q \in Queue /\ i \in 1..Len(chain[q]) /\ chain[q][i] = cursor
  BY <1>1, CursorPlace
<1>3. /\ previous[cursor] = NULL
      /\ next[cursor] = IF i = Len(chain[q]) THEN NULL ELSE chain[q][i + 1]
  BY <1>2, NodeOfChain
<1>4. Len(chain[q]) \in Nat /\ chain[q] \in Seq(Node)
  BY <1>2, LengthOfChain
<1>5. i # Len(chain[q]) => i + 1 \in 1..Len(chain[q])
  BY <1>2, <1>4
<1>6. i # Len(chain[q]) => next[cursor] # NULL /\ previous[next[cursor]] = NULL
  BY <1>2, <1>3, <1>5, NodeOfChain
<1>7. head' = [head EXCEPT ![q] = next[cursor]] /\ next' = next
  BY <1>3 DEF HScanHit, ScanHit, HeadWithout, NextWithout
<1>8. tail' = IF i = Len(chain[q]) THEN [tail EXCEPT ![q] = NULL] ELSE tail
  <2>1. tail' = TailWithout(q, cursor)
    BY DEF HScanHit, ScanHit
  <2> QED
    BY <1>3, <1>6, <2>1 DEF TailWithout
<1>9. previous' = previous
  <2>1. previous' = PreviousWithout(cursor)
    BY DEF HScanHit, ScanHit
  <2>2. CASE i = Len(chain[q])
    BY <1>3, <2>1, <2>2 DEF PreviousWithout
  <2>3. CASE i # Len(chain[q])
    <3>1. previous' = [previous EXCEPT ![next[cursor]] = NULL]
      BY <1>3, <1>6, <2>1, <2>3 DEF PreviousWithout
    <3>2. previous \in [Node -> Pointer]
      BY DEF IInv, ChainTypeOK, TypeOK
    <3> QED
      BY <1>6, <2>3, <3>1, <3>2
  <2> QED
    BY <2>2, <2>3
<1>10. chain' = [chain EXCEPT ![q] = SubSeq(chain[q], i + 1, Len(chain[q]))]
  BY DEF HScanHit
<1>11. /\ SubSeq(chain[q], i + 1, Len(chain[q])) \in Seq(Node)
       /\ Len(SubSeq(chain[q], i + 1, Len(chain[q]))) = Len(chain[q]) - i
       /\ \A k \in 1..(Len(chain[q]) - i) :
            SubSeq(chain[q], i + 1, Len(chain[q]))[k] = chain[q][i + k]
  <2>1. i + 1 \in Int /\ Len(chain[q]) \in Int
    BY <1>2, <1>4
  <2>2. \A k \in (i + 1)..Len(chain[q]) : chain[q][k] \in Node
    BY <1>2, <1>4, ElementOfSeq
  <2>3. /\ SubSeq(chain[q], i + 1, Len(chain[q])) \in Seq(Node)
        /\ Len(SubSeq(chain[q], i + 1, Len(chain[q])))
             = IF i + 1 <= Len(chain[q]) THEN Len(chain[q]) - (i + 1) + 1 ELSE 0
        /\ \A k \in 1..(Len(chain[q]) - (i + 1) + 1) :
             SubSeq(chain[q], i + 1, Len(chain[q]))[k] = chain[q][(i + 1) + k - 1]
    BY <2>1, <2>2, SubSeqProperties
  <2> QED
    BY <1>2, <1>4, <2>3, SMTT(30)
<1>12. chain \in [Queue -> Seq(Node)]
  BY DEF IInv, ChainTypeOK
<1>13. /\ chain' \in [Queue -> Seq(Node)]
       /\ \A p \in Queue : p # q => chain'[p] = chain[p]
       /\ chain'[q] = SubSeq(chain[q], i + 1, Len(chain[q]))
  BY <1>2, <1>10, <1>11, <1>12
<1>14. alloc' = alloc \ {order, cursor} /\ \A n \in alloc' : data'[n] = data[n]
  BY DEF HScanHit, ScanHit, FreedOf, alloc
<1> QED
  BY <1>2, <1>7, <1>8, <1>9, <1>11, <1>13, <1>14

\* A node that is in a queue after a hit was in the same queue before, at a
\* later place if the queue is the one that was scanned, and is neither of
\* the nodes that were freed.
LEMMA ChainAfterHit ==
  ASSUME IInv, HScanHit,
         NEW p \in Queue, NEW d,
         d = IF p = Opposite(data[order])
               THEN Place(Opposite(data[order]), cursor) ELSE 0
  PROVE  /\ d \in 0..Len(chain[p])
         /\ Len(chain'[p]) = Len(chain[p]) - d
         /\ \A k \in 1..Len(chain'[p]) :
              /\ k + d \in 1..Len(chain[p])
              /\ chain'[p][k] = chain[p][k + d]
              /\ chain'[p][k] \in alloc'
              /\ data'[chain'[p][k]] = data[chain'[p][k]]
<1> DEFINE q == Opposite(data[order])
           i == Place(q, cursor)
<1>1. /\ q \in Queue
      /\ i \in 1..Len(chain[q]) /\ chain[q][i] = cursor
      /\ \A r \in Queue : r # q => chain'[r] = chain[r]
      /\ Len(chain'[q]) = Len(chain[q]) - i
      /\ \A k \in 1..(Len(chain[q]) - i) : chain'[q][k] = chain[q][i + k]
      /\ alloc' = alloc \ {order, cursor}
      /\ \A n \in alloc' : data'[n] = data[n]
  BY HitEffect
<1>2. pc = "scan"
  BY DEF HScanHit, ScanHit
<1> HIDE DEF q, i
<1>3. Len(chain[p]) \in Nat /\ Len(chain[q]) \in Nat
  BY <1>1, LengthOfChain
<1>4. d = IF p = q THEN i ELSE 0
  BY DEF q, i
<1>5. d \in 0..Len(chain[p]) /\ Len(chain'[p]) = Len(chain[p]) - d
  BY <1>1, <1>3, <1>4
<1>6. ASSUME NEW k \in 1..Len(chain'[p])
      PROVE  /\ k + d \in 1..Len(chain[p])
             /\ chain'[p][k] = chain[p][k + d]
             /\ ~(p = q /\ k + d = i)
  <2>1. k + d \in 1..Len(chain[p]) /\ k \in Nat /\ k > 0
    BY <1>3, <1>5
  <2>2. CASE p = q
    <3>1. d = i /\ k \in 1..(Len(chain[q]) - i) /\ k + i = i + k
      BY <1>1, <1>3, <1>4, <2>1, <2>2
    <3>2. chain'[q][k] = chain[q][k + i]
      BY <1>1, <3>1
    <3>3. k + i # i
      BY <1>1, <1>3, <2>1
    <3> QED
      BY <2>1, <2>2, <3>1, <3>2, <3>3
  <2>3. CASE p # q
    BY <1>1, <1>3, <1>4, <2>1, <2>3
  <2> QED
    BY <2>2, <2>3
<1>7. ASSUME NEW k \in 1..Len(chain'[p])
      PROVE  chain'[p][k] \in alloc'
  <2>1. chain[p][k + d] # cursor
    BY <1>1, <1>6 DEF IInv, NoSharing
  <2>2. chain[p][k + d] # order
    BY <1>2, <1>6 DEF IInv, InHand
  <2>3. chain[p][k + d] \in alloc
    BY <1>6 DEF IInv, NoSharing
  <2> QED
    BY <1>1, <1>6, <2>1, <2>2, <2>3
<1> QED
  BY <1>1, <1>5, <1>6, <1>7

\* A trade keeps the lists well formed and reaches no freed node.
LEMMA ScanHitStep == IInv /\ HScanHit => IInv'
<1> SUFFICES ASSUME IInv, HScanHit
             PROVE  IInv'
  OBVIOUS
<1> DEFINE q == Opposite(data[order])
           i == Place(q, cursor)
           shift(p) == IF p = q THEN i ELSE 0
<1>1. /\ q \in Queue
      /\ i \in 1..Len(chain[q]) /\ chain[q][i] = cursor
      /\ next' = next /\ previous' = previous
      /\ head' = [head EXCEPT ![q] = next[cursor]]
      /\ tail' = IF i = Len(chain[q]) THEN [tail EXCEPT ![q] = NULL] ELSE tail
      /\ chain' \in [Queue -> Seq(Node)]
      /\ alloc' = alloc \ {order, cursor}
      /\ \A n \in alloc' : data'[n] = data[n]
  BY HitEffect
<1>2. ASSUME NEW p \in Queue
      PROVE  /\ shift(p) \in 0..Len(chain[p])
             /\ Len(chain'[p]) = Len(chain[p]) - shift(p)
             /\ \A k \in 1..Len(chain'[p]) :
                  /\ k + shift(p) \in 1..Len(chain[p])
                  /\ chain'[p][k] = chain[p][k + shift(p)]
                  /\ chain'[p][k] \in alloc'
                  /\ data'[chain'[p][k]] = data[chain'[p][k]]
  BY ChainAfterHit
<1>3. /\ pc = "scan" /\ pc' = "receive" /\ order' = NULL /\ cursor' = NULL
      /\ order_number' = order_number
      /\ trades' = Append(trades, Traded)
      /\ data' = FreedOf({order, cursor})
  BY DEF HScanHit, ScanHit
<1>4. \A p \in Queue : Len(chain[p]) \in Nat
  BY LengthOfChain
<1>5. ASSUME NEW p \in Queue
      PROVE  shift(p) = IF p = q THEN i ELSE 0
  OBVIOUS
<1>6. /\ order \in alloc /\ data[order] \in Resting
      /\ cursor \in alloc /\ data[cursor] \in Resting
      /\ next[cursor] = IF i = Len(chain[q]) THEN NULL ELSE chain[q][i + 1]
  BY <1>1, <1>3, NodeOfChain DEF IInv, InHand
<1> HIDE DEF q, i, shift
<1>7. ChainTypeOK'
  <2>1. data' \in [alloc' -> Order] /\ alloc' \subseteq Node
    BY <1>1, <1>3 DEF IInv, ChainTypeOK, TypeOK, FreedOf, alloc
  <2>2. next[cursor] \in Pointer
    BY <1>6 DEF IInv, ChainTypeOK, TypeOK
  <2>3. head' \in [Queue -> Pointer] /\ tail' \in [Queue -> Pointer]
    BY <1>1, <2>2 DEF IInv, ChainTypeOK, TypeOK, Pointer
  <2>4. Traded \in Order \X Order
    BY <1>6 DEF Traded, Adjusted, Resting, Order
  <2>5. trades' \in Seq(Order \X Order)
    BY <1>3, <2>4, AppendProperties DEF IInv, ChainTypeOK, TypeOK
  <2> QED
    BY <1>1, <1>3, <2>1, <2>3, <2>5 DEF IInv, ChainTypeOK, TypeOK, Pointer
<1>8. Linked'
  <2> SUFFICES ASSUME NEW p \in Queue
               PROVE  /\ head'[p] = IF chain'[p] = << >> THEN NULL ELSE chain'[p][1]
                      /\ tail'[p] = IF chain'[p] = << >> THEN NULL
                                    ELSE chain'[p][Len(chain'[p])]
                      /\ \A k \in 1..Len(chain'[p]) :
                           next'[chain'[p][k]]
                             = IF k = Len(chain'[p]) THEN NULL ELSE chain'[p][k + 1]
    BY DEF Linked
  <2>1. /\ Len(chain'[p]) \in Nat
        /\ chain'[p] = << >> <=> Len(chain'[p]) = 0
    BY <1>1, LenProperties, EmptySeq
  <2>2. \A k \in 1..Len(chain'[p]) :
          next'[chain'[p][k]]
            = IF k = Len(chain'[p]) THEN NULL ELSE chain'[p][k + 1]
    <3> SUFFICES ASSUME NEW k \in 1..Len(chain'[p])
                 PROVE  next'[chain'[p][k]]
                          = IF k = Len(chain'[p]) THEN NULL ELSE chain'[p][k + 1]
      OBVIOUS
    <3>1. /\ k + shift(p) \in 1..Len(chain[p])
          /\ chain'[p][k] = chain[p][k + shift(p)]
          /\ k + 1 \in 1..Len(chain'[p]) =>
               chain'[p][k + 1] = chain[p][(k + 1) + shift(p)]
      BY <1>2
    <3>2. next[chain[p][k + shift(p)]]
            = IF k + shift(p) = Len(chain[p]) THEN NULL
              ELSE chain[p][(k + shift(p)) + 1]
      BY <3>1, NodeOfChain
    <3>3. /\ k = Len(chain'[p]) <=> k + shift(p) = Len(chain[p])
          /\ (k + 1) + shift(p) = (k + shift(p)) + 1
          /\ k # Len(chain'[p]) => k + 1 \in 1..Len(chain'[p])
      BY <1>2, <1>4, <2>1, SMTT(30)
    <3> QED
      BY <1>1, <3>1, <3>2, <3>3
  <2>3. CASE p # q
    <3>1. shift(p) = 0
      BY <1>5, <2>3
    <3>2. /\ Len(chain'[p]) = Len(chain[p])
          /\ \A k \in 1..Len(chain[p]) : chain'[p][k] = chain[p][k]
      BY <1>2, <1>4, <3>1
    <3>3. head'[p] = head[p] /\ tail'[p] = tail[p]
      BY <1>1, <2>3 DEF IInv, ChainTypeOK, TypeOK
    <3>4. /\ head[p] = IF chain[p] = << >> THEN NULL ELSE chain[p][1]
          /\ tail[p] = IF chain[p] = << >> THEN NULL ELSE chain[p][Len(chain[p])]
          /\ chain[p] = << >> <=> Len(chain[p]) = 0
      BY LengthOfChain DEF IInv, Linked
    <3>5. Len(chain[p]) # 0 => 1 \in 1..Len(chain[p]) /\ Len(chain[p]) \in 1..Len(chain[p])
      BY <1>4
    <3> QED
      BY <2>1, <2>2, <3>2, <3>3, <3>4, <3>5
  <2>4. CASE p = q
    <3>1. /\ shift(p) = i /\ i \in 1..Len(chain[p])
          /\ Len(chain'[p]) = Len(chain[p]) - i
      BY <1>1, <1>2, <1>5, <2>4
    <3>2. head'[p] = next[cursor]
      BY <1>1, <2>4 DEF IInv, ChainTypeOK, TypeOK
    <3>3. CASE i = Len(chain[p])
      <4>1. tail'[p] = NULL /\ Len(chain'[p]) = 0 /\ next[cursor] = NULL
        BY <1>1, <1>4, <1>6, <2>4, <3>1, <3>3 DEF IInv, ChainTypeOK, TypeOK
      <4> QED
        BY <2>1, <2>2, <3>2, <4>1
    <3>4. CASE i # Len(chain[p])
      <4>1. /\ Len(chain'[p]) # 0
            /\ 1 \in 1..Len(chain'[p]) /\ Len(chain'[p]) \in 1..Len(chain'[p])
            /\ 1 + i = i + 1 /\ Len(chain'[p]) + i = Len(chain[p])
        BY <1>4, <2>1, <3>1, <3>4
      <4>2. /\ chain'[p][1] = chain[p][i + 1]
            /\ chain'[p][Len(chain'[p])] = chain[p][Len(chain[p])]
        BY <1>2, <3>1, <4>1
      <4>3. next[cursor] = chain[p][i + 1] /\ tail' = tail
        BY <1>1, <1>6, <2>4, <3>4
      <4>4. tail[p] = chain[p][Len(chain[p])]
        <5>1. chain[p] # << >>
          BY <1>4, <3>1, EmptySeq
        <5> QED
          BY <5>1 DEF IInv, Linked
      <4> QED
        BY <2>1, <2>2, <3>2, <4>1, <4>2, <4>3, <4>4
    <3> QED
      BY <3>3, <3>4
  <2> QED
    BY <2>3, <2>4
<1>9. NoSharing'
  <2>1. \A p \in Queue : \A k \in 1..Len(chain'[p]) : chain'[p][k] \in alloc'
    BY <1>2
  <2>2. ASSUME NEW p \in Queue, NEW r \in Queue,
               NEW k \in 1..Len(chain'[p]), NEW l \in 1..Len(chain'[r]),
               chain'[p][k] = chain'[r][l]
        PROVE  p = r /\ k = l
    <3>1. /\ k + shift(p) \in 1..Len(chain[p])
          /\ l + shift(r) \in 1..Len(chain[r])
          /\ chain[p][k + shift(p)] = chain[r][l + shift(r)]
      BY <1>2, <2>2
    <3>2. p = r /\ k + shift(p) = l + shift(r)
      BY <3>1 DEF IInv, NoSharing
    <3>3. shift(p) \in Nat /\ k \in Nat /\ l \in Nat
      BY <1>2, <1>4
    <3> QED
      BY <3>2, <3>3
  <2> QED
    BY <2>1, <2>2 DEF NoSharing
<1>10. ChainSound'
  <2> SUFFICES ASSUME NEW p \in Queue, NEW k \in 1..Len(chain'[p])
               PROVE  /\ data'[chain'[p][k]] \in Resting
                      /\ previous'[chain'[p][k]] = NULL
    BY DEF ChainSound
  <2>1. /\ k + shift(p) \in 1..Len(chain[p])
        /\ chain'[p][k] = chain[p][k + shift(p)]
        /\ data'[chain'[p][k]] = data[chain'[p][k]]
    BY <1>2
  <2>2. /\ data[chain[p][k + shift(p)]] \in Resting
        /\ previous[chain[p][k + shift(p)]] = NULL
    BY <2>1, NodeOfChain
  <2> QED
    BY <1>1, <2>1, <2>2
<1>11. ScanSound' /\ InHand'
  BY <1>3 DEF ScanSound, InHand
<1> QED
  BY <1>7, <1>8, <1>9, <1>10, <1>11 DEF IInv
-------------------------------------------------------------------------------
\* Appending the node in hand to its own queue: it is the last of it, and the
\* link of the node that was the last, if there was one, leads to it.
LEMMA EnqueueEffect ==
  ASSUME IInv, HEnqueue, NEW q, q = Own(data[order])
  PROVE  /\ q \in Queue
         /\ chain' \in [Queue -> Seq(Node)]
         /\ \A p \in Queue : p # q => chain'[p] = chain[p]
         /\ Len(chain'[q]) = Len(chain[q]) + 1
         /\ \A k \in 1..Len(chain[q]) : chain'[q][k] = chain[q][k]
         /\ chain'[q][Len(chain[q]) + 1] = order
<1>1. pc = "scan" /\ order \in Node
  BY DEF HEnqueue, Enqueue, IInv, InHand, ChainTypeOK, TypeOK
<1>2. q \in Queue
  BY <1>1, QueuesOfOrder DEF IInv, InHand
<1>3. chain \in [Queue -> Seq(Node)] /\ chain[q] \in Seq(Node)
  BY <1>2 DEF IInv, ChainTypeOK
<1>4. chain' = [chain EXCEPT ![q] = Append(chain[q], order)]
  BY DEF HEnqueue
<1>5. /\ Append(chain[q], order) \in Seq(Node)
      /\ Len(Append(chain[q], order)) = Len(chain[q]) + 1
      /\ \A k \in 1..Len(chain[q]) : Append(chain[q], order)[k] = chain[q][k]
      /\ Append(chain[q], order)[Len(chain[q]) + 1] = order
  BY <1>1, <1>3, AppendProperties
<1>6. /\ chain' \in [Queue -> Seq(Node)]
      /\ \A p \in Queue : p # q => chain'[p] = chain[p]
      /\ chain'[q] = Append(chain[q], order)
  BY <1>2, <1>3, <1>4, <1>5
<1> QED
  BY <1>2, <1>5, <1>6

\* An order that comes to rest leaves the lists well formed.
LEMMA EnqueueStep == IInv /\ HEnqueue => IInv'
<1> SUFFICES ASSUME IInv, HEnqueue
             PROVE  IInv'
  OBVIOUS
<1> DEFINE q == Own(data[order])
           n == Len(chain[q])
<1>1. /\ q \in Queue
      /\ chain' \in [Queue -> Seq(Node)]
      /\ \A p \in Queue : p # q => chain'[p] = chain[p]
      /\ Len(chain'[q]) = n + 1
      /\ \A k \in 1..n : chain'[q][k] = chain[q][k]
      /\ chain'[q][n + 1] = order
  BY EnqueueEffect
<1>2. /\ pc = "scan" /\ pc' = "receive" /\ order' = NULL
      /\ cursor = NULL /\ cursor' = NULL
      /\ head' = IF head[q] = NULL THEN [head EXCEPT ![q] = order] ELSE head
      /\ next' = IF head[q] = NULL THEN next ELSE [next EXCEPT ![tail[q]] = order]
      /\ tail' = [tail EXCEPT ![q] = order]
      /\ data' = data /\ previous' = previous
      /\ order_number' = order_number /\ trades' = trades
  BY DEF HEnqueue, Enqueue, TailAfter
<1>3. /\ order \in alloc /\ data[order] \in Resting /\ order \in Node
      /\ next[order] = NULL /\ previous[order] = NULL
      /\ \A p \in Queue : \A i \in 1..Len(chain[p]) : chain[p][i] # order
  BY <1>2 DEF IInv, InHand, ChainTypeOK, TypeOK
<1>4. order # NULL
  BY <1>3, NodeAssumption
<1>5. \A p \in Queue : Len(chain[p]) \in Nat /\ (chain[p] = << >> <=> Len(chain[p]) = 0)
  BY LengthOfChain
<1> HIDE DEF q
<1>6. /\ head[q] = NULL <=> n = 0
      /\ n # 0 => tail[q] = chain[q][n] /\ head[q] = chain[q][1]
  <2>1. /\ head[q] = IF chain[q] = << >> THEN NULL ELSE chain[q][1]
        /\ tail[q] = IF chain[q] = << >> THEN NULL ELSE chain[q][n]
    BY <1>1 DEF IInv, Linked
  <2>2. n # 0 => 1 \in 1..n
    BY <1>1, <1>5
  <2>3. n # 0 => chain[q][1] # NULL
    BY <1>1, <2>2, NodeOfChain
  <2> QED
    BY <1>1, <1>5, <2>1, <2>3
\* An entry of the new chain is one of the old or the node in hand.
<1>7. \A p \in Queue : \A k \in 1..Len(chain'[p]) :
        \/ k \in 1..Len(chain[p]) /\ chain'[p][k] = chain[p][k]
        \/ p = q /\ k = n + 1 /\ chain'[p][k] = order
  <2> SUFFICES ASSUME NEW p \in Queue, NEW k \in 1..Len(chain'[p])
               PROVE  \/ k \in 1..Len(chain[p]) /\ chain'[p][k] = chain[p][k]
                      \/ p = q /\ k = n + 1 /\ chain'[p][k] = order
    OBVIOUS
  <2>1. CASE p = q
    <3>1. n \in Nat
      BY <1>1, <1>5
    <3> HIDE DEF n
    <3>2. k \in 1..n \/ k = n + 1
      BY <1>1, <2>1, <3>1
    <3> QED
      BY <1>1, <2>1, <3>2 DEF n
  <2>2. CASE p # q
    BY <1>1, <2>2
  <2> QED
    BY <2>1, <2>2
<1>8. ChainTypeOK'
  <2>1. n # 0 => tail[q] \in Node
    <3>1. n # 0 => n \in 1..n
      BY <1>1, <1>5
    <3> QED
      BY <1>1, <1>6, <3>1, NodeOfChain
  <2>2. head' \in [Queue -> Pointer] /\ tail' \in [Queue -> Pointer]
    BY <1>1, <1>2, <1>3 DEF IInv, ChainTypeOK, TypeOK, Pointer
  <2>3. next' \in [Node -> Pointer]
    BY <1>2, <1>3, <1>6, <2>1 DEF IInv, ChainTypeOK, TypeOK, Pointer
  <2>4. alloc' = alloc
    BY <1>2 DEF alloc
  <2> QED
    BY <1>1, <1>2, <2>2, <2>3, <2>4 DEF IInv, ChainTypeOK, TypeOK, Pointer
<1>9. Linked'
  <2> SUFFICES ASSUME NEW p \in Queue
               PROVE  /\ head'[p] = IF chain'[p] = << >> THEN NULL ELSE chain'[p][1]
                      /\ tail'[p] = IF chain'[p] = << >> THEN NULL
                                    ELSE chain'[p][Len(chain'[p])]
                      /\ \A k \in 1..Len(chain'[p]) :
                           next'[chain'[p][k]]
                             = IF k = Len(chain'[p]) THEN NULL ELSE chain'[p][k + 1]
    BY DEF Linked
  <2>1. n \in Nat /\ (n # 0 => n \in 1..n /\ 1 \in 1..n)
    BY <1>1, <1>5
  \* A link changes only at the node that was the last of the queue.
  <2>2. ASSUME NEW k \in 1..Len(chain[p]), ~(p = q /\ k = n)
        PROVE  next'[chain[p][k]] = next[chain[p][k]]
    <3>1. chain[p][k] \in Node
      BY NodeOfChain
    <3>2. n # 0 => chain[p][k] # chain[q][n]
      BY <1>1, <2>1, <2>2 DEF IInv, NoSharing
    <3> QED
      BY <1>2, <1>6, <3>1, <3>2 DEF IInv, ChainTypeOK, TypeOK
  <2>3. next'[order] = NULL
    <3>1. n # 0 => chain[q][n] # order
      BY <1>1, <1>3, <2>1
    <3> QED
      BY <1>2, <1>3, <1>6, <3>1 DEF IInv, ChainTypeOK, TypeOK
  <2>4. n # 0 => next'[chain[q][n]] = order
    <3>1. n # 0 => chain[q][n] \in Node
      BY <1>1, <2>1, NodeOfChain
    <3> QED
      BY <1>2, <1>6, <3>1 DEF IInv, ChainTypeOK, TypeOK
  <2>5. CASE p # q
    <3>1. chain'[p] = chain[p] /\ head'[p] = head[p] /\ tail'[p] = tail[p]
      BY <1>1, <1>2, <2>5 DEF IInv, ChainTypeOK, TypeOK
    <3>2. /\ head[p] = IF chain[p] = << >> THEN NULL ELSE chain[p][1]
          /\ tail[p] = IF chain[p] = << >> THEN NULL ELSE chain[p][Len(chain[p])]
          /\ \A k \in 1..Len(chain[p]) :
               next[chain[p][k]]
                 = IF k = Len(chain[p]) THEN NULL ELSE chain[p][k + 1]
      BY DEF IInv, Linked
    <3>3. \A k \in 1..Len(chain[p]) : next'[chain[p][k]] = next[chain[p][k]]
      BY <2>2, <2>5
    <3> QED
      BY <3>1, <3>2, <3>3
  <2>6. CASE p = q
    <3>1. chain'[p] # << >>
      <4>1. Len(chain'[p]) # 0
        BY <1>1, <2>1, <2>6
      <4> QED
        BY <4>1, EmptySeq
    <3>2. tail'[p] = order
      BY <1>1, <1>2, <2>6 DEF IInv, ChainTypeOK, TypeOK
    <3>3. head'[p] = chain'[p][1]
      <4>1. CASE n = 0
        BY <1>1, <1>2, <1>6, <2>6, <4>1 DEF IInv, ChainTypeOK, TypeOK
      <4>2. CASE n # 0
        BY <1>1, <1>2, <1>6, <2>1, <2>6, <4>2
      <4> QED
        BY <4>1, <4>2
    <3>4. ASSUME NEW k \in 1..Len(chain'[p])
          PROVE  next'[chain'[p][k]]
                   = IF k = Len(chain'[p]) THEN NULL ELSE chain'[p][k + 1]
      <4>1. Len(chain'[p]) = n + 1
        BY <1>1, <2>6
      <4>2. CASE k = n + 1
        BY <1>1, <2>3, <2>6, <4>1, <4>2
      <4>3. CASE k = n
        <5>1. n # 0 /\ n # n + 1
          BY <2>1, <4>3
        <5>2. chain'[p][k] = chain[q][n] /\ chain'[p][k + 1] = order
          BY <1>1, <2>1, <2>6, <4>3, <5>1
        <5> QED
          BY <2>4, <4>1, <4>3, <5>1, <5>2
      <4>4. CASE k # n /\ k # n + 1
        <5>1. k \in 1..n /\ k + 1 \in 1..n /\ k # n + 1
          BY <2>1, <4>1, <4>4
        <5>2. chain'[p][k] = chain[q][k] /\ chain'[p][k + 1] = chain[q][k + 1]
          BY <1>1, <2>6, <5>1
        <5>3. next[chain[q][k]] = IF k = n THEN NULL ELSE chain[q][k + 1]
          BY <1>1, <5>1, NodeOfChain
        <5> QED
          BY <2>2, <2>6, <4>1, <4>4, <5>1, <5>2, <5>3
      <4> QED
        BY <4>2, <4>3, <4>4
    <3> QED
      BY <1>1, <2>6, <3>1, <3>2, <3>3, <3>4
  <2> QED
    BY <2>5, <2>6
<1>10. NoSharing'
  <2>1. alloc' = alloc
    BY <1>2 DEF alloc
  <2>2. \A p \in Queue : \A k \in 1..Len(chain'[p]) : chain'[p][k] \in alloc'
    BY <1>3, <1>7, <2>1 DEF IInv, NoSharing
  <2>3. ASSUME NEW p \in Queue, NEW r \in Queue,
               NEW k \in 1..Len(chain'[p]), NEW l \in 1..Len(chain'[r]),
               chain'[p][k] = chain'[r][l]
        PROVE  p = r /\ k = l
    <3>1. CASE /\ k \in 1..Len(chain[p]) /\ chain'[p][k] = chain[p][k]
               /\ l \in 1..Len(chain[r]) /\ chain'[r][l] = chain[r][l]
      <4>1. chain[p][k] = chain[r][l]
        BY <2>3, <3>1
      <4> QED
        BY <3>1, <4>1 DEF IInv, NoSharing
    <3>2. CASE /\ k \in 1..Len(chain[p]) /\ chain'[p][k] = chain[p][k]
               /\ chain'[r][l] = order
      BY <1>3, <2>3, <3>2
    <3>3. CASE /\ l \in 1..Len(chain[r]) /\ chain'[r][l] = chain[r][l]
               /\ chain'[p][k] = order
      BY <1>3, <2>3, <3>3
    <3>4. CASE p = q /\ k = n + 1 /\ r = q /\ l = n + 1
      BY <3>4
    <3> QED
      BY <1>7, <3>1, <3>2, <3>3, <3>4
  <2> QED
    BY <2>2, <2>3 DEF NoSharing
<1>11. ChainSound'
  BY <1>2, <1>3, <1>7 DEF IInv, ChainSound
<1>12. ScanSound' /\ InHand'
  BY <1>2 DEF ScanSound, InHand
<1> QED
  BY <1>8, <1>9, <1>10, <1>11, <1>12 DEF IInv

\* The inductive invariant holds in every reachable state.
THEOREM Inductive == HSpec => []IInv
<1>1. IInv /\ UNCHANGED hvars => IInv'
  <2> SUFFICES ASSUME IInv, UNCHANGED hvars
               PROVE  IInv'
    OBVIOUS
  <2>1. /\ data' = data /\ next' = next /\ previous' = previous /\ pc' = pc
        /\ head' = head /\ tail' = tail /\ order' = order /\ chain' = chain
        /\ cursor' = cursor /\ order_number' = order_number /\ trades' = trades
    BY DEF hvars, vars, heap, queues
  <2>2. ChainTypeOK' /\ Linked' /\ NoSharing'
    BY <2>1 DEF IInv, ChainTypeOK, TypeOK, Linked, NoSharing, alloc
  <2>3. ScanSound' /\ InHand' /\ ChainSound'
    BY <2>1 DEF IInv, ScanSound, InHand, ChainSound, alloc
  <2> QED
    BY <2>2, <2>3 DEF IInv
<1>2. IInv /\ [HNext]_hvars => IInv'
  BY <1>1, ReceiveStep, ScanNextStep, ScanHitStep, EnqueueStep DEF HNext
<1> QED
  BY <1>2, InitIInv, PTL DEF HSpec

\* Every variable of the engine has its type; a freed node holds nothing.
THEOREM Types == HSpec => []ChainTypeOK
<1>1. IInv => ChainTypeOK
  BY DEF IInv
<1> QED
  BY <1>1, Inductive, PTL

\* From the head of a queue the next pointers lead, without a cycle, to its
\* tail, and end there.
THEOREM ListsWellFormed == HSpec => []Linked
<1>1. IInv => Linked
  BY DEF IInv
<1> QED
  BY <1>1, Inductive, PTL

\* No queue reaches a freed node, or a node that another place reaches.
THEOREM NodesApart == HSpec => []NoSharing
<1>1. IInv => NoSharing
  BY DEF IInv
<1> QED
  BY <1>1, Inductive, PTL

\* The cursor is in the queue that is scanned and has passed over no order
\* that would have matched.
THEOREM ScanMissesNone == HSpec => []ScanSound
<1>1. IInv => ScanSound
  BY DEF IInv
<1> QED
  BY <1>1, Inductive, PTL
-------------------------------------------------------------------------------
(* The engine implements OrderBook: a call of match_trade is one step of   *)
(* it, taken when the call returns.                                        *)

\* The book of the linked lists.
Lists == [q \in Queue |-> Held(chain[q])]

\* The operators of the two specifications are the same ones.
LEMMA SameOperators ==
  /\ \A r, oid : OB!Normalize(OB!Numbered(r, oid)) = Normalize(Numbered(r, oid))
  /\ \A b, o : OB!Rest(b, o) = Rest(b, o)
  /\ \A b, o : OB!IsMatched(b, o) <=> IsMatched(b, o)
  /\ \A b, o : OB!Trade(b, o) = Trade(b, o)
  /\ OB!Request = Request
  /\ OB!EmptyBook = EmptyBook
  BY DEF OB!Normalize, Normalize, OB!Numbered, Numbered, OB!Rest, Rest,
         OB!IsMatched, IsMatched, OB!Trade, Trade, OB!Maker, Maker,
         OB!Adjusted, Adjusted, OB!Own, Own, OB!Opposite, Opposite,
         OB!Hits, Hits, OB!FirstHit, FirstHit, OB!Compatible, Compatible,
         OB!PricesCross, PricesCross, OB!Request, Request,
         OB!EmptyBook, EmptyBook, OB!Queue, Queue, OB!Symbol, Symbol,
         OB!Side, Side, OB!Operation, Operation,
         OB!BUY, BUY, OB!SELL, SELL, OB!CANCEL, CANCEL

\* Reading a function along a sequence gives a sequence of the same length.
LEMMA AlongSequence ==
  ASSUME NEW S, NEW s, NEW f, Len(s) \in Nat, \A i \in 1..Len(s) : f[s[i]] \in S,
         NEW m, m = [i \in 1..Len(s) |-> f[s[i]]]
  PROVE  /\ m \in Seq(S)
         /\ Len(m) = Len(s)
         /\ \A i \in 1..Len(s) : m[i] = f[s[i]]
<1> DEFINE entry(i) == f[s[i]]
<1>1. [i \in 1..Len(s) |-> entry(i)] \in Seq(S)
  <2>1. \A i \in 1..Len(s) : entry(i) \in S
    OBVIOUS
  <2> HIDE DEF entry
  <2> QED
    BY <2>1, IsASeq
<1>2. m \in Seq(S) /\ DOMAIN m = 1..Len(s)
  BY <1>1
<1>3. Len(m) = Len(s)
  BY <1>2, LenProperties
<1> QED
  BY <1>2, <1>3

\* The book read off the lists, one queue at a time.
LEMMA ListsEntries ==
  ASSUME IInv
  PROVE  /\ Lists \in Book
         /\ \A q \in Queue :
              /\ Len(Lists[q]) = Len(chain[q])
              /\ \A i \in 1..Len(chain[q]) : Lists[q][i] = data[chain[q][i]]
<1>1. ASSUME NEW q \in Queue
      PROVE  /\ Lists[q] \in Seq(Resting)
             /\ Len(Lists[q]) = Len(chain[q])
             /\ \A i \in 1..Len(chain[q]) : Lists[q][i] = data[chain[q][i]]
  <2>1. Len(chain[q]) \in Nat
    BY LengthOfChain
  <2>2. \A i \in 1..Len(chain[q]) : data[chain[q][i]] \in Resting
    BY NodeOfChain
  <2>3. Lists[q] = [i \in 1..Len(chain[q]) |-> data[chain[q][i]]]
    BY DEF Lists, Held
  <2> QED
    BY <2>1, <2>2, <2>3, AlongSequence
<1> QED
  BY <1>1 DEF Lists, Book

\* When the new entries of the lists are those of a book, the lists hold it.
LEMMA ListsBecome ==
  ASSUME NEW b \in Book,
         \A q \in Queue :
           /\ Len(b[q]) = Len(chain'[q])
           /\ \A i \in 1..Len(chain'[q]) : data'[chain'[q][i]] = b[q][i]
  PROVE  Lists' = b
<1>1. ASSUME NEW q \in Queue
      PROVE  Lists'[q] = b[q]
  <2>1. b[q] \in Seq(Resting)
    BY DEF Book
  <2>2. Len(chain'[q]) \in Nat
    BY <2>1, LenProperties
  <2>3. \A i \in 1..Len(chain'[q]) : b[q][i] \in Resting
    BY <2>1, ElementOfSeq
  <2>4. \A i \in 1..Len(chain'[q]) : data'[chain'[q][i]] \in Resting
    BY <2>3
  <2>5. Lists'[q] = [i \in 1..Len(chain'[q]) |-> data'[chain'[q][i]]]
    BY DEF Lists, Held
  <2>6. /\ Lists'[q] \in Seq(Resting)
        /\ Len(Lists'[q]) = Len(chain'[q])
        /\ \A i \in 1..Len(chain'[q]) : Lists'[q][i] = data'[chain'[q][i]]
    BY <2>2, <2>4, <2>5, AlongSequence
  <2>7. Len(Lists'[q]) = Len(b[q]) /\ \A i \in 1..Len(Lists'[q]) : Lists'[q][i] = b[q][i]
    BY <2>6
  <2> QED
    BY <2>1, <2>6, <2>7, SeqEqual
<1>2. Lists' = [q \in Queue |-> Lists'[q]] /\ b = [q \in Queue |-> b[q]]
  BY DEF Lists, Book
<1> QED
  BY <1>1, <1>2

\* Every order that may rest is what a request becomes that is handled.
LEMMA RequestOf ==
  ASSUME NEW o \in Resting
  PROVE  \E r \in Request : Normalize(Numbered(r, o.oid)) = o
<1> DEFINE r == [cid |-> o.cid, symbol |-> o.symbol, operation |-> o.operation,
                 price |-> o.price, quantity |-> o.quantity]
<1>1. r \in Request
  BY DEF Resting, Order, Request
<1>2. Numbered(r, o.oid) = o
  BY DEF Numbered, Resting, Order
<1>3. Normalize(o) = o
  BY NormalizeOrder DEF Resting
<1> HIDE DEF r
<1> QED
  BY <1>1, <1>2, <1>3

\* Handling the order in hand takes the abstract specification one step on,
\* if it leaves behind the book and the trades that OrderBook says.
LEMMA CallReturns ==
  ASSUME IInv, pc = "scan", pc' = "receive", order_number' = order_number,
         NEW o, o = data[order], Lists' = Rest(Lists, o),
         trades' = IF IsMatched(Lists, o) THEN Append(trades, Trade(Lists, o))
                   ELSE trades
  PROVE  OB!Next
<1>1. o \in Resting /\ o.oid = order_number
  BY DEF IInv, InHand
<1>2. PICK r \in Request : Normalize(Numbered(r, order_number)) = o
  BY <1>1, RequestOf
<1>3. order_number \in 1..MaxOrders /\ order_number > order_number - 1
  <2>1. order_number \in 0..MaxOrders /\ MaxOrders \in Nat
    BY MaxOrdersAssumption DEF IInv, ChainTypeOK, TypeOK
  <2>2. order_number # 0
    BY DEF IInv, InHand
  <2> QED
    BY <2>1, <2>2
<1> QED
  BY <1>2, <1>3, SameOperators DEF OB!Next, OB!MatchTrade, Lists

\* A trade: the scan stopped where OrderBook's does.
LEMMA HitImplements == IInv /\ HScanHit => OB!Next
<1> SUFFICES ASSUME IInv, HScanHit
             PROVE  OB!Next
  OBVIOUS
<1> DEFINE o == data[order]
           q == Opposite(o)
           i == Place(q, cursor)
<1>1. /\ pc = "scan" /\ pc' = "receive" /\ cursor # NULL
      /\ order_number' = order_number
      /\ trades' = Append(trades, Traded)
      /\ Compatible(o, data[cursor])
  BY DEF HScanHit, ScanHit
<1>2. /\ q \in Queue
      /\ i \in 1..Len(chain[q]) /\ chain[q][i] = cursor
      /\ \A j \in 1..(i - 1) : ~Compatible(o, data[chain[q][j]])
  BY <1>1, CursorPlace
<1>3. o \in Resting /\ o.operation \in Side
  BY <1>1, QueuesOfOrder DEF IInv, InHand
<1>4. /\ Lists \in Book
      /\ Len(Lists[q]) = Len(chain[q]) /\ Len(chain[q]) \in Nat
      /\ \A k \in 1..Len(chain[q]) : Lists[q][k] = data[chain[q][k]]
  BY <1>2, ListsEntries, LengthOfChain
<1> HIDE DEF i
<1>5. i \in Hits(o, Lists[q]) /\ \A j \in 1..(i - 1) : ~Compatible(o, Lists[q][j])
  <2>1. i \in Hits(o, Lists[q])
    BY <1>1, <1>2, <1>4 DEF Hits
  <2>2. \A j \in 1..(i - 1) : j \in 1..Len(chain[q])
    BY <1>2, <1>4
  <2> QED
    BY <1>2, <1>4, <2>1, <2>2
<1>6. IsMatched(Lists, o)
  BY <1>3, <1>5 DEF IsMatched
<1>7. FirstHit(o, Lists[q]) = i
  <2> DEFINE f == FirstHit(o, Lists[q])
  <2>1. /\ f \in 1..Len(Lists[q]) /\ Compatible(o, Lists[q][f])
        /\ \A j \in 1..(f - 1) : ~Compatible(o, Lists[q][j])
    <3>1. Lists[q] \in Seq(Resting)
      BY <1>2, <1>4 DEF Book
    <3>2. Hits(o, Lists[q]) # {}
      BY <1>5
    <3> QED
      BY <3>1, <3>2, FirstHitIsFirst
  <2>2. Compatible(o, Lists[q][i]) /\ i \in 1..Len(Lists[q])
    BY <1>5 DEF Hits
  <2> HIDE DEF f, q, o
  <2>3. f \notin 1..(i - 1) /\ i \notin 1..(f - 1)
    BY <1>5, <2>1, <2>2
  <2> QED
    BY <1>4, <2>1, <2>2, <2>3 DEF f
<1>8. /\ Trade(Lists, o) = <<o, Adjusted(o, Lists[q][i])>>
      /\ Rest(Lists, o) \in Book
      /\ \A p \in Queue : p # q => Rest(Lists, o)[p] = Lists[p]
      /\ Len(Rest(Lists, o)[q]) = Len(Lists[q]) - i
      /\ \A k \in 1..(Len(Lists[q]) - i) : Rest(Lists, o)[q][k] = Lists[q][i + k]
  <2> HIDE DEF o
  <2> QED
    BY <1>3, <1>4, <1>6, <1>7, RestOnTrade
<1>9. trades' = Append(trades, Trade(Lists, o))
  BY <1>1, <1>2, <1>4, <1>8 DEF Traded
<1>10. Lists' = Rest(Lists, o)
  <2>1. ASSUME NEW p \in Queue
        PROVE  /\ Len(Rest(Lists, o)[p]) = Len(chain'[p])
               /\ \A k \in 1..Len(chain'[p]) :
                    data'[chain'[p][k]] = Rest(Lists, o)[p][k]
    <3> DEFINE d == IF p = q THEN i ELSE 0
    <3>1. /\ d \in 0..Len(chain[p])
          /\ Len(chain'[p]) = Len(chain[p]) - d
          /\ \A k \in 1..Len(chain'[p]) :
               /\ k + d \in 1..Len(chain[p])
               /\ chain'[p][k] = chain[p][k + d]
               /\ data'[chain'[p][k]] = data[chain'[p][k]]
      BY ChainAfterHit DEF i
    <3>2. /\ Len(Lists[p]) = Len(chain[p]) /\ Len(chain[p]) \in Nat
          /\ \A k \in 1..Len(chain[p]) : Lists[p][k] = data[chain[p][k]]
      BY ListsEntries, LengthOfChain
    <3>3. p = q => d = i
      OBVIOUS
    <3>4. p # q => d = 0
      OBVIOUS
    <3> HIDE DEF d, q, o
    <3>5. CASE p = q
      <4>1. Len(Rest(Lists, o)[p]) = Len(chain'[p])
        BY <1>8, <3>1, <3>2, <3>3, <3>5
      <4>2. ASSUME NEW k \in 1..Len(chain'[p])
            PROVE  data'[chain'[p][k]] = Rest(Lists, o)[p][k]
        <5>1. k \in 1..(Len(Lists[q]) - i) /\ i + k = k + d
          BY <1>2, <3>1, <3>2, <3>3, <3>5
        <5>2. Rest(Lists, o)[p][k] = Lists[p][k + d]
          BY <1>8, <3>5, <5>1
        <5>3. k + d \in 1..Len(chain[p]) /\ chain'[p][k] = chain[p][k + d]
          BY <3>1
        <5>4. data'[chain'[p][k]] = data[chain[p][k + d]]
          BY <3>1, <5>3
        <5> QED
          BY <3>2, <5>2, <5>3, <5>4
      <4> QED
        BY <4>1, <4>2
    <3>6. CASE p # q
      <4>1. /\ Len(chain'[p]) = Len(chain[p])
            /\ \A k \in 1..Len(chain'[p]) : k + d = k
        BY <3>1, <3>2, <3>4, <3>6
      <4>2. Rest(Lists, o)[p] = Lists[p]
        BY <1>8, <3>6
      <4>3. \A k \in 1..Len(chain'[p]) : data'[chain'[p][k]] = data[chain[p][k]]
        BY <3>1, <4>1
      <4> QED
        BY <3>2, <4>1, <4>2, <4>3
    <3> QED
      BY <3>5, <3>6
  <2> HIDE DEF o
  <2> QED
    BY <1>8, <2>1, ListsBecome
<1> HIDE DEF o
<1> QED
  BY <1>1, <1>6, <1>9, <1>10, CallReturns DEF o

\* An order comes to rest: the scan came to the end of the queue, and so does
\* OrderBook's.
LEMMA EnqueueImplements == IInv /\ HEnqueue => OB!Next
<1> SUFFICES ASSUME IInv, HEnqueue
             PROVE  OB!Next
  OBVIOUS
<1> DEFINE o == data[order]
           q == Own(o)
           away == Opposite(o)
<1>1. /\ pc = "scan" /\ pc' = "receive" /\ cursor = NULL
      /\ order_number' = order_number /\ trades' = trades /\ data' = data
  BY DEF HEnqueue, Enqueue
<1>2. o \in Resting /\ away \in Queue /\ q \in Queue
  BY <1>1, QueuesOfOrder DEF IInv, InHand
<1>3. /\ Lists \in Book
      /\ \A p \in Queue :
           /\ Len(Lists[p]) = Len(chain[p]) /\ Len(chain[p]) \in Nat
           /\ \A k \in 1..Len(chain[p]) : Lists[p][k] = data[chain[p][k]]
  BY ListsEntries, LengthOfChain
<1>4. ~IsMatched(Lists, o)
  <2>1. PICK i \in 1..(Len(chain[away]) + 1) :
          /\ cursor = IF i = Len(chain[away]) + 1 THEN NULL ELSE chain[away][i]
          /\ \A j \in 1..(i - 1) : ~Compatible(o, data[chain[away][j]])
    BY <1>1 DEF IInv, ScanSound
  <2>2. Len(chain[away]) \in Nat
    BY <1>2, <1>3
  <2>3. i = Len(chain[away]) + 1
    <3>1. i \in 1..Len(chain[away]) => chain[away][i] # NULL
      BY <1>2, NodeOfChain
    <3> HIDE DEF away
    <3> QED
      BY <1>1, <2>1, <2>2, <3>1
  <2>4. \A j \in 1..Len(chain[away]) : ~Compatible(o, data[chain[away][j]])
    <3> HIDE DEF away, o
    <3> QED
      BY <2>1, <2>2, <2>3
  <2>5. Hits(o, Lists[away]) = {}
    <3> HIDE DEF away, o
    <3> QED
      BY <1>2, <1>3, <2>4 DEF Hits
  <2> QED
    BY <2>5 DEF IsMatched
<1>5. /\ \A p \in Queue : p # q => chain'[p] = chain[p]
      /\ Len(chain'[q]) = Len(chain[q]) + 1
      /\ \A k \in 1..Len(chain[q]) : chain'[q][k] = chain[q][k]
      /\ chain'[q][Len(chain[q]) + 1] = order
  BY EnqueueEffect
<1>6. /\ Rest(Lists, o) \in Book
      /\ \A p \in Queue : p # q => Rest(Lists, o)[p] = Lists[p]
      /\ Len(Rest(Lists, o)[q]) = Len(Lists[q]) + 1
      /\ \A k \in 1..Len(Lists[q]) : Rest(Lists, o)[q][k] = Lists[q][k]
      /\ Rest(Lists, o)[q][Len(Lists[q]) + 1] = o
  <2> HIDE DEF o
  <2> QED
    BY <1>2, <1>3, <1>4, RestOnEnqueue
<1>7. Lists' = Rest(Lists, o)
  <2>1. ASSUME NEW p \in Queue
        PROVE  /\ Len(Rest(Lists, o)[p]) = Len(chain'[p])
               /\ \A k \in 1..Len(chain'[p]) :
                    data'[chain'[p][k]] = Rest(Lists, o)[p][k]
    <3>1. CASE p # q
      BY <1>1, <1>3, <1>5, <1>6, <3>1
    <3>2. CASE p = q
      <4>1. Len(Rest(Lists, o)[p]) = Len(chain'[p])
        BY <1>3, <1>5, <1>6, <3>2
      <4>2. ASSUME NEW k \in 1..Len(chain'[p])
            PROVE  data'[chain'[p][k]] = Rest(Lists, o)[p][k]
        <5>1. CASE k \in 1..Len(chain[q])
          <6>1. chain'[p][k] = chain[q][k]
            BY <1>5, <3>2, <5>1
          <6>2. k \in 1..Len(Lists[q]) /\ Lists[q][k] = data[chain[q][k]]
            BY <1>2, <1>3, <5>1
          <6>3. Rest(Lists, o)[p][k] = Lists[q][k]
            BY <1>6, <3>2, <6>2
          <6> QED
            BY <1>1, <6>1, <6>2, <6>3
        <5>2. CASE k = Len(chain[q]) + 1
          BY <1>1, <1>2, <1>3, <1>5, <1>6, <3>2, <5>2
        <5>3. k \in 1..Len(chain[q]) \/ k = Len(chain[q]) + 1
          <6>1. Len(chain[q]) \in Nat /\ k \in 1..(Len(chain[q]) + 1)
            BY <1>2, <1>3, <1>5, <3>2
          <6> HIDE DEF q
          <6> QED
            BY <6>1
        <5> QED
          BY <5>1, <5>2, <5>3
      <4> QED
        BY <4>1, <4>2
    <3> QED
      BY <3>1, <3>2
  <2> HIDE DEF o
  <2> QED
    BY <1>6, <2>1, ListsBecome
<1> HIDE DEF o
<1> QED
  BY <1>1, <1>4, <1>7, CallReturns DEF o

\* The arrival of an order is not yet its handling; the arrival of a
\* cancellation is all of it.
LEMMA ReceiveImplements ==
  ASSUME IInv, NEW n \in Node, NEW r \in Request, HReceive(n, r)
  PROVE  OB!Next \/ UNCHANGED OB!vars
<1> DEFINE o == Normalize(Numbered(r, order_number + 1))
<1>1. /\ n \notin alloc /\ chain' = chain /\ trades' = trades /\ pc = "receive"
      /\ order_number \in Nat /\ order_number + 1 \in 1..MaxOrders
      /\ order_number' = order_number + 1
      /\ data' = Allocated(n, o)
  BY MaxOrdersAssumption
  DEF HReceive, Receive, ReceiveCancel, IInv, ChainTypeOK, TypeOK
<1> HIDE DEF o
<1>2. Lists' = Lists
  <2>1. /\ Lists \in Book
        /\ \A q \in Queue :
             /\ Len(Lists[q]) = Len(chain[q])
             /\ \A i \in 1..Len(chain[q]) : Lists[q][i] = data[chain[q][i]]
    BY ListsEntries
  <2>2. \A m \in alloc : data'[m] = data[m]
    BY <1>1 DEF Allocated
  <2>3. \A q \in Queue : \A i \in 1..Len(chain[q]) : chain[q][i] \in alloc
    BY DEF IInv, NoSharing
  <2>4. \A q \in Queue :
          /\ Len(Lists[q]) = Len(chain'[q])
          /\ \A i \in 1..Len(chain'[q]) : data'[chain'[q][i]] = Lists[q][i]
    BY <1>1, <2>1, <2>2, <2>3
  <2> QED
    BY <2>1, <2>4, ListsBecome
<1>3. CASE Receive(n, r)
  <2>1. pc' = "scan" /\ order_number' - 1 = order_number
    BY <1>1, <1>3 DEF Receive
  <2> QED
    BY <1>1, <1>2, <2>1 DEF OB!vars, Lists
<1>4. CASE ReceiveCancel(n, r)
  <2>1. pc' = "receive" /\ r.operation = CANCEL
    BY <1>1, <1>4 DEF ReceiveCancel
  <2>2. o.operation \notin Side
    BY <1>1, <2>1, NormalizeType DEF o, Side, CANCEL, BUY, SELL
  <2>3. Rest(Lists, o) = Lists /\ ~IsMatched(Lists, o)
    BY <2>2, RestOnCancel
  <2>4. order_number + 1 > order_number
    BY <1>1
  <2> QED
    BY <1>1, <1>2, <2>1, <2>3, <2>4, SameOperators
    DEF OB!Next, OB!MatchTrade, Lists, o
<1> QED
  BY <1>3, <1>4 DEF HReceive

\* The engine implements the order book: each call of match_trade on the
\* linked lists does to the queues, and trades, what OrderBook says of its
\* order.
THEOREM BookImplemented == HSpec => ImplementsOrderBook
<1>1. HInit => OB!Init
  <2> SUFFICES ASSUME HInit
               PROVE  OB!Init
    OBVIOUS
  <2>1. order_number = 0 /\ pc = "receive" /\ trades = << >>
    BY DEF HInit, Init
  <2>2. IInv /\ \A q \in Queue : Len(chain[q]) = 0
    BY InitIInv, EmptySeq DEF HInit
  <2>3. \A q \in Queue : Lists[q] = << >>
    <3> TAKE q \in Queue
    <3>1. Len(Lists[q]) = 0 /\ Lists[q] \in Seq(Resting)
      BY <2>2, ListsEntries DEF Book
    <3> QED
      BY <3>1, EmptySeq
  <2>4. Lists = EmptyBook
    BY <2>3 DEF Lists, EmptyBook
  <2> QED
    BY <2>1, <2>4, SameOperators DEF OB!Init, Lists
<1>2. IInv /\ [HNext]_hvars => [OB!Next]_OB!vars
  <2> SUFFICES ASSUME IInv, [HNext]_hvars
               PROVE  OB!Next \/ UNCHANGED OB!vars
    OBVIOUS
  <2>1. ASSUME NEW n \in Node, NEW r \in Request, HReceive(n, r)
        PROVE  OB!Next \/ UNCHANGED OB!vars
    BY <2>1, ReceiveImplements
  <2>2. CASE HScanNext \/ UNCHANGED hvars
    <3>1. /\ data' = data /\ pc' = pc /\ chain' = chain
          /\ order_number' = order_number /\ trades' = trades
      BY <2>2 DEF HScanNext, ScanNext, hvars, vars, heap
    <3> QED
      BY <3>1 DEF OB!vars, Held
  <2>3. CASE HScanHit
    BY <2>3, HitImplements
  <2>4. CASE HEnqueue
    BY <2>4, EnqueueImplements
  <2> QED
    BY <2>1, <2>2, <2>3, <2>4 DEF HNext
<1>3. HSpec => OB!Spec
  BY <1>1, <1>2, Inductive, PTL DEF HSpec, OB!Spec
<1> QED
  BY <1>3 DEF ImplementsOrderBook
==============================================================================
