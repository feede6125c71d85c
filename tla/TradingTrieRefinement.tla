------------------------ MODULE TradingTrieRefinement ------------------------
(***************************************************************************)
(* TradingTrie implements OrderBook.  The book of the abstract             *)
(* specification is read off the linked lists with an auxiliary variable,  *)
(* chain, which holds for every queue the nodes from its head to its tail  *)
(* and is changed by the steps that change a queue.  It influences no      *)
(* step; what makes it the content of the lists is the invariant Linked.   *)
(***************************************************************************)
EXTENDS TradingTrie

VARIABLE chain   \* [Queue -> Seq(Node)]

hvars == <<vars, chain>>

\* The place of a node in the chain of q.
Place(q, n) == CHOOSE i \in 1..Len(chain[q]) : chain[q][i] = n

HInit == Init /\ chain = [q \in Queue |-> << >>]

HReceive(n, r) ==
  (Receive(n, r) \/ ReceiveCancel(n, r)) /\ UNCHANGED chain

HScanNext == ScanNext /\ UNCHANGED chain

HScanHit ==
  LET q == Opposite(data[order]) IN
  /\ ScanHit
  /\ chain' = [chain EXCEPT ![q] = SubSeq(@, Place(q, cursor) + 1, Len(@))]

HEnqueue ==
  LET q == Own(data[order]) IN
  /\ Enqueue
  /\ chain' = [chain EXCEPT ![q] = Append(@, order)]

HNext ==
  \/ \E n \in Node, r \in Request : HReceive(n, r)
  \/ HScanNext
  \/ HScanHit
  \/ HEnqueue

HSpec == HInit /\ [][HNext]_hvars /\ WF_hvars(HScanNext \/ HScanHit \/ HEnqueue)
-------------------------------------------------------------------------------
ChainTypeOK == TypeOK /\ chain \in [Queue -> Seq(Node)]

\* The lists are well formed: from the head, the next pointers visit the
\* nodes of the chain in order and end with NULL at the tail.
Linked ==
  \A q \in Queue :
    LET s == chain[q] IN
    /\ head[q] = IF s = << >> THEN NULL ELSE s[1]
    /\ tail[q] = IF s = << >> THEN NULL ELSE s[Len(s)]
    /\ \A i \in 1..Len(s) :
         next[s[i]] = IF i = Len(s) THEN NULL ELSE s[i + 1]

\* No queue holds a freed node, or a node twice, or a node of another queue:
\* free_order_list never frees what a list still reaches.
NoSharing ==
  /\ \A q \in Queue : \A i \in 1..Len(chain[q]) : chain[q][i] \in alloc
  /\ \A p, q \in Queue : \A i \in 1..Len(chain[p]), j \in 1..Len(chain[q]) :
       chain[p][i] = chain[q][j] => p = q /\ i = j

\* The cursor stands in the opposite queue and every order before it was
\* looked at and is not compatible with the new one.
ScanSound ==
  pc = "scan" =>
    LET s == chain[Opposite(data[order])] IN
    \E i \in 1..(Len(s) + 1) :
      /\ cursor = IF i = Len(s) + 1 THEN NULL ELSE s[i]
      /\ \A j \in 1..(i - 1) : ~Compatible(data[order], data[s[j]])

-------------------------------------------------------------------------------
(* What makes these invariants inductive.                                  *)

\* Between two calls no node is held; during one, the node of the new order
\* is allocated, holds the order that was numbered last, and is in no queue.
InHand ==
  /\ pc = "receive" => order = NULL /\ cursor = NULL
  /\ pc = "scan" =>
       /\ order \in alloc
       /\ data[order] \in Resting
       /\ data[order].oid = order_number /\ order_number > 0
       /\ next[order] = NULL /\ previous[order] = NULL
       /\ \A q \in Queue : \A i \in 1..Len(chain[q]) : chain[q][i] # order

\* A queue holds orders that may rest.  None of its nodes has a previous one:
\* appending does not set it, and the scan unlinks with all that is ahead.
ChainSound ==
  \A q \in Queue : \A i \in 1..Len(chain[q]) :
    data[chain[q][i]] \in Resting /\ previous[chain[q][i]] = NULL

IInv ==
  /\ ChainTypeOK
  /\ Linked
  /\ NoSharing
  /\ ScanSound
  /\ InHand
  /\ ChainSound
-------------------------------------------------------------------------------
\* The orders of the nodes of a chain.
Held(s) == [i \in 1..Len(s) |-> data[s[i]]]

\* A call of match_trade that has not returned has not happened yet.
OB == INSTANCE OrderBook WITH
        order_number <- IF pc = "scan" THEN order_number - 1 ELSE order_number,
        book <- [q \in Queue |-> Held(chain[q])]

\* The pointer-level engine implements the order book: every step of it is
\* the handling of one order as OrderBook has it, or changes nothing there.
ImplementsOrderBook == OB!Spec

\* "Remove from the sell list" (matching_engine.c:119), of queues the README
\* calls "double linked": a node leaves its queue only by being matched.
OnlyTheMatchedLeaves ==
  [][\A q \in Queue : InQueue(chain[q]) \ InQueue(chain'[q]) \subseteq {cursor}]_hvars
===============================================================================
