---------------------------- MODULE MCTradingTrie ----------------------------
(***************************************************************************)
(* TradingTrie, with its chains, for TLC: three nodes for five orders, so  *)
(* that a node freed by a trade is handed out again while the queues are   *)
(* in use; two prices and two quantities.                                  *)
(***************************************************************************)
EXTENDS TradingTrieRefinement

CONSTANTS c1, lower, upper

MCCid      == {c1}
MCSpelling == {lower, upper}
MCtoupper  == [s \in MCSpelling |-> upper]
MCPrice    == {1, 2}
MCQuantity == {1, 2}
==============================================================================
