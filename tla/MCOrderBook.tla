----------------------------- MODULE MCOrderBook -----------------------------
(***************************************************************************)
(* OrderBook for TLC: one symbol in two spellings, two prices, two         *)
(* quantities, so that an order can be passed over for its price, for its  *)
(* quantity, or for both.                                                  *)
(***************************************************************************)
EXTENDS OrderBook

CONSTANTS c1, lower, upper

MCCid      == {c1}
MCSpelling == {lower, upper}
MCtoupper  == [s \in MCSpelling |-> upper]
MCPrice    == {1, 2}
MCQuantity == {1, 2}
==============================================================================
