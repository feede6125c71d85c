---------------------------- MODULE MCOrderServer ----------------------------
(***************************************************************************)
(* OrderServer for TLC: one customer, one symbol, two prices; four orders, *)
(* one stop of the process and one Redis error, which is what it takes for *)
(* a trade to be made while the active orders are replayed: an order must  *)
(* drop out of the book by a trade behind it, and one that it could have   *)
(* traded with must rest after that.                                       *)
(***************************************************************************)
EXTENDS OrderServer

CONSTANTS c1, upper, ip1

MCCid      == {c1}
MCSpelling == {upper}
MCtoupper  == [s \in MCSpelling |-> upper]
MCPrice    == {1, 2}
MCQuantity == {1}
MCIp       == {ip1}
==============================================================================
