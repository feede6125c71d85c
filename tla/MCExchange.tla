------------------------------ MODULE MCExchange ------------------------------
(***************************************************************************)
(* Exchange for TLC: two customers at two hosts, one of them unreliable,   *)
(* one symbol, one price and one quantity, so that any buy trades with any *)
(* sell.                                                                   *)
(***************************************************************************)
EXTENDS Exchange

CONSTANTS c1, c2, upper, ip1, ip2

MCCid        == {c1, c2}
MCSpelling   == {upper}
MCtoupper    == [s \in MCSpelling |-> upper]
MCPrice      == {1}
MCQuantity   == {1}
MCIp         == {ip1, ip2}
MCaddress    == [c \in MCCid |-> IF c = c1 THEN ip1 ELSE ip2]
MCUnreliable == {ip2}
===============================================================================
