-------------------------------- MODULE MCFeed --------------------------------
(***************************************************************************)
(* Feed for TLC.  Two orders, of two customers, so that the quotes of one  *)
(* tape are gone on the next by a trade or joined by another, garbled by   *)
(* an error or half stored (MCFeed.cfg); one number that is handed out     *)
(* again, so that its quote changes, an own order of that number that      *)
(* client_s stores, a stop of either process and two messages that can     *)
(* overtake each other (MCFeedFollow.cfg).                                 *)
(***************************************************************************)
EXTENDS Feed

CONSTANTS c1, c2, lower, upper

MCCid      == {c1, c2}
MCSpelling == {lower, upper}
MCtoupper  == [s \in MCSpelling |-> upper]
MCPrice    == {1}
MCQuantity == {1}
MCOrder(oid, cid, side) ==
  Normalize(Numbered([cid |-> cid, operation |-> side, symbol |-> upper,
                      price |-> 1, quantity |-> 1], oid))
MCAccept      == {MCOrder(1, c1, BUY), MCOrder(2, c2, SELL)}
MCAcceptAgain == {MCOrder(1, c1, BUY), MCOrder(1, c2, SELL)}
MCType        == {[MCOrder(1, c1, BUY) EXCEPT !.symbol = lower]}
MCTime        == 1..4
===============================================================================
