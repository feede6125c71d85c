------------------------------ MODULE MCCustomer ------------------------------
(***************************************************************************)
(* Customer for TLC: two runs of client_s, two numbers, so that they have  *)
(* a number each, share one, or share one with the other customer.  Of an  *)
(* int that ends at 1 and a long that ends at 3, one amount fits in and    *)
(* the other does not.                                                     *)
(***************************************************************************)
EXTENDS Customer

CONSTANTS s1, s2

MCSender == {s1, s2}
MCMayGet ==
  [s \in MCSender \cup {Other} |->
     IF s = s1 THEN {1} ELSE IF s = s2 THEN {1, 2} ELSE {2}]
MCamount == [s \in MCSender |-> IF s = s1 THEN 1 ELSE 3]
===============================================================================
