------------------------------ MODULE RedisStore ------------------------------
(***************************************************************************)
(* The Redis hashes that the processes of the exchange share, as the code  *)
(* in exchange/ uses them: HSET, HDEL, HKEYS and HVALS, each one command   *)
(* and therefore atomic.  Redis itself is not part of the repository.      *)
(*                                                                         *)
(* A hash of which only the fields matter (active_orders, executed_orders) *)
(* is the sequence of its fields.  A small hash is kept as a listpack and  *)
(* HKEYS answers in the order of insertion.  Once it has grown beyond      *)
(* hash-max-listpack-entries it is a hash table, until it is deleted with  *)
(* its last field, and HKEYS answers in any order.                         *)
(***************************************************************************)
EXTENDS Naturals, Sequences

CONSTANT ListpackMax   \* hash-max-listpack-entries

ASSUME ListpackAssumption == ListpackMax \in Nat

EmptyHash == [keys |-> << >>, hashtable |-> FALSE]

Fields(h) == {h.keys[i] : i \in 1..Len(h.keys)}

HSet(h, f) ==
  IF f \in Fields(h) THEN h
  ELSE [keys |-> Append(h.keys, f),
        hashtable |-> h.hashtable \/ Len(h.keys) >= ListpackMax]

HDel(h, f) ==
  IF f \notin Fields(h) THEN h
  ELSE LET i == CHOOSE i \in 1..Len(h.keys) : h.keys[i] = f
           rest == SubSeq(h.keys, 1, i - 1) \o SubSeq(h.keys, i + 1, Len(h.keys))
       IN [keys |-> rest, hashtable |-> h.hashtable /\ rest # << >>]

\* The answers HKEYS may give.
HKeys(h) ==
  IF h.hashtable
    THEN {s \in [1..Len(h.keys) -> Fields(h)] :
            \A i, j \in 1..Len(h.keys) : s[i] = s[j] => i = j}
    ELSE {h.keys}

Hash(F) == [keys : Seq(F), hashtable : BOOLEAN]

\* HDEL deletes a field once: that it is gone then rests on this.
FieldsOnce(h) ==
  \A i, j \in 1..Len(h.keys) : h.keys[i] = h.keys[j] => i = j

\* A hash that is read by field (order:<oid>, c2ip) is a partial function.
EmptyMap == [f \in {} |-> 0]
Put(m, f, v) == [g \in DOMAIN m \cup {f} |-> IF g = f THEN v ELSE m[g]]
===============================================================================
