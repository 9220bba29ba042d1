----------------------------- MODULE KeyValueMap -----------------------------
(***************************************************************************)
(* What a map from keys to values promises: a put is seen by every later   *)
(* lookup of its key until the key is put again or removed, and by the     *)
(* lookups of no other key.  A put may fail for want of memory, says so,   *)
(* and then changes nothing; a put of a key that is there never fails.     *)
(***************************************************************************)
CONSTANTS Keys, Values,
  NoValue,   \* a removal has no value
  NoCall     \* no call has been made

VARIABLES
  table,     \* a partial function from keys to values
  call       \* the last call, what it was given and what it returned

kvars == <<table, call>>

Called(op, k, v, ret) == [op |-> op, key |-> k, value |-> v, ret |-> ret]

Init ==
  /\ table = [k \in {} |-> NoValue]
  /\ call = NoCall

Put(k, v) ==
  /\ table' = [x \in DOMAIN table \cup {k} |-> IF x = k THEN v ELSE table[x]]
  /\ call' = Called("put", k, v, TRUE)

PutFails(k, v) ==
  /\ k \notin DOMAIN table
  /\ UNCHANGED table
  /\ call' = Called("put", k, v, FALSE)

Remove(k) ==
  /\ table' = [x \in DOMAIN table \ {k} |-> table[x]]
  /\ call' = Called("remove", k, NoValue, k \in DOMAIN table)

Next ==
  \E k \in Keys :
    \/ Remove(k)
    \/ \E v \in Values : Put(k, v) \/ PutFails(k, v)

Spec == Init /\ [][Next]_kvars
=============================================================================
