----------------------------- MODULE AbstractMap -----------------------------
(***************************************************************************)
(* What the concurrent map promises its callers (spec section 4.1): a     *)
(* u64-keyed, pointer-valued dictionary whose operations are atomic.      *)
(*   insert(k, d) fails iff d is NULL or k is already present;            *)
(*   get(k) returns the data stored under k, or NULL;                     *)
(*   delete(k) fails iff k is absent, and removes only k.                 *)
(* `last` records the operation a step performed and what it returned, so *)
(* that an implementation is held to the results, not only to the         *)
(* contents.                                                              *)
(***************************************************************************)
CONSTANTS Keys, Data, Null

VARIABLES map, last

vars == <<map, last>>

NoOp == [op |-> "none", key |-> Null, data |-> Null, ret |-> Null]

Init ==
    /\ map = [k \in Keys |-> Null]
    /\ last = NoOp

Insert(k, d) ==
    LET ok == d # Null /\ map[k] = Null IN
    /\ map' = IF ok THEN [map EXCEPT ![k] = d] ELSE map
    /\ last' = [op |-> "insert", key |-> k, data |-> d, ret |-> ok]

Get(k) ==
    /\ last' = [op |-> "get", key |-> k, data |-> Null, ret |-> map[k]]
    /\ UNCHANGED map

Delete(k) ==
    LET ok == map[k] # Null IN
    /\ map' = [map EXCEPT ![k] = Null]
    /\ last' = [op |-> "delete", key |-> k, data |-> Null, ret |-> ok]

Next ==
    \E k \in Keys :
        \/ \E d \in Data \cup {Null} : Insert(k, d)
        \/ Get(k)
        \/ Delete(k)

Spec == Init /\ [][Next]_vars
=============================================================================
