------------------------------ MODULE HashTable ------------------------------
(***************************************************************************)
(* The generic hash table of src/server/src/server_ht.c (server_ght_t),    *)
(* the substrate of the event, client, user, session and upload-token     *)
(* tables.  Every public operation runs with ht->mutex held, so each one  *)
(* is a single atomic step here.                                          *)
(*                                                                        *)
(* ht.table[i] is the chain reachable from the in-array bucket of slot i, *)
(* head first.  An empty in-array bucket is all zero (calloc or memset),  *)
(* so its key reads as 0: HeadKey models that.  Buckets that a deletion   *)
(* unlinks but does not free are not reachable and are not in the chain;  *)
(* ht.count still counts them, as the code does.                          *)
(* Data pointers are model values; Null is the NULL pointer.              *)
(***************************************************************************)
EXTENDS Integers, Sequences, SequencesExt

CONSTANTS
    Keys,       \* the u64 keys callers use
    Data,       \* non-NULL data pointers
    Null,       \* NULL
    InitSize,   \* initial_size given to server_ght_init (10 in server_init_ht)
    MaxSize,    \* bound on the table size explored
    SizeMax     \* stands for SIZE_MAX, the value of count-- from 0

ASSUME InitSize \in Nat \ {0} /\ Keys \subseteq Nat /\ Null \notin Data
ASSUME SizeMax * 10 > 7 * MaxSize

VARIABLES
    ht,     \* [table, size, count] of the server_ght_t
    last    \* the operation of the last step and its return value

vars == <<ht, last>>

Entry == [key : Keys, data : Data]

NoOp == [op |-> "none", key |-> Null, data |-> Null, ret |-> Null]

EmptyTable(sz) == [i \in 0..sz-1 |-> <<>>]

\* Fault variant: hashing with the initial size instead of the current one.
SlotMinSize(k, sz) == k % InitSize

\* ght_hash
Slot(k, sz) == k % sz

\* The key of a slot's in-array bucket: zero when the bucket is empty.
HeadKey(c) == IF c = <<>> THEN 0 ELSE c[1].key

\* ght_insert's two duplicate checks: the in-array bucket's key (even when
\* that bucket is empty), then every heap bucket after it.
Insertable(c, k) ==
    /\ HeadKey(c) # k
    /\ \A j \in 2..Len(c) : c[j].key # k

\* ght_insert: fill the empty in-array bucket or append a heap bucket, ght_inc.
GhtInsert(t, k, d) ==
    LET i == Slot(k, t.size) IN
    IF Insertable(t.table[i], k)
    THEN [t EXCEPT !.table[i] = Append(@, [key |-> k, data |-> d]),
                   !.count = @ + 1]
    ELSE t

\* ght_calc_load against GHT_MAX_LOAD / GHT_MIN_LOAD.  (f32)count/size is
\* compared with the doubles 0.7 and 0.2; 0.7f < 0.7 and 0.2f > 0.2, so at
\* the boundary the code agrees with the exact comparisons below.
OverLoaded(c, sz)  == 10 * c > 7 * sz
UnderLoaded(c, sz) == 10 * c < 2 * sz

\* Fault variant: the rehash loop moves only the in-array buckets.
ResizeHeadsOnly(t, newSize) ==
    LET ns == IF newSize < InitSize THEN InitSize ELSE newSize
        old == [i \in 1..t.size |-> t.table[i-1]]
        Rehash(acc, c) == IF c = <<>> THEN acc ELSE GhtInsert(acc, c[1].key, c[1].data)
    IN  IF ns = t.size
        THEN t
        ELSE FoldLeft(Rehash, [table |-> EmptyTable(ns), size |-> ns, count |-> 0], old)

\* Fault variant: the new array is realloc'ed from the old one instead of
\* calloc'ed, so the old chains stay in place under the rehashed entries.
ResizeRealloc(t, newSize) ==
    LET ns == IF newSize < InitSize THEN InitSize ELSE newSize
        old == FlattenSeq([i \in 1..t.size |-> t.table[i-1]])
        kept == [i \in 0..ns-1 |-> IF i < t.size THEN t.table[i] ELSE <<>>]
        Rehash(acc, e) == GhtInsert(acc, e.key, e.data)
    IN  IF ns = t.size
        THEN t
        ELSE FoldLeft(Rehash, [table |-> kept, size |-> ns, count |-> 0], old)

\* Fault variant: the fresh table keeps the old count, so every re-inserted
\* bucket is counted twice.
ResizeKeepCount(t, newSize) ==
    LET ns == IF newSize < InitSize THEN InitSize ELSE newSize
        old == FlattenSeq([i \in 1..t.size |-> t.table[i-1]])
        Rehash(acc, e) == GhtInsert(acc, e.key, e.data)
    IN  IF ns = t.size
        THEN t
        ELSE FoldLeft(Rehash, [table |-> EmptyTable(ns), size |-> ns, count |-> t.count], old)

\* ght_resize: clamp to min_size, give up if the size does not change, else
\* re-insert every bucket of every old chain, slot by slot, with ght_insert
\* into a fresh table whose count starts at 0 (ignore_resize is never set).
Resize(t, newSize) ==
    LET ns == IF newSize < InitSize THEN InitSize ELSE newSize
        old == FlattenSeq([i \in 1..t.size |-> t.table[i-1]])
        Rehash(acc, e) == GhtInsert(acc, e.key, e.data)
    IN  IF ns = t.size
        THEN t
        ELSE FoldLeft(Rehash, [table |-> EmptyTable(ns), size |-> ns, count |-> 0], old)

\* ght_check_load
CheckLoad(t) ==
    CASE OverLoaded(t.count, t.size)  -> Resize(t, t.size * 2)
      [] UnderLoaded(t.count, t.size) -> Resize(t, t.size \div 2)
      [] OTHER                        -> t

\* ght_dec: count is a size_t, so decrementing 0 wraps to SIZE_MAX.
Dec(c) == IF c = 0 THEN SizeMax ELSE c - 1

\* ght_del_bucket on bucket j of chain i, after server_ght_del has already
\* cleared prev->next when j > 1.  For the head the next bucket is copied
\* into the array (or the bucket zeroed); for a heap bucket its successor is
\* copied into it, but it is no longer linked from prev, so the chain ends
\* at j - 1.  Then ght_dec and ght_check_load.
DelBucket(t, i, j) ==
    LET c == t.table[i]
        rest == IF j = 1 THEN Tail(c) ELSE SubSeq(c, 1, j - 1)
    IN  CheckLoad([t EXCEPT !.table[i] = IF c = <<>> THEN <<>> ELSE rest,
                            !.count = Dec(@)])

Init ==
    /\ ht = [table |-> EmptyTable(InitSize), size |-> InitSize, count |-> 0]
    /\ last = NoOp

\* Fault variants of server_ght_insert: without the NULL-data check, and
\* without the ght_check_load after a successful insert.
InsertNullData(k, d) ==
    LET t == GhtInsert(ht, k, d)
        ok == t # ht
    IN  /\ ht' = IF ok THEN CheckLoad(t) ELSE ht
        /\ last' = [op |-> "insert", key |-> k, data |-> d, ret |-> ok]

InsertNoCheckLoad(k, d) ==
    LET t == GhtInsert(ht, k, d)
        ok == d # Null /\ t # ht
    IN  /\ ht' = IF ok THEN t ELSE ht
        /\ last' = [op |-> "insert", key |-> k, data |-> d, ret |-> ok]

\* server_ght_insert: reject NULL data, else ght_insert and, when it
\* succeeded, ght_check_load.
Insert(k, d) ==
    LET t == GhtInsert(ht, k, d)
        ok == d # Null /\ t # ht
    IN  /\ ht' = IF ok THEN CheckLoad(t) ELSE ht
        /\ last' = [op |-> "insert", key |-> k, data |-> d, ret |-> ok]

\* server_ght_get: NULL when the in-array bucket is empty, its data when its
\* key matches, else the first bucket down the chain with that key.
Get(k) ==
    LET c == ht.table[Slot(k, ht.size)]
        hits == {j \in 1..Len(c) : c[j].key = k}
        found == IF hits = {} THEN Null ELSE c[Min(hits)].data
    IN  /\ last' = [op |-> "get", key |-> k, data |-> Null, ret |-> found]
        /\ UNCHANGED ht

\* Fault variant: server_ght_del that never walks the chain.
DeleteHeadOnly(k) ==
    LET i == Slot(k, ht.size)
        c == ht.table[i]
    IN  \/ /\ HeadKey(c) = k
           /\ ht' = DelBucket(ht, i, 1)
           /\ last' = [op |-> "delete", key |-> k, data |-> Null, ret |-> TRUE]
        \/ /\ HeadKey(c) # k
           /\ last' = [op |-> "delete", key |-> k, data |-> Null, ret |-> FALSE]
           /\ UNCHANGED ht

\* server_ght_del: the in-array bucket is deleted whenever its key matches,
\* including the zeroed bucket of an empty slot when k = 0; otherwise the
\* first heap bucket with key k.
Delete(k) ==
    LET i == Slot(k, ht.size)
        c == ht.table[i]
        hits == {j \in 2..Len(c) : c[j].key = k}
    IN  \/ /\ HeadKey(c) = k
           /\ ht' = DelBucket(ht, i, 1)
           /\ last' = [op |-> "delete", key |-> k, data |-> Null, ret |-> TRUE]
        \/ /\ HeadKey(c) # k
           /\ hits # {}
           /\ ht' = DelBucket(ht, i, Min(hits))
           /\ last' = [op |-> "delete", key |-> k, data |-> Null, ret |-> TRUE]
        \/ /\ HeadKey(c) # k
           /\ hits = {}
           /\ last' = [op |-> "delete", key |-> k, data |-> Null, ret |-> FALSE]
           /\ UNCHANGED ht

Next ==
    /\ ht.size <= MaxSize
    /\ \E k \in Keys :
        \/ \E d \in Data \cup {Null} : Insert(k, d)
        \/ Get(k)
        \/ Delete(k)

Spec == Init /\ [][Next]_vars

-----------------------------------------------------------------------------
(* The entries a lookup can reach, and the map they stand for.            *)
Reachable == UNION {ToSet(ht.table[i]) : i \in DOMAIN ht.table}

Contents ==
    [k \in Keys |-> IF \E e \in Reachable : e.key = k
                    THEN (CHOOSE e \in Reachable : e.key = k).data
                    ELSE Null]

TypeOK ==
    /\ ht.size \in Nat \ {0}
    /\ ht.count \in Nat
    /\ DOMAIN ht.table = 0..ht.size-1
    /\ \A i \in DOMAIN ht.table : ht.table[i] \in Seq(Entry)
    /\ last.op \in {"none", "insert", "get", "delete"}
    /\ last.ret \in BOOLEAN \cup Data \cup {Null}

\* No key is reachable twice, in one chain or across chains: ght_insert
\* must walk the whole chain and resize must not duplicate a bucket.
KeysUnique ==
    \A i1, i2 \in DOMAIN ht.table :
        \A j1 \in 1..Len(ht.table[i1]), j2 \in 1..Len(ht.table[i2]) :
            <<i1, j1>> # <<i2, j2>> => ht.table[i1][j1].key # ht.table[i2][j2].key

\* Every reachable bucket sits in the slot its key hashes to under the
\* current size: after a resize server_ght_get must find every entry.
ChainPlacement ==
    \A i \in DOMAIN ht.table :
        \A j \in 1..Len(ht.table[i]) : ht.table[i][j].key % ht.size = i

\* Between operations the load never stays above GHT_MAX_LOAD: every insert
\* that crosses the watermark is followed by a resize that brings it back.
LoadBounded == 10 * ht.count <= 7 * ht.size

\* ht.count, on which every watermark decision rests, equals the number of
\* buckets a lookup can reach.  ght_resize rebuilds it from the re-inserted
\* buckets and warns when it differs from the count before (server_ht.c:112),
\* so a count that drifted through an insert, a delete or a resize would
\* show there and move the watermarks.
CountExact == ht.count = Len(FlattenSeq([i \in 1..ht.size |-> ht.table[i-1]]))

\* A successful server_ght_insert adds exactly its entry and keeps every
\* other one, also when it triggers a resize that rehashes the table.
InsertPreservesEntries ==
    [][(last'.op = "insert" /\ last'.ret = TRUE) =>
         Reachable' = Reachable \cup {[key |-> last'.key, data |-> last'.data]}]_vars

\* The table implements the map contract of spec section 4.1.
Abstract == INSTANCE AbstractMap WITH map <- Contents, last <- last

AbstractMapSpec == Abstract!Spec
=============================================================================
