----------------------------- MODULE HashTable -----------------------------
(***************************************************************************)
(* lib/kernel/hash.c of pintos2: chained buckets, rehashed after every     *)
(* insertion and removal.  The elements, what compares them and their      *)
(* hash are parameters; the smallest number of buckets (4 in the code) and *)
(* BEST_ELEMS_PER_BUCKET (2) are too, so that few elements make the table  *)
(* grow and shrink.                                                        *)
(***************************************************************************)
EXTENDS Integers, Sequences, FiniteSets, Bitwise

CONSTANTS HashElems, HashKey, HashOf, MinBuckets, BestElems, NoElem

VARIABLE hash        \* elem_cnt and the buckets, numbered from 0

BucketCnt(h) == Cardinality(DOMAIN h.buckets)
Equal(a, b) == ~ HashKey[a] < HashKey[b] /\ ~ HashKey[b] < HashKey[a]

hash_init == [elem_cnt |-> 0, buckets |-> [i \in 0 .. MinBuckets - 1 |-> << >>]]
hash_clear(h) == [elem_cnt |-> 0, buckets |-> [i \in DOMAIN h.buckets |-> << >>]]

find_bucket(h, e) == HashOf[HashKey[e]] & (BucketCnt(h) - 1)
find_elem(h, b, e) ==
    LET found == {i \in DOMAIN h.buckets[b] : Equal(h.buckets[b][i], e)}
    IN IF found = {} THEN NoElem
       ELSE h.buckets[b][CHOOSE i \in found : \A j \in found : i <= j]

insert_elem(h, b, e) ==
    [elem_cnt |-> h.elem_cnt + 1, buckets |-> [h.buckets EXCEPT ![b] = <<e>> \o @]]
remove_elem(h, e) ==
    [elem_cnt |-> h.elem_cnt - 1,
     buckets |-> [b \in DOMAIN h.buckets |-> SelectSeq(h.buckets[b], LAMBDA x : x # e)]]

turn_off_least_1bit(x) == x & (x - 1)
is_power_of_2(x) == x # 0 /\ turn_off_least_1bit(x) = 0
RECURSIVE RoundDown(_)
RoundDown(x) == IF is_power_of_2(x) THEN x ELSE RoundDown(turn_off_least_1bit(x))
NewBucketCnt(h) ==
    LET best == h.elem_cnt \div BestElems
    IN RoundDown(IF best < MinBuckets THEN MinBuckets ELSE best)

RECURSIVE MoveAll(_, _)
MoveAll(h, s) ==
    IF s = << >> THEN h
    ELSE MoveAll([h EXCEPT !.buckets[find_bucket(h, Head(s))] = <<Head(s)>> \o @], Tail(s))
RECURSIVE Concat(_, _)
Concat(buckets, i) == IF i \notin DOMAIN buckets THEN << >> ELSE buckets[i] \o Concat(buckets, i + 1)

\* A mutant: the elements stay in the bucket of their old number.
rehashCopies(h, memory) ==
    LET n == NewBucketCnt(h) IN
    IF n <= BucketCnt(h) \/ ~ memory THEN h
    ELSE [h EXCEPT !.buckets = [i \in 0 .. n - 1 |-> IF i < BucketCnt(h) THEN @[i] ELSE << >>]]
\* Without memory for the new buckets the old ones stay.
rehash(h, memory) ==
    LET n == NewBucketCnt(h)
        fresh == [elem_cnt |-> h.elem_cnt, buckets |-> [i \in 0 .. n - 1 |-> << >>]]
    IN IF n = BucketCnt(h) \/ ~ memory THEN h ELSE MoveAll(fresh, Concat(h.buckets, 0))

hash_insert(h, e, memory) ==
    LET b == find_bucket(h, e)
    IN rehash(IF find_elem(h, b, e) = NoElem THEN insert_elem(h, b, e) ELSE h, memory)
hash_replace(h, e, memory) ==
    LET b == find_bucket(h, e)
        old == find_elem(h, b, e)
        without == IF old # NoElem THEN remove_elem(h, old) ELSE h
    IN rehash(insert_elem(without, b, e), memory)
hash_find(h, e) == find_elem(h, find_bucket(h, e), e)
hash_delete(h, e, memory) ==
    LET found == hash_find(h, e)
    IN IF found # NoElem THEN rehash(remove_elem(h, found), memory) ELSE h

\* The elements the destructor is called with, in order.
hash_destroy(h) == Concat(h.buckets, 0)

\* An iterator is a bucket and a place in it, 0 for its head.
hash_first == [bucket |-> 0, elem |-> 0]
RECURSIVE NextBucket(_, _)
NextBucket(h, it) ==
    IF it.elem <= Len(h.buckets[it.bucket]) THEN it
    ELSE IF it.bucket + 1 >= BucketCnt(h) THEN NoElem
    ELSE NextBucket(h, [bucket |-> it.bucket + 1, elem |-> 1])
hash_next(h, it) == NextBucket(h, [it EXCEPT !.elem = @ + 1])
hash_cur(h, it) == h.buckets[it.bucket][it.elem]
RECURSIVE hash_apply(_, _)
hash_apply(h, it) ==
    LET n == hash_next(h, it) IN
    IF n = NoElem THEN << >> ELSE <<hash_cur(h, n)>> \o hash_apply(h, n)

Stored(h) == UNION {{h.buckets[b][i] : i \in DOMAIN h.buckets[b]} : b \in DOMAIN h.buckets}

HashInit == hash = hash_init
HashNext ==
    \/ \E e \in HashElems, memory \in BOOLEAN :
          \/ e \notin Stored(hash) /\ hash' = hash_insert(hash, e, memory)
          \/ e \notin Stored(hash) /\ hash' = hash_replace(hash, e, memory)
          \/ hash' = hash_delete(hash, e, memory)
    \/ hash' = hash_clear(hash)

-----------------------------------------------------------------------------
\* hash.c: through growing, shrinking and failed allocations, an element is found
\* exactly when an equal one is stored, no two stored ones are equal, elem_cnt is their
\* number, and an iteration, or the
\* destructor, meets each of them once.
HashFinds ==
    LET met == hash_apply(hash, hash_first)
        stored == Stored(hash)
    IN /\ \A e \in HashElems :
             hash_find(hash, e) \in
                 (IF \E s \in stored : Equal(s, e) THEN {s \in stored : Equal(s, e)} ELSE {NoElem})
       /\ \A a, b \in stored : Equal(a, b) => a = b
       /\ hash.elem_cnt = Cardinality(stored)
       /\ Len(met) = Cardinality(stored) /\ {met[i] : i \in DOMAIN met} = stored
       /\ hash_destroy(hash) = met
       /\ is_power_of_2(BucketCnt(hash))
=============================================================================
