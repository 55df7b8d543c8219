------------------------------- MODULE Lists -------------------------------
(***************************************************************************)
(* The lists of pintos/src/lib/kernel/list.c, as sequences.  The           *)
(* comparison functions of the kernel compare one number kept for each     *)
(* element; key gives it, negated where larger numbers come first.         *)
(***************************************************************************)
EXTENDS Integers, Sequences, FiniteSets, TLAPS, FiniteSetTheorems

\* list_sort(), a merge sort: elements that compare equal keep their order.  Precedes
\* compares the elements at two places; the element that k - 1 others precede comes
\* at place k, which Order gives for each k.
Precedes(seq, key, i, j) == \/ key[seq[i]] < key[seq[j]]
                            \/ key[seq[i]] = key[seq[j]] /\ i < j
Preceding(seq, key, i) == {j \in 1 .. Len(seq) : Precedes(seq, key, j, i)}
Order(seq, key) ==
    [k \in 1 .. Len(seq) |->
        CHOOSE i \in 1 .. Len(seq) : Cardinality(Preceding(seq, key, i)) + 1 = k]
ListSort(seq, key) == [k \in 1 .. Len(seq) |-> seq[Order(seq, key)[k]]]

\* list_remove(): the neighbours of x are linked to each other.
Unlink(seq, x) ==
    LET i == CHOOSE j \in DOMAIN seq : seq[j] = x
    IN SubSeq(seq, 1, i - 1) \o SubSeq(seq, i + 1, Len(seq))

OnList(x, seq) == \E i \in DOMAIN seq : seq[i] = x

-----------------------------------------------------------------------------
(* What list_sort() does to the elements and their order, for every list   *)
(* and every key.                                                          *)

\* The order in which list_sort() takes the places of seq.
IsOrder(p, seq, key) ==
    /\ p \in [1 .. Len(seq) -> 1 .. Len(seq)]
    /\ \A k, m \in 1 .. Len(seq) : k < m => Precedes(seq, key, p[k], p[m])
NoTwice(seq) == \A i, j \in 1 .. Len(seq) : seq[i] = seq[j] => i = j
Ordered(seq, key) == \A i, j \in 1 .. Len(seq) : i < j => key[seq[i]] <= key[seq[j]]

\* The comparison of places is a strict total order, whatever the keys.
LEMMA PrecedesTotal ==
    ASSUME NEW S, NEW seq \in Seq(S), NEW key \in [S -> Int],
           NEW i \in 1 .. Len(seq), NEW j \in 1 .. Len(seq), NEW k \in 1 .. Len(seq)
    PROVE  /\ ~ Precedes(seq, key, i, i)
           /\ i # j => Precedes(seq, key, i, j) \/ Precedes(seq, key, j, i)
           /\ Precedes(seq, key, i, j) /\ Precedes(seq, key, j, k) => Precedes(seq, key, i, k)
<1>1. PICK x \in Int, y \in Int, z \in Int : x = key[seq[i]] /\ y = key[seq[j]] /\ z = key[seq[k]]
  OBVIOUS
<1>2. i \in Int /\ j \in Int /\ k \in Int  OBVIOUS
<1> QED BY <1>1, <1>2 DEF Precedes

\* A function of a finite interval into itself that takes no value twice takes every
\* value.
LEMMA InjectiveOnto ==
    ASSUME NEW n \in Nat, NEW f \in [1 .. n -> 1 .. n],
           \A i, j \in 1 .. n : f[i] = f[j] => i = j
    PROVE  \A k \in 1 .. n : \E i \in 1 .. n : f[i] = k
<1>1. f \in Injection(1 .. n, 1 .. n)  BY DEF Injection, IsInjective
<1>2. IsFiniteSet(1 .. n)  BY FS_Interval
<1>3. f \in Surjection(1 .. n, 1 .. n)  BY <1>1, <1>2, FS_Injection
<1> QED BY <1>3 DEF Surjection

\* Fewer places precede an earlier place.
LEMMA PrecedingGrows ==
    ASSUME NEW S, NEW seq \in Seq(S), NEW key \in [S -> Int],
           NEW i \in 1 .. Len(seq), NEW j \in 1 .. Len(seq), Precedes(seq, key, i, j)
    PROVE  /\ Cardinality(Preceding(seq, key, i)) \in 0 .. Len(seq) - 1
           /\ Cardinality(Preceding(seq, key, i)) < Cardinality(Preceding(seq, key, j))
<1>0. PICK n \in Nat : n = Len(seq)  OBVIOUS
<1> DEFINE A == Preceding(seq, key, i)
           B == Preceding(seq, key, j)
<1>1. IsFiniteSet(1 .. n) /\ Cardinality(1 .. n) = n  BY FS_Interval
<1>2. A \subseteq B /\ i \notin A /\ i \in B /\ A # B /\ B \subseteq 1 .. n
  BY <1>0, PrecedesTotal DEF Preceding
<1>3. IsFiniteSet(B) /\ Cardinality(B) \in Nat /\ Cardinality(B) <= n
  BY <1>1, <1>2, FS_Subset, FS_CardinalityType
<1>4. IsFiniteSet(A) /\ Cardinality(A) \in Nat /\ Cardinality(A) <= Cardinality(B)
      /\ Cardinality(A) # Cardinality(B)
  BY <1>2, <1>3, FS_Subset, FS_CardinalityType
<1> QED BY <1>0, <1>3, <1>4

\* Order is an order to sort by: every place is the rank of exactly one element.
LEMMA OrderSorts ==
    ASSUME NEW S, NEW seq \in Seq(S), NEW key \in [S -> Int]
    PROVE  IsOrder(Order(seq, key), seq, key)
<1>1. PICK n \in Nat : n = Len(seq)  OBVIOUS
<1>2. PICK r : r = [i \in 1 .. n |-> Cardinality(Preceding(seq, key, i)) + 1]  OBVIOUS
<1>3. \A i, j \in 1 .. n : Precedes(seq, key, i, j) => r[i] < r[j]
  <2>1. SUFFICES ASSUME NEW i \in 1 .. n, NEW j \in 1 .. n, Precedes(seq, key, i, j)
                 PROVE  r[i] < r[j]
    OBVIOUS
  <2>2. PICK a, b : a = Cardinality(Preceding(seq, key, i)) /\ b = Cardinality(Preceding(seq, key, j))
    OBVIOUS
  <2>3. a \in Int /\ a < b  BY <1>1, <2>1, <2>2, PrecedingGrows
  <2>4. IsFiniteSet(1 .. n) /\ Preceding(seq, key, j) \in SUBSET (1 .. n)
    BY <1>1, FS_Interval DEF Preceding
  <2>5. b \in Nat  BY <2>2, <2>4, FS_Subset, FS_CardinalityType
  <2> QED BY <1>2, <2>2, <2>3, <2>5
<1>4. r \in [1 .. n -> 1 .. n]
  <2>1. SUFFICES ASSUME NEW i \in 1 .. n PROVE r[i] \in 1 .. n
    BY <1>2
  <2>2. IsFiniteSet(1 .. n) /\ Cardinality(1 .. n) = n  BY FS_Interval
  <2>3. Preceding(seq, key, i) \in SUBSET (1 .. n) /\ i \notin Preceding(seq, key, i)
    BY <1>1, PrecedesTotal DEF Preceding
  <2>4. PICK c : c = Cardinality(Preceding(seq, key, i))  OBVIOUS
  <2>5. c \in Nat /\ c <= n /\ c # n
    BY <2>2, <2>3, <2>4, FS_Subset, FS_CardinalityType
  <2> QED BY <1>2, <2>4, <2>5
<1>5. \A i, j \in 1 .. n : r[i] = r[j] => i = j
  <2>1. SUFFICES ASSUME NEW i \in 1 .. n, NEW j \in 1 .. n, i # j PROVE r[i] # r[j]
    OBVIOUS
  <2>2. Precedes(seq, key, i, j) \/ Precedes(seq, key, j, i)  BY <1>1, <2>1, PrecedesTotal
  <2>3. r[i] < r[j] \/ r[j] < r[i]  BY <1>3, <2>2
  <2>4. r[i] \in Int /\ r[j] \in Int  BY <1>4
  <2> QED BY <2>3, <2>4
<1>6. \A k \in 1 .. n : \E i \in 1 .. n : r[i] = k  BY <1>4, <1>5, InjectiveOnto
<1>7. PICK p : p = Order(seq, key)  OBVIOUS
<1>7a. p = [k \in 1 .. n |-> CHOOSE i \in 1 .. n : Cardinality(Preceding(seq, key, i)) + 1 = k]
  BY <1>1, <1>7 DEF Order
<1>7b. \A k \in 1 .. n : \E i \in 1 .. n : Cardinality(Preceding(seq, key, i)) + 1 = k
  BY <1>2, <1>6
<1>7c. \A k \in 1 .. n : p[k] \in 1 .. n /\ Cardinality(Preceding(seq, key, p[k])) + 1 = k
  BY <1>7a, <1>7b
<1>8. \A k \in 1 .. n : p[k] \in 1 .. n /\ r[p[k]] = k  BY <1>2, <1>7c
<1>9. p \in [1 .. n -> 1 .. n]  BY <1>7a, <1>8
<1>10. ASSUME NEW k \in 1 .. n, NEW m \in 1 .. n, k < m
       PROVE  Precedes(seq, key, p[k], p[m])
  <2>1. p[k] # p[m]  BY <1>8, <1>10
  <2>2. ~ Precedes(seq, key, p[m], p[k])
    <3>1. SUFFICES ASSUME Precedes(seq, key, p[m], p[k]) PROVE FALSE  OBVIOUS
    <3>2. r[p[m]] < r[p[k]]  BY <1>3, <1>8, <3>1
    <3> QED BY <1>8, <1>10, <3>2
  <2>3. p[k] \in 1 .. Len(seq) /\ p[m] \in 1 .. Len(seq)  BY <1>1, <1>8
  <2> QED BY <2>1, <2>2, <2>3, PrecedesTotal
<1> QED BY <1>1, <1>7, <1>9, <1>10 DEF IsOrder

\* list_sort() returns the places of seq in such an order, each of them once.
TakenBy(p, n, seq, key, s) ==
    /\ p \in [1 .. n -> 1 .. n]
    /\ \A k, m \in 1 .. n : k < m => Precedes(seq, key, p[k], p[m])
    /\ \A k, m \in 1 .. n : p[k] = p[m] => k = m
    /\ \A i \in 1 .. n : \E k \in 1 .. n : p[k] = i
    /\ s = [k \in 1 .. n |-> seq[p[k]]]
\* list_sort() takes the places of the list in an order by key.
LEMMA SortedBy ==
    ASSUME NEW S, NEW seq \in Seq(S), NEW key \in [S -> Int]
    PROVE  \E p : TakenBy(p, Len(seq), seq, key, ListSort(seq, key))
<1>1. PICK n \in Nat : n = Len(seq) /\ DOMAIN seq = 1 .. n  OBVIOUS
<1>2. PICK p : p = Order(seq, key)  OBVIOUS
<1>3. IsOrder(p, seq, key)  BY <1>2, OrderSorts
<1>4. p \in [1 .. n -> 1 .. n] /\ \A k, m \in 1 .. n : k < m => Precedes(seq, key, p[k], p[m])
  BY <1>1, <1>3 DEF IsOrder
<1>5. ListSort(seq, key) = [k \in 1 .. n |-> seq[p[k]]]  BY <1>1, <1>2 DEF ListSort
<1>6. ASSUME NEW k \in 1 .. n, NEW m \in 1 .. n, p[k] = p[m] PROVE k = m
  <2>1. p[k] \in 1 .. Len(seq) /\ ~ Precedes(seq, key, p[k], p[k])
    BY <1>1, <1>4, PrecedesTotal
  <2>2. ~ (k < m) /\ ~ (m < k)  BY <1>4, <1>6, <2>1
  <2> QED BY <2>2
<1>7. \A i \in 1 .. n : \E k \in 1 .. n : p[k] = i  BY <1>4, <1>6, InjectiveOnto
<1>8. TakenBy(p, n, seq, key, ListSort(seq, key))  BY <1>4, <1>5, <1>6, <1>7 DEF TakenBy
<1> QED BY <1>1, <1>8

\* list_sort() keeps the elements and their number, links none twice that was linked
\* once, and leaves them in the order of their keys.
LEMMA SortResult ==
    ASSUME NEW S, NEW seq \in Seq(S), NEW key \in [S -> Int]
    PROVE  /\ ListSort(seq, key) \in Seq(S)
           /\ Len(ListSort(seq, key)) = Len(seq)
           /\ \A x : OnList(x, ListSort(seq, key)) <=> OnList(x, seq)
           /\ NoTwice(seq) => NoTwice(ListSort(seq, key))
           /\ Ordered(ListSort(seq, key), key)
<1>1. PICK n \in Nat : n = Len(seq) /\ DOMAIN seq = 1 .. n  OBVIOUS
<1>2. PICK s : s = ListSort(seq, key)  OBVIOUS
<1>3. PICK p : TakenBy(p, n, seq, key, s)  BY <1>1, <1>2, SortedBy
<1>4. \A k \in 1 .. n : s[k] = seq[p[k]] /\ p[k] \in 1 .. n  BY <1>3 DEF TakenBy
<1>5. s \in Seq(S) /\ Len(s) = n /\ DOMAIN s = 1 .. n
  <2>1. \A k \in 1 .. n : seq[p[k]] \in S  BY <1>1, <1>4
  <2>2. [k \in 1 .. n |-> seq[p[k]]] \in Seq(S)  BY <2>1
  <2>3. s \in Seq(S)  BY <1>3, <2>2 DEF TakenBy
  <2>4. DOMAIN s = 1 .. n  BY <1>3 DEF TakenBy
  <2> QED BY <2>3, <2>4
<1>6. \A x : OnList(x, s) <=> OnList(x, seq)
  <2>1. ASSUME NEW x, OnList(x, s) PROVE OnList(x, seq)  BY <1>1, <1>5, <1>4, <2>1 DEF OnList
  <2>2. ASSUME NEW x, OnList(x, seq) PROVE OnList(x, s)
    <3>1. PICK i \in 1 .. n : seq[i] = x  BY <1>1, <2>2 DEF OnList
    <3>2. PICK k \in 1 .. n : p[k] = i  BY <1>3 DEF TakenBy
    <3> QED BY <1>5, <1>4, <3>1, <3>2 DEF OnList
  <2> QED BY <2>1, <2>2
<1>7. NoTwice(seq) => NoTwice(s)
  <2>1. SUFFICES ASSUME NoTwice(seq), NEW k \in 1 .. n, NEW m \in 1 .. n, s[k] = s[m]
                 PROVE  k = m
    BY <1>5 DEF NoTwice
  <2>2. seq[p[k]] = seq[p[m]] /\ p[k] \in 1 .. n /\ p[m] \in 1 .. n  BY <1>4, <2>1
  <2>3. p[k] = p[m]  BY <1>1, <2>1, <2>2 DEF NoTwice
  <2> QED BY <1>3, <2>3 DEF TakenBy
<1>8. Ordered(s, key)
  <2>1. SUFFICES ASSUME NEW k \in 1 .. n, NEW m \in 1 .. n, k < m
                 PROVE  key[s[k]] <= key[s[m]]
    BY <1>5 DEF Ordered
  <2>2. Precedes(seq, key, p[k], p[m])  BY <1>3, <2>1 DEF TakenBy
  <2>3. key[seq[p[k]]] \in Int /\ key[seq[p[m]]] \in Int  BY <1>1, <1>4
  <2>4. PICK a \in Int, b \in Int : a = key[seq[p[k]]] /\ b = key[seq[p[m]]]  BY <2>3
  <2>5. a < b \/ a = b  BY <2>2, <2>4 DEF Precedes
  <2>6. a <= b  BY <2>5
  <2>7. s[k] = seq[p[k]] /\ s[m] = seq[p[m]]  BY <1>4
  <2> QED BY <2>4, <2>6, <2>7
<1> QED BY <1>1, <1>2, <1>5, <1>6, <1>7, <1>8

\* Elements of two lists that share none: list_push_back() of each.
LEMMA Joined ==
    ASSUME NEW S, NEW a \in Seq(S), NEW b \in Seq(S), NoTwice(a), NoTwice(b),
           \A x : ~ (OnList(x, a) /\ OnList(x, b))
    PROVE  /\ a \o b \in Seq(S) /\ NoTwice(a \o b)
           /\ \A x : OnList(x, a \o b) <=> OnList(x, a) \/ OnList(x, b)
<1>1. PICK n \in Nat, m \in Nat : n = Len(a) /\ m = Len(b)  OBVIOUS
<1>2. PICK c : c = a \o b  OBVIOUS
<1>3. /\ c \in Seq(S) /\ Len(c) = n + m /\ DOMAIN c = 1 .. n + m
      /\ DOMAIN a = 1 .. n /\ DOMAIN b = 1 .. m
  BY <1>1, <1>2
<1>4. \A i \in 1 .. n : c[i] = a[i]  BY <1>1, <1>2
<1>5. \A i \in n + 1 .. n + m : c[i] = b[i - n] /\ i - n \in 1 .. m  BY <1>1, <1>2
<1>6. \A i \in 1 .. m : c[n + i] = b[i] /\ n + i \in 1 .. n + m
  <2>1. SUFFICES ASSUME NEW i \in 1 .. m PROVE c[n + i] = b[i] /\ n + i \in 1 .. n + m
    OBVIOUS
  <2>2. n + i \in n + 1 .. n + m /\ (n + i) - n = i  OBVIOUS
  <2> QED BY <1>5, <2>2
<1>7. \A i \in 1 .. n + m : i \in 1 .. n \/ i \in n + 1 .. n + m  OBVIOUS
<1>8. \A i \in 1 .. n : OnList(c[i], a)  BY <1>3, <1>4 DEF OnList
<1>9. \A i \in n + 1 .. n + m : OnList(c[i], b)  BY <1>3, <1>5 DEF OnList
<1>10. NoTwice(c)
  <2>1. SUFFICES ASSUME NEW i \in 1 .. n + m, NEW j \in 1 .. n + m, c[i] = c[j] PROVE i = j
    BY <1>3 DEF NoTwice
  <2>2. CASE i \in 1 .. n /\ j \in 1 .. n
    BY <1>1, <1>4, <2>1, <2>2 DEF NoTwice
  <2>3. CASE i \in n + 1 .. n + m /\ j \in n + 1 .. n + m
    <3>1. b[i - n] = b[j - n] /\ i - n \in 1 .. m /\ j - n \in 1 .. m  BY <1>5, <2>1, <2>3
    <3>2. i - n = j - n  BY <1>1, <3>1 DEF NoTwice
    <3> QED BY <3>2
  <2>4. CASE i \in 1 .. n /\ j \in n + 1 .. n + m  BY <1>8, <1>9, <2>1, <2>4
  <2>5. CASE i \in n + 1 .. n + m /\ j \in 1 .. n  BY <1>8, <1>9, <2>1, <2>5
  <2> QED BY <1>7, <2>2, <2>3, <2>4, <2>5
<1>11. \A x : OnList(x, c) => OnList(x, a) \/ OnList(x, b)
  <2>1. SUFFICES ASSUME NEW x, NEW i \in 1 .. n + m, c[i] = x PROVE OnList(x, a) \/ OnList(x, b)
    BY <1>3 DEF OnList
  <2> QED BY <1>7, <1>8, <1>9, <2>1
<1>12. \A x : OnList(x, a) => OnList(x, c)
  <2>1. SUFFICES ASSUME NEW x, NEW i \in 1 .. n, a[i] = x PROVE OnList(x, c)
    BY <1>3 DEF OnList
  <2>2. i \in 1 .. n + m  OBVIOUS
  <2> QED BY <1>3, <1>4, <2>1, <2>2 DEF OnList
<1>13. \A x : OnList(x, b) => OnList(x, c)
  <2>1. SUFFICES ASSUME NEW x, NEW i \in 1 .. m, b[i] = x PROVE OnList(x, c)
    BY <1>3 DEF OnList
  <2> QED BY <1>3, <1>6, <2>1 DEF OnList
<1> QED BY <1>2, <1>3, <1>10, <1>11, <1>12, <1>13

\* One more element at the end of a list: list_push_back().
LEMMA Single ==
    ASSUME NEW S, NEW x \in S
    PROVE  /\ <<x>> \in Seq(S) /\ NoTwice(<<x>>)
           /\ \A y : OnList(y, <<x>>) <=> y = x
<1>1. <<x>> \in Seq(S) /\ Len(<<x>>) = 1 /\ <<x>>[1] = x /\ DOMAIN <<x>> = 1 .. 1  OBVIOUS
<1>2. NoTwice(<<x>>)  BY <1>1 DEF NoTwice
<1>3. \A y : OnList(y, <<x>>) <=> y = x  BY <1>1 DEF OnList
<1> QED BY <1>1, <1>2, <1>3

\* A list cut in two: the list_pop_front()s of the first k elements.
LEMMA Cut ==
    ASSUME NEW S, NEW seq \in Seq(S), NoTwice(seq), NEW k \in 0 .. Len(seq)
    PROVE  LET first == SubSeq(seq, 1, k)
               rest == SubSeq(seq, k + 1, Len(seq))
           IN /\ first \in Seq(S) /\ rest \in Seq(S) /\ NoTwice(first) /\ NoTwice(rest)
              /\ \A x : OnList(x, first) <=> \E i \in 1 .. k : seq[i] = x
              /\ \A x : OnList(x, rest) <=> \E i \in k + 1 .. Len(seq) : seq[i] = x
              /\ \A x : OnList(x, rest) <=> OnList(x, seq) /\ ~ OnList(x, first)
              /\ \A key : Ordered(seq, key) => Ordered(rest, key)
<1>1. PICK n \in Nat : n = Len(seq) /\ DOMAIN seq = 1 .. n /\ k \in Nat /\ k <= n  OBVIOUS
<1>2. PICK a, b : a = SubSeq(seq, 1, k) /\ b = SubSeq(seq, k + 1, n)  OBVIOUS
<1>3. a \in Seq(S) /\ Len(a) = k /\ DOMAIN a = 1 .. k /\ \A i \in 1 .. k : a[i] = seq[i]
  BY <1>1, <1>2
<1>4. b \in Seq(S) /\ Len(b) = n - k /\ DOMAIN b = 1 .. n - k
      /\ \A i \in 1 .. n - k : b[i] = seq[k + i]
  <2>1. k + 1 \in 1 .. n + 1 /\ n - (k + 1) + 1 = n - k  BY <1>1
  <2>2. b = [i \in 1 .. n - k |-> seq[i + (k + 1) - 1]]  BY <1>1, <1>2, <2>1
  <2>3. \A i \in 1 .. n - k : k + i \in 1 .. n /\ i + (k + 1) - 1 = k + i  BY <1>1
  <2>4. \A i \in 1 .. n - k : b[i] = seq[k + i] /\ seq[k + i] \in S  BY <1>1, <2>2, <2>3
  <2>5. n - k \in Nat  BY <1>1
  <2>6. b \in [1 .. n - k -> S]  BY <2>2, <2>4
  <2>7. b \in Seq(S)  BY <2>5, <2>6
  <2>8. DOMAIN b = 1 .. n - k  BY <2>2
  <2>9. Len(b) = n - k  BY <2>5, <2>7, <2>8
  <2> QED BY <2>4, <2>7, <2>8, <2>9
<1>5. \A i \in 1 .. n - k : k + i \in k + 1 .. n /\ k + i \in 1 .. n  BY <1>1
<1>6. \A i \in k + 1 .. n : i - k \in 1 .. n - k /\ k + (i - k) = i /\ i \in 1 .. n  BY <1>1
<1>7. NoTwice(a)  BY <1>1, <1>3 DEF NoTwice
<1>8. NoTwice(b)
  <2>1. SUFFICES ASSUME NEW i \in 1 .. n - k, NEW j \in 1 .. n - k, b[i] = b[j] PROVE i = j
    BY <1>4 DEF NoTwice
  <2>2. seq[k + i] = seq[k + j]  BY <1>4, <2>1
  <2>3. k + i = k + j  BY <1>1, <1>5, <2>2 DEF NoTwice
  <2> QED BY <1>1, <2>3
<1>9. \A x : OnList(x, a) <=> \E i \in 1 .. k : seq[i] = x  BY <1>3 DEF OnList
<1>10. \A x : OnList(x, b) <=> \E i \in k + 1 .. n : seq[i] = x
  <2>1. ASSUME NEW x, OnList(x, b) PROVE \E i \in k + 1 .. n : seq[i] = x
    BY <1>4, <1>5, <2>1 DEF OnList
  <2>2. ASSUME NEW x, NEW i \in k + 1 .. n, seq[i] = x PROVE OnList(x, b)
    <3>1. i - k \in 1 .. n - k /\ b[i - k] = x  BY <1>4, <1>6, <2>2
    <3> QED BY <1>4, <3>1 DEF OnList
  <2> QED BY <2>1, <2>2
<1>11. \A x : OnList(x, b) <=> OnList(x, seq) /\ ~ OnList(x, a)
  <2>1. \A i \in 1 .. n : i \in 1 .. k \/ i \in k + 1 .. n  BY <1>1
  <2>2. \A i \in 1 .. k : \A j \in k + 1 .. n : i \in 1 .. n /\ j \in 1 .. n /\ i # j  BY <1>1
  <2>3. ASSUME NEW x, OnList(x, b) PROVE OnList(x, seq) /\ ~ OnList(x, a)
    <3>1. PICK j \in k + 1 .. n : seq[j] = x  BY <1>10, <2>3
    <3>2. OnList(x, seq)  BY <1>1, <1>6, <3>1 DEF OnList
    <3>3. ASSUME NEW i \in 1 .. k, seq[i] = x PROVE FALSE
      BY <1>1, <2>2, <3>1, <3>3 DEF NoTwice
    <3> QED BY <1>9, <3>2, <3>3
  <2>4. ASSUME NEW x, OnList(x, seq), ~ OnList(x, a) PROVE OnList(x, b)
    <3>1. PICK i \in 1 .. n : seq[i] = x  BY <1>1, <2>4 DEF OnList
    <3> QED BY <1>9, <1>10, <2>1, <2>4, <3>1
  <2> QED BY <2>3, <2>4
<1>12. ASSUME NEW key, Ordered(seq, key) PROVE Ordered(b, key)
  <2>1. SUFFICES ASSUME NEW i \in 1 .. n - k, NEW j \in 1 .. n - k, i < j
                 PROVE  key[b[i]] <= key[b[j]]
    BY <1>4 DEF Ordered
  <2>2. k + i < k + j  BY <1>1, <2>1
  <2>3. key[seq[k + i]] <= key[seq[k + j]]  BY <1>1, <1>5, <1>12, <2>2 DEF Ordered
  <2> QED BY <1>4, <2>3
<1> QED BY <1>1, <1>2, <1>3, <1>4, <1>7, <1>8, <1>9, <1>10, <1>11, <1>12

\* list_remove() of an element of the list.
LEMMA Unlinks ==
    ASSUME NEW S, NEW seq \in Seq(S), NoTwice(seq), NEW x, OnList(x, seq)
    PROVE  /\ Unlink(seq, x) \in Seq(S) /\ NoTwice(Unlink(seq, x))
           /\ \A y : OnList(y, Unlink(seq, x)) <=> OnList(y, seq) /\ y # x
<1>1. PICK n \in Nat : n = Len(seq) /\ DOMAIN seq = 1 .. n  OBVIOUS
<1>2. PICK i : i = CHOOSE j \in DOMAIN seq : seq[j] = x  OBVIOUS
<1>3. i \in 1 .. n /\ seq[i] = x  BY <1>1, <1>2 DEF OnList
<1>4. PICK k \in Nat : i = k + 1 /\ k \in 0 .. n /\ i \in 0 .. n
  <2>1. i - 1 \in Nat /\ i = (i - 1) + 1 /\ i - 1 \in 0 .. n /\ i \in 0 .. n  BY <1>3
  <2> QED BY <2>1
<1>5. PICK a, b : a = SubSeq(seq, 1, k) /\ b = SubSeq(seq, i + 1, n)  OBVIOUS
<1>6. a \in Seq(S) /\ NoTwice(a) /\ \A y : OnList(y, a) <=> \E j \in 1 .. k : seq[j] = y
  BY <1>1, <1>4, <1>5, Cut
<1>7. b \in Seq(S) /\ NoTwice(b) /\ \A y : OnList(y, b) <=> \E j \in i + 1 .. n : seq[j] = y
  BY <1>1, <1>4, <1>5, Cut
<1>8. \A j, m \in 1 .. n : seq[j] = seq[m] => j = m  BY <1>1 DEF NoTwice
<1>9. \A j \in 1 .. k : j \in 1 .. n /\ j < i  BY <1>3, <1>4
<1>10. \A j \in i + 1 .. n : j \in 1 .. n /\ i < j  BY <1>3
<1>11. \A y : ~ (OnList(y, a) /\ OnList(y, b))
  <2>1. SUFFICES ASSUME NEW j \in 1 .. k, NEW m \in i + 1 .. n, seq[j] = seq[m] PROVE FALSE
    BY <1>6, <1>7
  <2>2. j = m  BY <1>8, <1>9, <1>10, <2>1
  <2> QED BY <1>3, <1>9, <1>10, <2>2
<1>12. PICK c : c = a \o b  OBVIOUS
<1>13. c \in Seq(S) /\ NoTwice(c) /\ \A y : OnList(y, c) <=> OnList(y, a) \/ OnList(y, b)
  BY <1>6, <1>7, <1>11, <1>12, Joined
<1>14. \A j \in 1 .. n : j \in 1 .. k \/ j = i \/ j \in i + 1 .. n  BY <1>3, <1>4
<1>15. \A y : OnList(y, seq) /\ y # x => OnList(y, a) \/ OnList(y, b)
  <2>1. SUFFICES ASSUME NEW j \in 1 .. n, seq[j] # x
                 PROVE  OnList(seq[j], a) \/ OnList(seq[j], b)
    BY <1>1 DEF OnList
  <2>2. j \in 1 .. k \/ j \in i + 1 .. n  BY <1>3, <1>14, <2>1
  <2> QED BY <1>6, <1>7, <2>2
<1>16. ASSUME NEW y, OnList(y, a) \/ OnList(y, b) PROVE OnList(y, seq) /\ y # x
  <2>1. PICK j \in 1 .. n : seq[j] = y /\ j # i
    <3>1. CASE OnList(y, a)
      <4>1. PICK j \in 1 .. k : seq[j] = y  BY <1>6, <3>1
      <4>2. j \in 1 .. n /\ j # i  BY <1>3, <1>9
      <4> QED BY <4>1, <4>2
    <3>2. CASE OnList(y, b)
      <4>1. PICK j \in i + 1 .. n : seq[j] = y  BY <1>7, <3>2
      <4>2. j \in 1 .. n /\ j # i  BY <1>3, <1>10
      <4> QED BY <4>1, <4>2
    <3> QED BY <1>16, <3>1, <3>2
  <2> QED BY <1>1, <1>3, <1>8, <2>1 DEF OnList
<1>17. Unlink(seq, x) = c
  <2>1. i - 1 = k  BY <1>3, <1>4
  <2> QED BY <1>1, <1>2, <1>5, <1>12, <2>1 DEF Unlink
<1> QED BY <1>13, <1>15, <1>16, <1>17

\* list_push_back() of an element that is not on the list.
LEMMA PushedBack ==
    ASSUME NEW S, NEW seq \in Seq(S), NoTwice(seq), NEW x \in S, ~ OnList(x, seq)
    PROVE  /\ Append(seq, x) \in Seq(S) /\ NoTwice(Append(seq, x))
           /\ \A y : OnList(y, Append(seq, x)) <=> OnList(y, seq) \/ y = x
<1>1. PICK c, one : c = Append(seq, x) /\ one = <<x>>  OBVIOUS
<1>2. c = seq \o one  BY <1>1
<1>3. one \in Seq(S) /\ NoTwice(one) /\ \A y : OnList(y, one) <=> y = x  BY <1>1, Single
<1>4. \A y : ~ (OnList(y, seq) /\ OnList(y, one))  BY <1>3
<1>5. c \in Seq(S) /\ NoTwice(c) /\ \A y : OnList(y, c) <=> OnList(y, seq) \/ OnList(y, one)
  BY <1>2, <1>3, <1>4, Joined
<1> QED BY <1>1, <1>3, <1>5

\* list_push_back() and list_sort() of a thread that is not on the list.
LEMMA PushSorted ==
    ASSUME NEW S, NEW seq \in Seq(S), NEW x \in S, NEW key \in [S -> Int],
           NoTwice(seq), ~ OnList(x, seq)
    PROVE  LET s == ListSort(Append(seq, x), key)
           IN /\ s \in Seq(S) /\ NoTwice(s) /\ Ordered(s, key)
              /\ \A y : OnList(y, s) <=> OnList(y, seq) \/ y = x
<1>1. PICK c : c = Append(seq, x)  OBVIOUS
<1>2. c \in Seq(S) /\ NoTwice(c) /\ \A y : OnList(y, c) <=> OnList(y, seq) \/ y = x
  BY <1>1, PushedBack
<1> QED BY <1>1, <1>2, SortResult

\* list_pop_front() of a list that is not empty.
LEMMA FirstOut ==
    ASSUME NEW S, NEW seq \in Seq(S), NoTwice(seq), seq # <<>>
    PROVE  /\ Head(seq) \in S /\ OnList(Head(seq), seq)
           /\ Tail(seq) \in Seq(S) /\ NoTwice(Tail(seq))
           /\ \A x : OnList(x, Tail(seq)) <=> OnList(x, seq) /\ x # Head(seq)
           /\ \A key : Ordered(seq, key) =>
                 /\ Ordered(Tail(seq), key)
                 /\ \A i \in DOMAIN Tail(seq) : key[Head(seq)] <= key[Tail(seq)[i]]
<1>1. PICK n \in Nat : Len(seq) = n + 1
  <2>1. Len(seq) \in Nat /\ Len(seq) # 0  OBVIOUS
  <2> QED BY <2>1
<1>2. PICK first, rest : first = Head(seq) /\ rest = Tail(seq)  OBVIOUS
<1>3. /\ rest \in Seq(S) /\ Len(rest) = n /\ DOMAIN rest = 1 .. n
      /\ \A i \in 1 .. n : rest[i] = seq[i + 1]
      /\ first = seq[1] /\ first \in S
  BY <1>1, <1>2
<1>4. DOMAIN seq = 1 .. n + 1 /\ 1 \in 1 .. n + 1
      /\ \A i \in 1 .. n : i + 1 \in 1 .. n + 1 /\ 1 < i + 1 /\ i + 1 # 1
  BY <1>1
<1>5. NoTwice(rest)
  <2>1. SUFFICES ASSUME NEW i \in 1 .. n, NEW j \in 1 .. n, rest[i] = rest[j] PROVE i = j
    BY <1>3 DEF NoTwice
  <2>2. seq[i + 1] = seq[j + 1]  BY <1>3, <2>1
  <2>3. i + 1 = j + 1  BY <1>1, <1>4, <2>2 DEF NoTwice
  <2> QED BY <2>3
<1>6. \A x : OnList(x, rest) <=> OnList(x, seq) /\ x # first
  <2>1. ASSUME NEW x, OnList(x, rest) PROVE OnList(x, seq) /\ x # first
    <3>1. PICK i \in 1 .. n : rest[i] = x  BY <1>3, <2>1 DEF OnList
    <3>2. seq[i + 1] = x  BY <1>3, <3>1
    <3>3. x # first  BY <1>1, <1>3, <1>4, <3>2 DEF NoTwice
    <3> QED BY <1>4, <3>2, <3>3 DEF OnList
  <2>2. ASSUME NEW x, OnList(x, seq), x # first PROVE OnList(x, rest)
    <3>1. PICK i \in 1 .. n + 1 : seq[i] = x  BY <1>4, <2>2 DEF OnList
    <3>2. i # 1  BY <1>3, <2>2, <3>1
    <3>3. PICK j \in 1 .. n : i = j + 1
      <4>1. i - 1 \in 1 .. n /\ i = (i - 1) + 1  BY <3>2
      <4> QED BY <4>1
    <3> QED BY <1>3, <3>1, <3>3 DEF OnList
  <2> QED BY <2>1, <2>2
<1>7. ASSUME NEW key, Ordered(seq, key)
      PROVE  Ordered(rest, key) /\ \A i \in DOMAIN rest : key[first] <= key[rest[i]]
  <2>1. \A i, j \in 1 .. n + 1 : i < j => key[seq[i]] <= key[seq[j]]  BY <1>1, <1>7 DEF Ordered
  <2>2. ASSUME NEW i \in 1 .. n, NEW j \in 1 .. n, i < j PROVE key[rest[i]] <= key[rest[j]]
    <3>1. i + 1 < j + 1 /\ i + 1 \in 1 .. n + 1 /\ j + 1 \in 1 .. n + 1  BY <2>2
    <3>2. key[seq[i + 1]] <= key[seq[j + 1]]  BY <2>1, <3>1
    <3> QED BY <1>3, <3>2
  <2>3. ASSUME NEW i \in 1 .. n PROVE key[first] <= key[rest[i]]
    <3>1. key[seq[1]] <= key[seq[i + 1]]  BY <1>4, <2>1
    <3> QED BY <1>3, <3>1
  <2> QED BY <1>3, <2>2, <2>3 DEF Ordered
<1>8. OnList(first, seq)  BY <1>3, <1>4 DEF OnList
<1> QED BY <1>2, <1>3, <1>5, <1>6, <1>7, <1>8

\* A list of elements of K that are all in S.
LEMMA ElementsIn ==
    ASSUME NEW S, NEW K, NEW seq \in Seq(K), \A x : OnList(x, seq) => x \in S
    PROVE  seq \in Seq(S)
<1>1. \A i \in 1 .. Len(seq) : OnList(seq[i], seq)  BY DEF OnList
<1>2. \A i \in 1 .. Len(seq) : seq[i] \in S  BY <1>1
<1> QED BY <1>2
=============================================================================
