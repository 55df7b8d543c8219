----------------------------- MODULE KernelList -----------------------------
(***************************************************************************)
(* lib/kernel/list.c of pintos2: doubly linked lists with a head and a     *)
(* tail element, as the heap of their prev and next pointers.  Once an     *)
(* element is off its list nobody reads its pointers, and they are NULL    *)
(* here.                                                                   *)
(***************************************************************************)
EXTENDS Integers, Sequences, FiniteSets

CONSTANTS
    ListNames, Elems,
    Key,             \* what the comparison function compares
    NULL

VARIABLES
    heap,
    op               \* the operation that has just run, with its arguments

list_head(l) == <<"head", l>>
list_tail(l) == <<"tail", l>>
Nodes == Elems \union {list_head(l) : l \in ListNames} \union {list_tail(l) : l \in ListNames}
less(a, b) == Key[a] < Key[b]

list_init ==
    [prev |-> [n \in Nodes |-> IF n \in Elems THEN NULL
                               ELSE IF n[1] = "tail" THEN list_head(n[2]) ELSE NULL],
     next |-> [n \in Nodes |-> IF n \in Elems THEN NULL
                               ELSE IF n[1] = "head" THEN list_tail(n[2]) ELSE NULL]]

list_begin(h, l) == h.next[list_head(l)]
list_end(l) == list_tail(l)
list_rbegin(h, l) == h.prev[list_tail(l)]
list_rend(l) == list_head(l)
list_empty(h, l) == list_begin(h, l) = list_end(l)
is_head(h, e) == h.prev[e] = NULL /\ h.next[e] # NULL
is_interior(h, e) == h.prev[e] # NULL /\ h.next[e] # NULL
is_tail(h, e) == h.prev[e] # NULL /\ h.next[e] = NULL

list_insert(h, before, e) ==
    [prev |-> [h.prev EXCEPT ![e] = h.prev[before], ![before] = e],
     next |-> [h.next EXCEPT ![e] = before, ![h.prev[before]] = e]]

\* FIRST up to LAST leave their list and go before BEFORE.
list_splice(h, before, first, last) ==
    IF first = last THEN h
    ELSE LET l == h.prev[last]
             g == [prev |-> [h.prev EXCEPT ![h.next[l]] = h.prev[first]],
                   next |-> [h.next EXCEPT ![h.prev[first]] = h.next[l]]]
         IN [prev |-> [g.prev EXCEPT ![first] = g.prev[before], ![before] = l],
             next |-> [g.next EXCEPT ![l] = before, ![g.prev[before]] = first]]

list_push_front(h, l, e) == list_insert(h, list_begin(h, l), e)
list_push_back(h, l, e) == list_insert(h, list_end(l), e)

Forgotten(h, e) == [prev |-> [h.prev EXCEPT ![e] = NULL], next |-> [h.next EXCEPT ![e] = NULL]]
list_remove(h, e) ==
    Forgotten([prev |-> [h.prev EXCEPT ![h.next[e]] = h.prev[e]],
               next |-> [h.next EXCEPT ![h.prev[e]] = h.next[e]]], e)
list_front(h, l) == h.next[list_head(l)]
list_back(h, l) == h.prev[list_tail(l)]
list_pop_front(h, l) == list_remove(h, list_front(h, l))
list_pop_back(h, l) == list_remove(h, list_back(h, l))

RECURSIVE SizeFrom(_, _, _)
SizeFrom(h, e, end) == IF e = end THEN 0 ELSE 1 + SizeFrom(h, h.next[e], end)
list_size(h, l) == SizeFrom(h, list_begin(h, l), list_end(l))

\* Every element's pointers are swapped, then those of the head and the tail, and of
\* the elements next to them.
RECURSIVE SwapFrom(_, _, _)
SwapFrom(h, e, end) ==
    IF e = end THEN h
    ELSE SwapFrom([prev |-> [h.prev EXCEPT ![e] = h.next[e]],
                   next |-> [h.next EXCEPT ![e] = h.prev[e]]], h.next[e], end)
list_reverse(h, l) ==
    IF list_empty(h, l) THEN h
    ELSE LET g == SwapFrom(h, list_begin(h, l), list_end(l))
             first == g.prev[list_tail(l)]
             last == g.next[list_head(l)]
         IN [prev |-> [g.prev EXCEPT ![list_tail(l)] = last, ![first] = g.next[last]],
             next |-> [g.next EXCEPT ![list_head(l)] = first, ![last] = g.prev[first]]]

RECURSIVE is_sorted(_, _, _)
is_sorted(h, a, b) ==
    IF a = b THEN TRUE ELSE IF h.next[a] = b THEN TRUE
    ELSE IF less(h.next[a], a) THEN FALSE ELSE is_sorted(h, h.next[a], b)

RECURSIVE find_end_of_run(_, _, _)
find_end_of_run(h, a, b) ==
    LET n == h.next[a] IN
    IF n = b \/ less(n, a) THEN n ELSE find_end_of_run(h, n, b)

\* A mutant: an element goes before one it equals.
RECURSIVE inplace_mergeUnstable(_, _, _, _)
inplace_mergeUnstable(h, a0, a1b0, b1) ==
    IF a0 = a1b0 \/ a1b0 = b1 THEN h
    ELSE IF less(a0, a1b0) THEN inplace_mergeUnstable(h, h.next[a0], a1b0, b1)
    ELSE inplace_mergeUnstable(list_splice(h, a0, a1b0, h.next[a1b0]), a0, h.next[a1b0], b1)

RECURSIVE inplace_merge(_, _, _, _)
inplace_merge(h, a0, a1b0, b1) ==
    IF a0 = a1b0 \/ a1b0 = b1 THEN h
    ELSE IF ~ less(a1b0, a0) THEN inplace_merge(h, h.next[a0], a1b0, b1)
    ELSE inplace_merge(list_splice(h, a0, a1b0, h.next[a1b0]), a0, h.next[a1b0], b1)

\* One pass merges neighbouring runs from A0 on; passes go on until one leaves one run.
RECURSIVE SortPass(_, _, _, _)
SortPass(h, l, a0, runs) ==
    IF a0 = list_end(l) THEN [heap |-> h, runs |-> runs]
    ELSE LET a1b0 == find_end_of_run(h, a0, list_end(l)) IN
         IF a1b0 = list_end(l) THEN [heap |-> h, runs |-> runs + 1]
         ELSE LET b1 == find_end_of_run(h, a1b0, list_end(l))
              IN SortPass(inplace_merge(h, a0, a1b0, b1), l, b1, runs + 1)
RECURSIVE list_sort(_, _)
list_sort(h, l) ==
    LET pass == SortPass(h, l, list_begin(h, l), 0)
    IN IF pass.runs > 1 THEN list_sort(pass.heap, l) ELSE pass.heap

RECURSIVE OrderedPlace(_, _, _, _)
OrderedPlace(h, e, at, end) ==
    IF at = end \/ less(e, at) THEN at ELSE OrderedPlace(h, e, h.next[at], end)
list_insert_ordered(h, l, e) == list_insert(h, OrderedPlace(h, e, list_begin(h, l), list_end(l)), e)

\* DUPLICATES is NULL or another list.
RECURSIVE UniqueFrom(_, _, _, _)
UniqueFrom(h, l, d, e) ==
    LET n == h.next[e] IN
    IF n = list_end(l) THEN h
    ELSE IF ~ less(e, n) /\ ~ less(n, e)
    THEN LET g == list_remove(h, n)
         IN UniqueFrom(IF d # NULL THEN list_push_back(g, d, n) ELSE g, l, d, e)
    ELSE UniqueFrom(h, l, d, n)
list_unique(h, l, d) ==
    IF list_empty(h, l) THEN h ELSE UniqueFrom(h, l, d, list_begin(h, l))

\* The element no later one is better than: the earliest of several.
RECURSIVE BestFrom(_, _, _, _, _)
BestFrom(h, best, e, end, sign) ==
    IF e = end THEN best
    ELSE BestFrom(h, IF sign * Key[best] < sign * Key[e] THEN e ELSE best, h.next[e], end, sign)
list_max(h, l) ==
    IF list_empty(h, l) THEN list_end(l)
    ELSE BestFrom(h, list_begin(h, l), h.next[list_begin(h, l)], list_end(l), 1)
list_min(h, l) ==
    IF list_empty(h, l) THEN list_end(l)
    ELSE BestFrom(h, list_begin(h, l), h.next[list_begin(h, l)], list_end(l), -1)

-----------------------------------------------------------------------------
RECURSIVE Forward(_, _, _)
Forward(h, e, end) == IF e = end THEN << >> ELSE <<e>> \o Forward(h, h.next[e], end)
RECURSIVE Backward(_, _, _)
Backward(h, e, end) == IF e = end THEN << >> ELSE Backward(h, h.prev[e], end) \o <<e>>
AsSeq(h, l) == Forward(h, list_begin(h, l), list_end(l))

Free(e) == heap.next[e] = NULL
Places(l) == {AsSeq(heap, l)[i] : i \in DOMAIN AsSeq(heap, l)} \union {list_tail(l)}

ListInit == heap = list_init /\ op = << >>
Call(call, h) == op' = call /\ heap' = h
ListOne(l) ==
    \/ \E e \in Elems : Free(e) /\ Call(<<"push_front", l, e>>, list_push_front(heap, l, e))
    \/ \E e \in Elems : Free(e) /\ Call(<<"push_back", l, e>>, list_push_back(heap, l, e))
    \/ \E e \in Elems, b \in Places(l) : Free(e) /\ Call(<<"insert", l, b, e>>, list_insert(heap, b, e))
    \/ \E e \in Elems : /\ Free(e) /\ is_sorted(heap, list_begin(heap, l), list_end(l))
                        /\ Call(<<"insert_ordered", l, e>>, list_insert_ordered(heap, l, e))
    \/ \E e \in Places(l) \ {list_tail(l)} : Call(<<"remove", l, e>>, list_remove(heap, e))
    \/ ~ list_empty(heap, l) /\ Call(<<"pop_front", l>>, list_pop_front(heap, l))
    \/ ~ list_empty(heap, l) /\ Call(<<"pop_back", l>>, list_pop_back(heap, l))
    \/ Call(<<"reverse", l>>, list_reverse(heap, l))
    \/ Call(<<"sort", l>>, list_sort(heap, l))
    \/ Call(<<"unique", l, "NULL">>, list_unique(heap, l, NULL))
ListTwo(l, m) ==
    \/ l # m /\ Call(<<"unique", l, m>>, list_unique(heap, l, m))
    \/ \E i, j \in 1 .. Len(AsSeq(heap, l)) + 1, b \in Places(m) :
          LET s == Append(AsSeq(heap, l), list_tail(l)) IN
          /\ i < j /\ \A k \in i .. j - 1 : b # s[k]
          /\ Call(<<"splice", b, s[i], s[j]>>, list_splice(heap, b, s[i], s[j]))
ListReturn == op # << >> /\ op' = << >> /\ UNCHANGED heap
ListNext == \/ op = << >> /\ \E l \in ListNames : ListOne(l) \/ \E m \in ListNames : ListTwo(l, m)
            \/ ListReturn

-----------------------------------------------------------------------------
(* The abstract list and the refinement.                                   *)
Abstract == INSTANCE ListSpec WITH seq <- [l \in ListNames |-> AsSeq(heap, l)]

\* list.c: through every sequence of operations, the pointers followed from the head are
\* the sequence that the very operation called promises: an element is put where
\* list_push_front(), list_push_back(), list_insert() or list_insert_ordered() says, the
\* first, the last or the element named goes, list_splice() moves its range to the place
\* named, list_sort() is stable and list_unique() leaves one element of each group.
ImplementsLists == Abstract!Spec

\* list.c: what is read backwards is what is read forwards, and list_size(), list_max()
\* and list_min() give the length and the earliest largest and smallest element.
ListReads ==
    \A l \in ListNames :
        LET s == AsSeq(heap, l)
            Earliest(e, better(_, _)) == \E i \in DOMAIN s :
                /\ s[i] = e
                /\ \A j \in DOMAIN s : ~ better(s[j], e) /\ (j < i => better(e, s[j]))
            More(a, b) == Key[a] > Key[b]
        IN /\ Backward(heap, list_rbegin(heap, l), list_rend(l)) = s
           /\ list_size(heap, l) = Len(s)
           /\ \A i \in DOMAIN s : is_interior(heap, s[i])
           /\ is_head(heap, list_head(l)) /\ is_tail(heap, list_tail(l))
           /\ IF s = << >> THEN list_max(heap, l) = list_tail(l) /\ list_min(heap, l) = list_tail(l)
              ELSE Earliest(list_max(heap, l), More) /\ Earliest(list_min(heap, l), less)
=============================================================================
