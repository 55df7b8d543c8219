------------------------------ MODULE ListSpec ------------------------------
(***************************************************************************)
(* What lib/kernel/list.c promises: lists are sequences of elements, each  *)
(* element on at most one list.  Key is what the comparison function       *)
(* compares.  op is the operation called last with its arguments, so that  *)
(* a step is held to what that very operation promises; Return forgets it. *)
(***************************************************************************)
EXTENDS Integers, Sequences, FiniteSets, SequencesExt

CONSTANTS ListNames, Elems, Key

VARIABLES seq, op

OnNone(e) == \A l \in ListNames : e \notin ToSet(seq[l])
Ordered(s) == \A i, j \in DOMAIN s : i < j => Key[s[i]] <= Key[s[j]]
\* Where an element is on its list; the end of the list is a place behind the last.
End(l) == <<"tail", l>>
Place(l, e) == IF e = End(l) THEN Len(seq[l]) + 1 ELSE CHOOSE i \in DOMAIN seq[l] : seq[l][i] = e
Places(l) == ToSet(seq[l]) \union {End(l)}
\* Elements that compare equal keep their order.
StableSort(s) ==
    CHOOSE t \in SetToSeqs(ToSet(s)) :
        /\ Ordered(t)
        /\ \A i, j \in DOMAIN t : i < j /\ Key[t[i]] = Key[t[j]] =>
               \E k, m \in DOMAIN s : k < m /\ s[k] = t[i] /\ s[m] = t[j]
\* The first of each group of neighbours that compare equal, and the others.
Firsts(s) == {i \in DOMAIN s : i = 1 \/ Key[s[i - 1]] # Key[s[i]]}
Pick(s, I) == [k \in 1 .. Cardinality(I) |->
                 s[CHOOSE i \in I : Cardinality({j \in I : j < i}) = k - 1]]

Init == seq = [l \in ListNames |-> << >>] /\ op = << >>

Called(name, l, s) == op' = <<name, l>> /\ seq' = [seq EXCEPT ![l] = s]
CalledWith(name, l, e, s) == op' = <<name, l, e>> /\ seq' = [seq EXCEPT ![l] = s]

PushFront(l, e) == OnNone(e) /\ CalledWith("push_front", l, e, <<e>> \o seq[l])
PushBack(l, e) == OnNone(e) /\ CalledWith("push_back", l, e, Append(seq[l], e))
\* E goes right before BEFORE.
Insert(l, before, e) ==
    /\ OnNone(e) /\ op' = <<"insert", l, before, e>>
    /\ seq' = [seq EXCEPT ![l] = InsertAt(@, Place(l, before), e)]
\* Into a list in order, after the elements that compare equal.
InsertOrdered(l, e) ==
    /\ OnNone(e) /\ Ordered(seq[l])
    /\ LET after == Cardinality({i \in DOMAIN seq[l] : Key[seq[l][i]] <= Key[e]})
       IN CalledWith("insert_ordered", l, e, InsertAt(seq[l], after + 1, e))
Removed(l, e) == e \in ToSet(seq[l]) /\ CalledWith("remove", l, e, RemoveAt(seq[l], Place(l, e)))
PopFront(l) == seq[l] # << >> /\ Called("pop_front", l, Tail(seq[l]))
PopBack(l) == seq[l] # << >> /\ Called("pop_back", l, Front(seq[l]))
Reversed(l) == Called("reverse", l, Reverse(seq[l]))
Sorted(l) == Called("sort", l, StableSort(seq[l]))
\* The duplicates go behind the elements of list d, if one is given.
Unique(l, d) ==
    LET s == seq[l]
        first == [seq EXCEPT ![l] = Pick(s, Firsts(s))]
    IN /\ op' = <<"unique", l, d>>
       /\ seq' = IF d \notin ListNames THEN first
                 ELSE [first EXCEPT ![d] = @ \o Pick(s, DOMAIN s \ Firsts(s))]
\* The elements of list l from FIRST up to, and without, LAST go right before BEFORE, which
\* is none of them, on list m.
Splice(l, first, last, m, before) ==
    LET i == Place(l, first)
        j == Place(l, last)
        k == Place(m, before)
        moved == SubSeq(seq[l], i, j - 1)
        left == [seq EXCEPT ![l] = SubSeq(@, 1, i - 1) \o SubSeq(@, j, Len(@))]
        at == IF l = m /\ k >= j THEN k - (j - i) ELSE k
    IN /\ i < j /\ before \notin ToSet(moved)
       /\ op' = <<"splice", before, first, last>>
       /\ seq' = [left EXCEPT ![m] = SubSeq(@, 1, at - 1) \o moved \o SubSeq(@, at, Len(@))]
Return == op' = << >> /\ UNCHANGED seq

Next ==
    \/ Return
    \/ \E l \in ListNames :
        \/ \E e \in Elems : \/ PushFront(l, e) \/ PushBack(l, e) \/ InsertOrdered(l, e) \/ Removed(l, e)
                            \/ \E before \in Places(l) : Insert(l, before, e)
        \/ PopFront(l) \/ PopBack(l) \/ Reversed(l) \/ Sorted(l) \/ Unique(l, "NULL")
        \/ \E m \in ListNames :
              \/ m # l /\ Unique(l, m)
              \/ \E first, last \in Places(l), before \in Places(m) : Splice(l, first, last, m, before)

Spec == Init /\ [][Next]_<<seq, op>>
=============================================================================
