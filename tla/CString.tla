------------------------------ MODULE CString ------------------------------
(***************************************************************************)
(* lib/string.c and lib/stdlib.c of pintos2.  Memory is a sequence of      *)
(* bytes, 0 the null byte, and a pointer a place in it; NULL is 0.         *)
(***************************************************************************)
EXTENDS Integers, Sequences, FiniteSets

\* Byte after byte from the front.
RECURSIVE CopyUp(_, _, _, _)
CopyUp(m, dst, src, size) ==
    IF size = 0 THEN m ELSE CopyUp([m EXCEPT ![dst] = m[src]], dst + 1, src + 1, size - 1)
RECURSIVE CopyDown(_, _, _, _)
CopyDown(m, dst, src, size) ==
    IF size = 0 THEN m
    ELSE CopyDown([m EXCEPT ![dst + size - 1] = m[src + size - 1]], dst, src, size - 1)
memcpy(m, dst, src, size) == CopyUp(m, dst, src, size)
\* The memory and the pointer returned, which dst++ has moved when the copy goes up.
memmove(m, dst, src, size) ==
    IF dst < src THEN [mem |-> CopyUp(m, dst, src, size), ret |-> dst + size]
    ELSE [mem |-> CopyDown(m, dst, src, size), ret |-> dst]
RECURSIVE memset(_, _, _, _)
memset(m, dst, value, size) ==
    IF size = 0 THEN m ELSE memset([m EXCEPT ![dst] = value], dst + 1, value, size - 1)

Sign(a, b) == IF a > b THEN 1 ELSE IF a < b THEN -1 ELSE 0
RECURSIVE memcmp(_, _, _, _)
memcmp(m, a, b, size) ==
    IF size = 0 THEN 0
    ELSE IF m[a] # m[b] THEN Sign(m[a], m[b])
    ELSE memcmp(m, a + 1, b + 1, size - 1)
RECURSIVE strcmp(_, _, _)
strcmp(m, a, b) ==
    IF m[a] # 0 /\ m[a] = m[b] THEN strcmp(m, a + 1, b + 1) ELSE Sign(m[a], m[b])
RECURSIVE memchr(_, _, _, _)
memchr(m, block, ch, size) ==
    IF size = 0 THEN 0 ELSE IF m[block] = ch THEN block ELSE memchr(m, block + 1, ch, size - 1)
RECURSIVE strchr(_, _, _)
strchr(m, s, c) == IF m[s] = c THEN s ELSE IF m[s] = 0 THEN 0 ELSE strchr(m, s + 1, c)
RECURSIVE StrrchrFrom(_, _, _, _)
StrrchrFrom(m, s, c, p) ==
    IF m[s] = 0 THEN p ELSE StrrchrFrom(m, s + 1, c, IF m[s] = c THEN s ELSE p)
strrchr(m, s, c) == StrrchrFrom(m, s, c, 0)
RECURSIVE strcspn(_, _, _)
strcspn(m, s, stop) ==
    IF m[s] = 0 THEN 0 ELSE IF strchr(m, stop, m[s]) # 0 THEN 0 ELSE 1 + strcspn(m, s + 1, stop)
RECURSIVE strspn(_, _, _)
strspn(m, s, skip) ==
    IF m[s] = 0 THEN 0 ELSE IF strchr(m, skip, m[s]) = 0 THEN 0 ELSE 1 + strspn(m, s + 1, skip)
RECURSIVE strpbrk(_, _, _)
strpbrk(m, s, stop) ==
    IF m[s] = 0 THEN 0 ELSE IF strchr(m, stop, m[s]) # 0 THEN s ELSE strpbrk(m, s + 1, stop)
RECURSIVE strlen(_, _)
strlen(m, s) == IF m[s] = 0 THEN 0 ELSE 1 + strlen(m, s + 1)
RECURSIVE strnlen(_, _, _)
strnlen(m, s, maxlen) ==
    IF maxlen = 0 THEN 0 ELSE IF m[s] = 0 THEN 0 ELSE 1 + strnlen(m, s + 1, maxlen - 1)
RECURSIVE StrstrFrom(_, _, _, _, _)
StrstrFrom(m, p, needle, len, last) ==
    IF p > last THEN 0
    ELSE IF memcmp(m, p, needle, len) = 0 THEN p
    ELSE StrstrFrom(m, p + 1, needle, len, last)
strstr(m, haystack, needle) ==
    LET h == strlen(m, haystack)
        n == strlen(m, needle)
    IN IF h >= n THEN StrstrFrom(m, haystack, needle, n, haystack + h - n) ELSE 0

\* The next token after save, where the next search starts, and the memory with the
\* delimiter that ended the token replaced.
RECURSIVE SkipDelimiters(_, _, _)
SkipDelimiters(m, s, delimiters) ==
    IF m[s] # 0 /\ strchr(m, delimiters, m[s]) # 0 THEN SkipDelimiters(m, s + 1, delimiters) ELSE s
strtok_r(m, s, delimiters) ==
    LET token == SkipDelimiters(m, s, delimiters)
        end == token + strcspn(m, token, delimiters)
    IN IF m[token] = 0 THEN [token |-> 0, save |-> token, mem |-> m]
       ELSE IF m[end] # 0
       THEN [token |-> token, save |-> end + 1, mem |-> [m EXCEPT ![end] = 0]]
       ELSE [token |-> token, save |-> end, mem |-> m]

Least(a, b) == IF a < b THEN a ELSE b
strlcpy(m, dst, src, size) ==
    LET n == Least(size - 1, strlen(m, src))
    IN IF size > 0 THEN [memcpy(m, dst, src, n) EXCEPT ![dst + n] = 0] ELSE m
\* A mutant: no room is kept for the null byte.
strlcatFull(m, dst, src, size) ==
    LET d == strlen(m, dst)
        n == Least(size - d, strlen(m, src))
    IN IF size > 0 /\ d < size THEN [memcpy(m, dst + d, src, n) EXCEPT ![dst + d + n] = 0] ELSE m
strlcat(m, dst, src, size) ==
    LET d == strlen(m, dst)
        n == Least(size - d - 1, strlen(m, src))
    IN IF size > 0 /\ d < size THEN [memcpy(m, dst + d, src, n) EXCEPT ![dst + d + n] = 0] ELSE m

-----------------------------------------------------------------------------
(* lib/stdlib.c                                                            *)

\* Blanks are 10, signs 11 (+) and 12 (-), digits themselves; int has IntBits bits.
RECURSIVE SkipSpace(_)
SkipSpace(s) == IF s # << >> /\ Head(s) = 10 THEN SkipSpace(Tail(s)) ELSE s
Wrapped(v, w) == ((v + 2 ^ (w - 1)) % (2 ^ w)) - 2 ^ (w - 1)
RECURSIVE ParseDigits(_, _, _)
ParseDigits(s, value, w) ==
    IF s = << >> THEN value
    ELSE IF Head(s) \notin 0 .. 9 THEN value
    ELSE ParseDigits(Tail(s), Wrapped(value * 10 - Head(s), w), w)
atoi(text, w) ==
    LET s == SkipSpace(text)
        signed == s # << >> /\ Head(s) \in {11, 12}
        value == ParseDigits(IF signed THEN Tail(s) ELSE s, 0, w)
    IN IF signed /\ Head(s) = 12 THEN value ELSE Wrapped(- value, w)

\* The elements' own order stands for the caller's function.
compare_thunk(x, y) == Sign(x, y)
do_compare(a, i, j) == compare_thunk(a[i], a[j])
do_swap(a, i, j) == [a EXCEPT ![i] = a[j], ![j] = a[i]]
RECURSIVE heapify(_, _, _)
heapify(a, i, cnt) ==
    LET left == 2 * i
        right == 2 * i + 1
        l == IF left <= cnt THEN (IF do_compare(a, left, i) > 0 THEN left ELSE i) ELSE i
        max == IF right <= cnt THEN (IF do_compare(a, right, l) > 0 THEN right ELSE l) ELSE l
    IN IF max = i THEN a ELSE heapify(do_swap(a, i, max), max, cnt)
RECURSIVE BuildHeap(_, _)
BuildHeap(a, i) == IF i = 0 THEN a ELSE BuildHeap(heapify(a, i, Len(a)), i - 1)
RECURSIVE SortHeap(_, _)
SortHeap(a, i) == IF i <= 1 THEN a ELSE SortHeap(heapify(do_swap(a, 1, i), 1, i - 1), i - 1)
sort(a) == SortHeap(BuildHeap(a, Len(a) \div 2), Len(a))
qsort(a) == sort(a)
RECURSIVE SearchIn(_, _, _, _)
SearchIn(key, a, first, last) ==
    IF first >= last THEN 0
    ELSE LET middle == first + (last - first) \div 2
             cmp == compare_thunk(key, a[middle])
         IN IF cmp < 0 THEN SearchIn(key, a, first, middle)
            ELSE IF cmp > 0 THEN SearchIn(key, a, middle + 1, last)
            ELSE middle
binary_search(key, a) == SearchIn(key, a, 1, Len(a) + 1)
bsearch(key, a) == binary_search(key, a)

-----------------------------------------------------------------------------
(* What the functions promise, for the memory m.                           *)
IsString(m, p) == p \in DOMAIN m /\ \E q \in p .. Len(m) : m[q] = 0
Str(m, p) == SubSeq(m, p, (CHOOSE q \in p .. Len(m) : m[q] = 0 /\ \A r \in p .. q - 1 : m[r] # 0) - 1)
Has(m, p, c) == \E i \in DOMAIN Str(m, p) : Str(m, p)[i] = c
Outside(m, n, dst, size) == \A i \in DOMAIN m \ (dst .. dst + size - 1) : n[i] = m[i]
RECURSIVE Tokens(_, _, _)
Tokens(m, s, d) ==
    LET t == strtok_r(m, s, d)
    IN IF t.token = 0 THEN << >> ELSE <<Str(t.mem, t.token)>> \o Tokens(t.mem, t.save, d)
\* The maximal runs without a delimiter, in order.
RECURSIVE Runs(_, _, _)
Runs(text, run, delim) ==
    LET done == IF run = << >> THEN << >> ELSE <<run>> IN
    IF text = << >> THEN done
    ELSE IF Head(text) \in delim THEN done \o Runs(Tail(text), << >>, delim)
    ELSE Runs(Tail(text), Append(run, Head(text)), delim)

\* string.c:22 says that memmove() "Returns DST": it does so only when it copies down or
\* copies nothing.
CopiesAgree(m) ==
    \A dst, src \in DOMAIN m : \A size \in 0 .. Len(m) - (IF dst > src THEN dst ELSE src) + 1 :
        LET call == memmove(m, dst, src, size)
            moved == call.mem IN
        /\ call.ret = dst <=> (dst >= src \/ size = 0)
        /\ Outside(m, moved, dst, size)
        /\ \A i \in 0 .. size - 1 : moved[dst + i] = m[src + i]
        /\ (dst + size <= src \/ src + size <= dst) => memcpy(m, dst, src, size) = moved
        /\ memcmp(m, dst, src, size) = 0 <=> \A i \in 0 .. size - 1 : m[dst + i] = m[src + i]
SearchesAgree(m) ==
    \A a, b \in DOMAIN m : IsString(m, a) /\ IsString(m, b) =>
        LET s == Str(m, a)
            t == Str(m, b)
            Occurs(i) == i + Len(t) - 1 <= Len(s) /\ SubSeq(s, i, i + Len(t) - 1) = t
            first == strstr(m, a, b)
        IN /\ strlen(m, a) = Len(s)
           /\ strcmp(m, a, b) = 0 <=> s = t
           /\ IF first = 0 THEN \A i \in 1 .. Len(s) + 1 : ~ Occurs(i)
              ELSE Occurs(first - a + 1) /\ \A i \in 1 .. first - a : ~ Occurs(i)
           /\ strspn(m, a, b) = Len(s) \/ ~ Has(m, b, s[strspn(m, a, b) + 1])
           /\ strcspn(m, a, b) = Len(s) \/ Has(m, b, s[strcspn(m, a, b) + 1])
           /\ strpbrk(m, a, b) = 0 <=> \A i \in DOMAIN s : ~ Has(m, b, s[i])
           /\ \A c \in {m[i] : i \in DOMAIN m} \ {0} :
                 /\ strchr(m, a, c) = 0 <=> ~ Has(m, a, c)
                 /\ strrchr(m, a, c) = 0 <=> ~ Has(m, a, c)
                 /\ strchr(m, a, c) <= strrchr(m, a, c)
           /\ (a + Len(s) < b \/ b + Len(t) < a) =>
                 Tokens(m, a, b) = Runs(s, << >>, {t[i] : i \in DOMAIN t})
\* Source and destination do not overlap.
TruncationAgrees(m) ==
    \A dst, src \in DOMAIN m : \A size \in 0 .. Len(m) - dst + 1 :
        IsString(m, src) /\ (dst + size <= src \/ src + strlen(m, src) < dst) =>
            LET copied == strlcpy(m, dst, src, size)
                joined == strlcat(m, dst, src, size)
            IN /\ Outside(m, copied, dst, size)
               /\ size > 0 => Str(copied, dst) = SubSeq(m, src, src + Least(size - 1, strlen(m, src)) - 1)
               /\ IsString(m, dst) /\ dst + strlen(m, dst) < src =>
                     /\ Outside(m, joined, dst, size)
                     /\ strlen(m, dst) < size =>
                           Str(joined, dst) = SubSeq(Str(m, dst) \o Str(m, src), 1,
                                                     Least(size - 1, strlen(m, dst) + strlen(m, src)))
\* An int of w bits, the most negative one included, is read back from its decimal form.
RECURSIVE Digits(_)
Digits(v) == IF v < 10 THEN <<v>> ELSE Append(Digits(v \div 10), v % 10)
AtoiAgrees(v, w) ==
    IF v < 0 THEN atoi(<<10, 12>> \o Digits(- v) \o <<10>>, w) = v
    ELSE atoi(<<11>> \o Digits(v), w) = v /\ atoi(Digits(v), w) = v
SortAgrees(m) ==
    LET a == qsort(m) IN
    /\ \A i, j \in DOMAIN a : i < j => a[i] <= a[j]
    /\ \A c \in 0 .. 12 : Cardinality({i \in DOMAIN a : a[i] = c}) = Cardinality({i \in DOMAIN m : m[i] = c})
    /\ \A key \in 0 .. 12 : LET at == bsearch(key, a)
                            IN IF at = 0 THEN \A i \in DOMAIN a : a[i] # key ELSE a[at] = key
=============================================================================
