------------------------------- MODULE Bitmap -------------------------------
(***************************************************************************)
(* lib/kernel/bitmap.c of pintos2: BitCnt bits in elements of ElemBits     *)
(* bits (32 in the code), and a file they are written to and read from.    *)
(* An element is the set of its 1 bits and takes ElemBytes (4), a struct   *)
(* bitmap takes HeaderBytes (8).                                           *)
(***************************************************************************)
EXTENDS Integers, FiniteSets

CONSTANTS BitCnt, ElemBits, ElemBytes, HeaderBytes

ASSUME BitmapAssumption == BitCnt \in Nat /\ ElemBits \in Nat \ {0}

VARIABLES bits, bfile

BITMAP_ERROR == -1
elem_idx(i) == i \div ElemBits
bit_mask(i) == {i % ElemBits}
elem_cnt(n) == (n + ElemBits - 1) \div ElemBits
byte_cnt(n) == ElemBytes * elem_cnt(n)
bitmap_buf_size(n) == HeaderBytes + byte_cnt(n)
last_mask == IF BitCnt % ElemBits # 0 THEN 0 .. (BitCnt % ElemBits) - 1 ELSE 0 .. ElemBits - 1
Elements == 0 .. elem_cnt(BitCnt) - 1

bitmap_mark(b, i) == [b EXCEPT ![elem_idx(i)] = @ \union bit_mask(i)]
bitmap_reset(b, i) == [b EXCEPT ![elem_idx(i)] = @ \ bit_mask(i)]
bitmap_flip(b, i) == [b EXCEPT ![elem_idx(i)] = (@ \ bit_mask(i)) \union (bit_mask(i) \ @)]
bitmap_set(b, i, value) == IF value THEN bitmap_mark(b, i) ELSE bitmap_reset(b, i)
bitmap_test(b, i) == b[elem_idx(i)] \intersect bit_mask(i) # {}

bitmap_set_multiple(b, start, cnt, value) ==
    LET set[n \in 0 .. cnt] == IF n = 0 THEN b ELSE bitmap_set(set[n - 1], start + n - 1, value)
    IN set[cnt]
bitmap_set_all(b, value) == bitmap_set_multiple(b, 0, BitCnt, value)
bitmap_create == bitmap_set_all([e \in Elements |-> {}], FALSE)

bitmap_count(b, start, cnt, value) ==
    Cardinality({i \in start .. start + cnt - 1 : bitmap_test(b, i) = value})
bitmap_contains(b, start, cnt, value) ==
    \E i \in start .. start + cnt - 1 : bitmap_test(b, i) = value
bitmap_any(b, start, cnt) == bitmap_contains(b, start, cnt, TRUE)
bitmap_none(b, start, cnt) == ~ bitmap_contains(b, start, cnt, TRUE)
bitmap_all(b, start, cnt) == ~ bitmap_contains(b, start, cnt, FALSE)

\* A mutant: the last group that fits is not tried.
bitmap_scanShort(b, start, cnt, value) ==
    LET found == {i \in start .. BitCnt - cnt - 1 : ~ bitmap_contains(b, i, cnt, ~ value)}
    IN IF cnt > BitCnt \/ found = {} THEN BITMAP_ERROR
       ELSE CHOOSE i \in found : \A j \in found : i <= j
bitmap_scan(b, start, cnt, value) ==
    LET found == {i \in start .. BitCnt - cnt : ~ bitmap_contains(b, i, cnt, ~ value)}
    IN IF cnt > BitCnt \/ found = {} THEN BITMAP_ERROR
       ELSE CHOOSE i \in found : \A j \in found : i <= j
bitmap_scan_and_flip(b, start, cnt, value) ==
    LET i == bitmap_scan(b, start, cnt, value)
    IN IF i = BITMAP_ERROR THEN b ELSE bitmap_set_multiple(b, i, cnt, ~ value)

bitmap_write(b) == b
bitmap_read(f) == [f EXCEPT ![elem_cnt(BitCnt) - 1] = @ \intersect last_mask]

BitmapInit == bits = bitmap_create /\ bfile = [e \in Elements |-> 0 .. ElemBits - 1]
BitmapNext ==
    \/ \E i \in 0 .. BitCnt - 1, v \in BOOLEAN : bits' = bitmap_set(bits, i, v) /\ UNCHANGED bfile
    \/ \E i \in 0 .. BitCnt - 1 : bits' = bitmap_flip(bits, i) /\ UNCHANGED bfile
    \/ \E start \in 0 .. BitCnt, cnt \in 0 .. BitCnt, v \in BOOLEAN :
          /\ start + cnt <= BitCnt
          /\ bits' = bitmap_set_multiple(bits, start, cnt, v) /\ UNCHANGED bfile
    \/ \E start \in 0 .. BitCnt, cnt \in 0 .. BitCnt + 1, v \in BOOLEAN :
          bits' = bitmap_scan_and_flip(bits, start, cnt, v) /\ UNCHANGED bfile
    \/ bfile' = bitmap_write(bits) /\ UNCHANGED bits
    \/ bits' = bitmap_read(bfile) /\ UNCHANGED bfile

BitmapSpec == BitmapInit /\ [][BitmapNext]_<<bits, bfile>>

-----------------------------------------------------------------------------
\* The array of bits a bitmap stands for.
BitAt(e, i) == i % ElemBits \in e[i \div ElemBits]
IsGroup(i, cnt, v) == i + cnt <= BitCnt /\ \A j \in i .. i + cnt - 1 : BitAt(bits, j) = v

\* bitmap_scan() and bitmap_scan_and_flip(): the first group at or after START that
\* fits before the end, BITMAP_ERROR exactly when there is none, and no bit outside the
\* group changes; no bit beyond the last one is ever 1, whatever the file held.
BitmapScans ==
    /\ \A start \in 0 .. BitCnt, cnt \in 0 .. BitCnt + 1, v \in BOOLEAN :
          LET i == bitmap_scan(bits, start, cnt, v)
              after == bitmap_scan_and_flip(bits, start, cnt, v)
          IN IF i = BITMAP_ERROR
             THEN /\ \A j \in start .. BitCnt : ~ IsGroup(j, cnt, v)
                  /\ after = bits
             ELSE /\ i >= start /\ IsGroup(i, cnt, v)
                  /\ \A j \in start .. i - 1 : ~ IsGroup(j, cnt, v)
                  /\ \A j \in 0 .. BitCnt - 1 :
                        BitAt(after, j) = IF j \in i .. i + cnt - 1 THEN ~ v ELSE BitAt(bits, j)
    /\ \A e \in Elements : \A k \in bits[e] : e * ElemBits + k < BitCnt
    /\ \A v \in BOOLEAN : bitmap_count(bits, 0, BitCnt, v) =
                              Cardinality({i \in 0 .. BitCnt - 1 : BitAt(bits, i) = v})
=============================================================================
