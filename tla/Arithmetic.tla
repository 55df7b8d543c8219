----------------------------- MODULE Arithmetic -----------------------------
(***************************************************************************)
(* lib/arithmetic.c of pintos2: division of double words.  A word has W    *)
(* bits (32 in the code), W a power of 2.  Also lib/random.c, its state of *)
(* 256 bytes being one of RandomSize.                                      *)
(***************************************************************************)
EXTENDS Integers, Sequences, FiniteSets

CONSTANTS W, RandomSize

Trap == -1
Word == 2 ^ W
Double == 2 ^ (2 * W)
Shl(x, s) == (x * 2 ^ s) % Double
Shr(x, s) == x \div 2 ^ s

\* The divide error when the quotient does not fit.
divl(n, d) == IF d = 0 THEN Trap ELSE IF n \div d >= Word THEN Trap ELSE n \div d

\* Halving steps of W/2, W/4, ..., 1.
RECURSIVE NlzStep(_, _, _)
NlzStep(x, n, step) ==
    IF step = 0 THEN n
    ELSE IF x <= 2 ^ (W - step) - 1 THEN NlzStep(x * 2 ^ step, n + step, step \div 2)
    ELSE NlzStep(x, n, step \div 2)
nlz(x) == NlzStep(x, 0, W \div 2)

udiv64(n, d) ==
    IF Shr(d, W) = 0
    THEN LET n1 == Shr(n, W) IN divl(Word * (n1 % d) + (n % Word), d) + Word * (n1 \div d)
    ELSE IF n < d THEN 0
    ELSE LET s == nlz(Shr(d, W))
             q == Shr(divl(Shr(n, 1), Shr(Shl(d, s), W)), W - 1 - s)
         IN IF ((n - (q - 1) * d) % Double) < d THEN q - 1 ELSE q
\* The result is a single word.
umod64(n, d) == (n - d * udiv64(n, d)) % Word

Signed(x) == IF x >= Double \div 2 THEN x - Double ELSE x
sdiv64(n, d) ==
    LET Abs(x) == (IF x >= 0 THEN x ELSE - x) % Double
        q == udiv64(Abs(n), Abs(d))
    IN Signed((IF (n < 0) = (d < 0) THEN q ELSE - q) % Double)
\* A single word again, a signed one.
smod64(n, d) == LET r == (n - d * sdiv64(n, d)) % Word IN IF r >= Word \div 2 THEN r - Word ELSE r
\* The names gcc calls.
__divdi3(n, d) == sdiv64(n, d)
__moddi3(n, d) == smod64(n, d)
__udivdi3(n, d) == udiv64(n, d)
__umoddi3(n, d) == umod64(n, d)

\* Quotients are exact, but for the most negative dividend by -1, whose quotient wraps.
\* umod64() and smod64() return a 32-bit word: they give the remainder, with the sign of the
\* dividend, exactly when it fits one.
DivisionExact(n) ==
    /\ \A d \in 1 .. Double - 1 :
          LET q == __udivdi3(n, d) IN
          /\ q * d <= n /\ n < (q + 1) * d
          /\ __umoddi3(n, d) = n - q * d <=> n - q * d < Word
    /\ \A d \in 1 - Double \div 2 .. Double \div 2 - 1 : d # 0 =>
          LET x == Signed(n)
              q == __divdi3(x, d)
              r == x - q * d
          IN IF x = Double \div 2 - Double /\ d = -1 THEN q = x
             ELSE /\ r * r < d * d /\ (r = 0 \/ (r < 0) = (x < 0))
                  /\ __moddi3(x, d) = r <=> r \in - (Word \div 2) .. Word \div 2 - 1

-----------------------------------------------------------------------------
(* lib/random.c                                                            *)
swap_byte(s, i, j) == [s EXCEPT ![i] = s[j], ![j] = s[i]]
RECURSIVE KeySchedule(_, _, _, _)
KeySchedule(s, seed, i, j) ==
    IF i = RandomSize THEN s
    ELSE LET k == (j + s[i] + seed[(i % Len(seed)) + 1]) % RandomSize
         IN KeySchedule(swap_byte(s, i, k), seed, i + 1, k)
random_init(seed) ==
    [s |-> KeySchedule([i \in 0 .. RandomSize - 1 |-> i], seed, 0, 0), i |-> 0, j |-> 0, byte |-> 0]
\* One byte of random_bytes().
random_bytes(r) ==
    LET i == (r.i + 1) % RandomSize
        j == (r.j + r.s[i]) % RandomSize
        s == swap_byte(r.s, i, j)
    IN [s |-> s, i |-> i, j |-> j, byte |-> s[(s[i] + s[j]) % RandomSize]]

RECURSIVE AllPermute(_, _)
AllPermute(r, n) ==
    /\ \A i, k \in DOMAIN r.s : r.s[i] = r.s[k] => i = k
    /\ n = 0 \/ AllPermute(random_bytes(r), n - 1)
=============================================================================
