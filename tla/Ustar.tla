------------------------------- MODULE Ustar -------------------------------
(***************************************************************************)
(* lib/ustar.c of pintos2.  A header is its fields, sequences of           *)
(* characters; the fields that are the same in every header are left out   *)
(* of the sum.  NameMax is the longest name (99 in the code), SizeDigits   *)
(* and SumDigits the digits of an octal field (11 and 7), ULONG_MAX and    *)
(* INT_MAX the limits of the types.                                        *)
(***************************************************************************)
EXTENDS Integers, Sequences, FiniteSets

CONSTANTS NameMax, SizeDigits, SumDigits, ULONG_MAX, INT_MAX

Fail == -1
Starts(s, t) == Len(s) >= Len(t) /\ SubSeq(s, 1, Len(t)) = t
RECURSIVE AfterSlash(_)
AfterSlash(s) == IF Head(s) = "/" THEN Tail(s) ELSE AfterSlash(Tail(s))
RECURSIVE StripFrom(_)
StripFrom(s) ==
    IF Starts(s, <<"/">>) \/ Starts(s, <<".", "/">>) \/ Starts(s, <<".", ".", "/">>)
    THEN StripFrom(AfterSlash(s)) ELSE s
strip_antisocial_prefixes(file_name) ==
    LET s == StripFrom(file_name) IN IF s = << >> \/ s = <<".", ".">> THEN <<".">> ELSE s

RECURSIVE OctalDigits(_, _)
OctalDigits(v, n) == IF n = 0 THEN << >> ELSE Append(OctalDigits(v \div 8, n - 1), v % 8)

\* What the characters add to the sum.
NameCode(c) == IF c = "/" THEN 7 ELSE IF c = "." THEN 6 ELSE 9
RECURSIVE SumOf(_)
SumOf(s) == IF s = << >> THEN 0 ELSE Head(s) + SumOf(Tail(s))
TypeCode(t) == IF t = "regular" THEN 0 ELSE IF t = "directory" THEN 5 ELSE 2
calculate_chksum(h) ==
    SumOf([i \in DOMAIN h.name |-> NameCode(h.name[i])]) + SumOf(h.size) + TypeCode(h.typeflag)

ustar_make_header(file_name, type, size) ==
    LET name == strip_antisocial_prefixes(file_name)
        h == [magic |-> TRUE, name |-> name, size |-> OctalDigits(size, SizeDigits), typeflag |-> type,
              chksum |-> << >>]
    IN IF Len(name) > NameMax THEN << >>
       ELSE <<[h EXCEPT !.chksum = OctalDigits(calculate_chksum(h), SumDigits)]>>

\* Digits up to the end of the field; 9 stands for any other character.
RECURSIVE ParseOctal(_, _)
ParseOctal(s, value) ==
    IF s = << >> THEN value
    ELSE IF Head(s) \notin 0 .. 7 \/ value > ULONG_MAX \div 8 THEN Fail
    ELSE ParseOctal(Tail(s), Head(s) + value * 8)
parse_octal_field(s) == IF s = << >> THEN Fail ELSE ParseOctal(s, 0)

\* A sector of zeros, which ends an archive.
Zeros == [magic |-> FALSE, name |-> << >>, size |-> << >>, typeflag |-> "", chksum |-> << >>]
is_all_zeros(h) == h = Zeros

\* The file, or nothing where the code returns an error message.
ustar_parse_header(h) ==
    LET chksum == parse_octal_field(h.chksum)
        size == IF h.typeflag = "regular" THEN parse_octal_field(h.size) ELSE 0
    IN IF is_all_zeros(h) THEN <<[name |-> << >>, type |-> "eof", size |-> 0]>>
       ELSE IF \/ ~ h.magic \/ chksum = Fail \/ chksum # calculate_chksum(h)
               \/ Len(h.name) > NameMax \/ h.typeflag \notin {"regular", "directory"}
               \/ size = Fail \/ size > INT_MAX
       THEN << >>
       ELSE <<[name |-> strip_antisocial_prefixes(h.name), type |-> h.typeflag, size |-> size]>>

\* What was archived comes back, under a name that stays in the directory; a header
\* one digit of whose size has changed is refused.
UstarAgrees(file_name, size) ==
    \A type \in {"regular", "directory"} :
        LET made == ustar_make_header(file_name, type, size)
            h == made[1]
            name == strip_antisocial_prefixes(file_name)
        IN IF made = << >> THEN Len(name) > NameMax
           ELSE /\ ustar_parse_header(Zeros)[1].type = "eof"
                /\ ustar_parse_header(h) = <<[name |-> name, type |-> type,
                                              size |-> IF type = "regular" THEN size ELSE 0]>>
                /\ ~ Starts(name, <<"/">>) /\ ~ Starts(name, <<".", ".", "/">>)
                /\ name # <<".", ".">> /\ name # << >>
                /\ \A i \in 1 .. SizeDigits, d \in (0 .. 7) \union {9} : d # h.size[i] =>
                       ustar_parse_header([h EXCEPT !.size[i] = d]) = << >>
=============================================================================
