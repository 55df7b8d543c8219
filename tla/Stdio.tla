------------------------------- MODULE Stdio -------------------------------
(***************************************************************************)
(* lib/stdio.c of pintos2: conversions of printf() as sequences of         *)
(* characters.  A format is a sequence of one-character strings.  CharBits,*)
(* ShortBits and IntBits are the widths of a char (8 in the code), a short *)
(* (16) and an int (32), BufMax the size of format_integer()'s buffer      *)
(* (64), PerLine the bytes on a line of hex_dump() (16).                   *)
(***************************************************************************)
EXTENDS Integers, Sequences, FiniteSets

CONSTANTS CharBits, ShortBits, IntBits, BufMax, PerLine

DecDigit == <<"0", "1", "2", "3", "4", "5", "6", "7", "8", "9">>
DigitSet == {DecDigit[i] : i \in 1 .. 10}
ValueOf(c) == CHOOSE v \in 0 .. 9 : DecDigit[v + 1] = c
Hex(upper) == DecDigit \o (IF upper THEN <<"A", "B", "C", "D", "E", "F">>
                           ELSE <<"a", "b", "c", "d", "e", "f">>)

\* base_d, base_o, base_x and base_X.
IntegerBase(conv) ==
    CASE conv = "o" -> [base |-> 8, digits |-> DecDigit, x |-> "", group |-> 3]
      [] conv = "x" -> [base |-> 16, digits |-> Hex(FALSE), x |-> "x", group |-> 4]
      [] conv = "X" -> [base |-> 16, digits |-> Hex(TRUE), x |-> "X", group |-> 4]
      [] OTHER -> [base |-> 10, digits |-> DecDigit, x |-> "", group |-> 3]

FlagChars == {"-", "+", " ", "#", "0", "'"}
At(f, i) == IF i <= Len(f) THEN f[i] ELSE ""
RECURSIVE FlagsEnd(_, _)
FlagsEnd(f, i) == IF At(f, i) \in FlagChars THEN FlagsEnd(f, i + 1) ELSE i
RECURSIVE Number(_, _, _)
Number(f, i, v) == IF At(f, i) \in DigitSet THEN Number(f, i + 1, v * 10 + ValueOf(f[i]))
                   ELSE [v |-> v, next |-> i]

\* A number or a "*" that takes the next argument.
NumberOrStar(f, i, args) ==
    IF At(f, i) = "*" THEN [v |-> Head(args), next |-> i + 1, args |-> Tail(args)]
    ELSE LET n == Number(f, i, 0) IN [v |-> n.v, next |-> n.next, args |-> args]
TypeAt(f, i) ==
    LET c == At(f, i) IN
    IF c \notin {"h", "j", "l", "t", "z"} THEN [type |-> "int", next |-> i]
    ELSE IF c \in {"h", "l"} /\ At(f, i + 1) = c
    THEN [type |-> IF c = "h" THEN "char" ELSE "longlong", next |-> i + 2]
    ELSE [type |-> CASE c = "h" -> "short" [] c = "l" -> "long" [] c = "j" -> "intmax"
                     [] c = "t" -> "ptrdifft" [] c = "z" -> "sizet",
          next |-> i + 1]

\* The flags, width, precision and type at place i of the format, where the conversion
\* character is, and the arguments left.
parse_conversion(f, i, args) ==
    LET j == FlagsEnd(f, i)
        given == {f[k] : k \in i .. j - 1}
        dropped == (IF "-" \in given THEN {"0"} ELSE {}) \union (IF "+" \in given THEN {" "} ELSE {})
        width == NumberOrStar(f, j, args)
        dot == At(f, width.next) = "."
        prec == IF dot THEN NumberOrStar(f, width.next + 1, width.args)
                ELSE [v |-> -1, next |-> width.next, args |-> width.args]
        precision == IF prec.v < 0 THEN -1 ELSE prec.v
        type == TypeAt(f, prec.next)
    IN [flags |-> ((given \ dropped) \union (IF width.v < 0 THEN {"-"} ELSE {}))
                      \ (IF precision >= 0 THEN {"0"} ELSE {}),
        width |-> IF width.v < 0 THEN - width.v ELSE width.v,
        precision |-> precision, type |-> type.type, next |-> type.next, args |-> prec.args]

output_dup(ch, cnt) == [i \in 1 .. cnt |-> ch]
Backwards(s) == [i \in DOMAIN s |-> s[Len(s) + 1 - i]]

\* The digits, lowest first.
RECURSIVE DigitsOf(_, _, _, _)
DigitsOf(value, b, grouped, cnt) ==
    IF value = 0 THEN << >>
    ELSE (IF grouped /\ cnt > 0 /\ cnt % b.group = 0 THEN <<",">> ELSE << >>)
         \o <<b.digits[(value % b.base) + 1]>> \o DigitsOf(value \div b.base, b, grouped, cnt + 1)

format_integer(value, is_signed, negative, b, c) ==
    LET sign == IF ~ is_signed THEN << >>
                ELSE IF negative THEN <<"-">>
                ELSE IF "+" \in c.flags THEN <<"+">>
                ELSE IF " " \in c.flags THEN <<" ">> ELSE << >>
        x == IF "#" \in c.flags /\ value # 0 /\ b.x # "" THEN <<"0", b.x>> ELSE << >>
        raw == DigitsOf(value, b, "'" \in c.flags, 0)
        precision == IF c.precision < 0 THEN 1 ELSE c.precision
        zeros == (IF precision < BufMax - 1 THEN precision ELSE BufMax - 1) - Len(raw)
        filled == raw \o output_dup("0", zeros)
        octal == "#" \in c.flags /\ b.base = 8 /\ (IF filled = << >> THEN TRUE ELSE filled[Len(filled)] # "0")
        buf == IF octal THEN Append(filled, "0") ELSE filled
        pad == c.width - Len(buf) - Len(x) - Len(sign)
    IN (IF c.flags \intersect {"-", "0"} = {} THEN output_dup(" ", pad) ELSE << >>)
       \o sign \o x
       \o (IF "0" \in c.flags THEN output_dup("0", pad) ELSE << >>)
       \o Backwards(buf)
       \o (IF "-" \in c.flags THEN output_dup(" ", pad) ELSE << >>)

format_string(s, length, c) ==
    LET pad == output_dup(" ", c.width - length)
    IN (IF "-" \notin c.flags THEN pad ELSE << >>) \o SubSeq(s, 1, length)
       \o (IF "-" \in c.flags THEN pad ELSE << >>)

\* What va_arg() and the cast to the type leave of an argument of an int's width.
Unsigned(v, w) == v % 2 ^ w
AsSigned(v, w) == ((v + 2 ^ (w - 1)) % (2 ^ w)) - 2 ^ (w - 1)
TypeBits(type) ==
    CASE type = "char" -> CharBits [] type = "short" -> ShortBits [] OTHER -> IntBits

Convert(conv, c, arg) ==
    CASE conv \in {"d", "i"} ->
           LET v == AsSigned(arg, TypeBits(c.type))
           IN format_integer(IF v < 0 THEN - v ELSE v, TRUE, v < 0, IntegerBase(conv), c)
      [] conv \in {"o", "u", "x", "X"} ->
           format_integer(Unsigned(arg, TypeBits(c.type)), FALSE, FALSE, IntegerBase(conv), c)
      [] conv = "p" -> format_integer(Unsigned(arg, IntBits), FALSE, FALSE, IntegerBase("x"),
                                      [c EXCEPT !.flags = {"#"}])
      [] conv = "c" -> format_string(<<arg>>, 1, c)
      [] conv = "s" -> format_string(arg, IF c.precision < 0 \/ Len(arg) < c.precision
                                          THEN Len(arg) ELSE c.precision, c)
      [] OTHER -> <<"<", "no", conv, ">">>

\* Everything the format writes, from place i on.
RECURSIVE VprintfFrom(_, _, _)
VprintfFrom(f, i, args) ==
    IF i > Len(f) THEN << >>
    ELSE IF f[i] # "%" THEN <<f[i]>> \o VprintfFrom(f, i + 1, args)
    ELSE IF At(f, i + 1) = "%" THEN <<"%">> \o VprintfFrom(f, i + 2, args)
    ELSE LET c == parse_conversion(f, i + 1, args)
             conv == At(f, c.next)
         IN IF conv \in {"d", "i", "o", "u", "x", "X", "p", "c", "s"}
            THEN Convert(conv, c, Head(c.args)) \o VprintfFrom(f, c.next + 1, Tail(c.args))
            ELSE Convert(conv, c, << >>) \o VprintfFrom(f, c.next + 1, c.args)
__vprintf(f, args) == VprintfFrom(f, 1, args)

\* What the buffer holds, up to its null byte, and the value returned.
RECURSIVE vsnprintf_helper(_, _, _)
vsnprintf_helper(aux, out, max_length) ==
    IF out = << >> THEN aux
    ELSE vsnprintf_helper([p |-> IF aux.length < max_length THEN Append(aux.p, Head(out)) ELSE aux.p,
                           length |-> aux.length + 1], Tail(out), max_length)
vsnprintf(buf_size, f, args) ==
    LET aux == vsnprintf_helper([p |-> << >>, length |-> 0], __vprintf(f, args),
                                IF buf_size > 0 THEN buf_size - 1 ELSE 0)
    IN [buffer |-> IF buf_size > 0 THEN Append(aux.p, "\\0") ELSE aux.p, length |-> aux.length]
snprintf(buf_size, f, args) == vsnprintf(buf_size, f, args)

\* The lines of a dump: the offset printed and the bytes in the columns.
RECURSIVE hex_dump(_, _)
hex_dump(ofs, buf) ==
    IF buf = << >> THEN << >>
    ELSE LET start == ofs % PerLine
             n == IF PerLine - start > Len(buf) THEN Len(buf) ELSE PerLine - start
         IN <<[ofs |-> ofs - start, start |-> start, bytes |-> SubSeq(buf, 1, n)]>>
            \o hex_dump(ofs + n, SubSeq(buf, n + 1, Len(buf)))
RECURSIVE HumanReadable(_, _)
HumanReadable(size, units) ==
    IF size >= 1024 /\ Len(units) > 1 THEN HumanReadable(size \div 1024, Tail(units))
    ELSE <<size, Head(units)>>
print_human_readable_size(size) ==
    IF size = 1 THEN <<1, "byte">> ELSE HumanReadable(size, <<"bytes", "kB", "MB", "GB", "TB">>)

-----------------------------------------------------------------------------
(* What the conversions promise.                                           *)
Core(out) == SelectSeq(out, LAMBDA ch : ch \notin {" ", "+", "-", ",", "x", "X"})
RECURSIVE Read(_, _, _)
Read(s, base, v) ==
    IF s = << >> THEN v
    ELSE Read(Tail(s), base, v * base + (CHOOSE d \in 0 .. 15 : Hex(FALSE)[d + 1] = Head(s) \/ Hex(TRUE)[d + 1] = Head(s)))
Count(s, ch) == Cardinality({i \in DOMAIN s : s[i] = ch})

\* "%" flags width .precision type conv, as it is written in a format.
FormatText(flags, width, precision, type, conv) ==
    <<"%">> \o flags \o width \o precision \o type \o <<conv>>

\* What printf() writes for an integer, what the same conversion writes with no width,
\* and how the format is read.
IntegerCall(f, args, conv) ==
    LET c == parse_conversion(f, 2, args) IN
    [c |-> c, conv |-> conv, arg |-> Head(c.args), out |-> __vprintf(f, args),
     bare |-> __vprintf(FormatText(SelectSeq(<<"+", " ", "#", "'">>, LAMBDA ch : ch \in c.flags), << >>,
                            IF c.precision < 0 THEN << >> ELSE <<".">> \o <<DecDigit[c.precision + 1]>>,
                            CASE c.type = "char" -> <<"h", "h">> [] c.type = "short" -> <<"h">> [] OTHER -> << >>, conv), <<Head(c.args)>>)]

\* An integer conversion is at least as wide as asked and no wider than that without
\* need, reads back as the value cut to its type, has the digits its precision asks for,
\* and its pad is on the side the flags say.  Left out is the 0 flag with a negative "*"
\* width, which sets the - flag after the 0 flag has been looked at: both sides are
\* padded then.
IntegerAgrees(r) ==
    LET v == IF r.conv = "d" THEN AsSigned(r.arg, TypeBits(r.c.type)) ELSE Unsigned(r.arg, TypeBits(r.c.type))
        digits == Core(r.out)
    IN /\ Read(digits, IntegerBase(r.conv).base, 0) = IF v < 0 THEN - v ELSE v
       /\ v < 0 <=> Count(r.out, "-") = 1
       /\ Len(digits) >= r.c.precision
       /\ ~ {"-", "0"} \subseteq r.c.flags =>
             /\ Len(r.out) = IF r.c.width > Len(r.bare) THEN r.c.width ELSE Len(r.bare)
             /\ "-" \in r.c.flags => SubSeq(r.out, 1, Len(r.bare)) = r.bare
             /\ "0" \in r.c.flags => Count(r.out, " ") = Count(r.bare, " ")
             /\ r.c.flags \intersect {"-", "0"} = {} =>
                   SubSeq(r.out, Len(r.out) - Len(r.bare) + 1, Len(r.out)) = r.bare

\* The buffers snprintf() fills for every size up to 4, and the whole output.
BufferCall(f, args) == [out |-> __vprintf(f, args), of |-> [size \in 0 .. 4 |-> snprintf(size, f, args)]]

\* The buffer gets a prefix of the output that fits, with its null byte, and the value
\* returned is the length of the output.
BufferAgrees(r) ==
    \A size \in DOMAIN r.of :
        LET buffer == r.of[size].buffer IN
        /\ r.of[size].length = Len(r.out)
        /\ Len(buffer) <= size
        /\ size > 0 => /\ buffer[Len(buffer)] = "\\0"
                       /\ Len(buffer) = (IF Len(r.out) < size THEN Len(r.out) ELSE size - 1) + 1
                       /\ \A i \in 1 .. Len(buffer) - 1 : buffer[i] = r.out[i]

\* Every byte of a dump is printed once, in the column and on the line of its offset.
RECURSIVE Lines(_)
Lines(d) == IF d = << >> THEN << >> ELSE Head(d).bytes \o Lines(Tail(d))
DumpAgrees(ofs, buf) ==
    LET d == hex_dump(ofs, buf) IN
    /\ Lines(d) = buf
    /\ \A i \in DOMAIN d : /\ d[i].start + Len(d[i].bytes) <= PerLine /\ d[i].ofs % PerLine = 0
                           /\ i > 1 => d[i].start = 0 /\ d[i].ofs = d[i - 1].ofs + PerLine
\* A size is printed in the largest unit that leaves it a number, rounded down.
SizeAgrees(size) ==
    LET r == print_human_readable_size(size)
        unit == CASE r[2] \in {"byte", "bytes"} -> 1 [] r[2] = "kB" -> 1024 [] r[2] = "MB" -> 1024 * 1024
                  [] OTHER -> 1024 * 1024 * 1024
    IN r[1] < 1024 /\ r[1] * unit <= size /\ size - r[1] * unit < unit /\ (unit > 1 => r[1] > 0)
=============================================================================
