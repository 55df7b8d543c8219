----------------------------- MODULE MCLibrary -----------------------------
(***************************************************************************)
(* The kernel's library in one run.  A behaviour works with one part: the  *)
(* lists, the hash table, the bitmap or the allocator, which have a state, *)
(* or functions without one, which are called with every input of a small  *)
(* set.                                                                    *)
(***************************************************************************)
EXTENDS KernelList, HashTable, Malloc, TLC

CONSTANTS e1, e2, e3, e4

MCKey == (e1 :> 1) @@ (e2 :> 1) @@ (e3 :> 2) @@ (e4 :> 2)
MCHashKey == [e \in HashElems |-> IF e = 6 THEN 1 ELSE e]
MCHashOf == <<0, 1, 2, 7, 4>>

Strings == INSTANCE CString
Numbers == INSTANCE Arithmetic WITH W <- 4, RandomSize <- 4
Archive == INSTANCE Ustar WITH NameMax <- 3, SizeDigits <- 3, SumDigits <- 2, ULONG_MAX <- 255,
                               INT_MAX <- 127
Format == INSTANCE Stdio WITH CharBits <- 4, ShortBits <- 8, IntBits <- 12, BufMax <- 8, PerLine <- 4

VARIABLES part, given      \* what the behaviour works with, a call of a function: its input, or
                           \* what printf() and snprintf() wrote

-----------------------------------------------------------------------------
Text == {m \in [1 .. 6 -> 0 .. 2] : m[6] = 0}
Names == UNION {[1 .. n -> {"/", ".", "a"}] : n \in 1 .. 4}
Flags == {<< >>} \union {<<f>> : f \in Format!FlagChars} \union {<<f, g>> : f, g \in Format!FlagChars}
Widths == {<< >>, <<"5">>, <<"*">>}
Precisions == {<< >>, <<".", "0">>, <<".", "2">>}

\* A "*" width is -6.
Called(type) == part = type /\ given = << >>
With(x) == given' = <<x>>
CallString == Called("string") /\ \E m \in Text : With(m)
CallDivision == Called("division") /\ \E n \in 0 .. 255 : With(n)
CallArchive == Called("ustar") /\ \E name \in Names, size \in {0, 9, 63} : With([name |-> name, size |-> size])
CallInteger ==
    Called("integer") /\ \E f \in Flags, w \in Widths, p \in Precisions, t \in {<< >>, <<"h">>, <<"h", "h">>},
       conv \in {"d", "o", "x"}, v \in {-9, 0, 5, 300, 1234} :
        LET text == Format!FormatText(f, w, p, t, conv)
            args == IF w = <<"*">> THEN <<-6, v>> ELSE <<v>>
        IN With([integer |-> Format!IntegerCall(text, args, conv), text |-> Format!BufferCall(text, args)])
CallText ==
    Called("text") /\ \E f \in {<< >>, <<"-">>}, w \in Widths, p \in Precisions,
       arg \in {[conv |-> "s", v |-> <<"a", "b", "c">>], [conv |-> "s", v |-> << >>],
                [conv |-> "c", v |-> "a"], [conv |-> "p", v |-> 300], [conv |-> "q", v |-> 0]} :
        With([text |-> Format!BufferCall(<<"a", "%", "%">> \o Format!FormatText(f, w, p, << >>, arg.conv),
                                         IF w = <<"*">> THEN <<-6, arg.v>> ELSE <<arg.v>>)])
CallDump == Called("dump") /\ \E ofs \in 0 .. 6, n \in 0 .. 9 : With([ofs |-> ofs, buf |-> [i \in 1 .. n |-> i]])
CallPools == Called("pools") /\ \E ram \in 0 .. 12, limit \in 0 .. 6 : With(<<ram, limit>>)
Return == given # << >> /\ given' = << >>

memory == <<heap, op, hash, bits, bfile, used_map, arenas, free_list, handed, overrun>>
vars == <<memory, part, given>>
Init == /\ part \in {"list", "hash", "bitmap", "malloc", "string", "division", "ustar", "integer", "text", "dump",
                   "pools"}
        /\ given = << >>
        /\ ListInit /\ HashInit /\ BitmapInit /\ MallocInit
Functions == \/ CallString \/ CallDivision \/ CallArchive \/ CallInteger \/ CallText \/ CallDump \/ CallPools
             \/ Return
Next ==
    \/ Functions /\ UNCHANGED <<memory, part>>
    \/ part = "list" /\ ListNext /\ UNCHANGED <<hash, bits, bfile, mallocVars, part, given>>
    \/ part = "hash" /\ HashNext /\ UNCHANGED <<heap, op, bits, bfile, mallocVars, part, given>>
    \/ part = "bitmap" /\ BitmapNext /\ UNCHANGED <<heap, op, hash, mallocVars, part, given>>
    \/ part = "malloc" /\ MallocNext /\ UNCHANGED <<heap, op, hash, bits, bfile, part, given>>
Spec == Init /\ [][Next]_vars

\* string.c, stdlib.c, arithmetic.c, random.c, ustar.c, stdio.c, palloc_init() and the
\* functions of list.c that only look: every call returns what its comment promises of its input, at
\* the edges too: overlapping blocks, empty strings, sizes that leave no
\* room, the most negative int, quotients that fill a word, names and numbers that do not
\* fit their field, flags, widths and precisions that contradict each other.  The
\* exceptions are part of the formula, each exactly where the code departs from its
\* comment: memmove() that copies up returns the end of the destination (string.c:22, 45),
\* umod64() and smod64() cut the remainder to a word (arithmetic.c:134, 153), and the 0
\* flag with a negative "*" width pads on both sides (stdio.c:390).
CallsAgree ==
    /\ part = "list" => ListReads
    /\ given # << >> =>
        LET x == given[1] IN
        CASE part = "string" -> /\ Strings!CopiesAgree(x) /\ Strings!SearchesAgree(x)
                                /\ Strings!TruncationAgrees(x) /\ Strings!SortAgrees(x)
          [] part = "division" -> /\ Numbers!DivisionExact(x) /\ Strings!AtoiAgrees(x - 128, 8)
                                  /\ Numbers!AllPermute(Numbers!random_init([i \in 1 .. 4 |-> (x \div 4 ^ (i - 1)) % 4]), 5)
          [] part = "ustar" -> Archive!UstarAgrees(x.name, x.size)
          [] part = "integer" -> Format!IntegerAgrees(x.integer) /\ Format!BufferAgrees(x.text)
          [] part = "text" -> Format!BufferAgrees(x.text)
          [] part = "dump" -> Format!DumpAgrees(x.ofs, x.buf) /\ Format!SizeAgrees((x.ofs + 1) ^ Len(x.buf))
          [] part = "pools" -> PoolsAgree(x[1], x[2])
=============================================================================
