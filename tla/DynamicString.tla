------------------------------ MODULE DynamicString ------------------------------
(***************************************************************************)
(* dynamic_string.c, and ge_pow_2() of common.c, as operators on a String: *)
(* its memory, which is a sequence of characters of the size buf_len, and  *)
(* len.  What the allocator leaves in new memory is "junk".                *)
(***************************************************************************)
EXTENDS Naturals, Sequences

CONSTANTS
    InitialBufLen,  \* INITIAL_BUF_LEN
    Width           \* the bits of an unsigned long long

\* 1ULL << n, in as many bits as it takes.
Pow2[n \in Nat] == IF n = 0 THEN 1 ELSE 2 * Pow2[n - 1]

ASSUME DynamicStringAssumption ==
    /\ Width \in Nat \ {0}
    /\ \E b \in 0..Width : InitialBufLen = Pow2[b]

\* __builtin_clzll(), for a number that is not 0.
Clz(n) == CHOOSE z \in 0..Width :
              Pow2[Width - z] > n /\ n >= Pow2[Width - z] \div 2

\* Deliberately wrong variants of an operation, here and below, each followed
\* by the operation: with one in its place a property must fail.

\* Wrong: a power of two is taken for the one below the next.
GePow2Next(n) == IF n < 2 THEN n ELSE Pow2[Width - Clz(n)] % Pow2[Width]

\* ge_pow_2()
GePow2(n) == IF n < 2 THEN n ELSE Pow2[Width - Clz(n - 1)] % Pow2[Width]

Junk(n) == [i \in 1..n |-> "junk"]

\* string_init()
StringInit == [buf |-> [Junk(InitialBufLen) EXCEPT ![1] = "nul"], len |-> 0]

\* text and a null in the memory m, from after place i on.
PrintAt(m, i, text) ==
    [k \in DOMAIN m |->
        CASE k \in (i + 1)..(i + Len(text)) -> text[k - i]
          [] k = i + Len(text) + 1 -> "nul"
          [] OTHER -> m[k]]

\* Wrong: the null is not counted.
FitsWithoutNull(s, text) == s.len + Len(text) <= Len(s.buf)

Fits(s, text) == s.len + Len(text) + 1 <= Len(s.buf)

\* vsnprintf(), which cuts the text off so that it and the null fit.
PrintCut(s, text) ==
    PrintAt(s.buf, s.len, SubSeq(text, 1, (Len(s.buf) - s.len) - 1))

\* erealloc() to the next power of two that can hold the string.
Grown(m, needed) == m \o Junk(GePow2(needed) - Len(m))

\* Wrong: the text is not written again after the buffer has grown.
AppendOnce(s, text) ==
    [buf |-> IF Fits(s, text) THEN PrintAt(s.buf, s.len, text)
             ELSE Grown(PrintCut(s, text), s.len + Len(text) + 1),
     len |-> s.len + Len(text)]

\* string_append_v()
StringAppend(s, text) ==
    [buf |-> IF Fits(s, text) THEN PrintAt(s.buf, s.len, text)
             ELSE PrintAt(Grown(PrintCut(s, text), s.len + Len(text) + 1),
                        s.len, text),
     len |-> s.len + Len(text)]

\* string_set_v()
StringSet(s, text) == StringAppend([s EXCEPT !.len = 0], text)

Contents(s) == SubSeq(s.buf, 1, s.len)
===============================================================================
