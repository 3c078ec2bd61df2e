------------------------------ MODULE OutputProofs ------------------------------
(***************************************************************************)
(* For buffers and messages of any size: a message is put together without *)
(* leaving its buffer, the buffer grows no more than it must, and the      *)
(* messages reach the server as Channel says.                              *)
(***************************************************************************)
EXTENDS Output, OrderedProofs

-------------------------------------------------------------------------------
(* Powers of two.  That the recursive function exists is proved first, by  *)
(* the least number for which it would not.                                *)

\* The powers of two up to 2^n.
Powers(g, n) == g[0] = 1 /\ \A k \in 1..n : g[k] = 2 * g[k - 1]

LEMMA PowersExist == \A n \in Nat : \E g \in [0..n -> Nat] : Powers(g, n)
<1> DEFINE T == {n \in Nat : ~\E g \in [0..n -> Nat] : Powers(g, n)}
<1>1. SUFFICES ASSUME T # {} PROVE FALSE
  OBVIOUS
<1>2. PICK m \in T : \A n \in T : m <= n
  BY <1>1, Least
<1>3. m # 0
  <2> DEFINE g == [k \in 0..0 |-> 1]
  <2>1. g \in [0..0 -> Nat] /\ Powers(g, 0)
    BY DEF Powers
  <2> QED
    BY <2>1
<1>4. m \in Nat /\ m - 1 \in Nat /\ m - 1 \notin T
  BY <1>2, <1>3
<1>5. PICK g \in [0..(m - 1) -> Nat] : Powers(g, m - 1)
  BY <1>4
<1> DEFINE h == [k \in 0..m |-> IF k = m THEN 2 * g[m - 1] ELSE g[k]]
<1>6. h \in [0..m -> Nat]
  BY <1>3, <1>4
<1>7. Powers(h, m)
  <2>1. h[0] = 1
    BY <1>3, <1>4, <1>5 DEF Powers
  <2>2. ASSUME NEW k \in 1..m PROVE h[k] = 2 * h[k - 1]
    <3>1. k - 1 \in 0..m /\ k - 1 # m /\ h[k - 1] = g[k - 1]
      BY <1>4
    <3>2. CASE k = m
      BY <3>1, <3>2, <1>4
    <3>3. CASE k # m
      <4>1. k \in 1..(m - 1) /\ k \in 0..m /\ h[k] = g[k]
        BY <1>4, <3>3
      <4>2. g[k] = 2 * g[k - 1]
        BY <1>5, <4>1 DEF Powers
      <4> QED
        BY <3>1, <4>1, <4>2
    <3> QED
      BY <3>2, <3>3
  <2> QED
    BY <2>1, <2>2 DEF Powers
<1> QED
  BY <1>2, <1>6, <1>7

LEMMA PowersAgree ==
    ASSUME NEW n \in Nat, NEW p \in Nat, NEW g, NEW h, Powers(g, n), Powers(h, p),
           NEW k \in 0..n, k <= p
    PROVE  g[k] = h[k]
<1> DEFINE T == {i \in Nat : i <= n /\ i <= p /\ g[i] # h[i]}
<1>1. SUFFICES ASSUME T # {} PROVE FALSE
  OBVIOUS
<1>2. PICK m \in T : \A i \in T : m <= i
  BY <1>1, Least
<1>3. m # 0
  BY DEF Powers
<1>4. m - 1 \notin T /\ m \in 1..n /\ m \in 1..p
  BY <1>2, <1>3
<1>5. g[m - 1] = h[m - 1]
  BY <1>4
<1>6. g[m] = 2 * g[m - 1] /\ h[m] = 2 * h[m - 1]
  BY <1>4 DEF Powers
<1> QED
  BY <1>2, <1>5, <1>6

LEMMA Pow2Is == Pow2 = [n \in Nat |-> IF n = 0 THEN 1 ELSE 2 * Pow2[n - 1]]
<1> DEFINE G(n) == CHOOSE g \in [0..n -> Nat] : Powers(g, n)
           F == [n \in Nat |-> G(n)[n]]
<1>1. \A n \in Nat : Powers(G(n), n)
  BY PowersExist
<1> HIDE DEF G
<1>2. ASSUME NEW n \in Nat, n # 0 PROVE F[n] = 2 * F[n - 1]
  <2>1. n - 1 \in Nat /\ n \in 1..n
    BY <1>2
  <2>2. G(n)[n] = 2 * G(n)[n - 1]
    BY <1>1, <2>1 DEF Powers
  <2>3. G(n)[n - 1] = G(n - 1)[n - 1]
    <3>1. Powers(G(n), n) /\ Powers(G(n - 1), n - 1)
      BY <1>1, <2>1
    <3>2. n - 1 \in 0..n /\ n - 1 <= n - 1
      BY <2>1
    <3> QED
      BY <2>1, <3>1, <3>2, PowersAgree
  <2> QED
    BY <2>1, <2>2, <2>3
<1>3. F[0] = 1
  BY <1>1 DEF Powers
<1>4. F = [n \in Nat |-> IF n = 0 THEN 1 ELSE 2 * F[n - 1]]
  BY <1>2, <1>3
<1> HIDE DEF F
<1> QED
  BY <1>4 DEF Pow2

LEMMA Pow2Facts ==
    /\ Pow2[0] = 1
    /\ \A n \in Nat : Pow2[n] \in Nat \ {0} /\ Pow2[n + 1] = 2 * Pow2[n]
<1>1. Pow2[0] = 1 /\ \A n \in Nat : Pow2[n + 1] = 2 * Pow2[n]
  BY Pow2Is
<1>2. \A n \in Nat : Pow2[n] \in Nat \ {0}
  <2> DEFINE T == {n \in Nat : Pow2[n] \notin Nat \ {0}}
  <2>1. SUFFICES ASSUME T # {} PROVE FALSE
    OBVIOUS
  <2>2. PICK m \in T : \A n \in T : m <= n
    BY <2>1, Least
  <2>3. m # 0
    BY <1>1
  <2>4. m - 1 \in Nat /\ Pow2[m - 1] \in Nat \ {0}
    BY <2>2, <2>3
  <2>5. Pow2[m] = 2 * Pow2[m - 1]
    BY <1>1, <2>2, <2>4
  <2> QED
    BY <2>2, <2>4, <2>5
<1> QED
  BY <1>1, <1>2

\* __builtin_clzll() is defined for what it is given.
LEMMA ClzFacts ==
    ASSUME NEW n \in Nat \ {0}, n < Pow2[Width - 1]
    PROVE  /\ Clz(n) \in 0..Width
           /\ Pow2[Width - Clz(n)] > n /\ n >= Pow2[Width - Clz(n)] \div 2
<1>1. Width \in Nat \ {0}
  BY DynamicStringAssumption
<1> DEFINE T == {w \in Nat : Pow2[w] > n}
<1>2. Width - 1 \in T
  BY <1>1, Pow2Facts
<1>3. PICK m \in T : \A w \in T : m <= w
  <2>1. T \in SUBSET Nat /\ T # {}
    BY <1>2
  <2> HIDE DEF T
  <2> QED
    BY <2>1, Least
<1>4. m # 0 /\ m <= Width - 1
  BY <1>2, <1>3, Pow2Facts
<1>5. m - 1 \in Nat /\ m - 1 \notin T
  BY <1>3, <1>4
<1>6. Pow2[m - 1] <= n /\ Pow2[m] = 2 * Pow2[m - 1]
  BY <1>5, Pow2Facts
<1>7. Pow2[m] \div 2 <= n
  BY <1>5, <1>6, Pow2Facts
<1>8. /\ Width - m \in 0..Width /\ Width - (Width - m) = m
      /\ Pow2[Width - (Width - m)] > n /\ n >= Pow2[Width - (Width - m)] \div 2
  BY <1>1, <1>3, <1>4, <1>7, Pow2Facts
<1> HIDE DEF T
<1> QED
  BY <1>8 DEF Clz

\* ge_pow_2() returns the least power of two that is not less, of a number for
\* which there is one.
LEMMA GePow2Facts ==
    ASSUME NEW n \in Nat \ {0}, n <= Pow2[Width - 1]
    PROVE  /\ \E b \in 0..Width : GePow2(n) = Pow2[b]
           /\ GePow2(n) \in Nat /\ GePow2(n) >= n /\ GePow2(n) \div 2 < n
<1>1. Width \in Nat \ {0}
  BY DynamicStringAssumption
<1>2. CASE n = 1
  <2>1. GePow2(n) = 1 /\ 0 \in 0..Width
    BY <1>1, <1>2 DEF GePow2
  <2> QED
    BY <1>2, <2>1, Pow2Facts
<1>3. CASE n # 1
  <2> DEFINE w == Width - Clz(n - 1)
  <2>1. n - 1 \in Nat \ {0} /\ n - 1 < Pow2[Width - 1]
    BY <1>1, <1>3, Pow2Facts
  <2>2. w \in 0..Width /\ Pow2[w] > n - 1 /\ n - 1 >= Pow2[w] \div 2
    BY <1>1, <2>1, ClzFacts
  <2>3. Pow2[w] \in Nat /\ Pow2[Width - 1] \in Nat /\ Pow2[Width] = 2 * Pow2[Width - 1]
    <3>1. w \in Nat /\ Width - 1 \in Nat /\ Width = (Width - 1) + 1
      BY <1>1, <2>2
    <3> QED
      BY <3>1, Pow2Facts
  <2>4. GePow2(n) = Pow2[w] % Pow2[Width]
    BY <1>3 DEF GePow2
  <2> HIDE DEF w
  <2>5. Pow2[w] < Pow2[Width]
    BY <2>1, <2>2, <2>3
  <2>6. GePow2(n) = Pow2[w]
    BY <2>3, <2>4, <2>5
  <2> QED
    BY <2>2, <2>3, <2>6
<1> QED
  BY <1>2, <1>3

-------------------------------------------------------------------------------
(* Strings *)

Byte == Char \cup {"nul", "junk"}

\* A string but for its null.
Usable(s) ==
    /\ s \in [buf : Seq(Byte), len : Nat]
    /\ s.len < Len(s.buf)
    /\ \A i \in 1..s.len : s.buf[i] \in Char

LEMMA TextFacts ==
    /\ \A p \in Piece : p \in Seq(Char) /\ Len(p) \in Nat /\ Len(p) <= MaxLen
    /\ Crlf \in Seq(Char) /\ Len(Crlf) = 2
<1>1. ASSUME NEW p \in Piece
      PROVE  p \in Seq(Char) /\ Len(p) \in Nat /\ Len(p) <= MaxLen
  <2>1. p \in Seq(STRING) /\ Len(p) <= MaxLen
    BY OutputAssumption
  <2>2. Len(p) \in Nat /\ DOMAIN p = 1..Len(p) /\ p = [i \in 1..Len(p) |-> p[i]]
    BY <2>1
  <2>3. \A i \in 1..Len(p) : p[i] \in Char
    BY <2>2 DEF Char
  <2> QED
    BY <2>1, <2>2, <2>3
<1>2. Crlf \in Seq(Char) /\ Len(Crlf) = 2
  <2>1. Crlf \in Seq({"\r", "\n"}) /\ Len(Crlf) = 2
    BY DEF Crlf
  <2>2. {"\r", "\n"} \subseteq Char
    <3>1. DOMAIN Crlf = 1..2 /\ Crlf[1] = "\r" /\ Crlf[2] = "\n"
      BY DEF Crlf
    <3>2. Crlf[1] \in Char /\ Crlf[2] \in Char
      BY <3>1 DEF Char
    <3> QED
      BY <3>1, <3>2
  <2> QED
    BY <2>1, <2>2, SeqMonotonic
<1> QED
  BY <1>1, <1>2

\* Printing leaves what is before and puts text and null after it.
LEMMA PrintAtFacts ==
    ASSUME NEW m \in Seq(Byte), NEW i \in Nat, NEW text \in Seq(Char),
           i + Len(text) + 1 <= Len(m), NEW r, r = PrintAt(m, i, text)
    PROVE  /\ r \in Seq(Byte) /\ Len(r) = Len(m)
           /\ \A k \in 1..i : r[k] = m[k]
           /\ \A k \in 1..Len(text) : r[i + k] = text[k]
           /\ r[i + Len(text) + 1] = "nul"
<1>1. /\ Len(m) \in Nat /\ DOMAIN m = 1..Len(m) /\ Len(text) \in Nat
      /\ \A k \in 1..Len(m) : m[k] \in Byte
      /\ \A k \in 1..Len(text) : text[k] \in Char
  OBVIOUS
<1> DEFINE f(k) == CASE k \in (i + 1)..(i + Len(text)) -> text[k - i]
                     [] k = i + Len(text) + 1 -> "nul"
                     [] OTHER -> m[k]
<1>2. r = [k \in 1..Len(m) |-> f(k)]
  BY <1>1 DEF PrintAt
<1>3. \A k \in 1..i : f(k) = m[k]
  BY <1>1
<1>4. \A k \in 1..Len(text) : f(i + k) = text[k]
  <2>1. ASSUME NEW k \in 1..Len(text) PROVE f(i + k) = text[k]
    <3>1. i + k \in (i + 1)..(i + Len(text)) /\ (i + k) - i = k
      BY <1>1
    <3>2. i + k # i + Len(text) + 1
      BY <1>1
    <3> QED
      BY <3>1, <3>2
  <2> QED
    BY <2>1
<1>5. f(i + Len(text) + 1) = "nul"
  BY <1>1
<1>6. ASSUME NEW k \in 1..Len(m) PROVE f(k) \in Byte
  <2>1. CASE k \in (i + 1)..(i + Len(text))
    <3>1. k - i \in 1..Len(text) /\ i + (k - i) = k
      BY <1>1, <2>1
    <3> QED
      BY <1>1, <1>4, <3>1 DEF Byte
  <2>2. CASE k = i + Len(text) + 1
    BY <1>5, <2>2 DEF Byte
  <2>3. CASE k \notin (i + 1)..(i + Len(text)) /\ k # i + Len(text) + 1
    BY <1>1, <2>3
  <2> QED
    BY <2>1, <2>2, <2>3
<1> HIDE DEF f
<1>7. r \in Seq(Byte) /\ Len(r) = Len(m)
  BY <1>1, <1>2, <1>6
<1>8. /\ \A k \in 1..i : k \in 1..Len(m)
      /\ \A k \in 1..Len(text) : i + k \in 1..Len(m)
      /\ i + Len(text) + 1 \in 1..Len(m)
  BY <1>1
<1> QED
  BY <1>2, <1>3, <1>4, <1>5, <1>7, <1>8

\* The memory after erealloc().
LEMMA GrownFacts ==
    ASSUME NEW m \in Seq(Byte), NEW n \in Nat \ {0}, n <= Pow2[Width - 1], Len(m) < n,
           NEW r, r = Grown(m, n)
    PROVE  /\ r \in Seq(Byte) /\ Len(r) = GePow2(n)
           /\ \A k \in 1..Len(m) : r[k] = m[k]
<1>1. GePow2(n) \in Nat /\ GePow2(n) >= n /\ Len(m) \in Nat
  BY GePow2Facts
<1> DEFINE j == Junk(GePow2(n) - Len(m))
<1>2. GePow2(n) - Len(m) \in Nat
  BY <1>1
<1>3. j \in Seq(Byte) /\ Len(j) = GePow2(n) - Len(m)
  BY <1>2 DEF Junk, Byte
<1>4. r = m \o j
  BY DEF Grown
<1> HIDE DEF j
<1>5. /\ r \in Seq(Byte) /\ Len(r) = Len(m) + Len(j)
      /\ \A k \in 1..(Len(m) + Len(j)) : r[k] = IF k <= Len(m) THEN m[k] ELSE j[k - Len(m)]
  <2>1. j \in Seq(Byte) /\ m \in Seq(Byte)
    BY <1>3
  <2>2. /\ m \o j \in Seq(Byte) /\ Len(m \o j) = Len(m) + Len(j)
        /\ \A k \in 1..(Len(m) + Len(j)) :
              (m \o j)[k] = IF k <= Len(m) THEN m[k] ELSE j[k - Len(m)]
    BY <2>1, ConcatProperties
  <2> QED
    BY <1>4, <2>2
<1>6. \A k \in 1..Len(m) : k \in 1..(Len(m) + Len(j)) /\ k <= Len(m)
  BY <1>1, <1>2, <1>3
<1> QED
  BY <1>1, <1>2, <1>3, <1>5, <1>6

\* What string_append_v() makes of s: what it held, and then the text, in a
\* buffer that has grown only if it had to.
Appended(s, text, r) ==
    /\ Usable(r) /\ r.len = s.len + Len(text) /\ r.buf[r.len + 1] = "nul"
    /\ \A k \in 1..s.len : r.buf[k] = s.buf[k]
    /\ \A k \in 1..Len(text) : r.buf[s.len + k] = text[k]
    /\ Len(s.buf) <= Len(r.buf)
    /\ Len(s.buf) < Len(r.buf) =>
         /\ \E b \in 0..Width : Len(r.buf) = Pow2[b]
         /\ Len(r.buf) \div 2 < r.len + 1

LEMMA AppendFacts ==
    ASSUME NEW s, Usable(s), NEW text \in Seq(Char),
           s.len + Len(text) + 1 <= Pow2[Width - 1],
           NEW r, r = StringAppend(s, text)
    PROVE  Appended(s, text, r)
<1>1. /\ s.buf \in Seq(Byte) /\ s.len \in Nat /\ Len(s.buf) \in Nat /\ Len(text) \in Nat
      /\ s.len < Len(s.buf) /\ \A i \in 1..s.len : s.buf[i] \in Char
  BY DEF Usable
<1> DEFINE n == s.len + Len(text) + 1
           m == IF Fits(s, text) THEN s.buf ELSE Grown(PrintCut(s, text), n)
<1>2. r = [buf |-> PrintAt(m, s.len, text), len |-> s.len + Len(text)]
  BY DEF StringAppend
<1>3. /\ m \in Seq(Byte) /\ n <= Len(m) /\ Len(s.buf) <= Len(m)
      /\ \A k \in 1..s.len : m[k] = s.buf[k]
      /\ Len(s.buf) < Len(m) => /\ \E b \in 0..Width : Len(m) = Pow2[b]
                                /\ Len(m) \div 2 < n
  <2>1. CASE Fits(s, text)
    <3>1. m = s.buf
      BY <2>1
    <3>2. n <= Len(s.buf)
      BY <2>1 DEF Fits
    <3> HIDE DEF m, n
    <3>3. m \in Seq(Byte) /\ \A k \in 1..s.len : m[k] = s.buf[k]
      BY <1>1, <3>1
    <3>4. n <= Len(m) /\ Len(s.buf) <= Len(m) /\ ~(Len(s.buf) < Len(m))
      BY <1>1, <3>1, <3>2
    <3> QED
      BY <3>3, <3>4
  <2>2. CASE ~Fits(s, text)
    <3> DEFINE cut == SubSeq(text, 1, (Len(s.buf) - s.len) - 1)
               c == PrintCut(s, text)
    <3>1. n > Len(s.buf)
      BY <1>1, <2>2 DEF Fits
    <3>2. cut \in Seq(Char) /\ Len(cut) = (Len(s.buf) - s.len) - 1
      <4>1. /\ 1 \in Int /\ (Len(s.buf) - s.len) - 1 \in Nat
            /\ (Len(s.buf) - s.len) - 1 <= Len(text)
        BY <1>1, <3>1
      <4>2. \A k \in 1..((Len(s.buf) - s.len) - 1) : text[k] \in Char
        BY <1>1, <4>1
      <4> QED
        BY <4>1, <4>2, SubSeqProperties
    <3>3. c = PrintAt(s.buf, s.len, cut)
      BY DEF PrintCut
    <3> HIDE DEF cut, c
    <3>4. s.len + Len(cut) + 1 <= Len(s.buf)
      BY <1>1, <3>2
    <3>5. /\ c \in Seq(Byte) /\ Len(c) = Len(s.buf)
          /\ \A k \in 1..s.len : c[k] = s.buf[k]
      BY <1>1, <3>2, <3>3, <3>4, PrintAtFacts
    <3>6. m = Grown(c, n) /\ n \in Nat \ {0} /\ n <= Pow2[Width - 1] /\ Len(c) < n
      BY <1>1, <2>2, <3>1, <3>5 DEF c
    <3> HIDE DEF m, n
    <3>7. /\ m \in Seq(Byte) /\ Len(m) = GePow2(n)
          /\ \A k \in 1..Len(c) : m[k] = c[k]
      BY <3>5, <3>6, GrownFacts
    <3>8. /\ \E b \in 0..Width : GePow2(n) = Pow2[b]
          /\ GePow2(n) \in Nat /\ GePow2(n) >= n /\ GePow2(n) \div 2 < n
      BY <3>6, GePow2Facts
    <3>9. \A k \in 1..s.len : k \in 1..Len(c)
      BY <1>1, <3>5
    <3>10. n \in Nat /\ Len(s.buf) < n
      BY <3>5, <3>6
    <3>11. \A k \in 1..s.len : m[k] = s.buf[k]
      BY <3>5, <3>7, <3>9
    <3>12. n <= Len(m) /\ Len(s.buf) <= Len(m)
      BY <1>1, <3>7, <3>8, <3>10
    <3>13. (\E b \in 0..Width : Len(m) = Pow2[b]) /\ Len(m) \div 2 < n
      BY <3>7, <3>8
    <3> QED
      BY <3>7, <3>11, <3>12, <3>13
  <2> QED
    BY <2>1, <2>2
<1> HIDE DEF m
<1> DEFINE p == PrintAt(m, s.len, text)
<1>4. /\ p \in Seq(Byte) /\ Len(p) = Len(m)
      /\ \A k \in 1..s.len : p[k] = m[k]
      /\ \A k \in 1..Len(text) : p[s.len + k] = text[k]
      /\ p[s.len + Len(text) + 1] = "nul"
  BY <1>1, <1>3, PrintAtFacts
<1> HIDE DEF p
<1>5. r.buf = p /\ r.len = s.len + Len(text) /\ r \in [buf : Seq(Byte), len : Nat]
  BY <1>1, <1>2, <1>4 DEF p
<1>6. ASSUME NEW i \in 1..r.len PROVE r.buf[i] \in Char
  <2>1. CASE i \in 1..s.len
    BY <1>1, <1>3, <1>4, <1>5, <2>1
  <2>2. CASE i \notin 1..s.len
    <3>1. i - s.len \in 1..Len(text) /\ s.len + (i - s.len) = i
      BY <1>1, <1>5, <2>2
    <3>2. p[i] = text[i - s.len]
      BY <1>4, <3>1
    <3>3. text[i - s.len] \in Char
      BY <3>1
    <3> QED
      BY <1>5, <3>2, <3>3
  <2> QED
    BY <2>1, <2>2
<1>7. r.len < Len(r.buf)
  BY <1>1, <1>3, <1>4, <1>5
<1> QED
  BY <1>1, <1>3, <1>4, <1>5, <1>6, <1>7 DEF Usable, Appended

LEMMA UsableFacts ==
    ASSUME NEW s, Usable(s)
    PROVE  /\ s.buf \in Seq(Byte) /\ Len(s.buf) \in Nat /\ s.len \in Nat
           /\ s.len < Len(s.buf) /\ \A i \in 1..s.len : s.buf[i] \in Char
BY DEF Usable

\* The part of a string that is still to be sent, all of it if m is 0.
LEMMA PartFacts ==
    ASSUME NEW s, Usable(s), NEW m \in 0..s.len, NEW n \in m..s.len
    PROVE  /\ SubSeq(s.buf, m + 1, n) \in Seq(Char)
           /\ Len(SubSeq(s.buf, m + 1, n)) = n - m
           /\ \A k \in 1..(n - m) : SubSeq(s.buf, m + 1, n)[k] = s.buf[m + k]
<1>1. s.len \in Nat /\ \A i \in 1..s.len : s.buf[i] \in Char
  BY UsableFacts
<1>2. m + 1 \in Int /\ n \in Int /\ \A i \in (m + 1)..n : s.buf[i] \in Char
  BY <1>1
<1>3. /\ SubSeq(s.buf, m + 1, n) \in Seq(Char)
      /\ Len(SubSeq(s.buf, m + 1, n)) = IF m + 1 <= n THEN n - (m + 1) + 1 ELSE 0
      /\ \A k \in 1..(n - (m + 1) + 1) :
            SubSeq(s.buf, m + 1, n)[k] = s.buf[(m + 1) + k - 1]
  BY <1>2, SubSeqProperties
<1>4. n - (m + 1) + 1 = n - m /\ (~(m + 1 <= n) => n - m = 0)
  BY <1>1
<1>5. \A k \in 1..(n - m) : (m + 1) + k - 1 = m + k
  BY <1>1
<1> QED
  BY <1>3, <1>4, <1>5

LEMMA ContentsFacts ==
    ASSUME NEW s, Usable(s)
    PROVE  /\ Contents(s) \in Seq(Char) /\ Len(Contents(s)) = s.len
           /\ \A k \in 1..s.len : Contents(s)[k] = s.buf[k]
<1>1. s.len \in Nat
  BY UsableFacts
<1>2. 0 \in 0..s.len /\ s.len \in 0..s.len /\ 0 + 1 = 1 /\ s.len - 0 = s.len
  BY <1>1
<1>3. /\ SubSeq(s.buf, 0 + 1, s.len) \in Seq(Char)
      /\ Len(SubSeq(s.buf, 0 + 1, s.len)) = s.len - 0
      /\ \A k \in 1..(s.len - 0) : SubSeq(s.buf, 0 + 1, s.len)[k] = s.buf[0 + k]
  BY <1>2, PartFacts
<1>4. \A k \in 1..s.len : 0 + k = k
  BY <1>1
<1> QED
  BY <1>2, <1>3, <1>4 DEF Contents

LEMMA AppendedContents ==
    ASSUME NEW s, Usable(s), NEW text \in Seq(Char),
           s.len + Len(text) + 1 <= Pow2[Width - 1],
           NEW r, r = StringAppend(s, text)
    PROVE  Contents(r) = Contents(s) \o text
<1>1. /\ Usable(r) /\ r.len = s.len + Len(text)
      /\ \A k \in 1..s.len : r.buf[k] = s.buf[k]
      /\ \A k \in 1..Len(text) : r.buf[s.len + k] = text[k]
  <2>1. Appended(s, text, r)
    BY AppendFacts
  <2> QED
    BY <2>1 DEF Appended
<1>2. /\ Contents(r) \in Seq(Char) /\ Len(Contents(r)) = r.len
      /\ \A k \in 1..r.len : Contents(r)[k] = r.buf[k]
  BY <1>1, ContentsFacts
<1>3. /\ Contents(s) \in Seq(Char) /\ Len(Contents(s)) = s.len
      /\ \A k \in 1..s.len : Contents(s)[k] = s.buf[k]
  BY ContentsFacts
<1>4. s.len \in Nat /\ Len(text) \in Nat
  BY UsableFacts
<1> DEFINE c == Contents(s) \o text
<1>5. /\ c \in Seq(Char) /\ Len(c) = s.len + Len(text)
      /\ \A k \in 1..(s.len + Len(text)) :
            c[k] = IF k <= s.len THEN Contents(s)[k] ELSE text[k - s.len]
  <2> DEFINE old == Contents(s)
  <2>1. old \in Seq(Char) /\ Len(old) = s.len
    BY <1>3
  <2> HIDE DEF old
  <2>2. /\ old \o text \in Seq(Char) /\ Len(old \o text) = Len(old) + Len(text)
        /\ \A k \in 1..(Len(old) + Len(text)) :
              (old \o text)[k] = IF k <= Len(old) THEN old[k]
                                ELSE text[k - Len(old)]
    BY <2>1, ConcatProperties
  <2> QED
    BY <2>1, <2>2 DEF old
<1> HIDE DEF c
<1>6. ASSUME NEW k \in 1..(s.len + Len(text)) PROVE Contents(r)[k] = c[k]
  <2>1. CASE k <= s.len
    <3>1. k \in 1..s.len
      BY <1>4, <2>1
    <3> QED
      BY <1>1, <1>2, <1>3, <1>5, <2>1, <3>1
  <2>2. CASE ~(k <= s.len)
    <3>1. k - s.len \in 1..Len(text) /\ s.len + (k - s.len) = k
      BY <1>4, <2>2
    <3>2. r.buf[k] = text[k - s.len]
      BY <1>1, <3>1
    <3> QED
      BY <1>1, <1>2, <1>5, <2>2, <3>2
  <2> QED
    BY <2>1, <2>2
<1>7. Contents(r) = c
  BY <1>1, <1>2, <1>5, <1>6, SeqEqual
<1> QED
  BY <1>7 DEF c

-------------------------------------------------------------------------------
(* The invariant *)

\* A message that is being put together still has room for its end.
IInv ==
    /\ pc \in PCs
    /\ addresses \in 0..MaxAddresses
    /\ sockets \in {0, 1}
    /\ pc = "connect" => sockets = 0
    /\ pc \notin {"connect", "exited"} => sockets = 1
    /\ pc = "connecting" => addresses > 0
    /\ Usable(str)
    /\ str.buf[str.len + 1] = "nul"
    /\ written \in Nat
    /\ pc = "write" => written <= str.len
    /\ wire \in Seq(Char)
    /\ pc = "build" => str.len <= MaxLen

\* How a buffer may grow from one step to the next.
Growth ==
    /\ Len(str.buf) <= Len(str'.buf)
    /\ Len(str.buf) < Len(str'.buf) =>
         /\ \E b \in 0..Width : Len(str'.buf) = Pow2[b]
         /\ Len(str'.buf) \div 2 < str'.len + 1

LEMMA InvInit == Init => IInv
<1> SUFFICES ASSUME Init PROVE IInv
  OBVIOUS
<1>1. InitialBufLen \in Nat \ {0}
  BY DynamicStringAssumption, Pow2Facts
<1> DEFINE j == Junk(InitialBufLen)
           m == [j EXCEPT ![1] = "nul"]
<1>2. j \in Seq(Byte) /\ Len(j) = InitialBufLen
  BY <1>1 DEF Junk, Byte
<1> HIDE DEF j
<1>3. m \in Seq(Byte) /\ Len(m) = InitialBufLen /\ m[1] = "nul"
  <2>1. 1 \in 1..Len(j) /\ "nul" \in Byte
    BY <1>1, <1>2 DEF Byte
  <2> QED
    BY <1>1, <1>2, <2>1, ExceptSeq
<1>4. str = [buf |-> m, len |-> 0]
  BY DEF Init, StringInit, j
<1> HIDE DEF m
<1>5. Usable(str) /\ str.buf[str.len + 1] = "nul"
  BY <1>1, <1>3, <1>4 DEF Usable
<1>6. MaxAddresses \in Nat
  BY OutputAssumption
<1> QED
  BY <1>5, <1>6 DEF Init, IInv, PCs

\* A text that fits in a message is printed.
LEMMA Prints ==
    ASSUME IInv, NEW s, Usable(s), Len(s.buf) = Len(str.buf), NEW text \in Seq(Char),
           s.len + Len(text) + 1 <= Pow2[Width - 1], str' = StringAppend(s, text),
           pc' \in {"build", "write"}, UNCHANGED <<addresses, sockets, wire>>, sockets = 1,
           pc' = "build" => s.len + Len(text) <= MaxLen,
           written' \in Nat, pc' = "write" => written' = 0
    PROVE  IInv' /\ Growth
<1>1. /\ Usable(str') /\ str'.len = s.len + Len(text)
      /\ str'.buf[str'.len + 1] = "nul"
      /\ Len(s.buf) <= Len(str'.buf)
      /\ Len(s.buf) < Len(str'.buf) =>
            /\ \E b \in 0..Width : Len(str'.buf) = Pow2[b]
            /\ Len(str'.buf) \div 2 < str'.len + 1
  <2>1. Appended(s, text, str')
    BY AppendFacts
  <2> QED
    BY <2>1 DEF Appended
<1>2. Growth
  BY <1>1 DEF Growth
<1>3. Usable(str)'
  BY <1>1 DEF Usable
<1>4. str'.len \in Nat
  BY <1>1, UsableFacts
<1> QED
  BY <1>1, <1>2, <1>3, <1>4 DEF IInv, PCs

LEMMA Same ==
    ASSUME IInv, UNCHANGED str
    PROVE  Growth /\ Usable(str)' /\ (str.buf[str.len + 1] = "nul")'
<1>1. Len(str.buf) \in Nat
  BY UsableFacts DEF IInv
<1> QED
  BY <1>1 DEF IInv, Growth, Usable

LEMMA Bounds ==
    /\ MaxLen \in Nat /\ MaxAddresses \in Nat /\ MaxLen + 3 <= Pow2[Width - 1]
    /\ Pow2[Width - 1] \in Nat
<1>1. Width - 1 \in Nat
  BY DynamicStringAssumption
<1> QED
  BY <1>1, OutputAssumption, Pow2Facts

LEMMA Cleared ==
    ASSUME IInv
    PROVE  LET s == [str EXCEPT !.len = 0]
           IN  Usable(s) /\ s.buf = str.buf /\ s.len = 0
<1>1. Len(str.buf) \in Nat /\ str.len \in Nat /\ str.len < Len(str.buf)
  BY UsableFacts DEF IInv
<1> QED
  BY <1>1 DEF IInv, Usable

LEMMA InvNext == IInv /\ [Next]_vars => IInv' /\ Growth
<1> SUFFICES ASSUME IInv, [Next]_vars PROVE IInv' /\ Growth
  OBVIOUS
<1>1. str.len \in Nat /\ Usable(str)
  BY UsableFacts DEF IInv
<1>2. CASE NoSocket \/ OpenSocket \/ Refused
  BY <1>2, Same, Bounds DEF NoSocket, OpenSocket, Refused, IInv, PCs
<1>3. CASE Connect \/ NoAddress
  BY <1>3, Same, Bounds DEF Connect, NoAddress, Exit, IInv, PCs
<1>4. CASE \E p \in Piece : BeginMsg(p)
  <2>1. PICK p \in Piece : BeginMsg(p)
    BY <1>4
  <2> DEFINE s == [str EXCEPT !.len = 0]
  <2>2. Usable(s) /\ s.buf = str.buf /\ s.len = 0
    BY Cleared
  <2>3. str' = StringAppend(s, p)
    BY <2>1 DEF BeginMsg, Put, StringSet
  <2> HIDE DEF s
  <2>4. p \in Seq(Char) /\ Len(p) \in Nat /\ Len(p) <= MaxLen
    BY TextFacts
  <2>5. s.len + Len(p) + 1 <= Pow2[Width - 1] /\ s.len + Len(p) <= MaxLen
    BY <2>2, <2>4, Bounds
  <2>6. /\ pc' = "build" /\ UNCHANGED <<addresses, sockets, wire, written>>
        /\ sockets = 1 /\ written \in Nat
    BY <2>1 DEF BeginMsg, Put, IInv
  <2>7. Len(s.buf) = Len(str.buf)
    BY <2>2
  <2> QED
    BY <2>2, <2>3, <2>4, <2>5, <2>6, <2>7, Prints
<1>5. CASE \E p \in Piece : AppendMsg(p)
  <2>1. PICK p \in Piece : AppendMsg(p)
    BY <1>5
  <2>2. str' = StringAppend(str, p)
    BY <2>1 DEF AppendMsg, Put
  <2>3. p \in Seq(Char) /\ Len(p) \in Nat
    BY TextFacts
  <2>4. str.len + Len(p) + 1 <= Pow2[Width - 1] /\ str.len + Len(p) <= MaxLen
    BY <1>1, <2>1, <2>3, Bounds DEF AppendMsg
  <2>5. /\ pc' = "build" /\ UNCHANGED <<addresses, sockets, wire, written>>
        /\ sockets = 1 /\ written \in Nat
    BY <2>1 DEF AppendMsg, Put, IInv
  <2> QED
    BY <1>1, <2>2, <2>3, <2>4, <2>5, Prints
<1>6. CASE SendMsg
  <2>1. str' = StringAppend(str, Crlf)
    BY <1>6 DEF SendMsg, Put
  <2>2. Crlf \in Seq(Char) /\ Len(Crlf) = 2
    BY TextFacts
  <2>3. str.len <= MaxLen
    BY <1>6 DEF SendMsg, IInv
  <2>4. str.len + Len(Crlf) + 1 <= Pow2[Width - 1]
    BY <1>1, <2>2, <2>3, Bounds
  <2>5. /\ pc' = "write" /\ UNCHANGED <<addresses, sockets, wire>>
        /\ sockets = 1 /\ written' = 0
    BY <1>6 DEF SendMsg, Put, IInv
  <2> QED
    BY <1>1, <2>1, <2>2, <2>4, <2>5, Prints
<1>7. CASE GrowFails \/ SendFails
  BY <1>7, Same DEF GrowFails, SendFails, Exit, IInv, PCs
<1>8. CASE \E n \in 1..(MaxLen + 2) : Send(n)
  <2>1. PICK n \in 1..(MaxLen + 2) : Send(n)
    BY <1>8
  <2>2. n \in Nat /\ written \in 0..str.len /\ written + n \in written..str.len
    BY <1>1, <2>1, Bounds DEF Send, Writing, IInv
  <2>3. SubSeq(str.buf, written + 1, written + n) \in Seq(Char)
    BY <1>1, <2>2, PartFacts
  <2>4. wire' \in Seq(Char)
    BY <2>1, <2>3, ConcatProperties DEF Send, IInv
  <2>5. written' \in Nat /\ written' <= str.len
    BY <1>1, <2>1, <2>2 DEF Send
  <2> QED
    BY <2>1, <2>4, <2>5, Same DEF Send, IInv
<1>9. CASE Written
  BY <1>9, Same DEF Written, IInv, PCs
<1>10. CASE UNCHANGED vars
  BY <1>10, Same DEF vars, IInv
<1> QED
  BY <1>2, <1>4, <1>5, <1>6, <1>7, <1>8, <1>9, <1>10, <1>3 DEF Next, Write

LEMMA OutputInv == Spec => []IInv
BY InvInit, InvNext, PTL DEF Spec

-------------------------------------------------------------------------------
(* Theorems *)

\* However messages are put together and sent: writen() does not go past the
\* message, and only characters of messages get to the server.  Whichever
\* addresses are tried, connect_to() leaves no socket open but the one that is
\* connected.
THEOREM TypeCorrect == Spec => []TypeOK
<1>1. IInv => SocketsAreClosed
  BY DEF IInv, SocketsAreClosed
<1>2. IInv => TypeOK
  BY <1>1, UsableFacts DEF IInv, TypeOK, Byte
<1> QED
  BY <1>2, OutputInv, PTL

\* A string never leaves its buffer, and its null is in there with it.
THEOREM StringsFit == Spec => []StringFits
<1>1. IInv => StringFits
  BY UsableFacts DEF IInv, StringFits
<1> QED
  BY <1>1, OutputInv, PTL

\* The buffer grows only when it must, to the least power of two that is enough.
THEOREM GrowsOnlyAsNecessary == Spec => GrowsAsNecessary
<1>1. IInv /\ [Next]_vars => [Growth]_vars
  BY InvNext
<1> QED
  BY <1>1, OutputInv, PTL DEF Spec, GrowsAsNecessary, Growth

-------------------------------------------------------------------------------
(* Output implements Channel *)

\* What Channel sees of the state.
Building == IF pc = "build" THEN Contents(str) ELSE <<>>
Accepted == IF pc = "write" THEN wire \o SubSeq(str.buf, written + 1, str.len)
            ELSE wire

LEMMA Concatenated ==
    ASSUME NEW s \in Seq(Char), NEW t \in Seq(Char)
    PROVE  s \o t \in Seq(Char) /\ ToServer!IsPrefix(s, s \o t)
<1> DEFINE c == s \o t
<1>1. /\ c \in Seq(Char) /\ Len(c) = Len(s) + Len(t)
      /\ \A k \in 1..(Len(s) + Len(t)) : c[k] = IF k <= Len(s) THEN s[k] ELSE t[k - Len(s)]
  BY ConcatProperties
<1> HIDE DEF c
<1>2. Len(s) \in Nat /\ Len(t) \in Nat
  OBVIOUS
<1>3. \A k \in 1..Len(s) : c[k] = s[k] /\ c[k] \in Char
  BY <1>1, <1>2
<1>4. /\ SubSeq(c, 1, Len(s)) \in Seq(Char) /\ Len(SubSeq(c, 1, Len(s))) = Len(s)
      /\ \A k \in 1..Len(s) : SubSeq(c, 1, Len(s))[k] = c[k]
  <2>1. 1 \in Int /\ Len(s) \in Int /\ \A k \in 1..Len(s) : c[k] \in Char
    BY <1>2, <1>3
  <2>2. /\ SubSeq(c, 1, Len(s)) \in Seq(Char)
        /\ Len(SubSeq(c, 1, Len(s))) = IF 1 <= Len(s) THEN Len(s) - 1 + 1 ELSE 0
        /\ \A k \in 1..(Len(s) - 1 + 1) : SubSeq(c, 1, Len(s))[k] = c[1 + k - 1]
    BY <2>1, SubSeqProperties
  <2> QED
    BY <1>2, <2>2
<1>5. SubSeq(c, 1, Len(s)) = s
  BY <1>3, <1>4, SeqEqual
<1>6. SubSeq(s, 1, Len(s)) = s
  BY SubSeqFull
<1>7. ToServer!IsPrefix(s, c)
  BY <1>1, <1>2, <1>5, <1>6 DEF ToServer!IsPrefix
<1> QED
  BY <1>1, <1>7 DEF c

LEMMA Associative ==
    ASSUME NEW s \in Seq(Char), NEW t \in Seq(Char), NEW u \in Seq(Char)
    PROVE  (s \o t) \o u = s \o (t \o u)
BY ConcatAssociative

\* Nothing is lost between what was sent and what is still to be sent.
LEMMA PartsOfMessage ==
    ASSUME NEW s, Usable(s), NEW m \in 0..s.len, NEW n \in m..s.len
    PROVE  SubSeq(s.buf, m + 1, n) \o SubSeq(s.buf, n + 1, s.len)
               = SubSeq(s.buf, m + 1, s.len)
<1>1. s.buf \in Seq(Byte) /\ Len(s.buf) \in Nat /\ s.len \in Nat /\ s.len < Len(s.buf)
  BY UsableFacts
<1>2. /\ m + 1 \in 1..(Len(s.buf) + 1) /\ n \in ((m + 1) - 1)..Len(s.buf)
      /\ s.len \in n..Len(s.buf)
  BY <1>1
<1> QED
  BY <1>1, <1>2, ConcatAdjacentSubSeq

LEMMA InitMaps == Init => ToServer!ChannelInit
BY DEF Init, ToServer!ChannelInit

Connecting == NoSocket \/ OpenSocket \/ Refused \/ Connect

\* Before the connection, and when a message has been sent.
LEMMA Stutters ==
    ASSUME IInv, Connecting \/ Written \/ UNCHANGED vars
    PROVE  UNCHANGED ToServer!channelVars
<1>1. CASE Connecting
  BY <1>1 DEF Connecting, NoSocket, OpenSocket, Refused, Connect, ToServer!channelVars
<1>2. CASE Written
  <2>1. written = str.len /\ str.len \in Nat /\ wire \in Seq(Char)
    BY <1>2, UsableFacts DEF Written, IInv
  <2>2. SubSeq(str.buf, written + 1, str.len) = <<>>
    <3>1. written + 1 \in Int /\ str.len \in Int /\ str.len < written + 1
      BY <2>1
    <3> QED
      BY <3>1, SubSeqEmpty
  <2>3. wire \o <<>> = wire
    BY <2>1, ConcatEmptySeq
  <2> QED
    BY <1>2, <2>2, <2>3 DEF Written, ToServer!channelVars
<1>3. CASE UNCHANGED vars
  BY <1>3 DEF vars, ToServer!channelVars
<1> QED
  BY <1>1, <1>2, <1>3

LEMMA BeginsMessage ==
    ASSUME IInv, NEW p \in Piece, BeginMsg(p)
    PROVE  ToServer!Begin
<1> DEFINE s == [str EXCEPT !.len = 0]
<1>1. Usable(s) /\ s.len = 0
  BY Cleared
<1>2. str' = StringAppend(s, p) /\ pc = "ready" /\ pc' = "build" /\ wire' = wire
  BY DEF BeginMsg, Put, StringSet
<1> HIDE DEF s
<1>3. p \in Seq(Char) /\ Len(p) \in Nat /\ Len(p) <= MaxLen
  BY TextFacts
<1>4. s.len + Len(p) + 1 <= Pow2[Width - 1]
  BY <1>1, <1>3, Bounds
<1>5. Contents(str') = Contents(s) \o p
  BY <1>1, <1>2, <1>3, <1>4, AppendedContents
<1>6. Contents(s) = <<>>
  BY <1>1, SubSeqEmpty DEF Contents
<1>7. Contents(str)' = p
  <2>1. Contents(str') = p
    BY <1>3, <1>5, <1>6, ConcatEmptySeq
  <2> QED
    BY <2>1 DEF Contents
<1> QED
  BY <1>2, <1>7 DEF ToServer!Begin

LEMMA AddsPiece ==
    ASSUME IInv, NEW p \in Piece, AppendMsg(p)
    PROVE  ToServer!Add
<1>1. Usable(str) /\ str.len \in Nat
  BY UsableFacts DEF IInv
<1>2. /\ str' = StringAppend(str, p) /\ pc = "build" /\ pc' = "build" /\ wire' = wire
      /\ str.len + Len(p) <= MaxLen
  BY DEF AppendMsg, Put
<1>3. p \in Seq(Char) /\ Len(p) \in Nat
  BY TextFacts
<1>4. str.len + Len(p) + 1 <= Pow2[Width - 1]
  BY <1>1, <1>2, <1>3, Bounds
<1>5. Contents(str') = Contents(str) \o p
  BY <1>1, <1>2, <1>3, <1>4, AppendedContents
<1>6. Contents(str)' = Contents(str) \o p
  BY <1>5 DEF Contents
<1> QED
  BY <1>2, <1>6 DEF ToServer!Add

LEMMA AcceptsMessage ==
    ASSUME IInv, SendMsg
    PROVE  ToServer!Accept
<1>1. Usable(str) /\ str.len \in Nat /\ wire \in Seq(Char)
  BY UsableFacts DEF IInv
<1>2. /\ str' = StringAppend(str, Crlf) /\ pc = "build" /\ pc' = "write" /\ wire' = wire
      /\ str.len <= MaxLen /\ written' = 0
  BY DEF SendMsg, Put, IInv
<1>3. Crlf \in Seq(Char) /\ Len(Crlf) = 2
  BY TextFacts
<1>4. str.len + Len(Crlf) + 1 <= Pow2[Width - 1]
  BY <1>1, <1>2, <1>3, Bounds
<1>5. Contents(str') = Contents(str) \o Crlf
  BY <1>1, <1>2, <1>3, <1>4, AppendedContents
<1>6. SubSeq(str'.buf, written' + 1, str'.len) = Contents(str) \o Crlf
  <2>1. written' + 1 = 1
    BY <1>2
  <2>2. SubSeq(str'.buf, 1, str'.len) = Contents(str) \o Crlf
    BY <1>5 DEF Contents
  <2> QED
    BY <2>1, <2>2
<1>7. wire \o (Contents(str) \o Crlf) = (wire \o Contents(str)) \o Crlf
  <2>1. Contents(str) \in Seq(Char) /\ Crlf \in Seq(Char) /\ wire \in Seq(Char)
    BY <1>1, <1>3, ContentsFacts
  <2> QED
    BY <2>1, Associative
<1> QED
  BY <1>2, <1>6, <1>7 DEF ToServer!Accept

LEMMA DeliversPart ==
    ASSUME IInv, NEW n \in 1..(MaxLen + 2), Send(n)
    PROVE  ToServer!Deliver
<1>1. Usable(str) /\ str.len \in Nat /\ wire \in Seq(Char)
  BY UsableFacts DEF IInv
<1>2. /\ pc = "write" /\ pc' = pc /\ str' = str /\ written' = written + n
      /\ wire' = wire \o SubSeq(str.buf, written + 1, written + n)
  BY DEF Send, Writing
<1>3. /\ written \in 0..str.len /\ written + n \in written..str.len
      /\ written + n \in 0..str.len /\ str.len \in (written + n)..str.len
  BY <1>1, Bounds DEF Send, Writing, IInv
<1> DEFINE x == SubSeq(str.buf, written + 1, written + n)
           y == SubSeq(str.buf, (written + n) + 1, str.len)
<1>4. x \in Seq(Char) /\ y \in Seq(Char)
  BY <1>1, <1>3, PartFacts
<1>5. x \o y = SubSeq(str.buf, written + 1, str.len)
  BY <1>1, <1>3, PartsOfMessage
<1>6. wire' = wire \o x /\ SubSeq(str'.buf, written' + 1, str'.len) = y
  BY <1>2
<1> HIDE DEF x, y
<1>7. wire \o x \in Seq(Char) /\ ToServer!IsPrefix(wire, wire \o x)
  BY <1>1, <1>4, Concatenated
<1>8. ToServer!IsPrefix(wire \o x, (wire \o x) \o y)
  BY <1>4, <1>7, Concatenated
<1>9. (wire \o x) \o y = wire \o SubSeq(str.buf, written + 1, str.len)
  <2>1. (wire \o x) \o y = wire \o (x \o y)
    BY <1>1, <1>4, Associative
  <2> QED
    BY <1>5, <2>1
<1> QED
  BY <1>2, <1>6, <1>7, <1>8, <1>9 DEF ToServer!Deliver

LEMMA EndsIt ==
    ASSUME IInv, NoAddress \/ GrowFails \/ SendFails
    PROVE  ToServer!End
BY DEF NoAddress, GrowFails, SendFails, Exit, ToServer!End

\* Every step is one of Channel's, or none.
LEMMA StepMaps ==
    IInv /\ [Next]_vars => [ToServer!ChannelNext]_(ToServer!channelVars)
<1> SUFFICES ASSUME IInv, [Next]_vars
             PROVE  ToServer!ChannelNext \/ UNCHANGED ToServer!channelVars
  OBVIOUS
<1>1. CASE Connecting \/ Written \/ UNCHANGED vars
  BY <1>1, Stutters
<1>2. CASE \E p \in Piece : BeginMsg(p) \/ AppendMsg(p)
  BY <1>2, BeginsMessage, AddsPiece DEF ToServer!ChannelNext
<1>3. CASE SendMsg \/ \E n \in 1..(MaxLen + 2) : Send(n)
  BY <1>3, AcceptsMessage, DeliversPart DEF ToServer!ChannelNext
<1>4. CASE NoAddress \/ GrowFails \/ SendFails
  BY <1>4, EndsIt DEF ToServer!ChannelNext
<1> QED
  BY <1>1, <1>2, <1>3, <1>4 DEF Next, Write, Connecting

\* Whatever part of a message each send() takes, and however often the buffer
\* has grown: the messages reach the server whole, in order and once.
THEOREM OutputImplementsChannel == Spec => ImplementsChannel
BY OutputInv, InitMaps, StepMaps, PTL DEF Spec, ImplementsChannel, ToServer!ChannelSpec

=================================================================================
