---------------------------- MODULE TStringProofs ----------------------------
(***************************************************************************)
(* The growing string implements TextBuffer, for any texts, any bound on   *)
(* their length and any block the powers of two allow.                     *)
(*                                                                         *)
(* Holds relates a string to the text it holds: its bytes, and the zero    *)
(* behind them inside the block.  Every operation is followed cell by cell *)
(* from one such state to the next.                                        *)
(***************************************************************************)
EXTENDS TString, WellFoundedInduction, TLAPS

Strings == [cells : Seq(Int), len : Nat]

\* The string t holds the text s, ended inside its block.
Holds(t, s) ==
  /\ t \in Strings /\ s \in Seq(Int)
  /\ t.len = Len(s) /\ t.len < Len(t.cells)
  /\ \A i \in 1 .. Len(s) : t.cells[i] = s[i]
  /\ t.cells[Len(s) + 1] = 0

\* w put into s before its byte at p, where k bytes of s go.
Spliced(s, p, w, k) == SubSeq(s, 1, p) \o w \o SubSeq(s, p + k + 1, Len(s))

LEMMA SizeFacts == MaxSize \in Nat /\ MaxLen \in Nat /\ MaxSize > MaxLen /\ MaxSize > 7
BY TStringAssumption

-----------------------------------------------------------------------------
(* Induction over the naturals, with a set for what holds.                 *)

LEMMA LeastExists ==
  ASSUME NEW T \in SUBSET Nat, T # {}
  PROVE  \E x \in T : \A y \in T : x <= y
<1> DEFINE R == OpToRel(<, Nat)
<1>1. IsWellFoundedOn(R, Nat)
  BY NatLessThanWellFounded
<1>2. \A x, y \in Nat : x < y => <<x, y>> \in R
  BY DEF OpToRel
<1> HIDE DEF R
<1>3. PICK x \in T : \A y \in T : ~(<<y, x>> \in R)
  BY <1>1, WFMin
<1>4. \A y \in T : ~(y < x) /\ y \in Nat /\ x \in Nat
  BY <1>2, <1>3
<1>5. \A y \in T : x <= y
  BY <1>4
<1> QED
  BY <1>5

LEMMA StepByStep ==
  ASSUME NEW S, 0 \in S, \A n \in Nat : n \in S => n + 1 \in S
  PROVE  Nat \subseteq S
<1> SUFFICES ASSUME Nat \ S # {} PROVE FALSE
  OBVIOUS
<1>1. PICK x \in Nat \ S : \A y \in Nat \ S : x <= y
  BY LeastExists
<1>2. x - 1 \in Nat /\ x - 1 \notin S
  BY <1>1
<1> QED
  BY <1>1, <1>2

-----------------------------------------------------------------------------
(* Sequences.                                                              *)

LEMMA ConcatFacts ==
  ASSUME NEW a \in Seq(Int), NEW b \in Seq(Int)
  PROVE  /\ a \o b \in Seq(Int) /\ Len(a \o b) = Len(a) + Len(b)
         /\ Len(a) \in Nat /\ Len(b) \in Nat
         /\ \A i \in 1 .. Len(a) : (a \o b)[i] = a[i]
         /\ \A i \in 1 .. Len(b) : (a \o b)[Len(a) + i] = b[i]
<1>1. Len(a) \in Nat /\ Len(b) \in Nat
  OBVIOUS
<1>2. a \o b \in Seq(Int) /\ Len(a \o b) = Len(a) + Len(b)
  OBVIOUS
<1>3. \A i \in 1 .. Len(a) : (a \o b)[i] = a[i]
  OBVIOUS
<1>4. ASSUME NEW i \in 1 .. Len(b) PROVE (a \o b)[Len(a) + i] = b[i]
  <2>1. Len(a) + i \in 1 .. (Len(a) + Len(b)) /\ ~(Len(a) + i <= Len(a)) /\ (Len(a) + i) - Len(a) = i
    BY <1>1
  <2> QED
    BY <1>1, <2>1
<1> QED
  BY <1>1, <1>2, <1>3, <1>4

\* What stands where after w took the place of k bytes.
IsSpliced(x, s, p, w, k) ==
  /\ x \in Seq(Int) /\ Len(x) = Len(s) - k + Len(w)
  /\ \A i \in 1 .. p : x[i] = s[i]
  /\ \A i \in 1 .. Len(w) : x[p + i] = w[i]
  /\ \A i \in (p + k + 1) .. Len(s) : x[i - k + Len(w)] = s[i]

LEMMA SpliceFacts ==
  ASSUME NEW s \in Seq(Int), NEW w \in Seq(Int), NEW p \in 0 .. Len(s), NEW k \in Nat,
         p + k <= Len(s)
  PROVE  IsSpliced(Spliced(s, p, w, k), s, p, w, k)
<1> DEFINE a == SubSeq(s, 1, p)
           b == SubSeq(s, p + k + 1, Len(s))
<1>1. a \in Seq(Int) /\ Len(a) = p /\ \A i \in 1 .. p : a[i] = s[i]
  OBVIOUS
<1>2. /\ b \in Seq(Int) /\ Len(b) = Len(s) - (p + k)
      /\ \A i \in 1 .. (Len(s) - (p + k)) : b[i] = s[i + (p + k)]
  OBVIOUS
<1>3. Spliced(s, p, w, k) = (a \o w) \o b
  BY DEF Spliced
<1> HIDE DEF a, b
<1> DEFINE c == a \o w
<1>4. /\ c \in Seq(Int) /\ Len(c) = p + Len(w)
      /\ \A i \in 1 .. p : c[i] = a[i]
      /\ \A i \in 1 .. Len(w) : c[p + i] = w[i]
  BY <1>1, ConcatFacts
<1> HIDE DEF c
<1> DEFINE d == c \o b
<1>5. /\ d \in Seq(Int) /\ Len(d) = Len(c) + Len(b)
      /\ \A i \in 1 .. Len(c) : d[i] = c[i]
      /\ \A i \in 1 .. Len(b) : d[Len(c) + i] = b[i]
  BY <1>2, <1>4, ConcatFacts
<1> HIDE DEF d
<1> DEFINE m == Len(w)
           n == Len(s)
<1>0. m \in Nat /\ n \in Nat
  OBVIOUS
<1> HIDE DEF m, n
<1>11. Len(c) = p + m /\ Len(w) = m
  BY <1>4 DEF m
<1>6. ASSUME NEW i \in 1 .. p PROVE d[i] = s[i]
  <2>1. i \in 1 .. Len(c)
    BY <1>0, <1>11
  <2>2. d[i] = c[i]
    BY <1>5, <2>1
  <2> QED
    BY <1>1, <1>4, <2>2
<1>7. ASSUME NEW i \in 1 .. Len(w) PROVE d[p + i] = w[i]
  <2>1. p + i \in 1 .. Len(c)
    BY <1>0, <1>11
  <2>2. d[p + i] = c[p + i]
    BY <1>5, <2>1
  <2> QED
    BY <1>4, <2>2
<1>8. ASSUME NEW i \in (p + k + 1) .. Len(s) PROVE d[i - k + Len(w)] = s[i]
  <2> DEFINE j == i - (p + k)
  <2>1. j \in 1 .. Len(b) /\ j + (p + k) = i /\ Len(c) + j = i - k + Len(w)
    BY <1>0, <1>2, <1>4 DEF m, n
  <2> HIDE DEF j
  <2>2. d[Len(c) + j] = b[j] /\ b[j] = s[j + (p + k)]
    BY <1>2, <1>5, <2>1
  <2> QED
    BY <2>1, <2>2
<1>9. Len(d) = Len(s) - k + Len(w)
  BY <1>2, <1>4, <1>5
<1>10. Spliced(s, p, w, k) = d
  BY <1>3 DEF c, d
<1> QED
  BY <1>5, <1>6, <1>7, <1>8, <1>9, <1>10 DEF IsSpliced

LEMMA SamePlaces ==
  ASSUME NEW s \in Seq(Int), NEW w \in Seq(Int), Len(s) = Len(w),
         \A i \in 1 .. Len(s) : s[i] = w[i]
  PROVE  s = w
OBVIOUS

-----------------------------------------------------------------------------
(* The moves inside a block.                                               *)

\* to .. to + Len(w) - 1 get the bytes of w, as far as the block reaches.
IsPut(v, t, to, w) ==
  /\ v \in Strings /\ v.len = t.len /\ Len(v.cells) = Len(t.cells)
  /\ \A i \in 1 .. Len(t.cells) :
       v.cells[i] = IF i \in (to + 1) .. (to + Len(w)) THEN w[i - to] ELSE t.cells[i]

LEMMA PutFacts ==
  ASSUME NEW t \in Strings, NEW to \in Nat, NEW w \in Seq(Int)
  PROVE  IsPut(Put(t, to, w), t, to, w)
<1> DEFINE c == t.cells
           d == [i \in DOMAIN c |-> IF i \in (to + 1) .. (to + Len(w)) THEN w[i - to] ELSE c[i]]
<1>1. c \in Seq(Int) /\ DOMAIN c = 1 .. Len(c) /\ Len(c) \in Nat /\ Len(w) \in Nat
  BY DEF Strings
<1>2. ASSUME NEW i \in 1 .. Len(c)
      PROVE  (IF i \in (to + 1) .. (to + Len(w)) THEN w[i - to] ELSE c[i]) \in Int
  <2>1. CASE i \in (to + 1) .. (to + Len(w))
    <3>1. i - to \in 1 .. Len(w)
      BY <1>1, <2>1
    <3> QED
      BY <2>1, <3>1
  <2>2. CASE i \notin (to + 1) .. (to + Len(w))
    BY <1>1, <2>2
  <2> QED
    BY <2>1, <2>2
<1>3. d \in [1 .. Len(c) -> Int]
  BY <1>1, <1>2
<1>4. d \in Seq(Int) /\ Len(d) = Len(c)
  BY <1>1, <1>3
<1>5. Put(t, to, w) = [cells |-> d, len |-> t.len]
  <2>1. Put(t, to, w) = [t EXCEPT !.cells = d]
    BY DEF Put
  <2> HIDE DEF d
  <2> QED
    BY <2>1 DEF Strings
<1>6. \A i \in 1 .. Len(c) :
        d[i] = IF i \in (to + 1) .. (to + Len(w)) THEN w[i - to] ELSE c[i]
  BY <1>1
<1>7. t.len \in Nat
  BY DEF Strings
<1> HIDE DEF d
<1> DEFINE v == [cells |-> d, len |-> t.len]
<1>8. v \in Strings /\ v.cells = d /\ v.len = t.len
  BY <1>4, <1>7 DEF Strings
<1> HIDE DEF v
<1>9. \A i \in 1 .. Len(t.cells) :
        v.cells[i] = IF i \in (to + 1) .. (to + Len(w)) THEN w[i - to] ELSE t.cells[i]
  BY <1>6, <1>8
<1>10. IsPut(v, t, to, w)
  BY <1>4, <1>8, <1>9 DEF IsPut
<1> QED
  BY <1>5, <1>10 DEF v

\* to .. to + n - 1 get the n bytes that stood at from: memmove.
IsMoved(v, t, to, from, n) ==
  /\ v \in Strings /\ v.len = t.len /\ Len(v.cells) = Len(t.cells)
  /\ \A i \in 1 .. Len(t.cells) :
       v.cells[i] = IF i \in (to + 1) .. (to + n) THEN t.cells[i - to + from] ELSE t.cells[i]

LEMMA MoveFacts ==
  ASSUME NEW t \in Strings, NEW to \in Nat, NEW from \in Nat, NEW n \in Nat,
         from + n <= Len(t.cells)
  PROVE  IsMoved(Move(t, to, from, n), t, to, from, n)
<1> DEFINE w == SubSeq(t.cells, from + 1, from + n)
<1>1. t.cells \in Seq(Int) /\ Len(t.cells) \in Nat
  BY DEF Strings
<1>2. w \in Seq(Int) /\ Len(w) = n /\ \A i \in 1 .. n : w[i] = t.cells[i + from]
  BY <1>1
<1>3. Move(t, to, from, n) = Put(t, to, w)
  BY DEF Move
<1> HIDE DEF w
<1>4. \A i \in 1 .. Len(t.cells) : i \in (to + 1) .. (to + n) => w[i - to] = t.cells[i - to + from]
  <2> SUFFICES ASSUME NEW i \in (to + 1) .. (to + n) PROVE w[i - to] = t.cells[i - to + from]
    OBVIOUS
  <2>1. i - to \in 1 .. n
    OBVIOUS
  <2> QED
    BY <1>2, <2>1
<1>5. Len(w) = n /\ w \in Seq(Int)
  BY <1>2
<1>6. IsPut(Put(t, to, w), t, to, w)
  BY <1>5, PutFacts
<1> QED
  BY <1>3, <1>4, <1>5, <1>6 DEF IsPut, IsMoved

-----------------------------------------------------------------------------
(* Room.                                                                   *)

DoubledNext(f, n, num) == IF n < num THEN f[2 * n] ELSE n

LEMMA DoublingsExist ==
  ASSUME NEW num \in Nat \ {0}
  PROVE  \E f : f = [n \in 1 .. 2 * num |-> IF n < num THEN f[2 * n] ELSE n]
<1> DEFINE S == {k \in Nat : k < num =>
                   \E f : f = [n \in (num - k) .. 2 * num |-> DoubledNext(f, n, num)]}
<1>1. 0 \in S
  <2> DEFINE g == [n \in num .. 2 * num |-> n]
  <2>1. \A n \in num .. 2 * num : DoubledNext(g, n, num) = n
    BY DEF DoubledNext
  <2>2. g = [n \in num .. 2 * num |-> DoubledNext(g, n, num)]
    BY <2>1
  <2>3. num - 0 = num
    OBVIOUS
  <2> HIDE DEF g
  <2>4. \E f : f = [n \in (num - 0) .. 2 * num |-> DoubledNext(f, n, num)]
    BY <2>2, <2>3
  <2> QED
    BY <2>4
<1>2. ASSUME NEW k \in Nat, k \in S PROVE k + 1 \in S
  <2> SUFFICES ASSUME k + 1 < num
               PROVE  \E f : f = [n \in (num - (k + 1)) .. 2 * num |-> DoubledNext(f, n, num)]
    OBVIOUS
  <2>1. PICK f : f = [n \in (num - k) .. 2 * num |-> DoubledNext(f, n, num)]
    BY <1>2
  <2> DEFINE a == num - (k + 1)
             g == [n \in a .. 2 * num |-> IF n = a THEN DoubledNext(f, a, num) ELSE f[n]]
  <2>2. a \in Nat \ {0} /\ a + 1 = num - k
    OBVIOUS
  <2> HIDE DEF a
  <2>3. \A n \in (num - k) .. 2 * num : g[n] = f[n]
    BY <2>2
  <2>4. \A n \in a .. 2 * num : n < num => 2 * n \in (num - k) .. 2 * num
    BY <2>2
  <2>5. \A n \in a .. 2 * num : DoubledNext(g, n, num) = DoubledNext(f, n, num)
    BY <2>3, <2>4 DEF DoubledNext
  <2>6. \A n \in (num - k) .. 2 * num : f[n] = DoubledNext(f, n, num)
    BY <2>1
  <2>7. \A n \in a .. 2 * num : n = a \/ n \in (num - k) .. 2 * num
    BY <2>2
  <2>8. \A n \in a .. 2 * num : g[n] = DoubledNext(g, n, num)
    BY <2>3, <2>5, <2>6, <2>7
  <2>9. g = [n \in a .. 2 * num |-> g[n]]
    OBVIOUS
  <2> HIDE DEF g
  <2>10. g = [n \in a .. 2 * num |-> DoubledNext(g, n, num)]
    BY <2>8, <2>9
  <2> QED
    BY <2>10 DEF a
<1>3. num - 1 \in Nat /\ num - 1 < num /\ num - (num - 1) = 1
  OBVIOUS
<1>4. num - 1 \in S
  <2> HIDE DEF S
  <2> QED
    BY <1>1, <1>2, <1>3, StepByStep
<1>5. \E f : f = [n \in (num - (num - 1)) .. 2 * num |-> DoubledNext(f, n, num)]
  BY <1>3, <1>4
<1> QED
  BY <1>3, <1>5 DEF DoubledNext

\* _nearest_power never gives less than it is asked for, unless that is more
\* than an unsigned int can count.
LEMMA DoubledFacts ==
  ASSUME NEW num \in Nat \ {0}
  PROVE  Doubled(1, num) \in Nat /\ Doubled(1, num) >= num
<1> DEFINE f == CHOOSE g : g = [n \in 1 .. 2 * num |-> IF n < num THEN g[2 * n] ELSE n]
<1>1. f = [n \in 1 .. 2 * num |-> IF n < num THEN f[2 * n] ELSE n]
  BY DoublingsExist, Zenon
<1>2. Doubled(1, num) = f[1]
  BY DEF Doubled
<1> HIDE DEF f
<1>3. \A n \in 1 .. 2 * num : f[n] = IF n < num THEN f[2 * n] ELSE n
  BY <1>1
<1> DEFINE S == {k \in Nat : \A n \in 1 .. 2 * num : num - n <= k => f[n] \in Nat /\ f[n] >= num}
<1>4. 0 \in S
  BY <1>3
<1>5. ASSUME NEW k \in Nat, k \in S PROVE k + 1 \in S
  <2> SUFFICES ASSUME NEW n \in 1 .. 2 * num, num - n <= k + 1
               PROVE  f[n] \in Nat /\ f[n] >= num
    OBVIOUS
  <2>1. CASE n < num
    <3>1. 2 * n \in 1 .. 2 * num /\ num - 2 * n <= k /\ f[n] = f[2 * n]
      BY <1>3, <2>1
    <3> QED
      BY <1>5, <3>1
  <2>2. CASE ~(n < num)
    BY <1>3, <2>2
  <2> QED
    BY <2>1, <2>2
<1>6. num \in S
  <2> HIDE DEF S
  <2> QED
    BY <1>4, <1>5, StepByStep
<1>7. 1 \in 1 .. 2 * num /\ num - 1 <= num
  OBVIOUS
<1> QED
  BY <1>2, <1>6, <1>7

LEMMA NearestFacts ==
  ASSUME NEW num \in Nat \ {0}
  PROVE  /\ _nearest_power(1, num) \in Nat \ {0}
         /\ num <= MaxSize => _nearest_power(1, num) >= num
<1>1. MaxSize \in Nat /\ MaxSize > 7
  BY TStringAssumption
<1> QED
  BY <1>1, DoubledFacts DEF _nearest_power

\* The block after it is at least as long, keeps its bytes and has room for n
\* more and the zero.
LEMMA ExpandFacts ==
  ASSUME NEW t \in Strings, NEW n \in Nat, t.len + n < MaxSize, t.len <= Len(t.cells)
  PROVE  /\ maybe_expand(t, n) \in Strings /\ maybe_expand(t, n).len = t.len
         /\ t.len + n < Len(maybe_expand(t, n).cells)
         /\ Len(t.cells) <= Len(maybe_expand(t, n).cells)
         /\ \A i \in 1 .. Len(t.cells) : maybe_expand(t, n).cells[i] = t.cells[i]
<1>1. /\ t.cells \in Seq(Int) /\ Len(t.cells) \in Nat /\ t.len \in Nat
      /\ DOMAIN t.cells = 1 .. Len(t.cells)
  BY DEF Strings
<1>2. CASE t.len + n < Len(t.cells)
  BY <1>1, <1>2 DEF maybe_expand
<1>3. CASE ~(t.len + n < Len(t.cells))
  <2> DEFINE size == _nearest_power(1, t.len + n + 1)
             c == t.cells
             d == [i \in 1 .. size |-> IF i \in DOMAIN c THEN c[i] ELSE Junk]
  <2>1. size \in Nat /\ size >= t.len + n + 1
    <3> DEFINE num == t.len + n + 1
    <3>1. num \in Nat \ {0} /\ num <= MaxSize
      BY <1>1, SizeFacts
    <3> HIDE DEF num
    <3>2. _nearest_power(1, num) \in Nat /\ _nearest_power(1, num) >= num
      BY <3>1, NearestFacts
    <3> QED
      BY <3>2 DEF num
  <2>2. maybe_expand(t, n) = [t EXCEPT !.cells = d]
    BY <1>3 DEF maybe_expand
  <2>3. d \in Seq(Int) /\ Len(d) = size /\ \A i \in 1 .. size : i <= Len(c) => d[i] = c[i]
    <3> HIDE DEF size
    <3>1. \A i \in 1 .. size : (IF i \in DOMAIN c THEN c[i] ELSE Junk) \in Int
      BY <1>1, TStringAssumption
    <3>2. d \in [1 .. size -> Int]
      BY <3>1
    <3>3. \A i \in 1 .. size : i <= Len(c) => i \in DOMAIN c
      BY <1>1
    <3>4. \A i \in 1 .. size : i <= Len(c) => d[i] = c[i]
      BY <3>3
    <3> HIDE DEF d
    <3>5. d \in Seq(Int) /\ Len(d) = size
      BY <2>1, <3>2
    <3> QED
      BY <3>4, <3>5
  <2> HIDE DEF size, d
  <2>4. maybe_expand(t, n) = [cells |-> d, len |-> t.len]
    BY <2>2 DEF Strings
  <2>5. Len(c) <= size
    BY <1>1, <1>3, <2>1
  <2> QED
    BY <1>1, <2>1, <2>3, <2>4, <2>5 DEF Strings
<1> QED
  BY <1>2, <1>3

-----------------------------------------------------------------------------
(* The end and the place of what is inserted.                              *)

LEMMA EndedHolds ==
  ASSUME NEW t \in Strings, NEW s \in Seq(Int), Len(s) < Len(t.cells),
         \A i \in 1 .. Len(s) : t.cells[i] = s[i],
         NEW n, n = Len(s)
  PROVE  Holds(Ended(t, n), s)
<1> DEFINE u == [t EXCEPT !.len = n]
           z == <<0>>
<1>1. u \in Strings /\ u.len = n /\ u.cells = t.cells /\ n \in Nat
  <2>1. n \in Nat
    OBVIOUS
  <2> QED
    BY <2>1 DEF Strings
<1>2. z \in Seq(Int) /\ Len(z) = 1 /\ z[1] = 0
  OBVIOUS
<1>3. Len(t.cells) \in Nat
  BY DEF Strings
<1>4. Ended(t, n) = Put(u, n, z)
  BY DEF Ended
<1> HIDE DEF u, z
<1> DEFINE e == Put(u, n, z)
<1>5. /\ e \in Strings /\ e.len = n /\ Len(e.cells) = Len(t.cells)
      /\ \A i \in 1 .. Len(t.cells) :
           e.cells[i] = IF i \in (n + 1) .. (n + Len(z)) THEN z[i - n] ELSE t.cells[i]
  <2>1. u \in Strings /\ n \in Nat /\ z \in Seq(Int)
    BY <1>1, <1>2
  <2>2. IsPut(e, u, n, z)
    BY <2>1, PutFacts
  <2> QED
    BY <1>1, <2>2 DEF IsPut
<1> HIDE DEF e
<1>6. e.cells[n + 1] = 0
  <2>1. n + 1 \in 1 .. Len(t.cells) /\ n + 1 \in (n + 1) .. (n + 1) /\ (n + 1) - n = 1
    BY <1>1, <1>3
  <2> QED
    BY <1>2, <1>5, <2>1
<1>7. \A i \in 1 .. n : e.cells[i] = t.cells[i]
  <2>1. \A i \in 1 .. n : i \in 1 .. Len(t.cells) /\ i \notin (n + 1) .. (n + Len(z))
    BY <1>1, <1>2, <1>3
  <2> QED
    BY <1>5, <2>1
<1>8. Holds(e, s)
  BY <1>1, <1>5, <1>6, <1>7 DEF Holds
<1> QED
  BY <1>4, <1>8 DEF e

\* The bytes from p on move n places up.
LEMMA OpenedFacts ==
  ASSUME NEW t \in Strings, NEW n \in Nat, NEW p \in 0 .. t.len, t.len + n < Len(t.cells)
  PROVE  /\ Opened(t, p, n) \in Strings /\ Opened(t, p, n).len = t.len
         /\ Len(Opened(t, p, n).cells) = Len(t.cells)
         /\ \A i \in 1 .. p : Opened(t, p, n).cells[i] = t.cells[i]
         /\ \A i \in (p + 1) .. t.len : Opened(t, p, n).cells[i + n] = t.cells[i]
<1>1. t.len \in Nat /\ Len(t.cells) \in Nat
  BY DEF Strings
<1>2. CASE p < t.len
  <2> DEFINE m == t.len - p
             u == Move(t, p + n, p, m)
  <2>1. m \in Nat /\ p + m = t.len /\ p + n \in Nat /\ p \in Nat /\ p + m <= Len(t.cells)
    BY <1>1, <1>2
  <2>2. Opened(t, p, n) = u
    BY <1>2 DEF Opened
  <2> HIDE DEF m
  <2>3. /\ u \in Strings /\ u.len = t.len /\ Len(u.cells) = Len(t.cells)
        /\ \A i \in 1 .. Len(t.cells) :
             u.cells[i] = IF i \in (p + n + 1) .. (p + n + m) THEN t.cells[i - (p + n) + p] ELSE t.cells[i]
    <3>1. IsMoved(u, t, p + n, p, m)
      BY <2>1, MoveFacts
    <3> QED
      BY <3>1 DEF IsMoved
  <2> HIDE DEF u
  <2>4. ASSUME NEW i \in 1 .. p PROVE u.cells[i] = t.cells[i]
    <3>1. i \in 1 .. Len(t.cells) /\ i \notin (p + n + 1) .. (p + n + m)
      BY <1>1, <2>1
    <3> QED
      BY <2>3, <3>1
  <2>5. ASSUME NEW i \in (p + 1) .. t.len PROVE u.cells[i + n] = t.cells[i]
    <3>1. /\ i + n \in 1 .. Len(t.cells) /\ i + n \in (p + n + 1) .. (p + n + m)
          /\ (i + n) - (p + n) + p = i
      BY <1>1, <2>1
    <3> QED
      BY <2>3, <3>1
  <2> QED
    BY <2>2, <2>3, <2>4, <2>5
<1>3. CASE ~(p < t.len)
  BY <1>1, <1>3 DEF Opened
<1> QED
  BY <1>2, <1>3

\* u has room for s with a gap of n bytes at p, and s stands around the gap.
Gapped(u, s, p, n) ==
  /\ u \in Strings /\ Len(s) + n < Len(u.cells)
  /\ \A i \in 1 .. p : u.cells[i] = s[i]
  /\ \A i \in (p + 1) .. Len(s) : u.cells[i + n] = s[i]

LEMMA OpenHolds ==
  ASSUME NEW t, NEW s, Holds(t, s), NEW p \in 0 .. Len(s), NEW n \in Nat, Len(s) + n < MaxSize
  PROVE  Gapped(Opened(maybe_expand(t, n), p, n), s, p, n)
<1> DEFINE u == maybe_expand(t, n)
<1>1. t \in Strings /\ t.len = Len(s) /\ Len(s) \in Nat /\ Len(t.cells) \in Nat /\ t.len < Len(t.cells)
  BY DEF Holds, Strings
<1>2. /\ u \in Strings /\ u.len = t.len /\ t.len + n < Len(u.cells) /\ Len(t.cells) <= Len(u.cells)
      /\ \A i \in 1 .. Len(t.cells) : u.cells[i] = t.cells[i]
  BY <1>1, ExpandFacts
<1> HIDE DEF u
<1>3. \A i \in 1 .. Len(s) : u.cells[i] = s[i]
  <2>1. \A i \in 1 .. Len(s) : i \in 1 .. Len(t.cells)
    BY <1>1
  <2> QED
    BY <1>2, <2>1 DEF Holds
<1> DEFINE o == Opened(u, p, n)
<1>4. /\ o \in Strings /\ Len(o.cells) = Len(u.cells)
      /\ \A i \in 1 .. p : o.cells[i] = u.cells[i]
      /\ \A i \in (p + 1) .. Len(s) : o.cells[i + n] = u.cells[i]
  <2>1. p \in 0 .. u.len /\ u.len + n < Len(u.cells) /\ u.len = Len(s) /\ u \in Strings
    BY <1>1, <1>2
  <2> QED
    BY <2>1, OpenedFacts
<1> HIDE DEF o
<1>5. \A i \in 1 .. p : o.cells[i] = s[i]
  BY <1>1, <1>3, <1>4
<1>6. \A i \in (p + 1) .. Len(s) : o.cells[i + n] = s[i]
  BY <1>1, <1>3, <1>4
<1>7. Gapped(o, s, p, n)
  BY <1>1, <1>2, <1>4, <1>5, <1>6 DEF Gapped
<1> QED
  BY <1>7 DEF o, u

\* A gap that is filled with w makes the string hold s with w in it.
Filled(u, s, p, w) == Gapped(u, s, p, Len(w)) /\ \A i \in 1 .. Len(w) : u.cells[p + i] = w[i]

LEMMA FilledHolds ==
  ASSUME NEW u, NEW s \in Seq(Int), NEW w \in Seq(Int), NEW p \in 0 .. Len(s),
         Filled(u, s, p, w), NEW n, n = Len(s) + Len(w)
  PROVE  Holds(Ended(u, n), Spliced(s, p, w, 0))
<1> DEFINE x == Spliced(s, p, w, 0)
<1>1. Len(s) \in Nat /\ Len(w) \in Nat
  OBVIOUS
<1>2. p + 0 <= Len(s) /\ 0 \in Nat
  BY <1>1
<1>3. /\ x \in Seq(Int) /\ Len(x) = Len(s) - 0 + Len(w)
      /\ \A i \in 1 .. p : x[i] = s[i]
      /\ \A i \in 1 .. Len(w) : x[p + i] = w[i]
      /\ \A i \in (p + 0 + 1) .. Len(s) : x[i - 0 + Len(w)] = s[i]
  <2>1. IsSpliced(x, s, p, w, 0)
    BY <1>2, SpliceFacts
  <2> QED
    BY <2>1 DEF IsSpliced
<1> HIDE DEF x
<1>4. Len(x) = n /\ n \in Nat
  BY <1>1, <1>3
<1>5. ASSUME NEW i \in 1 .. n PROVE u.cells[i] = x[i]
  <2>1. CASE i <= p
    BY <1>1, <1>3, <2>1 DEF Filled, Gapped
  <2>2. CASE i > p /\ i <= p + Len(w)
    <3> DEFINE j == i - p
    <3>1. j \in 1 .. Len(w) /\ p + j = i
      BY <1>1, <2>2
    <3> HIDE DEF j
    <3>2. u.cells[p + j] = w[j] /\ x[p + j] = w[j]
      BY <1>3, <3>1 DEF Filled
    <3> QED
      BY <3>1, <3>2
  <2>3. CASE i > p + Len(w)
    <3> DEFINE j == i - Len(w)
    <3>1. j \in (p + 1) .. Len(s) /\ j + Len(w) = i /\ j - 0 + Len(w) = i /\ j \in (p + 0 + 1) .. Len(s)
      BY <1>1, <2>3
    <3> HIDE DEF j
    <3>2. u.cells[j + Len(w)] = s[j]
      BY <3>1 DEF Filled, Gapped
    <3>3. x[j - 0 + Len(w)] = s[j]
      BY <1>3, <3>1
    <3> QED
      BY <3>1, <3>2, <3>3
  <2> QED
    BY <1>1, <2>1, <2>2, <2>3
<1>6. u \in Strings /\ n < Len(u.cells)
  BY DEF Filled, Gapped
<1>7. Holds(Ended(u, n), x)
  BY <1>3, <1>4, <1>5, <1>6, EndedHolds
<1> QED
  BY <1>7 DEF x

\* Copying w into the gap fills it and leaves what stands around it.
LEMMA PutFills ==
  ASSUME NEW u, NEW s \in Seq(Int), NEW w \in Seq(Int), NEW p \in 0 .. Len(s),
         Gapped(u, s, p, Len(w))
  PROVE  Filled(Put(u, p, w), s, p, w)
<1> DEFINE v == Put(u, p, w)
           n == Len(w)
<1>1. Len(s) \in Nat /\ n \in Nat /\ u \in Strings /\ Len(u.cells) \in Nat /\ p \in Nat
      /\ Len(s) + n < Len(u.cells)
  BY DEF Gapped, Strings
<1>2. /\ v \in Strings /\ Len(v.cells) = Len(u.cells)
      /\ \A i \in 1 .. Len(u.cells) :
           v.cells[i] = IF i \in (p + 1) .. (p + n) THEN w[i - p] ELSE u.cells[i]
  <2>1. IsPut(v, u, p, w)
    BY <1>1, PutFacts
  <2> QED
    BY <2>1 DEF IsPut
<1> HIDE DEF v, n
<1>3. ASSUME NEW i \in 1 .. n PROVE v.cells[p + i] = w[i]
  <2>1. p + i \in 1 .. Len(u.cells) /\ p + i \in (p + 1) .. (p + n) /\ (p + i) - p = i
    BY <1>1
  <2> QED
    BY <1>2, <2>1
<1>4. ASSUME NEW i \in 1 .. p PROVE v.cells[i] = s[i]
  <2>1. i \in 1 .. Len(u.cells) /\ i \notin (p + 1) .. (p + n)
    BY <1>1
  <2>2. u.cells[i] = s[i]
    BY DEF Gapped
  <2> QED
    BY <1>2, <2>1, <2>2
<1>5. ASSUME NEW i \in (p + 1) .. Len(s) PROVE v.cells[i + n] = s[i]
  <2>1. i + n \in 1 .. Len(u.cells) /\ i + n \notin (p + 1) .. (p + n)
    BY <1>1
  <2>2. u.cells[i + n] = s[i]
    BY DEF Gapped, n
  <2> QED
    BY <1>2, <2>1, <2>2
<1> QED
  BY <1>1, <1>2, <1>3, <1>4, <1>5 DEF Filled, Gapped, v, n

\* Moving m bytes into the gap, behind its first a ones.
FilledFrom(v, u, s, p, n, a, m, from) ==
  /\ Gapped(v, s, p, n)
  /\ \A i \in 1 .. a : v.cells[p + i] = u.cells[p + i]
  /\ \A i \in (a + 1) .. (a + m) : v.cells[p + i] = u.cells[from + (i - a)]

LEMMA MoveFills ==
  ASSUME NEW u, NEW s \in Seq(Int), NEW p \in 0 .. Len(s), NEW n \in Nat, Gapped(u, s, p, n),
         NEW a \in Nat, NEW m \in Nat, NEW from \in Nat, a + m <= n, from + m <= Len(s) + n
  PROVE  FilledFrom(Move(u, p + a, from, m), u, s, p, n, a, m, from)
<1> DEFINE b == p + a
<1>0. b \in Nat /\ b = p + a
  OBVIOUS
<1> HIDE DEF b
<1> DEFINE v == Move(u, b, from, m)
<1>1. /\ Len(s) \in Nat /\ u \in Strings /\ Len(u.cells) \in Nat /\ p \in Nat
      /\ Len(s) + n < Len(u.cells)
  BY DEF Gapped, Strings
<1>2. from + m <= Len(u.cells)
  BY <1>1
<1>3. /\ v \in Strings /\ Len(v.cells) = Len(u.cells)
      /\ \A i \in 1 .. Len(u.cells) :
           v.cells[i] = IF i \in (b + 1) .. (b + m) THEN u.cells[i - b + from] ELSE u.cells[i]
  <2>1. IsMoved(v, u, b, from, m)
    BY <1>0, <1>1, <1>2, MoveFacts
  <2> QED
    BY <2>1 DEF IsMoved
<1> HIDE DEF v
<1>4. ASSUME NEW i \in 1 .. p PROVE v.cells[i] = s[i]
  <2>1. i \in 1 .. Len(u.cells) /\ i \notin (b + 1) .. (b + m)
    BY <1>0, <1>1
  <2>2. u.cells[i] = s[i]
    BY DEF Gapped
  <2> QED
    BY <1>3, <2>1, <2>2
<1>5. ASSUME NEW i \in (p + 1) .. Len(s) PROVE v.cells[i + n] = s[i]
  <2>1. i + n \in 1 .. Len(u.cells) /\ i + n \notin (b + 1) .. (b + m)
    BY <1>0, <1>1
  <2>2. u.cells[i + n] = s[i]
    BY DEF Gapped
  <2> QED
    BY <1>3, <2>1, <2>2
<1>6. ASSUME NEW i \in 1 .. a PROVE v.cells[p + i] = u.cells[p + i]
  <2>1. p + i \in 1 .. Len(u.cells) /\ p + i \notin (b + 1) .. (b + m)
    BY <1>0, <1>1
  <2> QED
    BY <1>3, <2>1
<1>7. ASSUME NEW i \in (a + 1) .. (a + m) PROVE v.cells[p + i] = u.cells[from + (i - a)]
  <2>1. /\ p + i \in 1 .. Len(u.cells) /\ p + i \in (b + 1) .. (b + m)
        /\ (p + i) - b + from = from + (i - a)
    BY <1>0, <1>1
  <2> QED
    BY <1>3, <2>1
<1>8. FilledFrom(v, u, s, p, n, a, m, from)
  BY <1>1, <1>3, <1>4, <1>5, <1>6, <1>7 DEF Gapped, FilledFrom
<1> QED
  BY <1>0, <1>8 DEF v

-----------------------------------------------------------------------------
(* Insertions.                                                             *)

LEMMA TextsAreBytes == ASSUME NEW w \in Seq(Character) PROVE w \in Seq(Int) /\ Len(w) \in Nat
<1>1. \A i \in 1 .. Len(w) : w[i] \in Int
  <2>1. \A i \in 1 .. Len(w) : w[i] \in Character
    OBVIOUS
  <2>2. \A c \in Character : c \in Int
    BY DEF Character
  <2> QED
    BY <2>1, <2>2
<1>2. Len(w) \in Nat /\ DOMAIN w = 1 .. Len(w) /\ w = [i \in 1 .. Len(w) |-> w[i]]
  OBVIOUS
<1>3. w \in [1 .. Len(w) -> Int]
  BY <1>1, <1>2
<1> QED
  BY <1>2, <1>3

LEMMA StrlenFacts ==
  ASSUME NEW w \in Seq(Character)
  PROVE  strlen(w \o <<0>>) = Len(w)
<1> DEFINE v == w \o <<0>>
           I == {i \in 1 .. Len(v) : v[i] = 0}
           n == Len(w)
<1>1. /\ n \in Nat /\ Len(v) = n + 1 /\ v[n + 1] = 0
      /\ \A i \in 1 .. n : v[i] = w[i] /\ w[i] \in Character
  <2> DEFINE z == <<0>>
  <2>1. z \in Seq(Int) /\ Len(z) = 1 /\ z[1] = 0 /\ w \in Seq(Int) /\ 1 \in 1 .. 1
    BY TextsAreBytes
  <2>2. \A i \in 1 .. Len(w) : w[i] \in Character
    OBVIOUS
  <2> HIDE DEF z
  <2>3. /\ Len(w) \in Nat /\ Len(w \o z) = Len(w) + Len(z)
        /\ \A i \in 1 .. Len(w) : (w \o z)[i] = w[i]
        /\ \A i \in 1 .. Len(z) : (w \o z)[Len(w) + i] = z[i]
    BY <2>1, ConcatFacts
  <2>4. (w \o z)[Len(w) + 1] = 0
    BY <2>1, <2>3
  <2> QED
    BY <2>1, <2>2, <2>3, <2>4 DEF z
<1>2. strlen(v) = (IF I # {} THEN Min(I) ELSE 0) - 1
  BY DEF strlen, SelectInSeq
<1> HIDE DEF v, n
<1>3. n + 1 \in I /\ \A i \in I : i = n + 1
  <2>1. n + 1 \in I
    BY <1>1
  <2>2. ASSUME NEW i \in 1 .. Len(v), v[i] = 0 PROVE i = n + 1
    <3>1. i \in 1 .. n \/ i = n + 1
      BY <1>1
    <3>2. CASE i \in 1 .. n
      <4>1. v[i] \in Character
        BY <1>1, <3>2
      <4> QED
        BY <2>2, <4>1 DEF Character
    <3> QED
      BY <3>1, <3>2
  <2> QED
    BY <2>1, <2>2
<1>4. I = {n + 1}
  BY <1>3
<1>5. Min({n + 1}) = n + 1
  BY <1>1 DEF Min
<1>6. I # {}
  BY <1>3
<1> HIDE DEF I
<1>7. strlen(v) = n
  BY <1>1, <1>2, <1>4, <1>5, <1>6
<1> QED
  BY <1>7 DEF v, n

At(s, pos) == IF pos < 0 THEN Len(s) ELSE pos

IsInserted(x, s, p, w) ==
  /\ x \in Seq(Int) /\ Len(x) = Len(s) + Len(w)
  /\ \A i \in 1 .. p : x[i] = s[i]
  /\ \A i \in 1 .. Len(w) : x[p + i] = w[i]
  /\ \A i \in (p + 1) .. Len(s) : x[i + Len(w)] = s[i]

LEMMA InsertFacts ==
  ASSUME NEW s \in Seq(Int), NEW w \in Seq(Int), NEW p \in 0 .. Len(s)
  PROVE  IsInserted(Spliced(s, p, w, 0), s, p, w)
<1> DEFINE k == 0
           x == Spliced(s, p, w, k)
<1>1. k \in Nat /\ p + k <= Len(s) /\ k = 0 /\ Len(s) \in Nat /\ Len(w) \in Nat
  OBVIOUS
<1> HIDE DEF k
<1>2. /\ x \in Seq(Int) /\ Len(x) = Len(s) - k + Len(w)
      /\ \A i \in 1 .. p : x[i] = s[i]
      /\ \A i \in 1 .. Len(w) : x[p + i] = w[i]
      /\ \A i \in (p + k + 1) .. Len(s) : x[i - k + Len(w)] = s[i]
  <2>1. IsSpliced(x, s, p, w, k)
    BY <1>1, SpliceFacts
  <2> QED
    BY <2>1 DEF IsSpliced
<1> HIDE DEF x
<1>3. ASSUME NEW i \in (p + 1) .. Len(s) PROVE x[i + Len(w)] = s[i]
  <2>1. i \in (p + k + 1) .. Len(s) /\ i - k + Len(w) = i + Len(w)
    BY <1>1
  <2> QED
    BY <1>2, <2>1
<1>4. Len(x) = Len(s) + Len(w)
  BY <1>1, <1>2
<1>5. x = Spliced(s, p, w, 0)
  BY <1>1 DEF x
<1>6. IsInserted(x, s, p, w)
  BY <1>2, <1>3, <1>4 DEF IsInserted
<1> QED
  BY <1>5, <1>6

LEMMA SpliceNothing ==
  ASSUME NEW s \in Seq(Int), NEW w \in Seq(Int), Len(w) = 0, NEW p \in 0 .. Len(s)
  PROVE  Spliced(s, p, w, 0) = s
<1>1. Len(s) \in Nat
  OBVIOUS
<1> DEFINE x == Spliced(s, p, w, 0)
<1>2. /\ x \in Seq(Int) /\ Len(x) = Len(s) + Len(w)
      /\ \A i \in 1 .. p : x[i] = s[i]
      /\ \A i \in (p + 1) .. Len(s) : x[i + Len(w)] = s[i]
  <2>1. IsInserted(x, s, p, w)
    BY InsertFacts
  <2> HIDE DEF x
  <2> QED
    BY <2>1 DEF IsInserted
<1> HIDE DEF x
<1>3. Len(x) = Len(s)
  BY <1>1, <1>2
<1>4. ASSUME NEW i \in 1 .. Len(s) PROVE x[i] = s[i]
  <2>1. CASE i <= p
    BY <1>1, <1>2, <2>1
  <2>2. CASE i > p
    <3>1. i \in (p + 1) .. Len(s) /\ i + Len(w) = i
      BY <1>1, <2>2
    <3> QED
      BY <1>2, <3>1
  <2> QED
    BY <1>1, <2>1, <2>2
<1>5. x = s
  BY <1>2, <1>3, <1>4, SamePlaces
<1> QED
  BY <1>5 DEF x

\* The bytes w are put where the string was opened for them.
LEMMA InsertHolds ==
  ASSUME NEW t, NEW s, Holds(t, s), NEW w \in Seq(Int), NEW p \in 0 .. Len(s),
         Len(s) + Len(w) < MaxSize, NEW n, n = Len(w)
  PROVE  Holds(Ended(Put(Opened(maybe_expand(t, n), p, n), p, w), t.len + n), Spliced(s, p, w, 0))
<1> DEFINE u == Opened(maybe_expand(t, n), p, n)
<1>1. n \in Nat /\ s \in Seq(Int) /\ t.len = Len(s)
  BY DEF Holds
<1>2. Gapped(u, s, p, Len(w))
  BY <1>1, OpenHolds
<1> HIDE DEF u
<1>3. Filled(Put(u, p, w), s, p, w)
  <2>1. s \in Seq(Int) /\ w \in Seq(Int) /\ p \in 0 .. Len(s)
    BY <1>1
  <2> QED
    BY <1>2, <2>1, PutFills
<1>4. Holds(Ended(Put(u, p, w), t.len + n), Spliced(s, p, w, 0))
  BY <1>1, <1>3, FilledHolds
<1> QED
  BY <1>4 DEF u

\* A caller's bytes, by their number or up to their zero.
LEMMA ForeignHolds ==
  ASSUME NEW t, NEW s, Holds(t, s), NEW w \in Seq(Character), NEW pos \in Int, pos <= Len(s),
         Len(s) + Len(w) < MaxSize, NEW n0 \in {-1, Len(w)}
  PROVE  Holds(insert_len(t, pos, Foreign(w), n0), Spliced(s, At(s, pos), w, 0))
<1> DEFINE n == IF n0 < 0 THEN strlen(Pointed(t, Foreign(w))) ELSE n0
           p == IF pos < 0 THEN t.len ELSE pos
           bytes == w \o <<0>>
<1>1. Len(w) \in Nat /\ s \in Seq(Int) /\ Len(s) \in Nat /\ t.len = Len(s) /\ w \in Seq(Int)
  BY TextsAreBytes DEF Holds
<1>2. Foreign(w).own = FALSE /\ Foreign(w).bytes = bytes
  BY DEF Foreign
<1>3. n = Len(w)
  BY <1>1, <1>2, StrlenFacts DEF Pointed
<1>4. p = At(s, pos) /\ p \in 0 .. Len(s)
  BY <1>1 DEF At
<1>5. SubSeq(bytes, 1, Len(w)) = w
  BY <1>1
<1>6. CASE n0 = 0
  <2>1. insert_len(t, pos, Foreign(w), n0) = t
    BY <1>6 DEF insert_len
  <2>2. Len(w) = 0
    BY <1>1, <1>6
  <2> HIDE DEF p
  <2>3. Spliced(s, p, w, 0) = s
    BY <1>1, <1>4, <2>2, SpliceNothing
  <2> QED
    BY <1>4, <2>1, <2>3
<1>7. CASE n0 # 0
  <2>1. insert_len(t, pos, Foreign(w), n0) =
          Ended(Put(Opened(maybe_expand(t, n), p, n), p, SubSeq(bytes, 1, n)), t.len + n)
    BY <1>2, <1>7 DEF insert_len
  <2> HIDE DEF n, p, bytes
  <2>2. Holds(Ended(Put(Opened(maybe_expand(t, n), p, n), p, w), t.len + n), Spliced(s, p, w, 0))
    BY <1>1, <1>3, <1>4, InsertHolds
  <2> QED
    BY <1>3, <1>4, <1>5, <2>1, <2>2
<1> QED
  BY <1>6, <1>7

\* The string's own bytes: those before the place stand where they stood, those
\* behind it have moved up.
LEMMA OwnHolds ==
  ASSUME NEW t, NEW s, Holds(t, s), NEW pos \in Int, pos <= Len(s),
         NEW o \in Nat, NEW n \in Nat, o + n <= Len(s), Len(s) + n < MaxSize,
         NEW n0, n0 = n \/ (n0 = -1 /\ strlen(Pointed(t, Own(o))) = n)
  PROVE  Holds(insert_len(t, pos, Own(o), n0), Spliced(s, At(s, pos), SubSeq(s, o + 1, o + n), 0))
<1> DEFINE w == SubSeq(s, o + 1, o + n)
           p == IF pos < 0 THEN t.len ELSE pos
           before == IF o < p THEN Smaller(n, p - o) ELSE 0
           u == Opened(maybe_expand(t, n), p, n)
           first == Move(u, p, o, before)
           second == IF n > before THEN Move(first, p + before, o + before + n, n - before)
                     ELSE first
<1>1. s \in Seq(Int) /\ Len(s) \in Nat /\ t.len = Len(s)
  BY DEF Holds
<1>2. p = At(s, pos) /\ p \in 0 .. Len(s)
  <2>1. p = IF pos < 0 THEN Len(s) ELSE pos
    BY <1>1
  <2> HIDE DEF p
  <2>2. p \in 0 .. Len(s)
    BY <1>1, <2>1
  <2> QED
    BY <2>1, <2>2 DEF At
<1>3. w \in Seq(Int) /\ Len(w) = n /\ \A i \in 1 .. n : w[i] = s[i + o]
  <2> HIDE DEF p, before, u, first, second
  <2> QED
    BY <1>1
<1> HIDE DEF w
<1>4. CASE n0 = 0
  <2>1. n = 0
    BY <1>4
  <2>2. insert_len(t, pos, Own(o), n0) = t
    BY <1>4 DEF insert_len
  <2> HIDE DEF p
  <2>3. Spliced(s, p, w, 0) = s
    BY <1>1, <1>2, <1>3, <2>1, SpliceNothing
  <2> QED
    BY <1>2, <2>2, <2>3 DEF w
<1>5. CASE n0 # 0
  <2>1. insert_len(t, pos, Own(o), n0) = Ended(second, t.len + n)
    <3>1. Own(o).own = TRUE /\ Own(o).at = o
      BY DEF Own
    <3>2. (IF n0 < 0 THEN strlen(Pointed(t, Own(o))) ELSE n0) = n
      OBVIOUS
    <3> QED
      BY <1>5, <3>1, <3>2 DEF insert_len
  <2>2. before \in Nat /\ before <= n /\ p \in Nat /\ o + before <= Len(s) + n
    BY <1>1, <1>2 DEF Smaller
  <2>7. \A i \in 1 .. before : o + i <= p
    BY <1>1, <1>2 DEF Smaller
  <2>8. \A i \in (before + 1) .. n : o + i > p
    BY <1>1, <1>2 DEF Smaller
  <2>3. Gapped(u, s, p, n)
    BY <1>1, <1>2, OpenHolds
  <2> HIDE DEF p, before, u
  <2>4. /\ Gapped(first, s, p, n)
        /\ \A i \in 1 .. before : first.cells[p + i] = s[o + i]
    <3> DEFINE a == 0
    <3>1. a \in Nat /\ a + before <= n /\ p + a = p /\ a = 0
      BY <2>2
    <3> HIDE DEF a
    <3> DEFINE v == Move(u, p + a, o, before)
    <3>2. /\ Gapped(v, s, p, n)
          /\ \A i \in (a + 1) .. (a + before) : v.cells[p + i] = u.cells[o + (i - a)]
      <4>1. FilledFrom(v, u, s, p, n, a, before, o)
        BY <1>1, <1>2, <2>2, <2>3, <3>1, MoveFills
      <4> QED
        BY <4>1 DEF FilledFrom
    <3>3. first = v
      BY <3>1
    <3> HIDE DEF v
    <3>4. ASSUME NEW i \in 1 .. before PROVE v.cells[p + i] = s[o + i]
      <4>1. /\ i \in (a + 1) .. (a + before) /\ o + (i - a) = o + i /\ o + i \in 1 .. p
        BY <2>2, <2>7, <3>1
      <4>2. u.cells[o + i] = s[o + i]
        BY <2>3, <4>1 DEF Gapped
      <4> QED
        BY <3>2, <4>1, <4>2
    <3> QED
      BY <3>2, <3>3, <3>4
  <2> HIDE DEF first
  <2>5. Filled(second, s, p, w)
    <3>1. CASE n > before
      <4> DEFINE m == n - before
                 from == o + before + n
      <4>1. m \in Nat /\ from \in Nat /\ before + m = n /\ from + m <= Len(s) + n
            /\ from = o + before + n
        BY <1>1, <2>2, <3>1
      <4>2. second = Move(first, p + before, from, m)
        BY <3>1
      <4> HIDE DEF m, from, second
      <4>3. /\ Gapped(second, s, p, n)
            /\ \A i \in 1 .. before : second.cells[p + i] = first.cells[p + i]
            /\ \A i \in (before + 1) .. (before + m) :
                 second.cells[p + i] = first.cells[from + (i - before)]
        <5>1. before + m <= n
          BY <2>2, <4>1
        <5>2. FilledFrom(second, first, s, p, n, before, m, from)
          BY <1>1, <1>2, <2>2, <2>4, <4>1, <4>2, <5>1, MoveFills
        <5> QED
          BY <5>2 DEF FilledFrom
      <4>4. ASSUME NEW i \in 1 .. n PROVE second.cells[p + i] = w[i]
        <5>1. CASE i \in 1 .. before
          <6>1. second.cells[p + i] = first.cells[p + i]
            BY <4>3, <5>1
          <6>2. first.cells[p + i] = s[o + i]
            BY <2>4, <5>1
          <6>3. o + i = i + o
            OBVIOUS
          <6> QED
            BY <1>3, <6>1, <6>2, <6>3
        <5>2. CASE i \notin 1 .. before
          <6>0. i \in (before + 1) .. n
            BY <2>2, <5>2
          <6>3. o + i > p
            BY <2>8, <6>0
          <6>1. /\ i \in (before + 1) .. (before + m) /\ o + i \in (p + 1) .. Len(s)
                /\ from + (i - before) = (o + i) + n /\ i + o = o + i
            BY <1>1, <2>2, <4>1, <6>0, <6>3
          <6>2. first.cells[(o + i) + n] = s[o + i]
            BY <2>4, <6>1 DEF Gapped
          <6> QED
            BY <1>3, <4>3, <6>1, <6>2
        <5> QED
          BY <5>1, <5>2
      <4> QED
        BY <1>3, <4>3, <4>4 DEF Filled
    <3>2. CASE ~(n > before)
      <4>1. second = first /\ before = n
        BY <2>2, <3>2
      <4> HIDE DEF second
      <4> QED
        BY <1>3, <2>4, <4>1 DEF Filled
    <3> QED
      BY <3>1, <3>2
  <2> HIDE DEF second
  <2>6. Holds(Ended(second, t.len + n), Spliced(s, p, w, 0))
    BY <1>1, <1>2, <1>3, <2>5, FilledHolds
  <2> QED
    BY <1>2, <2>1, <2>6 DEF w
<1> QED
  BY <1>4, <1>5

LEMMA ByteHolds ==
  ASSUME NEW t, NEW s, Holds(t, s), NEW c \in Int, NEW pos \in Int, pos <= Len(s),
         Len(s) + 1 < MaxSize
  PROVE  Holds(insert_c(t, pos, c), Spliced(s, At(s, pos), <<c>>, 0))
<1> DEFINE w == <<c>>
           p == IF pos < 0 THEN t.len ELSE pos
           n == 1
<1>1. s \in Seq(Int) /\ Len(s) \in Nat /\ t.len = Len(s)
  BY DEF Holds
<1>2. p = At(s, pos) /\ p \in 0 .. Len(s)
  BY <1>1 DEF At
<1>3. w \in Seq(Int) /\ Len(w) = n /\ n = 1
  OBVIOUS
<1>4. insert_c(t, pos, c) = Ended(Put(Opened(maybe_expand(t, n), p, n), p, w), t.len + n)
  BY DEF insert_c
<1> HIDE DEF w, p, n
<1>5. Holds(Ended(Put(Opened(maybe_expand(t, n), p, n), p, w), t.len + n), Spliced(s, p, w, 0))
  BY <1>1, <1>2, <1>3, InsertHolds
<1> QED
  BY <1>2, <1>4, <1>5 DEF w

LEMMA InlineHolds ==
  ASSUME NEW t, NEW s, Holds(t, s), NEW c \in Int, Len(s) + 1 < MaxSize
  PROVE  Holds(append_c_inline(t, c), Spliced(s, Len(s), <<c>>, 0))
<1> DEFINE w == <<c>>
           p == Len(s)
           v == Put(t, p, w)
<1>1. s \in Seq(Int) /\ p \in Nat /\ t.len = p /\ t \in Strings
  BY DEF Holds
<1>2. w \in Seq(Int) /\ Len(w) = 1
  OBVIOUS
<1>3. CASE t.len + 1 < Len(t.cells)
  <2>1. append_c_inline(t, c) = Ended(v, t.len + 1)
    BY <1>1, <1>3 DEF append_c_inline
  <2>2. Gapped(t, s, p, Len(w))
    BY <1>1, <1>2, <1>3 DEF Gapped, Holds
  <2>3. p \in 0 .. Len(s) /\ t.len + 1 = Len(s) + Len(w)
    BY <1>1, <1>2
  <2> HIDE DEF w, p
  <2>4. Filled(v, s, p, w)
    BY <1>1, <1>2, <2>2, <2>3, PutFills
  <2> HIDE DEF v
  <2>5. Holds(Ended(v, t.len + 1), Spliced(s, p, w, 0))
    BY <1>1, <1>2, <2>3, <2>4, FilledHolds
  <2> QED
    BY <2>1, <2>5 DEF w, p
<1>4. CASE ~(t.len + 1 < Len(t.cells))
  <2>1. append_c_inline(t, c) = insert_c(t, -1, c)
    BY <1>4 DEF append_c_inline
  <2>2. -1 \in Int /\ -1 <= Len(s) /\ At(s, -1) = Len(s)
    BY <1>1 DEF At
  <2> QED
    BY <2>1, <2>2, ByteHolds
<1> QED
  BY <1>3, <1>4

\* A formatted text and its zero are written behind the text.
LEMMA PrintedHolds ==
  ASSUME NEW t, NEW s, Holds(t, s), NEW w \in Seq(Int), Len(s) + Len(w) < MaxSize
  PROVE  Holds(append_vprintf(t, w), Spliced(s, Len(s), w, 0))
<1> DEFINE u == maybe_expand(t, Len(w))
           z == <<0>>
           b == w \o z
           v == Put(u, t.len, b)
           x == Spliced(s, Len(s), w, 0)
           n == Len(w)
           p == Len(s)
<1>1. /\ s \in Seq(Int) /\ p \in Nat /\ t.len = p /\ t \in Strings /\ n \in Nat
      /\ Len(t.cells) \in Nat /\ t.len < Len(t.cells)
  BY DEF Holds, Strings
<1>2. z \in Seq(Int) /\ Len(z) = 1 /\ z[1] = 0
  OBVIOUS
<1>3. append_vprintf(t, w) = [v EXCEPT !.len = t.len + n]
  BY DEF append_vprintf
<1>4. b \in Seq(Int) /\ Len(b) = n + 1 /\ b[n + 1] = 0 /\ \A i \in 1 .. n : b[i] = w[i]
  <2> HIDE DEF z
  <2>1. /\ b \in Seq(Int) /\ Len(b) = Len(w) + Len(z)
        /\ \A i \in 1 .. Len(w) : b[i] = w[i]
        /\ \A i \in 1 .. Len(z) : b[Len(w) + i] = z[i]
    BY <1>2, ConcatFacts
  <2>2. 1 \in 1 .. Len(z)
    BY <1>2
  <2>3. b[Len(w) + 1] = 0
    BY <1>2, <2>1, <2>2
  <2> QED
    BY <1>2, <2>1, <2>3
<1> HIDE DEF z, b
<1>5. /\ u \in Strings /\ u.len = p /\ p + n < Len(u.cells) /\ Len(u.cells) \in Nat
      /\ \A i \in 1 .. p : u.cells[i] = s[i]
  <2>5. t.len + n < MaxSize /\ t.len <= Len(t.cells)
    BY <1>1
  <2>6. u = maybe_expand(t, n)
    OBVIOUS
  <2> HIDE DEF u, n
  <2>1. /\ u \in Strings /\ u.len = t.len /\ t.len + n < Len(u.cells)
        /\ Len(t.cells) <= Len(u.cells) /\ \A i \in 1 .. Len(t.cells) : u.cells[i] = t.cells[i]
    BY <1>1, <2>5, <2>6, ExpandFacts
  <2>2. \A i \in 1 .. p : i \in 1 .. Len(t.cells)
    BY <1>1
  <2>3. \A i \in 1 .. p : t.cells[i] = s[i]
    BY DEF Holds
  <2>4. Len(u.cells) \in Nat
    BY <2>1 DEF Strings
  <2> QED
    BY <1>1, <2>1, <2>2, <2>3, <2>4
<1> HIDE DEF u
<1>6. /\ x \in Seq(Int) /\ Len(x) = p + n
      /\ \A i \in 1 .. p : x[i] = s[i]
      /\ \A i \in 1 .. n : x[p + i] = w[i]
  <2>1. p \in 0 .. Len(s)
    BY <1>1
  <2>2. IsInserted(x, s, p, w)
    BY <1>1, <2>1, InsertFacts
  <2> HIDE DEF x
  <2> QED
    BY <2>2 DEF IsInserted
<1> HIDE DEF x
<1>7. /\ v \in Strings /\ v.len = u.len /\ Len(v.cells) = Len(u.cells)
      /\ \A i \in 1 .. Len(u.cells) :
           v.cells[i] = IF i \in (p + 1) .. (p + Len(b)) THEN b[i - p] ELSE u.cells[i]
  <2>1. IsPut(v, u, p, b)
    BY <1>1, <1>4, <1>5, PutFacts
  <2> QED
    BY <2>1 DEF IsPut
<1> HIDE DEF v, n, p
<1>8. ASSUME NEW i \in 1 .. (p + n) PROVE v.cells[i] = x[i]
  <2>0. i \in 1 .. Len(u.cells)
    BY <1>1, <1>5
  <2>1. CASE i <= p
    <3>1. i \in 1 .. p /\ i \notin (p + 1) .. (p + Len(b))
      BY <1>1, <1>4, <2>1
    <3> QED
      BY <1>5, <1>6, <1>7, <2>0, <3>1
  <2>2. CASE ~(i <= p)
    <3> DEFINE j == i - p
    <3>1. j \in 1 .. n /\ p + j = i /\ i - p = j /\ i \in (p + 1) .. (p + Len(b))
      BY <1>1, <1>4, <2>2
    <3> HIDE DEF j
    <3>2. v.cells[i] = b[j]
      BY <1>7, <2>0, <3>1
    <3>3. x[p + j] = w[j] /\ b[j] = w[j]
      BY <1>4, <1>6, <3>1
    <3> QED
      BY <3>1, <3>2, <3>3
  <2> QED
    BY <2>1, <2>2
<1>9. v.cells[(p + n) + 1] = 0
  <2> DEFINE i == (p + n) + 1
  <2>1. i \in 1 .. Len(u.cells) /\ i \in (p + 1) .. (p + Len(b)) /\ i - p = n + 1
    BY <1>1, <1>4, <1>5
  <2> HIDE DEF i
  <2>2. v.cells[i] = 0
    BY <1>4, <1>7, <2>1
  <2> QED
    BY <2>2 DEF i
<1> DEFINE e == [v EXCEPT !.len = t.len + n]
<1>10. e \in Strings /\ e.len = p + n /\ e.cells = v.cells
  <2>1. p + n \in Nat /\ t.len + n = p + n
    BY <1>1
  <2> QED
    BY <1>7, <2>1 DEF Strings
<1> HIDE DEF e
<1>11. Holds(e, x)
  BY <1>5, <1>6, <1>7, <1>8, <1>9, <1>10 DEF Holds
<1> QED
  BY <1>3, <1>11 DEF e, x, p, n

-----------------------------------------------------------------------------
(* The other operations.                                                   *)

LEMMA TruncateHolds ==
  ASSUME NEW t, NEW s, Holds(t, s), NEW n \in Nat
  PROVE  Holds(truncate(t, n), SubSeq(s, 1, Smaller(n, Len(s))))
<1> DEFINE m == Smaller(n, t.len)
           x == SubSeq(s, 1, m)
<1>1. s \in Seq(Int) /\ Len(s) \in Nat /\ t.len = Len(s) /\ t \in Strings /\ Len(s) < Len(t.cells)
  BY DEF Holds
<1>2. m \in Nat /\ m <= Len(s)
  BY <1>1 DEF Smaller
<1>3. truncate(t, n) = Ended(t, m)
  BY DEF truncate
<1>4. m = Smaller(n, Len(s))
  BY <1>1
<1> HIDE DEF m
<1>5. x \in Seq(Int) /\ Len(x) = m /\ \A i \in 1 .. m : x[i] = s[i]
  BY <1>1, <1>2
<1> HIDE DEF x
<1>6. \A i \in 1 .. Len(x) : t.cells[i] = x[i]
  <2>1. \A i \in 1 .. m : i \in 1 .. Len(s)
    BY <1>1, <1>2
  <2>2. \A i \in 1 .. Len(s) : t.cells[i] = s[i]
    BY DEF Holds
  <2> QED
    BY <1>5, <2>1, <2>2
<1>7. Len(t.cells) \in Nat
  BY <1>1 DEF Strings
<1>8. Len(x) < Len(t.cells)
  BY <1>1, <1>2, <1>5, <1>7
<1>9. Holds(Ended(t, m), x)
  BY <1>1, <1>5, <1>6, <1>8, EndedHolds
<1> QED
  BY <1>3, <1>4, <1>9 DEF x

LEMMA EmptiedHolds ==
  ASSUME NEW t, NEW s, Holds(t, s)
  PROVE  Holds(truncate(t, 0), <<>>)
<1>1. s \in Seq(Int) /\ Len(s) \in Nat
  BY DEF Holds
<1>2. Smaller(0, Len(s)) = 0
  BY <1>1 DEF Smaller
<1>3. SubSeq(s, 1, 0) = <<>>
  BY <1>1
<1>4. 0 \in Nat
  OBVIOUS
<1> QED
  BY <1>2, <1>3, <1>4, TruncateHolds

\* The bytes that set_size adds are what the block holds there.
LEMMA SetSizeHolds ==
  ASSUME NEW t, NEW s, Holds(t, s), NEW n \in Nat, n < MaxSize
  PROVE  \E x : /\ Holds(set_size(t, n), x) /\ Len(x) = n
                /\ \A i \in 1 .. n : i <= Len(s) => x[i] = s[i]
<1> DEFINE u == IF n >= Len(t.cells) THEN maybe_expand(t, n - t.len) ELSE t
           x == SubSeq(u.cells, 1, n)
<1>1. /\ s \in Seq(Int) /\ Len(s) \in Nat /\ t.len = Len(s) /\ t \in Strings
      /\ Len(t.cells) \in Nat /\ t.len < Len(t.cells)
  BY DEF Holds, Strings
<1>2. set_size(t, n) = Ended(u, n)
  BY DEF set_size
<1>3. /\ u \in Strings /\ n < Len(u.cells) /\ Len(u.cells) \in Nat
      /\ \A i \in 1 .. Len(t.cells) : u.cells[i] = t.cells[i]
  <2>1. CASE n >= Len(t.cells)
    <3> DEFINE m == n - t.len
    <3>1. m \in Nat /\ t.len + m = n /\ t.len <= Len(t.cells) /\ t.len + m < MaxSize
      BY <1>1, <2>1
    <3>2. u = maybe_expand(t, m)
      BY <2>1
    <3> HIDE DEF m, u
    <3>3. /\ u \in Strings /\ t.len + m < Len(u.cells)
          /\ \A i \in 1 .. Len(t.cells) : u.cells[i] = t.cells[i]
      BY <1>1, <3>1, <3>2, ExpandFacts
    <3>4. Len(u.cells) \in Nat
      BY <3>3 DEF Strings
    <3> QED
      BY <3>1, <3>3, <3>4
  <2>2. CASE ~(n >= Len(t.cells))
    BY <1>1, <2>2
  <2> QED
    BY <2>1, <2>2
<1> HIDE DEF u
<1>4. x \in Seq(Int) /\ Len(x) = n /\ \A i \in 1 .. n : x[i] = u.cells[i]
  BY <1>3 DEF Strings
<1> HIDE DEF x
<1>5. Holds(Ended(u, n), x)
  BY <1>3, <1>4, EndedHolds
<1>6. ASSUME NEW i \in 1 .. n, i <= Len(s) PROVE x[i] = s[i]
  <2>1. i \in 1 .. Len(s) /\ i \in 1 .. Len(t.cells)
    BY <1>1, <1>6
  <2>2. t.cells[i] = s[i]
    BY <2>1 DEF Holds
  <2> QED
    BY <1>3, <1>4, <2>1, <2>2
<1> QED
  BY <1>2, <1>4, <1>5, <1>6

LEMMA EraseHolds ==
  ASSUME NEW t, NEW s, Holds(t, s), NEW p \in 0 .. Len(s), NEW n \in Nat, p + n <= Len(s),
         NEW n0, n0 = n \/ (n0 = -1 /\ p + n = Len(s))
  PROVE  Holds(erase(t, p, n0), Spliced(s, p, <<>>, n))
<1> DEFINE w == <<>>
           x == Spliced(s, p, w, n)
           moved == IF n0 >= 0 /\ p + n < t.len THEN Move(t, p, p + n, t.len - (p + n)) ELSE t
<1>1. /\ s \in Seq(Int) /\ Len(s) \in Nat /\ t.len = Len(s) /\ t \in Strings
      /\ Len(t.cells) \in Nat /\ Len(s) < Len(t.cells) /\ p \in Nat
  BY DEF Holds, Strings
<1>2. (IF n0 < 0 THEN t.len - p ELSE n0) = n
  BY <1>1
<1>3. erase(t, p, n0) = Ended(moved, t.len - n)
  BY <1>2 DEF erase
<1>4. w \in Seq(Int) /\ Len(w) = 0
  OBVIOUS
<1> HIDE DEF w
<1>5. /\ x \in Seq(Int) /\ Len(x) = Len(s) - n
      /\ \A i \in 1 .. p : x[i] = s[i]
      /\ \A i \in (p + n + 1) .. Len(s) : x[i - n + Len(w)] = s[i]
  <2>1. IsSpliced(x, s, p, w, n)
    BY <1>1, <1>4, SpliceFacts
  <2> QED
    BY <1>1, <1>4, <2>1 DEF IsSpliced
<1> HIDE DEF x
<1>6. /\ moved \in Strings /\ Len(moved.cells) = Len(t.cells)
      /\ \A i \in 1 .. Len(x) : moved.cells[i] = x[i]
  <2>1. CASE p + n < t.len
    <3> DEFINE m == t.len - (p + n)
               from == p + n
    <3>1. m \in Nat /\ from \in Nat /\ from + m = Len(s) /\ from + m <= Len(t.cells) /\ from = p + n
      BY <1>1, <2>1
    <3>2. moved = Move(t, p, from, m)
      <4>1. n0 = n /\ n0 >= 0
        BY <1>1, <2>1
      <4> QED
        BY <2>1, <4>1
    <3> HIDE DEF m, from, moved
    <3>3. /\ moved \in Strings /\ Len(moved.cells) = Len(t.cells)
          /\ \A i \in 1 .. Len(t.cells) :
               moved.cells[i] = IF i \in (p + 1) .. (p + m) THEN t.cells[i - p + from] ELSE t.cells[i]
      <4>1. IsMoved(moved, t, p, from, m)
        BY <1>1, <3>1, <3>2, MoveFacts
      <4> QED
        BY <4>1 DEF IsMoved
    <3>4. ASSUME NEW i \in 1 .. Len(x) PROVE moved.cells[i] = x[i]
      <4>1. i \in 1 .. Len(t.cells)
        BY <1>1, <1>5
      <4>2. CASE i <= p
        <5>1. i \in 1 .. p /\ i \notin (p + 1) .. (p + m) /\ i \in 1 .. Len(s)
          BY <1>1, <4>2
        <5>2. t.cells[i] = s[i]
          BY <5>1 DEF Holds
        <5> QED
          BY <1>5, <3>3, <4>1, <5>1, <5>2
      <4>3. CASE ~(i <= p)
        <5> DEFINE j == i + n
        <5>1. /\ j \in (p + n + 1) .. Len(s) /\ j \in 1 .. Len(s) /\ j - n + Len(w) = i
              /\ i \in (p + 1) .. (p + m) /\ i - p + from = j
          BY <1>1, <1>4, <1>5, <3>1, <4>3
        <5> HIDE DEF j
        <5>2. t.cells[j] = s[j]
          BY <5>1 DEF Holds
        <5>3. x[j - n + Len(w)] = s[j]
          BY <1>5, <5>1
        <5> QED
          BY <3>3, <4>1, <5>1, <5>2, <5>3
      <4> QED
        BY <4>2, <4>3
    <3> QED
      BY <3>3, <3>4
  <2>2. CASE ~(p + n < t.len)
    <3>3. moved = t
      BY <2>2
    <3> HIDE DEF moved
    <3>1. Len(x) = p
      <4>1. Len(x) = Len(s) - n
        BY <1>5
      <4>2. p + n = Len(s)
        BY <1>1, <2>2
      <4> QED
        BY <1>1, <4>1, <4>2
    <3>2. \A i \in 1 .. p : t.cells[i] = s[i]
      BY <1>1 DEF Holds
    <3> QED
      BY <1>1, <1>5, <3>1, <3>2, <3>3
  <2> QED
    BY <2>1, <2>2
<1> HIDE DEF moved
<1>7. t.len - n = Len(x) /\ Len(x) < Len(moved.cells)
  BY <1>1, <1>5, <1>6
<1>8. Holds(Ended(moved, t.len - n), x)
  BY <1>5, <1>6, <1>7, EndedHolds
<1> QED
  BY <1>3, <1>8 DEF x, w

\* k bytes of s go where w is written over it: as many as w has, if there are.
LEMMA OverwrittenFacts ==
  ASSUME NEW s \in Seq(Int), NEW w \in Seq(Int), NEW p \in 0 .. Len(s)
  PROVE  IsSpliced(Spliced(s, p, w, Len(w)), s, p, w, Smaller(Len(w), Len(s) - p))
<1> DEFINE k == Smaller(Len(w), Len(s) - p)
           n == Len(s)
           m == Len(w)
<1>1. n \in Nat /\ m \in Nat /\ p \in Nat
  OBVIOUS
<1>2. k \in Nat /\ p + k <= n
  BY <1>1 DEF Smaller
<1>3. SubSeq(s, p + m + 1, n) = SubSeq(s, p + k + 1, n)
  <2>1. CASE m <= n - p
    <3>1. k = m
      BY <1>1, <2>1 DEF Smaller
    <3> QED
      BY <3>1
  <2>2. CASE ~(m <= n - p)
    <3>1. p + k + 1 > n /\ p + m + 1 > n /\ p + k + 1 \in Int /\ p + m + 1 \in Int
      BY <1>1, <2>2 DEF Smaller
    <3> HIDE DEF k, m
    <3>2. \A a \in Int : a > n => SubSeq(s, a, n) = <<>>
      BY <1>1
    <3> QED
      BY <3>1, <3>2
  <2> QED
    BY <2>1, <2>2
<1>4. Spliced(s, p, w, m) = Spliced(s, p, w, k)
  BY <1>3 DEF Spliced
<1> HIDE DEF k
<1>5. IsSpliced(Spliced(s, p, w, k), s, p, w, k)
  BY <1>2, SpliceFacts
<1> QED
  BY <1>4, <1>5 DEF k

\* Written over, the bytes of t are those of the text w was written over.
Agree(t, x) == \A i \in 1 .. Len(x) : t.cells[i] = x[i]

LEMMA OverwrittenCells ==
  ASSUME NEW u \in Strings, NEW s \in Seq(Int), NEW w \in Seq(Int), NEW p \in 0 .. Len(s),
         Agree(u, s),
         NEW x, IsSpliced(x, s, p, w, Smaller(Len(w), Len(s) - p)), Len(x) < Len(u.cells)
  PROVE  Agree(Put(u, p, w), x)
<1> USE DEF Agree
<1> DEFINE k == Smaller(Len(w), Len(s) - p)
           v == Put(u, p, w)
<1>1. /\ Len(s) \in Nat /\ Len(w) \in Nat /\ p \in Nat /\ Len(u.cells) \in Nat
      /\ k \in Nat /\ p + k <= Len(s) /\ k <= Len(w)
      /\ k < Len(w) => p + k = Len(s)
  BY DEF Smaller, Strings
<1> HIDE DEF k
<1>2. /\ v \in Strings /\ Len(v.cells) = Len(u.cells)
      /\ \A i \in 1 .. Len(u.cells) :
           v.cells[i] = IF i \in (p + 1) .. (p + Len(w)) THEN w[i - p] ELSE u.cells[i]
  <2>1. IsPut(v, u, p, w)
    BY <1>1, PutFacts
  <2> QED
    BY <2>1 DEF IsPut
<1> HIDE DEF v
<1>3. /\ x \in Seq(Int) /\ Len(x) = Len(s) - k + Len(w)
      /\ \A i \in 1 .. p : x[i] = s[i]
      /\ \A i \in 1 .. Len(w) : x[p + i] = w[i]
      /\ \A i \in (p + k + 1) .. Len(s) : x[i - k + Len(w)] = s[i]
  BY DEF IsSpliced, k
<1>5. Len(x) \in Nat /\ Len(x) = Len(s) - k + Len(w)
  BY <1>3
<1>4. ASSUME NEW i \in 1 .. Len(x) PROVE v.cells[i] = x[i]
  <2>0. i \in 1 .. Len(u.cells) /\ i \in Nat
    BY <1>1, <1>5
  <2>1. CASE i <= p
    <3>1. i \in 1 .. p /\ i \in 1 .. Len(s) /\ i \notin (p + 1) .. (p + Len(w))
      BY <1>1, <2>1
    <3> QED
      BY <1>2, <1>3, <2>0, <3>1
  <2>2. CASE i > p /\ i <= p + Len(w)
    <3> DEFINE j == i - p
    <3>1. j \in 1 .. Len(w) /\ p + j = i /\ i - p = j /\ i \in (p + 1) .. (p + Len(w))
      BY <1>1, <2>0, <2>2
    <3> HIDE DEF j
    <3>2. x[p + j] = w[j]
      BY <1>3, <3>1
    <3> QED
      BY <1>2, <2>0, <3>1, <3>2
  <2>3. CASE i > p + Len(w)
    <3>0. k = Len(w)
      BY <1>1, <1>5, <2>0, <2>3
    <3>1. i \in (p + k + 1) .. Len(s) /\ i - k + Len(w) = i /\ i \in 1 .. Len(s)
      BY <1>1, <1>5, <2>0, <2>3, <3>0
    <3>2. i \notin (p + 1) .. (p + Len(w))
      BY <1>1, <2>0, <2>3
    <3>3. x[i - k + Len(w)] = s[i]
      BY <1>3, <3>1
    <3> QED
      BY <1>2, <2>0, <3>1, <3>2, <3>3
  <2> QED
    BY <1>1, <2>1, <2>2, <2>3
<1> QED
  BY <1>4 DEF v

LEMMA OverwriteHolds ==
  ASSUME NEW t, NEW s, Holds(t, s), NEW p \in 0 .. Len(s), NEW w \in Seq(Int),
         NEW n0 \in {-1, Len(w)}, p + Len(w) < MaxSize \/ p + Len(w) <= Len(s)
  PROVE  Holds(overwrite_len(t, p, w, n0), Spliced(s, p, w, Len(w)))
<1> DEFINE n == IF n0 < 0 THEN Len(w) ELSE n0
           end == p + n
           wide == IF end > t.len THEN maybe_expand(t, end - t.len) ELSE t
           put == Put(wide, p, w)
           x == Spliced(s, p, w, Len(w))
           k == Smaller(Len(w), Len(s) - p)
<1>1. /\ s \in Seq(Int) /\ Len(s) \in Nat /\ t.len = Len(s) /\ t \in Strings
      /\ Len(t.cells) \in Nat /\ Len(s) < Len(t.cells) /\ p \in Nat /\ Len(w) \in Nat
  BY DEF Holds, Strings
<1>2. n = Len(w) /\ SubSeq(w, 1, n) = w
  BY <1>1
<1>3. IsSpliced(x, s, p, w, k)
  BY <1>1, OverwrittenFacts
<1>4. CASE n0 = 0
  <2>1. overwrite_len(t, p, w, n0) = t
    BY <1>4 DEF overwrite_len
  <2>2. Len(w) = 0
    BY <1>1, <1>4
  <2> HIDE DEF x, k, put, wide, end, n
  <2>4. Spliced(s, p, w, 0) = s
    BY <1>1, <2>2, SpliceNothing
  <2>3. Spliced(s, p, w, Len(w)) = s
    BY <2>2, <2>4
  <2> QED
    BY <2>1, <2>3
<1>5. CASE n0 # 0
  <2>1. overwrite_len(t, p, w, n0) = IF end > t.len THEN Ended(put, end) ELSE put
    BY <1>2, <1>5 DEF overwrite_len
  <2>2. /\ wide \in Strings /\ wide.len = t.len /\ Len(t.cells) <= Len(wide.cells)
        /\ end < Len(wide.cells) \/ end <= t.len
        /\ \A i \in 1 .. Len(t.cells) : wide.cells[i] = t.cells[i]
    <3>1. CASE end > t.len
      <4> DEFINE m == end - t.len
      <4>1. m \in Nat /\ t.len + m = end /\ t.len <= Len(t.cells) /\ t.len + m < MaxSize
        <5>1. end = p + Len(w)
          BY <1>2
        <5> HIDE DEF end
        <5> QED
          BY <1>1, <3>1, <5>1, SizeFacts
      <4>2. wide = maybe_expand(t, m)
        BY <3>1
      <4> HIDE DEF m, wide, end
      <4>3. /\ wide \in Strings /\ wide.len = t.len /\ t.len + m < Len(wide.cells)
            /\ Len(t.cells) <= Len(wide.cells)
            /\ \A i \in 1 .. Len(t.cells) : wide.cells[i] = t.cells[i]
        BY <1>1, <4>1, <4>2, ExpandFacts
      <4>4. end < Len(wide.cells)
        BY <4>1, <4>3
      <4> QED
        BY <4>3, <4>4
    <3>2. CASE ~(end > t.len)
      <4>1. wide = t
        BY <3>2
      <4>2. end \in Nat
        <5>1. end = p + Len(w)
          BY <1>2
        <5> HIDE DEF end
        <5> QED
          BY <1>1, <5>1
      <4> HIDE DEF wide, end
      <4>3. end <= t.len
        BY <1>1, <3>2, <4>2
      <4> QED
        BY <1>1, <4>1, <4>3
    <3> QED
      BY <3>1, <3>2
  <2>3. end = p + Len(w)
    BY <1>2
  <2> HIDE DEF n, end, wide
  <2>4. \A i \in 1 .. Len(s) : wide.cells[i] = s[i]
    <3>1. \A i \in 1 .. Len(s) : i \in 1 .. Len(t.cells)
      BY <1>1
    <3>2. \A i \in 1 .. Len(s) : t.cells[i] = s[i]
      BY DEF Holds
    <3> QED
      BY <2>2, <3>1, <3>2
  <2>5. Len(x) = Len(s) - k + Len(w) /\ x \in Seq(Int)
    BY <1>3 DEF IsSpliced
  <2>6. Len(wide.cells) \in Nat
    BY <2>2 DEF Strings
  <2>9. /\ end > t.len => Len(x) = end
        /\ ~(end > t.len) => Len(x) = Len(s)
    <3> HIDE DEF x
    <3>1. k = IF Len(w) < Len(s) - p THEN Len(w) ELSE Len(s) - p
      BY DEF Smaller
    <3> HIDE DEF k
    <3>2. CASE Len(w) < Len(s) - p
      <4>1. k = Len(w) /\ Len(x) = Len(s) - k + Len(w)
        BY <2>5, <3>1, <3>2
      <4> QED
        BY <1>1, <2>3, <3>2, <4>1
    <3>3. CASE ~(Len(w) < Len(s) - p)
      <4>1. k = Len(s) - p /\ Len(x) = Len(s) - k + Len(w)
        BY <2>5, <3>1, <3>3
      <4> QED
        BY <1>1, <2>3, <3>3, <4>1
    <3> QED
      BY <3>2, <3>3
  <2>7. CASE end > t.len
    <3>1. Len(x) = end
      BY <2>7, <2>9
    <3>2. Len(x) < Len(wide.cells)
      BY <1>1, <2>2, <2>3, <2>6, <2>7, <3>1
    <3>3. \A i \in 1 .. Len(x) : put.cells[i] = x[i]
      <4>1. Agree(wide, s)
        BY <2>4 DEF Agree
      <4>2. Agree(put, x)
        BY <1>1, <1>3, <2>2, <3>2, <4>1, OverwrittenCells
      <4> QED
        BY <4>2 DEF Agree
    <3>4. put \in Strings /\ Len(put.cells) = Len(wide.cells)
      <4>1. IsPut(put, wide, p, w)
        BY <1>1, <2>2, PutFacts
      <4> QED
        BY <4>1 DEF IsPut
    <3> HIDE DEF put, x
    <3>5. Holds(Ended(put, end), x)
      BY <2>5, <3>1, <3>2, <3>3, <3>4, EndedHolds
    <3> QED
      BY <2>1, <2>7, <3>5 DEF x
  <2>8. CASE ~(end > t.len)
    <3>1. Len(x) = Len(s)
      BY <2>8, <2>9
    <3>2. Len(x) < Len(wide.cells)
      BY <1>1, <2>2, <2>6, <3>1
    <3>3. \A i \in 1 .. Len(x) : put.cells[i] = x[i]
      <4>1. Agree(wide, s)
        BY <2>4 DEF Agree
      <4>2. Agree(put, x)
        BY <1>1, <1>3, <2>2, <3>2, <4>1, OverwrittenCells
      <4> QED
        BY <4>2 DEF Agree
    <3>4. /\ put \in Strings /\ put.len = wide.len /\ Len(put.cells) = Len(wide.cells)
          /\ \A i \in 1 .. Len(wide.cells) :
               put.cells[i] = IF i \in (p + 1) .. (p + Len(w)) THEN w[i - p] ELSE wide.cells[i]
      <4>1. IsPut(put, wide, p, w)
        BY <1>1, <2>2, PutFacts
      <4> QED
        BY <4>1 DEF IsPut
    <3> HIDE DEF put, x
    <3>5. put.cells[Len(x) + 1] = 0
      <4>1. /\ Len(x) + 1 \in 1 .. Len(wide.cells) /\ Len(x) + 1 \notin (p + 1) .. (p + Len(w))
            /\ Len(x) + 1 \in 1 .. Len(t.cells)
        BY <1>1, <2>3, <2>6, <2>8, <3>1, <3>2
      <4>2. t.cells[Len(x) + 1] = 0
        BY <3>1 DEF Holds
      <4> QED
        BY <2>2, <3>4, <4>1, <4>2
    <3>6. Holds(put, x)
      BY <1>1, <2>2, <2>5, <3>1, <3>2, <3>3, <3>4, <3>5 DEF Holds
    <3> QED
      BY <2>1, <2>8, <3>6 DEF x
  <2> QED
    BY <2>7, <2>8
<1> QED
  BY <1>4, <1>5

\* A new block holds the empty text, whatever size is asked for.
LEMMA SizedHolds ==
  ASSUME NEW n \in Nat
  PROVE  Holds(sized_new(n), <<>>)
<1> DEFINE m == IF n < 2 THEN 2 ELSE n
           e == [cells |-> <<>>, len |-> 0]
           u == maybe_expand(e, m)
           z == <<0>>
           size == _nearest_power(1, 0 + m + 1)
           d == [i \in 1 .. size |-> IF i \in DOMAIN <<>> THEN <<>>[i] ELSE Junk]
<1>1. m \in Nat /\ 0 + m + 1 \in Nat \ {0} /\ ~(0 + m < 0)
  OBVIOUS
<1>2. sized_new(n) = Put(u, 0, z)
  BY DEF sized_new
<1>3. size \in Nat \ {0}
  BY <1>1, NearestFacts
<1>4. u = [cells |-> d, len |-> 0]
  <2>1. Len(<<>>) = 0 /\ e.cells = <<>> /\ e.len = 0
    OBVIOUS
  <2>2. u = [e EXCEPT !.cells = d]
    BY <1>1, <2>1 DEF maybe_expand
  <2> QED
    BY <2>2
<1> HIDE DEF m, size
<1>5. d \in Seq(Int) /\ Len(d) = size
  <2>1. \A i \in 1 .. size : (IF i \in DOMAIN <<>> THEN <<>>[i] ELSE Junk) \in Int
    BY TStringAssumption
  <2>2. d \in [1 .. size -> Int]
    BY <2>1
  <2> QED
    BY <1>3, <2>2
<1> HIDE DEF d, e, u
<1>6. u \in Strings /\ u.cells = d /\ u.len = 0
  BY <1>4, <1>5 DEF Strings
<1>7. z \in Seq(Int) /\ Len(z) = 1 /\ z[1] = 0
  OBVIOUS
<1> HIDE DEF z
<1> DEFINE v == Put(u, 0, z)
<1>8. /\ v \in Strings /\ v.len = u.len /\ Len(v.cells) = Len(u.cells)
      /\ \A i \in 1 .. Len(u.cells) :
           v.cells[i] = IF i \in (0 + 1) .. (0 + Len(z)) THEN z[i - 0] ELSE u.cells[i]
  <2>1. IsPut(v, u, 0, z)
    BY <1>6, <1>7, PutFacts
  <2> QED
    BY <2>1 DEF IsPut
<1> HIDE DEF v
<1>9. v.cells[1] = 0
  <2>1. 1 \in 1 .. Len(u.cells) /\ 1 \in (0 + 1) .. (0 + Len(z)) /\ 1 - 0 = 1
    BY <1>3, <1>5, <1>6, <1>7
  <2> QED
    BY <1>7, <1>8, <2>1
<1>10. Holds(v, <<>>)
  <2>1. <<>> \in Seq(Int) /\ Len(<<>>) = 0 /\ 1 .. 0 = {} /\ 0 + 1 = 1
    OBVIOUS
  <2>2. v.len = 0 /\ 0 < Len(v.cells)
    BY <1>3, <1>5, <1>6, <1>8
  <2> QED
    BY <1>8, <1>9, <2>1, <2>2 DEF Holds
<1> QED
  BY <1>2, <1>10 DEF v

\* Into the empty text w is inserted as it is.
LEMMA SpliceIntoNothing ==
  ASSUME NEW w \in Seq(Int)
  PROVE  Spliced(<<>>, 0, w, 0) = w /\ At(<<>>, -1) = 0 /\ At(<<>>, 0) = 0
<1>1. SubSeq(<<>>, 1, 0) = <<>> /\ Len(<<>>) = 0 /\ SubSeq(<<>>, 0 + 0 + 1, 0) = <<>>
  OBVIOUS
<1>2. <<>> \o w = w /\ w \o <<>> = w
  OBVIOUS
<1>3. Spliced(<<>>, 0, w, 0) = (<<>> \o w) \o <<>>
  BY <1>1 DEF Spliced
<1>4. At(<<>>, -1) = 0 /\ At(<<>>, 0) = 0
  BY <1>1 DEF At
<1> QED
  BY <1>2, <1>3, <1>4

\* Whatever an empty string is made of.
LEMMA FirstHolds ==
  ASSUME NEW t, Holds(t, <<>>), NEW w \in Seq(Character), Len(w) < MaxSize, NEW n0 \in {-1, Len(w)}
  PROVE  Holds(insert_len(t, -1, Foreign(w), n0), w)
<1> DEFINE e == <<>>
           pos == -1
<1>1. /\ pos \in Int /\ pos <= Len(e) /\ Len(e) + Len(w) < MaxSize /\ Holds(t, e)
      /\ w \in Seq(Int) /\ pos = -1
  BY TextsAreBytes
<1>2. Spliced(e, 0, w, 0) = w /\ At(e, pos) = 0
  BY <1>1, SpliceIntoNothing
<1> HIDE DEF e, pos
<1>3. Holds(insert_len(t, pos, Foreign(w), n0), Spliced(e, At(e, pos), w, 0))
  BY <1>1, ForeignHolds
<1>4. At(e, pos) = 0
  BY <1>2
<1>5. Spliced(e, At(e, pos), w, 0) = w
  BY <1>2
<1> QED
  BY <1>3, <1>5 DEF pos

LEMMA NewHolds ==
  ASSUME NEW w \in Seq(Character), Len(w) < MaxSize
  PROVE  /\ Holds(new(w), w)
         /\ Holds(new_len(w, Len(w)), w)
         /\ Holds(new_len(w, -1), w)
<1>1. Len(w) \in Nat /\ Len(w) + 2 \in Nat
  BY TextsAreBytes
<1>2. Holds(new(w), w)
  <2>1. CASE w = <<>>
    <3>1. new(w) = sized_new(2) /\ 2 \in Nat
      BY <2>1 DEF new
    <3> QED
      BY <2>1, <3>1, SizedHolds
  <2>2. CASE w # <<>>
    <3>1. new(w) = insert_len(sized_new(Len(w) + 2), -1, Foreign(w), Len(w))
      BY <2>2 DEF new, append_len
    <3> QED
      BY <1>1, <3>1, SizedHolds, FirstHolds
  <2> QED
    BY <2>1, <2>2
<1>3. Holds(new_len(w, Len(w)), w)
  <2>1. new_len(w, Len(w)) = insert_len(sized_new(Len(w)), -1, Foreign(w), Len(w))
    BY <1>1 DEF new_len, append_len
  <2> QED
    BY <1>1, <2>1, SizedHolds, FirstHolds
<1>4. new_len(w, -1) = new(w)
  BY DEF new_len
<1> QED
  BY <1>2, <1>3, <1>4

\* From the caller's bytes, or from the string itself, which is left alone.
LEMMA AssignHolds ==
  ASSUME NEW t, NEW s, Holds(t, s), NEW w \in Seq(Character), Len(w) < MaxSize
  PROVE  /\ Holds(assign(t, Foreign(w)), w)
         /\ Holds(vprintf(t, w), w)
         /\ Holds(printf(t, w), w)
         /\ assign(t, Own(0)) = t
<1> DEFINE u == truncate(t, 0)
<1>1. Holds(u, <<>>)
  BY EmptiedHolds
<1>2. assign(t, Foreign(w)) = insert_len(u, -1, Foreign(w), -1)
  BY DEF assign, append, Foreign
<1>3. assign(t, Own(0)) = t
  BY DEF assign, Own
<1>4. vprintf(t, w) = append_vprintf(u, w) /\ printf(t, w) = append_vprintf(u, w)
  BY DEF vprintf, printf
<1> HIDE DEF u
<1>5. Holds(append_vprintf(u, w), w)
  <2> DEFINE e == <<>>
  <2>1. Len(e) + Len(w) < MaxSize /\ Holds(u, e) /\ w \in Seq(Int) /\ Len(e) = 0
    BY <1>1, TextsAreBytes
  <2>2. Spliced(e, 0, w, 0) = w
    BY <2>1, SpliceIntoNothing
  <2> HIDE DEF e
  <2>3. Holds(append_vprintf(u, w), Spliced(e, Len(e), w, 0))
    BY <2>1, PrintedHolds
  <2> QED
    BY <2>1, <2>2, <2>3
<1>6. Holds(insert_len(u, -1, Foreign(w), -1), w)
  BY <1>1, FirstHolds
<1> QED
  BY <1>2, <1>3, <1>4, <1>5, <1>6

LEMMA RecaseHolds ==
  ASSUME NEW t, NEW s, Holds(t, s)
  PROVE  /\ Holds(ascii_down(t), [i \in DOMAIN s |-> Buffer!Lower(s[i])])
         /\ Holds(ascii_up(t), [i \in DOMAIN s |-> Buffer!Upper(s[i])])
<1> DEFINE n == Len(s)
<1>1. /\ s \in Seq(Int) /\ n \in Nat /\ t.len = n /\ t \in Strings /\ DOMAIN s = 1 .. n
      /\ Len(t.cells) \in Nat /\ n < Len(t.cells) /\ t.cells[n + 1] = 0
      /\ \A i \in 1 .. n : t.cells[i] = s[i] /\ s[i] \in Int
  BY DEF Holds, Strings
<1> HIDE DEF n
<1>2. ASSUME NEW w \in Seq(Int), Len(w) = n PROVE Holds(Put(t, 0, w), w)
  <2> DEFINE v == Put(t, 0, w)
  <2>1. /\ v \in Strings /\ v.len = t.len /\ Len(v.cells) = Len(t.cells)
        /\ \A i \in 1 .. Len(t.cells) :
             v.cells[i] = IF i \in (0 + 1) .. (0 + Len(w)) THEN w[i - 0] ELSE t.cells[i]
    <3>1. IsPut(v, t, 0, w)
      BY <1>1, PutFacts
    <3> QED
      BY <3>1 DEF IsPut
  <2> HIDE DEF v
  <2>2. ASSUME NEW i \in 1 .. n PROVE v.cells[i] = w[i]
    <3>1. i \in 1 .. Len(t.cells) /\ i \in (0 + 1) .. (0 + Len(w)) /\ i - 0 = i
      BY <1>1, <1>2
    <3> QED
      BY <2>1, <3>1
  <2>3. v.cells[n + 1] = 0
    <3>1. n + 1 \in 1 .. Len(t.cells) /\ n + 1 \notin (0 + 1) .. (0 + Len(w))
      BY <1>1, <1>2
    <3> QED
      BY <1>1, <2>1, <3>1
  <2>4. Holds(v, w)
    BY <1>1, <1>2, <2>1, <2>2, <2>3 DEF Holds
  <2> QED
    BY <2>4 DEF v
<1>3. \A c \in Int : /\ lower(c) \in Int /\ lower(c) = Buffer!Lower(c)
                     /\ upper(c) \in Int /\ upper(c) = Buffer!Upper(c)
  BY DEF lower, upper, Buffer!Lower, Buffer!Upper
<1> DEFINE d == [i \in 1 .. n |-> Buffer!Lower(s[i])]
           e == [i \in 1 .. n |-> Buffer!Upper(s[i])]
<1>4. d \in Seq(Int) /\ Len(d) = n /\ e \in Seq(Int) /\ Len(e) = n
  <2>1. \A i \in 1 .. n : Buffer!Lower(s[i]) \in Int /\ Buffer!Upper(s[i]) \in Int
    BY <1>1, <1>3
  <2>2. d \in [1 .. n -> Int] /\ e \in [1 .. n -> Int]
    BY <2>1
  <2> QED
    BY <1>1, <2>2
<1>5. [i \in 1 .. t.len |-> lower(t.cells[i])] = d /\ [i \in 1 .. t.len |-> upper(t.cells[i])] = e
  <2>1. \A i \in 1 .. n : lower(t.cells[i]) = Buffer!Lower(s[i])
    BY <1>1, <1>3
  <2>2. \A i \in 1 .. n : upper(t.cells[i]) = Buffer!Upper(s[i])
    BY <1>1, <1>3
  <2> QED
    BY <1>1, <2>1, <2>2
<1>6. ascii_down(t) = Put(t, 0, d)
  BY <1>5 DEF ascii_down
<1>7. ascii_up(t) = Put(t, 0, e)
  BY <1>5 DEF ascii_up
<1>8. d = [i \in DOMAIN s |-> Buffer!Lower(s[i])] /\ e = [i \in DOMAIN s |-> Buffer!Upper(s[i])]
  BY <1>1
<1> HIDE DEF d, e
<1>9. Holds(Put(t, 0, d), d) /\ Holds(Put(t, 0, e), e)
  BY <1>2, <1>4
<1> QED
  BY <1>6, <1>7, <1>8, <1>9

LEMMA EqualFacts ==
  ASSUME NEW t, NEW s, Holds(t, s), NEW u, NEW w, Holds(u, w)
  PROVE  equal(t, u) <=> w = s
<1>1. /\ s \in Seq(Int) /\ w \in Seq(Int) /\ t.len = Len(s) /\ u.len = Len(w)
      /\ \A i \in 1 .. Len(s) : t.cells[i] = s[i]
      /\ \A i \in 1 .. Len(w) : u.cells[i] = w[i]
  BY DEF Holds
<1>2. ASSUME equal(t, u) PROVE w = s
  <2>1. Len(w) = Len(s) /\ \A i \in 1 .. Len(w) : w[i] = s[i]
    BY <1>1, <1>2 DEF equal
  <2> QED
    BY <1>1, <2>1, SamePlaces
<1>3. ASSUME w = s PROVE equal(t, u)
  BY <1>1, <1>3 DEF equal
<1> QED
  BY <1>2, <1>3

-----------------------------------------------------------------------------
(* Wide characters.                                                        *)

DecodedNext(f, s, i) == IF i = 1 THEN s[1] - Buffer!Lead[Len(s)] ELSE f[i - 1] * 64 + s[i] - 128

LEMMA DecodingsExist ==
  ASSUME NEW s, Len(s) \in Nat
  PROVE  \E f : f = [i \in 1 .. Len(s) |-> DecodedNext(f, s, i)]
<1> DEFINE S == {k \in Nat : \E f : f = [i \in 1 .. k |-> DecodedNext(f, s, i)]}
<1>1. 0 \in S
  <2>1. \A f : [i \in 1 .. 0 |-> DecodedNext(f, s, i)] = <<>>
    OBVIOUS
  <2> QED
    BY <2>1
<1>2. ASSUME NEW k \in Nat, k \in S PROVE k + 1 \in S
  <2>1. PICK f : f = [i \in 1 .. k |-> DecodedNext(f, s, i)]
    BY <1>2
  <2> DEFINE g == [i \in 1 .. (k + 1) |-> IF i \in 1 .. k THEN f[i] ELSE DecodedNext(f, s, i)]
  <2>2. \A i \in 1 .. k : g[i] = f[i]
    OBVIOUS
  <2>3. \A i \in 1 .. (k + 1) : i # 1 => i - 1 \in 1 .. k
    OBVIOUS
  <2>4. \A i \in 1 .. (k + 1) : DecodedNext(g, s, i) = DecodedNext(f, s, i)
    BY <2>2, <2>3 DEF DecodedNext
  <2>5. \A i \in 1 .. k : f[i] = DecodedNext(f, s, i)
    BY <2>1
  <2>6. \A i \in 1 .. (k + 1) : g[i] = DecodedNext(g, s, i)
    BY <2>4, <2>5
  <2>7. g = [i \in 1 .. (k + 1) |-> g[i]]
    OBVIOUS
  <2> HIDE DEF g
  <2>8. g = [i \in 1 .. (k + 1) |-> DecodedNext(g, s, i)]
    BY <2>6, <2>7
  <2> QED
    BY <2>8
<1>3. Len(s) \in S
  <2> HIDE DEF S
  <2> QED
    BY <1>1, <1>2, StepByStep
<1> QED
  BY <1>3

\* What the bytes are worth, byte by byte.
IsWorth(f, s) ==
  /\ Buffer!Decoded(s) = f[Len(s)]
  /\ f[1] = s[1] - Buffer!Lead[Len(s)]
  /\ \A i \in 2 .. Len(s) : f[i] = f[i - 1] * 64 + s[i] - 128

LEMMA DecodedFacts ==
  ASSUME NEW s, Len(s) \in Nat \ {0}
  PROVE  \E f : IsWorth(f, s)
<1> DEFINE f == CHOOSE g : g = [i \in 1 .. Len(s) |->
                  IF i = 1 THEN s[1] - Buffer!Lead[Len(s)] ELSE g[i - 1] * 64 + s[i] - 128]
<1>1. f = [i \in 1 .. Len(s) |->
             IF i = 1 THEN s[1] - Buffer!Lead[Len(s)] ELSE f[i - 1] * 64 + s[i] - 128]
  <2>1. \E g : g = [i \in 1 .. Len(s) |->
                  IF i = 1 THEN s[1] - Buffer!Lead[Len(s)] ELSE g[i - 1] * 64 + s[i] - 128]
    BY DecodingsExist DEF DecodedNext
  <2> QED
    BY <2>1, Zenon
<1>2. Buffer!Decoded(s) = f[Len(s)]
  BY DEF Buffer!Decoded
<1> HIDE DEF f
<1>3. 1 \in 1 .. Len(s)
  OBVIOUS
<1>4. f[1] = s[1] - Buffer!Lead[Len(s)]
  BY <1>1, <1>3
<1>5. \A i \in 2 .. Len(s) : f[i] = f[i - 1] * 64 + s[i] - 128
  BY <1>1
<1>6. IsWorth(f, s)
  BY <1>2, <1>4, <1>5 DEF IsWorth
<1> QED
  BY <1>6

\* Six bits of a character, and what is above them.
Above(wc, j) == wc \div Weights[j]
IsSplit(wc, j) == Above(wc, j + 1) * 64 + (Above(wc, j) % 64) = Above(wc, j)

LEMMA AboveFacts ==
  ASSUME NEW wc \in Nat
  PROVE  /\ Above(wc, 1) = wc
         /\ \A j \in 1 .. 6 : Above(wc, j) \in Nat
         /\ \A j \in 1 .. 5 : IsSplit(wc, j)
<1>1. /\ Above(wc, 1) = wc \div 1 /\ Above(wc, 2) = wc \div 64 /\ Above(wc, 3) = wc \div 4096
      /\ Above(wc, 4) = wc \div 262144 /\ Above(wc, 5) = wc \div 16777216
      /\ Above(wc, 6) = wc \div 1073741824
  BY DEF Above, Weights
<1>2. /\ wc \div 1 = wc /\ wc \div 64 \in Nat /\ wc \div 4096 \in Nat /\ wc \div 262144 \in Nat
      /\ wc \div 16777216 \in Nat /\ wc \div 1073741824 \in Nat
  OBVIOUS
<1>3. (wc \div 64) * 64 + (wc % 64) = wc
  OBVIOUS
<1>4. (wc \div 4096) * 64 + ((wc \div 64) % 64) = wc \div 64
  OBVIOUS
<1>5. (wc \div 262144) * 64 + ((wc \div 4096) % 64) = wc \div 4096
  OBVIOUS
<1>6. (wc \div 16777216) * 64 + ((wc \div 262144) % 64) = wc \div 262144
  OBVIOUS
<1>7. (wc \div 1073741824) * 64 + ((wc \div 16777216) % 64) = wc \div 16777216
  OBVIOUS
<1>8. \A j \in 1 .. 6 : Above(wc, j) \in Nat
  <2>1. \A j \in 1 .. 6 : j = 1 \/ j = 2 \/ j = 3 \/ j = 4 \/ j = 5 \/ j = 6
    OBVIOUS
  <2> QED
    BY <1>1, <1>2, <2>1
<1>9. ASSUME NEW j \in 1 .. 5 PROVE IsSplit(wc, j)
  <2>1. j = 1 \/ j = 2 \/ j = 3 \/ j = 4 \/ j = 5
    OBVIOUS
  <2>2. CASE j = 1
    BY <1>1, <1>2, <1>3, <2>2 DEF IsSplit
  <2>3. CASE j = 2
    BY <1>1, <1>4, <2>3 DEF IsSplit
  <2>4. CASE j = 3
    BY <1>1, <1>5, <2>4 DEF IsSplit
  <2>5. CASE j = 4
    BY <1>1, <1>6, <2>5 DEF IsSplit
  <2>6. CASE j = 5
    BY <1>1, <1>7, <2>6 DEF IsSplit
  <2> QED
    BY <2>1, <2>2, <2>3, <2>4, <2>5, <2>6
<1> QED
  BY <1>1, <1>2, <1>8, <1>9

\* s is the shortest sequence of bytes that is worth wc.
Encodes(s, wc) ==
  /\ s \in Seq(Int) /\ Len(s) \in 1 .. 6
  /\ Buffer!Decoded(s) = wc
  /\ Len(s) > 1 => wc >= Buffer!Least[Len(s)]
  /\ \A i \in 2 .. Len(s) : s[i] \in 128 .. 191

LEMMA Utf8Encodes ==
  ASSUME NEW wc \in Nat
  PROVE  Encodes(Utf8(wc), wc)
<1> DEFINE P(n) == (n > 1 => wc >= Limits[n - 1]) /\ (n < 6 => wc < Limits[n])
           m == CHOOSE n \in 1 .. 6 : P(n)
           s == Utf8(wc)
<1>1. /\ Limits[1] = 128 /\ Limits[2] = 2048 /\ Limits[3] = 65536
      /\ Limits[4] = 2097152 /\ Limits[5] = 67108864
  BY DEF Limits
<1>2. m \in 1 .. 6 /\ P(m)
  <2>1. \E n \in 1 .. 6 : P(n)
    <3>1. P(1) \/ P(2) \/ P(3) \/ P(4) \/ P(5) \/ P(6)
      BY <1>1
    <3>2. 1 \in 1 .. 6 /\ 2 \in 1 .. 6 /\ 3 \in 1 .. 6 /\ 4 \in 1 .. 6 /\ 5 \in 1 .. 6 /\ 6 \in 1 .. 6
      OBVIOUS
    <3> HIDE DEF P
    <3> QED
      BY <3>1, <3>2
  <2> HIDE DEF P
  <2> QED
    BY <2>1, Zenon
<1>3. s = [i \in 1 .. m |-> IF i = 1 THEN Marks[m] + wc \div Weights[m]
                            ELSE 128 + ((wc \div Weights[m - i + 1]) % 64)]
  BY DEF Utf8
<1> HIDE DEF m, s
<1>4. m = 1 \/ m = 2 \/ m = 3 \/ m = 4 \/ m = 5 \/ m = 6
  BY <1>2
<1>5. /\ m > 1 => wc >= Buffer!Least[m]
      /\ Marks[m] = Buffer!Lead[m] /\ Marks[m] \in Nat
  BY <1>1, <1>2, <1>4 DEF Marks, Buffer!Lead, Buffer!Least
<1> HIDE DEF P
<1>6. s = [i \in 1 .. m |-> IF i = 1 THEN Marks[m] + Above(wc, m)
                            ELSE 128 + (Above(wc, m - i + 1) % 64)]
  BY <1>3 DEF Above
<1>7. s[1] = Marks[m] + Above(wc, m) /\ s[1] \in Int
  <2>1. 1 \in 1 .. m /\ m \in 1 .. 6
    BY <1>2
  <2>2. s[1] = Marks[m] + Above(wc, m)
    BY <1>6, <2>1
  <2>3. Above(wc, m) \in Nat
    BY <2>1, AboveFacts
  <2> QED
    BY <1>5, <2>2, <2>3
<1>8. ASSUME NEW i \in 2 .. m
      PROVE  s[i] = 128 + (Above(wc, m - i + 1) % 64) /\ s[i] \in 128 .. 191
  <2>1. i \in 1 .. m /\ i # 1 /\ m - i + 1 \in 1 .. 6
    BY <1>2
  <2>2. s[i] = 128 + (Above(wc, m - i + 1) % 64)
    BY <1>6, <2>1
  <2> DEFINE a == Above(wc, m - i + 1)
  <2>3. a \in Nat
    BY <2>1, AboveFacts
  <2> HIDE DEF a
  <2>4. a % 64 \in 0 .. 63
    BY <2>3
  <2> QED
    BY <2>2, <2>4 DEF a
<1>9. s \in Seq(Int) /\ Len(s) = m
  <2>1. \A i \in 1 .. m : s[i] \in Int
    <3>1. \A i \in 1 .. m : i = 1 \/ i \in 2 .. m
      BY <1>2
    <3>2. \A i \in 2 .. m : s[i] \in Int
      BY <1>8
    <3> QED
      BY <1>7, <3>1, <3>2
  <2>2. DOMAIN s = 1 .. m /\ s = [i \in 1 .. m |-> s[i]]
    BY <1>6
  <2>3. s \in [1 .. m -> Int]
    BY <2>1, <2>2
  <2> QED
    BY <1>2, <2>3
<1>10. Buffer!Decoded(s) = wc
  <2>1. PICK f : IsWorth(f, s)
    BY <1>2, <1>9, DecodedFacts
  <2>2. /\ Buffer!Decoded(s) = f[m] /\ f[1] = s[1] - Buffer!Lead[m]
        /\ \A i \in 2 .. m : f[i] = f[i - 1] * 64 + s[i] - 128
    BY <1>9, <2>1 DEF IsWorth
  <2> DEFINE S == {k \in Nat : k < m => f[k + 1] = Above(wc, m - k)}
  <2>3. 0 \in S
    <3>1. f[1] = Above(wc, m)
      <4>1. Above(wc, m) \in Nat
        BY <1>2, AboveFacts
      <4> QED
        BY <1>5, <1>7, <2>2, <4>1
    <3>2. m - 0 = m /\ 0 + 1 = 1
      BY <1>2
    <3> QED
      BY <3>1, <3>2
  <2>4. ASSUME NEW k \in Nat, k \in S PROVE k + 1 \in S
    <3> SUFFICES ASSUME k + 1 < m PROVE f[(k + 1) + 1] = Above(wc, m - (k + 1))
      OBVIOUS
    <3> DEFINE i == k + 2
               j == m - (k + 1)
    <3>1. /\ i \in 2 .. m /\ i - 1 = k + 1 /\ (k + 1) + 1 = i /\ m - i + 1 = j
          /\ j \in 1 .. 5 /\ j + 1 = m - k /\ k < m /\ j \in 1 .. 6 /\ j + 1 \in 1 .. 6
      BY <1>2
    <3>2. f[k + 1] = Above(wc, m - k)
      BY <2>4, <3>1
    <3> HIDE DEF i, j
    <3>3. f[i] = f[k + 1] * 64 + s[i] - 128
      BY <2>2, <3>1
    <3>4. s[i] = 128 + (Above(wc, j) % 64)
      BY <1>8, <3>1
    <3>5. Above(wc, j + 1) * 64 + (Above(wc, j) % 64) = Above(wc, j)
      <4>1. IsSplit(wc, j)
        BY <3>1, AboveFacts
      <4> QED
        BY <4>1 DEF IsSplit
    <3>6. Above(wc, j) \in Nat /\ Above(wc, j + 1) \in Nat
      BY <3>1, AboveFacts
    <3> DEFINE a == Above(wc, j)
               b == Above(wc, j + 1)
    <3>7. a \in Nat /\ b \in Nat /\ b * 64 + (a % 64) = a /\ f[i] = b * 64 + (128 + (a % 64)) - 128
      BY <3>1, <3>2, <3>3, <3>4, <3>5, <3>6
    <3> HIDE DEF a, b
    <3>8. f[i] = a
      BY <3>7
    <3> QED
      BY <3>1, <3>8 DEF a, j
  <2>5. m - 1 \in Nat /\ m - 1 < m /\ (m - 1) + 1 = m /\ m - (m - 1) = 1
    BY <1>2
  <2>6. m - 1 \in S
    <3> HIDE DEF S
    <3> QED
      BY <2>3, <2>4, <2>5, StepByStep
  <2>7. f[(m - 1) + 1] = Above(wc, m - (m - 1))
    BY <2>5, <2>6
  <2>8. f[m] = wc
    BY <2>5, <2>7, AboveFacts
  <2> QED
    BY <2>2, <2>8
<1>11. Encodes(s, wc)
  BY <1>2, <1>5, <1>8, <1>9, <1>10 DEF Encodes
<1> QED
  BY <1>11 DEF s

-----------------------------------------------------------------------------
(* How long the text is that an operation makes, whether or not the block   *)
(* can be made that long.                                                  *)

HasLen(t, n) == "len" \in DOMAIN t /\ t.len = n

LEMMA MovesKeepLen ==
  ASSUME NEW t, NEW n, HasLen(t, n)
  PROVE  /\ \A to, w : HasLen(Put(t, to, w), n)
         /\ \A to, from, k : HasLen(Move(t, to, from, k), n)
         /\ \A k : HasLen(maybe_expand(t, k), n)
         /\ \A p, k : HasLen(Opened(t, p, k), n)
         /\ \A k : HasLen(Ended(t, k), k)
         /\ \A k : HasLen([t EXCEPT !.len = k], k)
<1>1. ASSUME NEW u, NEW k, HasLen(u, k), NEW e PROVE HasLen([u EXCEPT !.cells = e], k)
  BY <1>1 DEF HasLen
<1>2. ASSUME NEW u, NEW k, HasLen(u, k), NEW to, NEW w PROVE HasLen(Put(u, to, w), k)
  BY <1>1, <1>2 DEF Put
<1>3. \A to, from, k : HasLen(Move(t, to, from, k), n)
  BY <1>2 DEF Move
<1>4. \A k : HasLen(maybe_expand(t, k), n)
  BY <1>1 DEF maybe_expand
<1>5. \A p, k : HasLen(Opened(t, p, k), n)
  BY <1>3 DEF Opened
<1>6. \A k : HasLen([t EXCEPT !.len = k], k)
  BY DEF HasLen
<1>7. \A k : HasLen(Ended(t, k), k)
  BY <1>2, <1>6 DEF Ended
<1> QED
  BY <1>2, <1>3, <1>4, <1>5, <1>6, <1>7

LEMMA HeldLen ==
  ASSUME NEW t, NEW s, Holds(t, s)
  PROVE  HasLen(t, Len(s)) /\ Len(s) \in Nat
BY DEF Holds, HasLen, Strings

LEMMA InsertLen ==
  ASSUME NEW t, NEW s, Holds(t, s), NEW pos
  PROVE  /\ \A w \in Seq(Character) : \A n0 \in {-1, Len(w)} :
              insert_len(t, pos, Foreign(w), n0).len = Len(s) + Len(w)
         /\ \A w \in Seq(Int) : append_vprintf(t, w).len = Len(s) + Len(w)
         /\ \A c : insert_c(t, pos, c).len = Len(s) + 1 /\ append_c_inline(t, c).len = Len(s) + 1
<1>1. HasLen(t, Len(s)) /\ Len(s) \in Nat /\ t.len = Len(s)
  BY HeldLen DEF HasLen
<1> DEFINE l == Len(s)
           p == IF pos < 0 THEN t.len ELSE pos
<1> HIDE DEF l, p
<1>2. ASSUME NEW u, HasLen(u, l), NEW n, NEW w, NEW q
      PROVE  HasLen(Ended(Put(Opened(maybe_expand(u, n), q, n), q, w), t.len + n), l + n)
  <2>1. HasLen(maybe_expand(u, n), l)
    BY <1>2, MovesKeepLen
  <2>2. HasLen(Opened(maybe_expand(u, n), q, n), l)
    BY <2>1, MovesKeepLen
  <2>3. HasLen(Put(Opened(maybe_expand(u, n), q, n), q, w), l)
    BY <2>2, MovesKeepLen
  <2> QED
    BY <1>1, <2>3, MovesKeepLen DEF l
<1>3. ASSUME NEW w \in Seq(Character), NEW n0 \in {-1, Len(w)}
      PROVE  insert_len(t, pos, Foreign(w), n0).len = Len(s) + Len(w)
  <2> DEFINE n == IF n0 < 0 THEN strlen(Pointed(t, Foreign(w))) ELSE n0
             b == SubSeq(w \o <<0>>, 1, n)
  <2>0. Len(w) \in Nat
    BY TextsAreBytes
  <2>1. Foreign(w).own = FALSE /\ Foreign(w).bytes = w \o <<0>>
    BY DEF Foreign
  <2>2. n = Len(w)
    BY <2>0, <2>1, StrlenFacts DEF Pointed
  <2>3. CASE n0 = 0
    <3>1. insert_len(t, pos, Foreign(w), n0) = t /\ Len(w) = 0
      BY <2>0, <2>3 DEF insert_len
    <3> QED
      BY <1>1, <3>1
  <2>4. CASE n0 # 0
    <3>1. insert_len(t, pos, Foreign(w), n0) =
            Ended(Put(Opened(maybe_expand(t, n), p, n), p, b), t.len + n)
      BY <2>1, <2>4 DEF insert_len, p
    <3> HIDE DEF n, b
    <3>2. HasLen(Ended(Put(Opened(maybe_expand(t, n), p, n), p, b), t.len + n), l + n)
      BY <1>1, <1>2 DEF l
    <3> QED
      BY <2>2, <3>1, <3>2 DEF HasLen, l
  <2> QED
    BY <2>3, <2>4
<1>4. ASSUME NEW w \in Seq(Int) PROVE append_vprintf(t, w).len = Len(s) + Len(w)
  <2>1. HasLen(maybe_expand(t, Len(w)), Len(s))
    BY <1>1, MovesKeepLen
  <2>2. HasLen(Put(maybe_expand(t, Len(w)), t.len, w \o <<0>>), Len(s))
    BY <2>1, MovesKeepLen
  <2>3. HasLen(append_vprintf(t, w), t.len + Len(w))
    BY <2>2, MovesKeepLen DEF append_vprintf
  <2> QED
    BY <1>1, <2>3 DEF HasLen
<1>5. ASSUME NEW c, NEW q PROVE insert_c(t, q, c).len = Len(s) + 1
  <2> DEFINE r == IF q < 0 THEN t.len ELSE q
  <2>1. insert_c(t, q, c) = Ended(Put(Opened(maybe_expand(t, 1), r, 1), r, <<c>>), t.len + 1)
    BY DEF insert_c
  <2> HIDE DEF r
  <2>2. HasLen(insert_c(t, q, c), l + 1)
    BY <1>1, <1>2, <2>1 DEF l
  <2> QED
    BY <2>2 DEF HasLen, l
<1>6. ASSUME NEW c PROVE append_c_inline(t, c).len = Len(s) + 1
  <2>1. HasLen(Put(t, t.len, <<c>>), Len(s))
    BY <1>1, MovesKeepLen
  <2>2. HasLen(Ended(Put(t, t.len, <<c>>), t.len + 1), t.len + 1)
    BY <2>1, MovesKeepLen
  <2> QED
    BY <1>1, <1>5, <2>2 DEF append_c_inline, HasLen
<1> QED
  BY <1>3, <1>4, <1>5, <1>6

\* The number of bytes is given, or they are all up to the zero.
Counts(t, o, n, n0) == n0 = n \/ (n0 = -1 /\ strlen(Pointed(t, Own(o))) = n)

LEMMA OwnLen ==
  ASSUME NEW t, NEW s, Holds(t, s), NEW pos, NEW o \in Nat, NEW n \in Nat,
         NEW n0, Counts(t, o, n, n0), NEW made, made = insert_len(t, pos, Own(o), n0)
  PROVE  made.len = Len(s) + n
<1> USE DEF Counts
<1> DEFINE p == IF pos < 0 THEN t.len ELSE pos
           before == IF o < p THEN Smaller(n, p - o) ELSE 0
           u == Opened(maybe_expand(t, n), p, n)
           first == Move(u, p, o, before)
           second == IF n > before THEN Move(first, p + before, o + before + n, n - before)
                     ELSE first
<1>1. HasLen(t, Len(s)) /\ Len(s) \in Nat /\ t.len = Len(s)
  BY HeldLen DEF HasLen
<1>2. CASE n0 = 0
  <2>1. insert_len(t, pos, Own(o), n0) = t /\ n = 0
    BY <1>2 DEF insert_len
  <2> QED
    BY <1>1, <2>1
<1>3. CASE n0 # 0
  <2>1. insert_len(t, pos, Own(o), n0) = Ended(second, t.len + n)
    <3>1. Own(o).own = TRUE /\ Own(o).at = o
      BY DEF Own
    <3>2. (IF n0 < 0 THEN strlen(Pointed(t, Own(o))) ELSE n0) = n
      OBVIOUS
    <3> QED
      BY <1>3, <3>1, <3>2 DEF insert_len
  <2> HIDE DEF p, before
  <2>2. HasLen(maybe_expand(t, n), Len(s))
    BY <1>1, MovesKeepLen
  <2>3. HasLen(u, Len(s))
    BY <2>2, MovesKeepLen
  <2> HIDE DEF u
  <2>4. HasLen(first, Len(s))
    BY <2>3, MovesKeepLen
  <2> HIDE DEF first
  <2>5. HasLen(second, Len(s))
    BY <2>4, MovesKeepLen
  <2> HIDE DEF second
  <2>6. HasLen(Ended(second, t.len + n), t.len + n)
    BY <2>5, MovesKeepLen
  <2> QED
    BY <1>1, <2>1, <2>6 DEF HasLen
<1> QED
  BY <1>2, <1>3

LEMMA OverwriteLen ==
  ASSUME NEW t, NEW s, Holds(t, s), NEW p \in 0 .. Len(s), NEW w \in Seq(Int),
         NEW n0 \in {-1, Len(w)}, p + Len(w) > Len(s)
  PROVE  overwrite_len(t, p, w, n0).len = p + Len(w)
<1> DEFINE n == IF n0 < 0 THEN Len(w) ELSE n0
           end == p + n
           wide == IF end > t.len THEN maybe_expand(t, end - t.len) ELSE t
           put == Put(wide, p, SubSeq(w, 1, n))
<1>1. HasLen(t, Len(s)) /\ Len(s) \in Nat /\ t.len = Len(s) /\ Len(w) \in Nat
  BY HeldLen DEF HasLen
<1>2. n = Len(w) /\ n0 # 0
  BY <1>1
<1>3. overwrite_len(t, p, w, n0) = IF end > t.len THEN Ended(put, end) ELSE put
  BY <1>2 DEF overwrite_len
<1>4. HasLen(wide, Len(s))
  BY <1>1, MovesKeepLen
<1>5. end = p + Len(w)
  BY <1>2
<1> HIDE DEF wide, n, end
<1>6. HasLen(put, Len(s))
  BY <1>4, MovesKeepLen
<1> HIDE DEF put
<1>7. HasLen(Ended(put, end), end)
  BY <1>6, MovesKeepLen
<1> QED
  BY <1>1, <1>3, <1>5, <1>7 DEF HasLen

-----------------------------------------------------------------------------
(* Each action is a step of TextBuffer.                                    *)

\* There is no string, or it holds a text that is ended inside its block.
StrInv == str = NoString \/ \E s : Holds(str, s)

\* What a reader of t sees, and what it is when t holds s.
Shown(t) == IF t = NoString THEN NoString
            ELSE IF t.len < Len(t.cells) /\ t.cells[t.len + 1] = 0 THEN Text(t)
            ELSE <<"overrun">>

LEMMA HeldIsShown ==
  ASSUME NEW t, NEW s, Holds(t, s)
  PROVE  /\ Shown(t) = s /\ Text(t) = s /\ t.len = Len(s) /\ t # NoString /\ s # NoString
         /\ s \in Seq(Int) /\ Len(s) \in Nat
<1>1. /\ t \in Strings /\ s \in Seq(Int) /\ Len(s) \in Nat /\ t.len = Len(s)
      /\ t.len < Len(t.cells) /\ t.cells[Len(s) + 1] = 0
      /\ \A i \in 1 .. Len(s) : t.cells[i] = s[i]
  BY DEF Holds
<1>2. t.cells \in Seq(Int) /\ Len(t.cells) \in Nat
  BY <1>1 DEF Strings
<1>3. Text(t) = s
  <2> DEFINE x == SubSeq(t.cells, 1, Len(s))
  <2>1. x \in Seq(Int) /\ Len(x) = Len(s) /\ \A i \in 1 .. Len(s) : x[i] = t.cells[i]
    BY <1>1, <1>2
  <2>2. Text(t) = x
    BY <1>1 DEF Text
  <2> HIDE DEF x
  <2>3. \A i \in 1 .. Len(x) : x[i] = s[i]
    BY <1>1, <2>1
  <2>4. x = s
    BY <1>1, <2>1, <2>3, SamePlaces
  <2> QED
    BY <2>2, <2>4
<1>4. t # NoString /\ s # NoString
  BY <1>1, TStringAssumption DEF Strings
<1>5. Shown(t) = s
  BY <1>1, <1>3, <1>4 DEF Shown
<1> QED
  BY <1>1, <1>3, <1>4, <1>5

LEMMA HeldIsSeen ==
  ASSUME NEW s, Holds(str, s)
  PROVE  /\ Seen = s /\ Text(str) = s /\ str.len = Len(s) /\ str # NoString /\ s # NoString
         /\ s \in Seq(Int) /\ Len(s) \in Nat
<1>1. Seen = Shown(str)
  BY DEF Seen, Shown
<1> QED
  BY <1>1, HeldIsShown

LEMMA HeldIsSeenNext ==
  ASSUME NEW s, Holds(str', s)
  PROVE  Seen' = s /\ StrInv' /\ s \in Seq(Int) /\ Len(s) \in Nat
<1>1. Seen' = Shown(str')
  BY DEF Seen, Shown
<1>2. StrInv'
  BY DEF StrInv
<1> QED
  BY <1>1, <1>2, HeldIsShown

LEMMA InsertedStep ==
  ASSUME NEW s, Holds(str, s), NEW w, NEW p \in 0 .. Len(s),
         Holds(str', Spliced(s, p, w, 0)), Asks("insert", p, 0, w)
  PROVE  Buffer!TextNext /\ StrInv'
<1>1. Seen = s /\ s # NoString
  BY HeldIsSeen
<1>2. Seen' = Spliced(s, p, w, 0) /\ StrInv'
  BY HeldIsSeenNext
<1>3. asked' = [op |-> "insert", at |-> p, n |-> 0, val |-> w]
  BY DEF Asks
<1>4. Spliced(s, p, w, 0) = Buffer!Upto(s, p) \o w \o Buffer!From(s, p)
  <2>1. p + 0 + 1 = p + 1
    OBVIOUS
  <2> QED
    BY <2>1 DEF Spliced, Buffer!Upto, Buffer!From
<1>5. Buffer!Insert(p, w)
  BY <1>1, <1>2, <1>3, <1>4 DEF Buffer!Insert, Buffer!Did, Buffer!Upto, Buffer!From
<1>6. asked'.at = p /\ asked'.val = w
  BY <1>3
<1>7. Buffer!Edit
  BY <1>1, <1>5, <1>6 DEF Buffer!Edit
<1> QED
  BY <1>2, <1>7 DEF Buffer!TextNext

LEMMA PlaceFacts ==
  ASSUME NEW s, Holds(str, s), NEW p \in Places
  PROVE  /\ p \in Int /\ p <= Len(s) /\ Place(p) = At(s, p) /\ Place(p) \in 0 .. Len(s)
         /\ p < 0 => p = -1
         /\ p # -1 => p = Place(p)
<1>1. str.len = Len(s) /\ Len(s) \in Nat
  BY HeldIsSeen
<1>2. p \in Int /\ p >= -1 /\ p <= Len(s)
  BY <1>1, SizeFacts DEF Places
<1> QED
  BY <1>1, <1>2 DEF Place, At

LEMMA CreateStep ==
  ASSUME Create PROVE Buffer!TextNext /\ StrInv'
<1>1. PICK w \in Values :
        /\ str = NoString
        /\ Becomes({new(w), new_len(w, Len(w)), new_len(w, -1)})
        /\ Asks("new", 0, 0, w)
  BY DEF Create
<1>2. w \in Seq(Character) /\ Len(w) < MaxSize
  BY TStringAssumption
<1>3. Holds(str', w)
  <2>1. str' \in {new(w), new_len(w, Len(w)), new_len(w, -1)}
    BY <1>1 DEF Becomes
  <2> QED
    BY <1>2, <2>1, NewHolds
<1>4. Seen' = w /\ StrInv'
  BY <1>3, HeldIsSeenNext
<1>5. Seen = NoString
  BY <1>1 DEF Seen
<1>6. asked' = [op |-> "new", at |-> 0, n |-> 0, val |-> w]
  BY <1>1 DEF Asks
<1>7. Buffer!New(w) /\ asked'.val = w
  BY <1>4, <1>5, <1>6 DEF Buffer!New, Buffer!Did
<1> QED
  BY <1>4, <1>7 DEF Buffer!TextNext

LEMMA InsertValueStep ==
  ASSUME NEW s, Holds(str, s), InsertValue
  PROVE  Buffer!TextNext /\ StrInv'
<1>1. PICK w \in Values, p \in Places :
        /\ LET val == Foreign(w) IN
           \/ Becomes({insert_len(str, p, val, Len(w))}
                 \cup (IF p < 0 THEN {append_len(str, val, Len(w))} ELSE {})
                 \cup (IF p = 0 THEN {prepend_len(str, val, Len(w))} ELSE {}))
           \/ Becomes({insert_len(str, p, val, -1)}
                 \cup (IF p < 0 THEN {append(str, val), append_vprintf(str, w),
                                      append_printf(str, w)} ELSE {})
                 \cup (IF p = 0 THEN {prepend(str, val)} ELSE {})
                 \cup (IF p >= 0 THEN {insert_text(str, p, val)} ELSE {}))
        /\ Asks("insert", Place(p), 0, w)
  BY DEF InsertValue
<1>2. w \in Seq(Character) /\ w \in Seq(Int) /\ Len(w) \in Nat
  BY TextsAreBytes, TStringAssumption
<1>3. /\ p \in Int /\ p <= Len(s) /\ Place(p) = At(s, p) /\ Place(p) \in 0 .. Len(s)
      /\ p < 0 => p = -1
  BY PlaceFacts
<1>4. Len(s) \in Nat
  BY HeldIsSeen
<1>5. /\ str'.len <= MaxLen
      /\ \/ \E n0 \in {-1, Len(w)} : str' = insert_len(str, p, Foreign(w), n0)
         \/ p < 0 /\ str' = append_vprintf(str, w)
  <2> DEFINE val == Foreign(w)
             f(q, n0) == insert_len(str, q, val, n0)
             a == append_vprintf(str, w)
  <2>1. \/ str' \in {f(p, -1), f(p, Len(w))}
        \/ p < 0 /\ str' \in {f(-1, -1), f(-1, Len(w)), a}
        \/ p = 0 /\ str' \in {f(0, -1), f(0, Len(w))}
        \/ p >= 0 /\ str' = f(p, -1)
    <3> HIDE DEF val
    <3> QED
      BY <1>1 DEF Becomes, append, append_len, append_printf, prepend, prepend_len, insert_text, val
  <2>2. str'.len <= MaxLen
    BY <1>1 DEF Becomes
  <2> HIDE DEF val, f, a
  <2>3. (\E n0 \in {-1, Len(w)} : str' = f(p, n0)) \/ (p < 0 /\ str' = a)
    BY <1>3, <2>1
  <2> QED
    BY <2>2, <2>3 DEF val, f, a
<1>6. CASE \E n0 \in {-1, Len(w)} : str' = insert_len(str, p, Foreign(w), n0)
  <2>1. PICK n0 \in {-1, Len(w)} : str' = insert_len(str, p, Foreign(w), n0)
    BY <1>6
  <2> DEFINE t == insert_len(str, p, Foreign(w), n0)
  <2>5. t.len = Len(s) + Len(w)
    BY <1>2, InsertLen
  <2> HIDE DEF t
  <2>2. str'.len = Len(s) + Len(w)
    BY <2>1, <2>5 DEF t
  <2>3. Len(s) + Len(w) < MaxSize
    BY <1>2, <1>4, <1>5, <2>2, SizeFacts
  <2>4. Holds(str', Spliced(s, Place(p), w, 0))
    BY <1>2, <1>3, <2>1, <2>3, ForeignHolds
  <2> QED
    BY <1>1, <1>3, <2>4, InsertedStep
<1>7. CASE p < 0 /\ str' = append_vprintf(str, w)
  <2>1. str'.len = Len(s) + Len(w)
    BY <1>2, <1>7, InsertLen
  <2>2. Len(s) + Len(w) < MaxSize
    BY <1>2, <1>4, <1>5, <2>1, SizeFacts
  <2>3. Place(p) = Len(s)
    BY <1>3, <1>7 DEF At
  <2>4. Holds(str', Spliced(s, Place(p), w, 0))
    BY <1>2, <1>7, <2>2, <2>3, PrintedHolds
  <2> QED
    BY <1>1, <1>3, <2>4, InsertedStep
<1> QED
  BY <1>5, <1>6, <1>7

LEMMA InsertOwnStep ==
  ASSUME NEW s, Holds(str, s), InsertOwn
  PROVE  Buffer!TextNext /\ StrInv'
<1>1. PICK p \in Places, o \in 0 .. MaxLen, n \in 0 .. MaxLen :
        /\ o + n <= str.len
        /\ LET w == SubSeq(Text(str), o + 1, o + n) IN
           /\ Becomes({insert_len(str, p, Own(o), n)}
                 \cup IF n > 0 /\ strlen(Pointed(str, Own(o))) = n
                      THEN {insert_len(str, p, Own(o), -1)} ELSE {})
           /\ Asks("insert", Place(p), 0, w)
  BY DEF InsertOwn
<1>2. Text(str) = s /\ str.len = Len(s) /\ Len(s) \in Nat
  BY HeldIsSeen
<1>3. p \in Int /\ p <= Len(s) /\ Place(p) = At(s, p) /\ Place(p) \in 0 .. Len(s)
  BY PlaceFacts
<1>4. o \in Nat /\ n \in Nat /\ o + n <= Len(s)
  BY <1>1, <1>2
<1> DEFINE w == SubSeq(s, o + 1, o + n)
<1>5. Asks("insert", Place(p), 0, w)
  BY <1>1, <1>2
<1>6. /\ str'.len <= MaxLen
      /\ \E n0 : /\ n0 = n \/ (n0 = -1 /\ strlen(Pointed(str, Own(o))) = n)
                 /\ str' = insert_len(str, p, Own(o), n0)
  BY <1>1 DEF Becomes
<1>7. PICK n0 : /\ n0 = n \/ (n0 = -1 /\ strlen(Pointed(str, Own(o))) = n)
                /\ str' = insert_len(str, p, Own(o), n0)
  BY <1>6
<1>8. str'.len = Len(s) + n
  <2>1. Counts(str, o, n, n0)
    BY <1>7 DEF Counts
  <2>2. str' = insert_len(str, p, Own(o), n0)
    BY <1>7
  <2> QED
    BY <1>4, <2>1, <2>2, OwnLen
<1>9. Len(s) + n < MaxSize
  BY <1>2, <1>4, <1>6, <1>8, SizeFacts
<1>10. Holds(str', Spliced(s, Place(p), w, 0))
  BY <1>3, <1>4, <1>7, <1>9, OwnHolds
<1> HIDE DEF w
<1> QED
  BY <1>3, <1>5, <1>10, InsertedStep

LEMMA InsertByteStep ==
  ASSUME NEW s, Holds(str, s), InsertByte
  PROVE  Buffer!TextNext /\ StrInv'
<1>1. PICK w \in Values, p \in Places :
        /\ Len(w) = 1
        /\ Becomes({insert_c(str, p, w[1])}
              \cup (IF p < 0 THEN {append_c(str, w[1]), append_c_inline(str, w[1])} ELSE {})
              \cup IF p = 0 THEN {prepend_c(str, w[1])} ELSE {})
        /\ Asks("insert", Place(p), 0, w)
  BY DEF InsertByte
<1>2. w \in Seq(Int) /\ w[1] \in Int /\ w = <<w[1]>>
  <2>1. w \in Seq(Int)
    BY TextsAreBytes, TStringAssumption
  <2> QED
    BY <1>1, <2>1
<1>3. /\ p \in Int /\ p <= Len(s) /\ Place(p) = At(s, p) /\ Place(p) \in 0 .. Len(s)
      /\ p < 0 => p = -1
  BY PlaceFacts
<1>4. Len(s) \in Nat
  BY HeldIsSeen
<1> DEFINE c == w[1]
<1>5. /\ str'.len <= MaxLen
      /\ \/ str' = insert_c(str, p, c)
         \/ p < 0 /\ str' = append_c_inline(str, c)
  BY <1>1, <1>3 DEF Becomes, append_c, prepend_c
<1>6. str'.len = Len(s) + 1
  BY <1>5, InsertLen
<1>7. Len(s) + 1 < MaxSize
  BY <1>4, <1>5, <1>6, SizeFacts
<1>8. c \in Int /\ <<c>> = w
  BY <1>2
<1> HIDE DEF c
<1>9. Holds(str', Spliced(s, Place(p), w, 0))
  <2>1. CASE str' = insert_c(str, p, c)
    BY <1>3, <1>7, <1>8, <2>1, ByteHolds
  <2>2. CASE p < 0 /\ str' = append_c_inline(str, c)
    <3>1. Place(p) = Len(s)
      BY <1>3, <2>2 DEF At
    <3> QED
      BY <1>7, <1>8, <2>2, <3>1, InlineHolds
  <2> QED
    BY <1>5, <2>1, <2>2
<1> QED
  BY <1>1, <1>3, <1>9, InsertedStep

LEMMA InsertWideStep ==
  ASSUME NEW s, Holds(str, s), InsertWide
  PROVE  Buffer!TextNext /\ StrInv'
<1>1. PICK wc \in Wides, p \in Places :
        /\ str.len <= 1
        /\ str' \in {insert_unichar(str, p, wc)}
                    \cup (IF p < 0 THEN {append_unichar(str, wc)} ELSE {})
                    \cup (IF p = 0 THEN {prepend_unichar(str, wc)} ELSE {})
        /\ Asks("unichar", Place(p), wc, <<>>)
  BY DEF InsertWide
<1>2. wc \in Nat
  BY TStringAssumption
<1>3. Seen = s /\ s # NoString /\ str.len = Len(s) /\ Len(s) \in Nat /\ s \in Seq(Int)
  BY HeldIsSeen
<1>4. /\ p \in Int /\ p <= Len(s) /\ Place(p) = At(s, p) /\ Place(p) \in 0 .. Len(s)
      /\ p < 0 => p = -1
  BY PlaceFacts
<1>5. str' = insert_unichar(str, p, wc)
  BY <1>1, <1>4 DEF append_unichar, prepend_unichar
<1> DEFINE w == Utf8(wc)
           n == Len(w)
           q == Place(p)
           x == Spliced(s, q, w, 0)
<1>6. Encodes(w, wc)
  BY <1>2, Utf8Encodes
<1>7. str' = Ended(Put(Opened(maybe_expand(str, n), q, n), q, w), str.len + n)
  BY <1>5 DEF insert_unichar, Place
<1>8. asked' = [op |-> "unichar", at |-> q, n |-> wc, val |-> <<>>]
  BY <1>1 DEF Asks
<1> HIDE DEF w, q
<1>9. w \in Seq(Int) /\ n \in 1 .. 6 /\ q \in 0 .. Len(s)
  BY <1>4, <1>6 DEF Encodes, q
<1>10. Len(s) + Len(w) < MaxSize
  <2> DEFINE a == Len(s)
             b == Len(w)
  <2>1. a <= 1 /\ a \in Nat
    BY <1>1, <1>3
  <2>2. b \in 1 .. 6
    BY <1>9
  <2> HIDE DEF a, b
  <2>3. b \in Nat /\ b <= 6
    BY <2>2
  <2>4. a + b < MaxSize
    BY <2>1, <2>3, SizeFacts
  <2> QED
    BY <2>4 DEF a, b
<1>11. Holds(str', x)
  BY <1>3, <1>7, <1>9, <1>10, InsertHolds
<1>12. Seen' = x /\ StrInv'
  BY <1>11, HeldIsSeenNext
<1>13. /\ x \in Seq(Int) /\ Len(x) = Len(s) + n
       /\ \A i \in 1 .. n : x[q + i] = w[i]
  <2>1. IsInserted(x, s, q, w)
    BY <1>3, <1>9, InsertFacts
  <2> HIDE DEF x
  <2> QED
    BY <2>1 DEF IsInserted
<1>14. x = Buffer!Upto(s, q) \o w \o Buffer!From(s, q)
  <2>1. q + 0 + 1 = q + 1
    BY <1>9
  <2> QED
    BY <2>1 DEF Spliced, Buffer!Upto, Buffer!From
<1> HIDE DEF x, n
<1>15. SubSeq(x, q + 1, q + n) = w
  <2> DEFINE y == SubSeq(x, q + 1, q + n)
  <2>1. q + n <= Len(x) /\ q \in Nat /\ n \in Nat /\ Len(w) = n
    BY <1>3, <1>9, <1>13 DEF n
  <2>2. y \in Seq(Int) /\ Len(y) = n /\ \A i \in 1 .. n : y[i] = x[q + i]
    BY <1>13, <2>1
  <2> HIDE DEF y
  <2>3. \A i \in 1 .. Len(y) : y[i] = w[i]
    BY <1>13, <2>2
  <2>4. y = w
    BY <1>9, <2>1, <2>2, <2>3, SamePlaces
  <2> QED
    BY <2>4 DEF y
<1>16. /\ Buffer!Decoded(w) = wc /\ n = Len(w)
       /\ n > 1 => wc >= Buffer!Least[n]
       /\ \A i \in 2 .. n : w[i] \in 128 .. 191
  BY <1>6 DEF Encodes, n
<1>17. Buffer!InsertUnichar(q, wc)
  <2>1. Buffer!Did("unichar", q, wc, <<>>)
    BY <1>8 DEF Buffer!Did
  <2> DEFINE z == SubSeq(Seen', q + 1, q + n)
  <2>2. z = w
    BY <1>12, <1>15
  <2> HIDE DEF z
  <2>3. Len(Seen') = Len(Seen) + n
    BY <1>3, <1>12, <1>13
  <2>4. Seen' = Buffer!Upto(Seen, q) \o z \o Buffer!From(Seen, q)
    BY <1>3, <1>12, <1>14, <2>2, Zenon
  <2>5. /\ Buffer!Decoded(z) = wc
        /\ n > 1 => wc >= Buffer!Least[n]
        /\ \A i \in 2 .. n : z[i] \in 128 .. 191
    BY <1>16, <2>2, Zenon
  <2>6. z = SubSeq(Seen', q + 1, q + n)
    BY DEF z
  <2>7. \E m \in 1 .. 6 :
          LET y == SubSeq(Seen', q + 1, q + m) IN
          /\ Len(Seen') = Len(Seen) + m
          /\ Seen' = Buffer!Upto(Seen, q) \o y \o Buffer!From(Seen, q)
          /\ Buffer!Decoded(y) = wc
          /\ m > 1 => wc >= Buffer!Least[m]
          /\ \A i \in 2 .. m : y[i] \in 128 .. 191
    BY <1>9, <2>3, <2>4, <2>5, <2>6, Zenon
  <2> QED
    BY <2>1, <2>7, Zenon DEF Buffer!InsertUnichar
<1>18. asked'.at = q /\ asked'.n = wc
  BY <1>8
<1>19. Buffer!Edit
  BY <1>3, <1>9, <1>17, <1>18 DEF Buffer!Edit
<1> QED
  BY <1>12, <1>19 DEF Buffer!TextNext

LEMMA RewriteStep ==
  ASSUME NEW s, Holds(str, s), Rewrite
  PROVE  Buffer!TextNext /\ StrInv'
<1>1. PICK w \in Values, p \in Places \ {-1} :
        /\ Becomes({overwrite(str, p, w), overwrite_len(str, p, w, -1)})
        /\ Asks("overwrite", p, 0, w)
  BY DEF Rewrite
<1>2. w \in Seq(Int) /\ Len(w) \in Nat
  BY TextsAreBytes, TStringAssumption
<1>3. Seen = s /\ s # NoString /\ Len(s) \in Nat /\ s \in Seq(Int)
  BY HeldIsSeen
<1>4. p \in 0 .. Len(s)
  BY PlaceFacts
<1>5. str'.len <= MaxLen /\ \E n0 \in {-1, Len(w)} : str' = overwrite_len(str, p, w, n0)
  BY <1>1 DEF Becomes, overwrite
<1>6. PICK n0 \in {-1, Len(w)} : str' = overwrite_len(str, p, w, n0)
  BY <1>5
<1>7. p + Len(w) < MaxSize \/ p + Len(w) <= Len(s)
  <2>1. CASE p + Len(w) > Len(s)
    <3>1. str'.len = p + Len(w)
      BY <1>2, <1>4, <1>6, <2>1, OverwriteLen
    <3> QED
      BY <1>2, <1>4, <1>5, <3>1, SizeFacts
  <2>2. CASE ~(p + Len(w) > Len(s))
    BY <1>2, <1>3, <1>4, <2>2
  <2> QED
    BY <2>1, <2>2
<1>8. Holds(str', Spliced(s, p, w, Len(w)))
  BY <1>2, <1>4, <1>6, <1>7, OverwriteHolds
<1>9. Seen' = Spliced(s, p, w, Len(w)) /\ StrInv'
  BY <1>8, HeldIsSeenNext
<1>10. asked' = [op |-> "overwrite", at |-> p, n |-> 0, val |-> w]
  BY <1>1 DEF Asks
<1>11. Buffer!Overwrite(p, w)
  BY <1>3, <1>9, <1>10 DEF Buffer!Overwrite, Buffer!Did, Buffer!Upto, Buffer!From, Spliced
<1>12. asked'.at = p /\ asked'.val = w
  BY <1>10
<1>13. Buffer!Edit
  BY <1>3, <1>4, <1>11, <1>12 DEF Buffer!Edit
<1> QED
  BY <1>9, <1>13 DEF Buffer!TextNext

LEMMA CutStep ==
  ASSUME NEW s, Holds(str, s), Cut
  PROVE  Buffer!TextNext /\ StrInv'
<1>1. PICK p \in Places \ {-1}, n \in 0 .. MaxLen :
        /\ p + n <= str.len
        /\ Becomes({erase(str, p, n)} \cup IF p + n = str.len THEN {erase(str, p, -1)} ELSE {})
        /\ Asks("erase", p, n, <<>>)
  BY DEF Cut
<1>2. Seen = s /\ s # NoString /\ Len(s) \in Nat /\ s \in Seq(Int) /\ str.len = Len(s)
  BY HeldIsSeen
<1>3. p \in 0 .. Len(s) /\ n \in Nat /\ p + n <= Len(s)
  BY <1>1, <1>2, PlaceFacts
<1>4. str' = erase(str, p, n) \/ (p + n = Len(s) /\ str' = erase(str, p, -1))
  BY <1>1, <1>2 DEF Becomes
<1> DEFINE x == Spliced(s, p, <<>>, n)
<1>5. Holds(str', x)
  <2>1. CASE str' = erase(str, p, n)
    BY <1>3, <2>1, EraseHolds
  <2>2. CASE p + n = Len(s) /\ str' = erase(str, p, -1)
    BY <1>3, <2>2, EraseHolds
  <2> QED
    BY <1>4, <2>1, <2>2
<1>6. x = Buffer!Upto(s, p) \o Buffer!From(s, p + n)
  <2> DEFINE a == SubSeq(s, 1, p)
  <2>1. a \in Seq(Int)
    BY <1>2, <1>3
  <2> HIDE DEF a
  <2>2. a \o <<>> = a
    BY <2>1
  <2> QED
    BY <2>2 DEF Spliced, Buffer!Upto, Buffer!From, a
<1> HIDE DEF x
<1>7. Seen' = x /\ StrInv'
  BY <1>5, HeldIsSeenNext
<1>8. asked' = [op |-> "erase", at |-> p, n |-> n, val |-> <<>>]
  BY <1>1 DEF Asks
<1>9. Buffer!Erase(p, n)
  BY <1>2, <1>6, <1>7, <1>8 DEF Buffer!Erase, Buffer!Did, Buffer!Upto, Buffer!From
<1>10. asked'.at = p /\ asked'.n = n
  BY <1>8
<1>11. p \in 0 .. Len(Seen) /\ n \in 0 .. (Len(Seen) - p)
  BY <1>2, <1>3
<1>12. Buffer!Edit
  BY <1>2, <1>9, <1>10, <1>11 DEF Buffer!Edit
<1> QED
  BY <1>7, <1>12 DEF Buffer!TextNext

LEMMA ResizeStep ==
  ASSUME NEW s, Holds(str, s), Resize
  PROVE  Buffer!TextNext /\ StrInv'
<1>1. PICK n \in 0 .. MaxLen :
        \/ Becomes({truncate(str, n)}) /\ Asks("truncate", 0, n, <<>>)
        \/ Becomes({set_size(str, n)}) /\ Asks("set_size", 0, n, <<>>)
  BY DEF Resize
<1>2. Seen = s /\ s # NoString /\ Len(s) \in Nat /\ s \in Seq(Int)
  BY HeldIsSeen
<1>3. n \in Nat /\ n < MaxSize /\ n >= 0
  BY SizeFacts
<1>4. CASE str' = truncate(str, n) /\ Asks("truncate", 0, n, <<>>)
  <2> DEFINE x == SubSeq(s, 1, Smaller(n, Len(s)))
  <2>1. Holds(str', x)
    BY <1>3, <1>4, TruncateHolds
  <2>2. x = IF n < Len(s) THEN Buffer!Upto(s, n) ELSE s
    <3>1. CASE n < Len(s)
      BY <3>1 DEF Smaller, Buffer!Upto
    <3>2. CASE ~(n < Len(s))
      <4>1. x = SubSeq(s, 1, Len(s))
        BY <3>2 DEF Smaller
      <4>2. SubSeq(s, 1, Len(s)) = s
        BY <1>2
      <4> QED
        BY <3>2, <4>1, <4>2
    <3> QED
      BY <3>1, <3>2
  <2> HIDE DEF x
  <2>3. Seen' = x /\ StrInv'
    BY <2>1, HeldIsSeenNext
  <2>4. asked' = [op |-> "truncate", at |-> 0, n |-> n, val |-> <<>>]
    BY <1>4 DEF Asks
  <2>5. Buffer!Truncate(n)
    BY <1>2, <2>2, <2>3, <2>4 DEF Buffer!Truncate, Buffer!Did, Buffer!Upto
  <2>6. asked'.n = n
    BY <2>4
  <2>7. Buffer!Edit
    BY <1>2, <1>3, <2>5, <2>6 DEF Buffer!Edit
  <2> QED
    BY <2>3, <2>7 DEF Buffer!TextNext
<1>5. CASE str' = set_size(str, n) /\ Asks("set_size", 0, n, <<>>)
  <2>1. PICK x : /\ Holds(set_size(str, n), x) /\ Len(x) = n
                 /\ \A i \in 1 .. n : i <= Len(s) => x[i] = s[i]
    BY <1>3, SetSizeHolds
  <2>2. Seen' = x /\ StrInv'
    BY <1>5, <2>1, HeldIsSeenNext
  <2>3. asked' = [op |-> "set_size", at |-> 0, n |-> n, val |-> <<>>]
    BY <1>5 DEF Asks
  <2>4. Buffer!SetSize(n)
    BY <1>2, <2>1, <2>2, <2>3 DEF Buffer!SetSize, Buffer!Did
  <2>5. asked'.n = n
    BY <2>3
  <2>6. Buffer!Edit
    BY <1>2, <1>3, <2>4, <2>5 DEF Buffer!Edit
  <2> QED
    BY <2>2, <2>6 DEF Buffer!TextNext
<1> QED
  BY <1>1, <1>4, <1>5 DEF Becomes

LEMMA RenewStep ==
  ASSUME NEW s, Holds(str, s), Renew
  PROVE  Buffer!TextNext /\ StrInv'
<1>1. PICK w \in Values :
        /\ Becomes((IF w # <<>> THEN {assign(str, Foreign(w)), vprintf(str, w), printf(str, w)}
                    ELSE {})
                   \cup IF w = Text(str) THEN {assign(str, Own(0))} ELSE {})
        /\ Asks("assign", 0, 0, w)
  BY DEF Renew
<1>2. w \in Seq(Character) /\ Len(w) < MaxSize
  BY TStringAssumption
<1>3. Seen = s /\ s # NoString /\ Text(str) = s
  BY HeldIsSeen
<1>4. /\ Holds(assign(str, Foreign(w)), w) /\ Holds(vprintf(str, w), w)
      /\ Holds(printf(str, w), w) /\ assign(str, Own(0)) = str
  BY <1>2, AssignHolds
<1>5. Holds(str', w)
  <2>1. \/ str' \in {assign(str, Foreign(w)), vprintf(str, w), printf(str, w)}
        \/ w = Text(str) /\ str' = assign(str, Own(0))
    BY <1>1 DEF Becomes
  <2> QED
    BY <1>3, <1>4, <2>1
<1>6. Seen' = w /\ StrInv'
  BY <1>5, HeldIsSeenNext
<1>7. asked' = [op |-> "assign", at |-> 0, n |-> 0, val |-> w]
  BY <1>1 DEF Asks
<1>8. Buffer!Assign(w) /\ asked'.val = w
  BY <1>6, <1>7 DEF Buffer!Assign, Buffer!Did
<1>9. Buffer!Edit
  BY <1>3, <1>8 DEF Buffer!Edit
<1> QED
  BY <1>6, <1>9 DEF Buffer!TextNext

LEMMA RecaseStep ==
  ASSUME NEW s, Holds(str, s), Recase
  PROVE  Buffer!TextNext /\ StrInv'
<1>1. \/ str' = ascii_down(str) /\ Asks("down", 0, 0, <<>>)
      \/ str' = ascii_up(str) /\ Asks("up", 0, 0, <<>>)
  BY DEF Recase, Becomes, down, up
<1>2. Seen = s /\ s # NoString
  BY HeldIsSeen
<1>3. CASE str' = ascii_down(str) /\ Asks("down", 0, 0, <<>>)
  <2> DEFINE x == [i \in DOMAIN s |-> Buffer!Lower(s[i])]
  <2>1. Holds(str', x)
    BY <1>3, RecaseHolds
  <2>2. Seen' = x /\ StrInv'
    BY <2>1, HeldIsSeenNext
  <2>3. asked' = [op |-> "down", at |-> 0, n |-> 0, val |-> <<>>]
    BY <1>3 DEF Asks
  <2>4. Buffer!Recase("down", Buffer!Lower)
    BY <1>2, <2>2, <2>3 DEF Buffer!Recase, Buffer!Did
  <2>5. Buffer!Edit
    BY <1>2, <2>4 DEF Buffer!Edit
  <2> QED
    BY <2>2, <2>5 DEF Buffer!TextNext
<1>4. CASE str' = ascii_up(str) /\ Asks("up", 0, 0, <<>>)
  <2> DEFINE x == [i \in DOMAIN s |-> Buffer!Upper(s[i])]
  <2>1. Holds(str', x)
    BY <1>4, RecaseHolds
  <2>2. Seen' = x /\ StrInv'
    BY <2>1, HeldIsSeenNext
  <2>3. asked' = [op |-> "up", at |-> 0, n |-> 0, val |-> <<>>]
    BY <1>4 DEF Asks
  <2>4. Buffer!Recase("up", Buffer!Upper)
    BY <1>2, <2>2, <2>3 DEF Buffer!Recase, Buffer!Did
  <2>5. Buffer!Edit
    BY <1>2, <2>4 DEF Buffer!Edit
  <2> QED
    BY <2>2, <2>5 DEF Buffer!TextNext
<1> QED
  BY <1>1, <1>3, <1>4

LEMMA CompareStep ==
  ASSUME NEW s, Holds(str, s), Compare
  PROVE  Buffer!TextNext /\ StrInv'
<1>1. PICK w \in Values :
        /\ UNCHANGED str
        /\ Asks("equal", 0, IF equal(str, new_len(w, Len(w))) THEN 1 ELSE 0, w)
  BY DEF Compare
<1>2. w \in Seq(Character) /\ Len(w) < MaxSize
  BY TStringAssumption
<1>3. Seen = s /\ s # NoString
  BY HeldIsSeen
<1>4. Seen' = s /\ StrInv'
  BY <1>1, HeldIsSeenNext
<1>5. equal(str, new_len(w, Len(w))) <=> w = s
  BY <1>2, NewHolds, EqualFacts
<1>6. asked' = [op |-> "equal", at |-> 0, n |-> IF w = s THEN 1 ELSE 0, val |-> w]
  BY <1>1, <1>5 DEF Asks
<1>7. Buffer!Compare(w) /\ asked'.val = w
  BY <1>3, <1>4, <1>6 DEF Buffer!Compare, Buffer!Did
<1>8. Buffer!Edit
  BY <1>3, <1>7 DEF Buffer!Edit
<1> QED
  BY <1>4, <1>8 DEF Buffer!TextNext

LEMMA TStringStep ==
  ASSUME StrInv, [TStringNext]_tstringVars
  PROVE  [Buffer!TextNext]_<<Seen, asked>> /\ StrInv'
<1>1. CASE UNCHANGED tstringVars
  BY <1>1 DEF tstringVars, StrInv, Seen
<1>2. CASE Create
  BY <1>2, CreateStep
<1>3. CASE TStringNext /\ ~Create
  <2>1. str # NoString
    BY <1>3 DEF TStringNext, InsertValue, InsertOwn, InsertByte, InsertWide, Rewrite, Cut,
       Resize, Renew, Recase, Compare, Places
  <2>2. PICK s : Holds(str, s)
    BY <2>1 DEF StrInv
  <2>3. \/ InsertValue \/ InsertOwn \/ InsertByte \/ InsertWide \/ Rewrite
        \/ Cut \/ Resize \/ Renew \/ Recase \/ Compare
    BY <1>3 DEF TStringNext
  <2>4. Buffer!TextNext /\ StrInv'
    BY <2>2, <2>3, InsertValueStep, InsertOwnStep, InsertByteStep, InsertWideStep, RewriteStep,
       CutStep, ResizeStep, RenewStep, RecaseStep, CompareStep
  <2> QED
    BY <2>4
<1> QED
  BY <1>1, <1>2, <1>3

\* StringsImplemented: whatever is inserted where, the string's own bytes too,
\* and whenever tstring_maybe_expand moves the block, the string holds the text
\* the calls describe, ended inside its block.
THEOREM StringsAlways == TStringSpec => StringsImplemented
<1>1. TStringInit => Buffer!TextInit /\ StrInv
  BY DEF TStringInit, StrInv, Seen, Buffer!TextInit
<1>2. StrInv /\ [TStringNext]_tstringVars => StrInv'
  BY TStringStep
<1>3. StrInv /\ [TStringNext]_tstringVars => [Buffer!TextNext]_<<Seen, asked>>
  BY TStringStep
<1>4. TStringSpec => []StrInv
  BY <1>1, <1>2, PTL DEF TStringSpec
<1> QED
  BY <1>1, <1>3, <1>4, PTL DEF TStringSpec, StringsImplemented, Buffer!TextSpec
=============================================================================
