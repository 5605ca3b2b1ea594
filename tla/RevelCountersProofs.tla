------------------------ MODULE RevelCountersProofs ------------------------
(***************************************************************************)
(* Theorems of RevelCounters, for any digits, any width of a long long and *)
(* any values.  What sprintf writes strtoll reads back (TextReadsBack):    *)
(* this is proved by induction over the digits, with sets in place of      *)
(* predicates.                                                             *)
(***************************************************************************)
EXTENDS RevelCounters, RevelStoreProofs

-----------------------------------------------------------------------------
(* Induction over the naturals.                                            *)

LEMMA StepByStep ==
  ASSUME NEW S, 0 \in S, \A n \in Nat : n \in S => n + 1 \in S
  PROVE  Nat \subseteq S
<1> SUFFICES ASSUME Nat \ S # {} PROVE FALSE
  OBVIOUS
<1>1. PICK x \in Nat \ S : \A y \in Nat \ S : x <= y
  BY LeastExists
<1>2. x - 1 \in Nat /\ x - 1 \notin S
  BY <1>1
<1> QED
  BY <1>1, <1>2

LEMMA FromAllBefore ==
  ASSUME NEW S, \A n \in Nat : (\A m \in 0..(n - 1) : m \in S) => n \in S
  PROVE  Nat \subseteq S
<1> SUFFICES ASSUME Nat \ S # {} PROVE FALSE
  OBVIOUS
<1>1. PICK x \in Nat \ S : \A y \in Nat \ S : x <= y
  BY LeastExists
<1>2. \A m \in 0..(x - 1) : m \in S
  BY <1>1
<1> QED
  BY <1>1, <1>2

-----------------------------------------------------------------------------
(* Digits.                                                                 *)

LEMMA BaseType == Base \in Nat \ {0, 1} /\ DOMAIN Digits = 1..Base
BY NumeralAssumption DEF Base

LEMMA DigitWorth ==
  ASSUME NEW r \in 0..(Base - 1)
  PROVE  /\ IsDigit(Digits[r + 1]) /\ Worth(Digits[r + 1]) = r
         /\ Digits[r + 1] # Minus /\ Digits[r + 1] # Space
<1>1. r + 1 \in DOMAIN Digits /\ r \in Int
  BY BaseType
<1>2. (CHOOSE i \in DOMAIN Digits : Digits[i] = Digits[r + 1]) = r + 1
  BY <1>1, NumeralAssumption
<1> QED
  BY <1>1, <1>2, NumeralAssumption DEF IsDigit, Worth

LEMMA MarksAreNoDigits == ~IsDigit(Minus) /\ ~IsDigit(Space) /\ Minus # Space
BY NumeralAssumption DEF IsDigit

LEMMA WorthType == ASSUME NEW c, IsDigit(c) PROVE Worth(c) \in 0..(Base - 1)
<1>1. PICK i \in DOMAIN Digits : Digits[i] = c
  BY DEF IsDigit
<1>2. (CHOOSE j \in DOMAIN Digits : Digits[j] = c) = i
  BY <1>1, NumeralAssumption
<1> QED
  BY <1>1, <1>2, BaseType DEF Worth

-----------------------------------------------------------------------------
(* Amounts: the recursion is well defined, one digit at a time.            *)

AmountNext(v, first, f, i) == IF i < first THEN 0 ELSE f[i - 1] * Base + Worth(v[i])

LEMMA AmountsExist ==
  ASSUME NEW v, NEW first \in Nat \ {0}, Len(v) \in Nat
  PROVE  \E f : f = [i \in 0..Len(v) |-> IF i < first THEN 0 ELSE f[i - 1] * Base + Worth(v[i])]
<1> DEFINE S == {m \in Nat : \E f : f = [i \in 0..m |-> AmountNext(v, first, f, i)]}
<1>1. 0 \in S
  <2>1. \A f : AmountNext(v, first, f, 0) = 0
    BY DEF AmountNext
  <2> DEFINE g == [i \in 0..0 |-> 0]
  <2>2. g = [i \in 0..0 |-> AmountNext(v, first, g, i)]
    BY <2>1
  <2> QED
    BY <2>2
<1>2. ASSUME NEW m \in Nat, m \in S PROVE m + 1 \in S
  <2>1. PICK f : f = [i \in 0..m |-> AmountNext(v, first, f, i)]
    BY <1>2
  <2> DEFINE g == [i \in 0..(m + 1) |-> IF i = m + 1 THEN AmountNext(v, first, f, m + 1) ELSE f[i]]
  <2>2. \A i \in 0..m : g[i] = f[i]
    OBVIOUS
  <2>3. \A i \in 0..(m + 1) : AmountNext(v, first, g, i) = AmountNext(v, first, f, i)
    BY <2>2 DEF AmountNext
  <2>4. \A i \in 0..m : f[i] = AmountNext(v, first, f, i)
    BY <2>1
  <2>5. \A i \in 0..(m + 1) : g[i] = AmountNext(v, first, g, i)
    BY <2>2, <2>3, <2>4
  <2>6. g = [i \in 0..(m + 1) |-> g[i]]
    OBVIOUS
  <2> HIDE DEF g
  <2>7. g = [i \in 0..(m + 1) |-> AmountNext(v, first, g, i)]
    BY <2>5, <2>6
  <2> QED
    BY <2>7
<1>3. Len(v) \in S
  BY <1>1, <1>2, StepByStep
<1> QED
  BY <1>3 DEF AmountNext

LEMMA AmountsStep ==
  ASSUME NEW v, Len(v) \in Nat, NEW first \in Nat \ {0}, NEW i \in 0..Len(v)
  PROVE  Amounts(v, first)[i] = AmountNext(v, first, Amounts(v, first), i)
<1> DEFINE f == CHOOSE g : g = [j \in 0..Len(v) |-> IF j < first THEN 0 ELSE g[j - 1] * Base + Worth(v[j])]
<1>1. f = [j \in 0..Len(v) |-> IF j < first THEN 0 ELSE f[j - 1] * Base + Worth(v[j])]
  BY AmountsExist, Zenon
<1>2. Amounts(v, first) = f
  BY DEF Amounts
<1> HIDE DEF f
<1>3. f[i] = AmountNext(v, first, f, i)
  BY <1>1 DEF AmountNext
<1> QED
  BY <1>2, <1>3

LEMMA AmountNone ==
  ASSUME NEW v, Len(v) \in Nat, NEW first \in Nat \ {0}, first - 1 <= Len(v)
  PROVE  Amount(v, first, first - 1) = 0
<1>1. first - 1 \in 0..Len(v) /\ first - 1 < first
  OBVIOUS
<1> QED
  BY <1>1, AmountsStep DEF Amount, AmountNext

LEMMA AmountStep ==
  ASSUME NEW v, Len(v) \in Nat, NEW first \in Nat \ {0}, NEW last \in first..Len(v)
  PROVE  Amount(v, first, last) = Amount(v, first, last - 1) * Base + Worth(v[last])
<1>1. last \in 0..Len(v) /\ ~(last < first)
  OBVIOUS
<1> QED
  BY <1>1, AmountsStep DEF Amount, AmountNext

\* v shows from a to x what w shows from b to y.
SameDigits(v, a, x, w, b, y) ==
  /\ Len(v) \in Nat /\ Len(w) \in Nat
  /\ a \in Nat \ {0} /\ b \in Nat \ {0}
  /\ x \in (a - 1)..Len(v) /\ y \in (b - 1)..Len(w) /\ x - a = y - b
  /\ \A i \in a..x : v[i] = w[i + (b - a)]

\* Amounts that spell the same digits are the same, wherever they stand.
LEMMA SameAmount ==
  ASSUME NEW v, NEW w, NEW a, NEW b, NEW x, NEW y, SameDigits(v, a, x, w, b, y)
  PROVE  Amount(v, a, x) = Amount(w, b, y)
<1> USE DEF SameDigits
<1> DEFINE n == x - a + 1
<1>1. n \in Nat /\ a + n - 1 = x /\ b + n - 1 = y /\ n - 1 = x - a
  OBVIOUS
<1>2. \A i \in 0..(n - 1) : v[a + i] = w[b + i]
  <2> SUFFICES ASSUME NEW i \in 0..(n - 1) PROVE v[a + i] = w[b + i]
    OBVIOUS
  <2>1. a + i \in a..x /\ (a + i) + (b - a) = b + i
    BY <1>1
  <2>2. v[a + i] = w[(a + i) + (b - a)]
    BY <2>1
  <2> QED
    BY <2>1, <2>2
<1> HIDE DEF n
<1> DEFINE S == {m \in Nat : m <= n => Amount(v, a, a + m - 1) = Amount(w, b, b + m - 1)}
<1>3. 0 \in S
  <2>1. Amount(v, a, a - 1) = 0 /\ Amount(w, b, b - 1) = 0
    BY AmountNone
  <2>2. a + 0 - 1 = a - 1 /\ b + 0 - 1 = b - 1
    OBVIOUS
  <2> QED
    BY <2>1, <2>2
<1>4. ASSUME NEW m \in Nat, m \in S PROVE m + 1 \in S
  <2> SUFFICES ASSUME m + 1 <= n PROVE Amount(v, a, a + m) = Amount(w, b, b + m)
    OBVIOUS
  <2>1. a + m \in a..Len(v) /\ b + m \in b..Len(w)
    <3>1. a + m <= x /\ b + m <= y
      BY <1>1
    <3>2. x <= Len(v) /\ y <= Len(w) /\ x \in Int /\ y \in Int
      OBVIOUS
    <3> QED
      BY <3>1, <3>2
  <2>2. /\ Amount(v, a, a + m) = Amount(v, a, a + m - 1) * Base + Worth(v[a + m])
        /\ Amount(w, b, b + m) = Amount(w, b, b + m - 1) * Base + Worth(w[b + m])
    BY <2>1, AmountStep
  <2>3. v[a + m] = w[b + m]
    <3>1. m \in 0..(n - 1)
      BY <1>1
    <3> QED
      BY <1>2, <3>1
  <2>4. Amount(v, a, a + m - 1) = Amount(w, b, b + m - 1)
    BY <1>1, <1>4
  <2> QED
    BY <2>2, <2>3, <2>4
<1>5. n \in S
  <2> HIDE DEF S
  <2> QED
    BY <1>1, <1>3, <1>4, StepByStep
<1>6. n <= n /\ Amount(v, a, a + n - 1) = Amount(w, b, b + n - 1)
  BY <1>1, <1>5
<1> QED
  BY <1>1, <1>6

\* Digits spell a natural number.
LEMMA AmountType ==
  ASSUME NEW v, Len(v) \in Nat, NEW first \in Nat \ {0}, NEW last \in (first - 1)..Len(v),
         \A i \in first..last : IsDigit(v[i])
  PROVE  Amount(v, first, last) \in Nat
<1> DEFINE S == {m \in Nat : first + m - 1 <= last => Amount(v, first, first + m - 1) \in Nat}
<1>1. 0 \in S
  <2>1. Amount(v, first, first - 1) = 0 /\ first + 0 - 1 = first - 1
    BY AmountNone
  <2> QED
    BY <2>1
<1>2. ASSUME NEW m \in Nat, m \in S PROVE m + 1 \in S
  <2> SUFFICES ASSUME first + m <= last PROVE Amount(v, first, first + m) \in Nat
    OBVIOUS
  <2>1. Amount(v, first, first + m) = Amount(v, first, first + m - 1) * Base + Worth(v[first + m])
    <3>1. first + m \in first..Len(v)
      OBVIOUS
    <3> QED
      BY <3>1, AmountStep
  <2>2. Amount(v, first, first + m - 1) \in Nat
    BY <1>2
  <2>3. Worth(v[first + m]) \in Nat
    <3>1. first + m \in first..last
      OBVIOUS
    <3>2. IsDigit(v[first + m])
      BY <3>1
    <3>3. Worth(v[first + m]) \in 0..(Base - 1)
      BY <3>2, WorthType
    <3> QED
      BY <3>3, BaseType
  <2>4. \A x \in Nat : x * Base \in Nat
    <3>1. Base \in Nat
      BY BaseType
    <3> QED
      BY <3>1
  <2>5. Amount(v, first, first + m - 1) * Base \in Nat
    BY <2>2, <2>4
  <2>6. \A x, y \in Nat : x + y \in Nat
    OBVIOUS
  <2> QED
    BY <2>1, <2>3, <2>5, <2>6
<1> DEFINE n == last - first + 1
<1>3. n \in Nat /\ first + n - 1 = last
  OBVIOUS
<1>4. Nat \subseteq S
  <2> HIDE DEF S
  <2> QED
    BY <1>1, <1>2, StepByStep
<1>5. n \in S
  BY <1>3, <1>4
<1>6. first + n - 1 <= last => Amount(v, first, first + n - 1) \in Nat
  BY <1>5
<1> HIDE DEF n
<1>7. last <= last
  OBVIOUS
<1> QED
  BY <1>3, <1>6, <1>7

-----------------------------------------------------------------------------
(* What sprintf writes.                                                    *)

DigitSet == {Digits[i] : i \in DOMAIN Digits}

SpellNext(f, m) ==
  IF m < Base THEN <<Digits[m + 1]>>
  ELSE Append(f[m \div Base], Digits[(m % Base) + 1])

\* Division by the base gets smaller, and gives the number back.
LEMMA Divided ==
  ASSUME NEW m \in Nat
  PROVE  /\ m \div Base \in Nat /\ m % Base \in 0..(Base - 1)
         /\ m = (m \div Base) * Base + (m % Base)
         /\ m > 0 => m \div Base < m
<1>1. Base \in Nat /\ Base > 1
  BY BaseType
<1>2. \A b \in Nat : b > 1 =>
        /\ m \div b \in Nat /\ m % b \in 0..(b - 1)
        /\ m = (m \div b) * b + (m % b)
  OBVIOUS
<1>3. \A b \in Nat : b > 1 /\ m > 0 => m \div b < m
  OBVIOUS
<1> QED
  BY <1>1, <1>2, <1>3

LEMMA SpellsExist ==
  ASSUME NEW n \in Nat
  PROVE  \E f : f = [m \in 0..n |-> IF m < Base THEN <<Digits[m + 1]>>
                                 ELSE Append(f[m \div Base], Digits[(m % Base) + 1])]
<1> DEFINE S == {k \in Nat : \E f : f = [m \in 0..k |-> SpellNext(f, m)]}
<1>1. 0 \in S
  <2>1. 0 < Base
    BY BaseType
  <2>2. \A f : SpellNext(f, 0) = <<Digits[1]>>
    BY <2>1 DEF SpellNext
  <2> DEFINE g == [m \in 0..0 |-> <<Digits[1]>>]
  <2>3. g = [m \in 0..0 |-> SpellNext(g, m)]
    BY <2>2
  <2> QED
    BY <2>3
<1>2. ASSUME NEW k \in Nat, k \in S PROVE k + 1 \in S
  <2>1. PICK f : f = [m \in 0..k |-> SpellNext(f, m)]
    BY <1>2
  <2> DEFINE g == [m \in 0..(k + 1) |-> IF m = k + 1 THEN SpellNext(f, k + 1) ELSE f[m]]
  <2>2. \A m \in 0..k : g[m] = f[m]
    OBVIOUS
  <2>3. \A m \in 0..(k + 1) : m < Base \/ m \div Base \in 0..k
    <3>1. Base \in Nat /\ Base > 1
      BY BaseType
    <3> QED
      BY <3>1, Divided
  <2>4. \A m \in 0..(k + 1) : SpellNext(g, m) = SpellNext(f, m)
    BY <2>2, <2>3 DEF SpellNext
  <2>5. \A m \in 0..k : f[m] = SpellNext(f, m)
    BY <2>1
  <2>6. \A m \in 0..(k + 1) : g[m] = SpellNext(g, m)
    BY <2>2, <2>4, <2>5
  <2>7. g = [m \in 0..(k + 1) |-> g[m]]
    OBVIOUS
  <2> HIDE DEF g
  <2>8. g = [m \in 0..(k + 1) |-> SpellNext(g, m)]
    BY <2>6, <2>7
  <2> QED
    BY <2>8
<1>3. n \in S
  <2> HIDE DEF S
  <2> QED
    BY <1>1, <1>2, StepByStep
<1> QED
  BY <1>3 DEF SpellNext

LEMMA SpellStep == \A m \in 0..(MaxLL + 1) : Spell[m] = SpellNext(Spell, m)
<1> DEFINE f == CHOOSE g : g = [m \in 0..(MaxLL + 1) |->
                  IF m < Base THEN <<Digits[m + 1]>>
                  ELSE Append(g[m \div Base], Digits[(m % Base) + 1])]
<1>1. MaxLL + 1 \in Nat
  BY NumeralAssumption
<1>2. f = [m \in 0..(MaxLL + 1) |->
             IF m < Base THEN <<Digits[m + 1]>>
             ELSE Append(f[m \div Base], Digits[(m % Base) + 1])]
  BY <1>1, SpellsExist
<1>3. Spell = f
  BY DEF Spell
<1> HIDE DEF f
<1>4. \A m \in 0..(MaxLL + 1) : f[m] = SpellNext(f, m)
  BY <1>2 DEF SpellNext
<1> QED
  BY <1>3, <1>4

\* A number is spelled with digits alone, at least one, that are worth it.
Spelling(s, m) ==
  /\ s \in Seq(DigitSet) /\ Len(s) >= 1
  /\ Amount(s, 1, Len(s)) = m

LEMMA OneDigit == ASSUME NEW m \in 0..(Base - 1) PROVE Spelling(<<Digits[m + 1]>>, m)
<1> DEFINE s == <<Digits[m + 1]>>
<1>1. m + 1 \in DOMAIN Digits /\ m \in Nat
  BY BaseType
<1>2. s \in Seq(DigitSet) /\ Len(s) = 1 /\ s[1] = Digits[m + 1]
  BY <1>1 DEF DigitSet
<1>3. Amount(s, 1, 0) = 0
  <2>1. Amount(s, 1, 1 - 1) = 0
    BY <1>2, AmountNone
  <2> QED
    BY <2>1
<1>4. Amount(s, 1, 1) = Amount(s, 1, 1 - 1) * Base + Worth(s[1])
  <2>1. Len(s) \in Nat /\ 1 \in Nat \ {0} /\ 1 \in 1..Len(s)
    BY <1>2
  <2> HIDE DEF s
  <2> QED
    BY <2>1, AmountStep
<1>5. Worth(s[1]) = m
  BY <1>2, DigitWorth
<1>6. Amount(s, 1, 1) = m
  <2> HIDE DEF s
  <2>1. 1 - 1 = 0 /\ 0 * Base = 0 /\ 0 + m = m
    BY <1>1, BaseType
  <2> QED
    BY <1>3, <1>4, <1>5, <2>1
<1> QED
  BY <1>2, <1>6 DEF Spelling

LEMMA MoreDigits ==
  ASSUME NEW t, NEW q \in Nat, NEW r \in 0..(Base - 1), Spelling(t, q)
  PROVE  Spelling(Append(t, Digits[r + 1]), q * Base + r)
<1> DEFINE s == Append(t, Digits[r + 1])
<1>1. r + 1 \in DOMAIN Digits /\ r \in Nat
  BY BaseType
<1>2. t \in Seq(DigitSet) /\ Len(t) \in Nat /\ Len(t) >= 1
  BY DEF Spelling
<1>3. Digits[r + 1] \in DigitSet
  BY <1>1 DEF DigitSet
<1>4. /\ s \in Seq(DigitSet) /\ Len(s) = Len(t) + 1
      /\ \A i \in 1..Len(t) : s[i] = t[i]
      /\ s[Len(t) + 1] = Digits[r + 1]
  BY <1>2, <1>3
<1> HIDE DEF s
<1> DEFINE n == Len(t)
<1>5. n \in Nat /\ n >= 1 /\ n + 1 = Len(s) /\ Len(s) \in Nat
  BY <1>2, <1>4
<1>6. Amount(s, 1, n + 1) = Amount(s, 1, n + 1 - 1) * Base + Worth(s[n + 1])
  <2>1. n + 1 \in 1..Len(s)
    BY <1>5
  <2> QED
    BY <1>5, <2>1, AmountStep
<1>7. Worth(s[n + 1]) = r
  BY <1>4, DigitWorth
<1>8. Amount(s, 1, n) = Amount(t, 1, n)
  <2>1. /\ 1 \in Nat \ {0} /\ n \in (1 - 1)..Len(s) /\ n \in (1 - 1)..Len(t)
        /\ Len(s) \in Nat /\ Len(t) \in Nat
    BY <1>2, <1>5
  <2>2. \A i \in 1..n : s[i] = t[i + (1 - 1)]
    BY <1>4, <1>5
  <2> HIDE DEF n
  <2>3. SameDigits(s, 1, n, t, 1, n)
    BY <2>1, <2>2 DEF SameDigits
  <2> QED
    BY <2>3, SameAmount
<1>9. Amount(t, 1, n) = q
  BY DEF Spelling
<1>10. n + 1 - 1 = n
  BY <1>5
<1>11. Amount(s, 1, n + 1) = q * Base + r
  BY <1>6, <1>7, <1>8, <1>9, <1>10
<1> QED
  BY <1>4, <1>5, <1>11 DEF Spelling, s

LEMMA SpellSpells == \A m \in 0..(MaxLL + 1) : Spelling(Spell[m], m)
<1> DEFINE S == {m \in Nat : m <= MaxLL + 1 => Spelling(Spell[m], m)}
<1>1. MaxLL \in Nat /\ Base \in Nat /\ Base > 1
  BY NumeralAssumption, BaseType
<1>2. ASSUME NEW n \in Nat, \A m \in 0..(n - 1) : m \in S PROVE n \in S
  <2> SUFFICES ASSUME n <= MaxLL + 1 PROVE Spelling(Spell[n], n)
    OBVIOUS
  <2>1. n \in 0..(MaxLL + 1)
    BY <1>1
  <2>2. CASE n < Base
    <3>1. Spell[n] = SpellNext(Spell, n)
      BY <2>1, SpellStep
    <3>2. SpellNext(Spell, n) = <<Digits[n + 1]>>
      BY <2>2 DEF SpellNext
    <3>3. n \in 0..(Base - 1)
      BY <1>1, <2>2
    <3> QED
      BY <3>1, <3>2, <3>3, OneDigit
  <2>3. CASE ~(n < Base)
    <3> DEFINE q == n \div Base
               r == n % Base
    <3>1. q \in Nat /\ r \in 0..(Base - 1) /\ n = q * Base + r /\ q < n
      <4>1. n > 0
        BY <1>1, <2>3
      <4> QED
        BY <4>1, Divided
    <3>2. Spell[n] = Append(Spell[q], Digits[r + 1])
      BY <2>1, <2>3, SpellStep DEF SpellNext
    <3> HIDE DEF q, r
    <3>3. Spelling(Spell[q], q)
      <4>1. q \in 0..(n - 1) /\ q <= MaxLL + 1
        BY <1>1, <3>1
      <4> QED
        BY <1>2, <4>1
    <3> QED
      BY <3>1, <3>2, <3>3, MoreDigits
  <2> QED
    BY <2>2, <2>3
<1>3. Nat \subseteq S
  <2> HIDE DEF S
  <2> QED
    BY <1>2, FromAllBefore
<1> QED
  BY <1>1, <1>3

-----------------------------------------------------------------------------
(* What strtoll reads of it.                                               *)

LEMMA DigitFacts ==
  ASSUME NEW c \in DigitSet
  PROVE  IsDigit(c) /\ c # Minus /\ c # Space
BY NumeralAssumption DEF DigitSet, IsDigit

LEMMA NoSpaceFirst ==
  ASSUME NEW v, Len(v) \in Nat, Len(v) >= 1, v[1] # Space
  PROVE  Unspaced(v) = 1
<1> DEFINE Q(i) == (\A j \in 1..(i - 1) : v[j] = Space) /\ (i > Len(v) \/ v[i] # Space)
<1>1. 1 \in 1..(Len(v) + 1) /\ Q(1)
  OBVIOUS
<1>2. \A i \in 1..(Len(v) + 1) : Q(i) => i = 1
  <2> SUFFICES ASSUME NEW i \in 1..(Len(v) + 1), Q(i), i # 1 PROVE FALSE
    OBVIOUS
  <2>1. 1 \in 1..(i - 1)
    OBVIOUS
  <2> QED
    BY <2>1
<1>3. Unspaced(v) = CHOOSE i \in 1..(Len(v) + 1) : Q(i)
  BY DEF Unspaced
<1> HIDE DEF Q
<1> QED
  BY <1>1, <1>2, <1>3

LEMMA DigitsToTheEnd ==
  ASSUME NEW v, Len(v) \in Nat, FirstDigit(v) \in 1..(Len(v) + 1),
         \A i \in FirstDigit(v)..Len(v) : IsDigit(v[i])
  PROVE  LastDigit(v) = Len(v)
<1> DEFINE f == FirstDigit(v)
           Q(j) == /\ \A i \in f..j : IsDigit(v[i])
                   /\ j < Len(v) => ~IsDigit(v[j + 1])
<1>1. Len(v) \in (f - 1)..Len(v) /\ Q(Len(v))
  OBVIOUS
<1>2. \A j \in (f - 1)..Len(v) : Q(j) => j = Len(v)
  <2> SUFFICES ASSUME NEW j \in (f - 1)..Len(v), Q(j), j < Len(v) PROVE FALSE
    OBVIOUS
  <2>1. j + 1 \in f..Len(v)
    OBVIOUS
  <2> QED
    BY <2>1
<1>3. LastDigit(v) = CHOOSE j \in (f - 1)..Len(v) : Q(j)
  BY DEF LastDigit
<1> HIDE DEF f, Q
<1> QED
  BY <1>1, <1>2, <1>3

LEMMA TextNegative ==
  ASSUME NEW n \in MinLL..MaxLL, n < 0
  PROVE  LET v == Text(n) IN
         /\ v \in Seq(DigitSet \cup {Minus}) /\ EndsWell(v) /\ Number(v) = n
<1>1. MaxLL \in Nat /\ -n \in 0..(MaxLL + 1) /\ n \in Int
  BY NumeralAssumption DEF MinLL
<1> DEFINE s == Spell[-n]
           v == <<Minus>> \o s
<1>2. Text(n) = v
  BY DEF Text
<1>3. Spelling(s, -n)
  BY <1>1, SpellSpells
<1>4. s \in Seq(DigitSet) /\ Len(s) \in Nat /\ Len(s) >= 1 /\ Amount(s, 1, Len(s)) = -n
  BY <1>3 DEF Spelling
<1> HIDE DEF s
<1>5. /\ v \in Seq(DigitSet \cup {Minus}) /\ Len(v) = Len(s) + 1 /\ v[1] = Minus
      /\ \A i \in 1..Len(s) : v[i + 1] = s[i] /\ s[i] \in DigitSet
  BY <1>4
<1> HIDE DEF v
<1>6. Len(v) \in Nat /\ Len(v) >= 2
  BY <1>4, <1>5
<1>7. Unspaced(v) = 1
  BY <1>5, <1>6, MarksAreNoDigits, NoSpaceFirst
<1>8. Negative(v) /\ FirstDigit(v) = 2
  BY <1>5, <1>6, <1>7 DEF Negative, FirstDigit
<1>9. \A i \in 2..Len(v) : IsDigit(v[i])
  <2> SUFFICES ASSUME NEW i \in 2..Len(v) PROVE IsDigit(v[i])
    OBVIOUS
  <2>1. i - 1 \in 1..Len(s) /\ (i - 1) + 1 = i
    BY <1>4, <1>5
  <2>2. v[i] \in DigitSet
    BY <1>5, <2>1
  <2> QED
    BY <2>2, DigitFacts
<1>10. LastDigit(v) = Len(v)
  BY <1>6, <1>8, <1>9, DigitsToTheEnd
<1>11. Amount(v, 2, Len(v)) = Amount(s, 1, Len(s))
  <2>1. /\ 1 \in Nat \ {0} /\ 2 \in Nat \ {0} /\ Len(v) - 2 = Len(s) - 1
        /\ Len(v) \in (2 - 1)..Len(v) /\ Len(s) \in (1 - 1)..Len(s)
    BY <1>4, <1>5, <1>6
  <2>2. \A i \in 2..Len(v) : v[i] = s[i + (1 - 2)]
    <3> SUFFICES ASSUME NEW i \in 2..Len(v) PROVE v[i] = s[i + (1 - 2)]
      OBVIOUS
    <3>1. i - 1 \in 1..Len(s) /\ (i - 1) + 1 = i /\ i + (1 - 2) = i - 1
      BY <1>4, <1>5
    <3>2. v[(i - 1) + 1] = s[i - 1]
      BY <1>5, <3>1
    <3> QED
      BY <3>1, <3>2
  <2>3. SameDigits(v, 2, Len(v), s, 1, Len(s))
    BY <1>4, <1>6, <2>1, <2>2 DEF SameDigits
  <2> QED
    BY <2>3, SameAmount
<1>12. Spelled(v) = -n
  BY <1>4, <1>8, <1>10, <1>11 DEF Spelled
<1>13. Number(v) = n
  BY <1>1, <1>8, <1>12 DEF Number
<1>14. EndsWell(v)
  BY <1>6, <1>8, <1>10 DEF EndsWell
<1> QED
  BY <1>2, <1>5, <1>13, <1>14

LEMMA TextPositive ==
  ASSUME NEW n \in MinLL..MaxLL, n >= 0
  PROVE  LET v == Text(n) IN
         /\ v \in Seq(DigitSet \cup {Minus}) /\ EndsWell(v) /\ Number(v) = n
<1>1. MaxLL \in Nat /\ n \in 0..(MaxLL + 1) /\ n \in Int /\ ~(n < 0)
  BY NumeralAssumption DEF MinLL
<1> DEFINE v == Spell[n]
<1>2. Text(n) = v
  BY <1>1 DEF Text
<1>3. Spelling(v, n)
  BY <1>1, SpellSpells
<1>4. v \in Seq(DigitSet) /\ Len(v) \in Nat /\ Len(v) >= 1 /\ Amount(v, 1, Len(v)) = n
  BY <1>3 DEF Spelling
<1> HIDE DEF v
<1>5. v \in Seq(DigitSet \cup {Minus}) /\ \A i \in 1..Len(v) : v[i] \in DigitSet
  BY <1>4
<1>6. \A i \in 1..Len(v) : IsDigit(v[i]) /\ v[i] # Minus /\ v[i] # Space
  BY <1>5, DigitFacts
<1>7. Unspaced(v) = 1
  BY <1>4, <1>6, NoSpaceFirst
<1>8. ~Negative(v) /\ FirstDigit(v) = 1
  BY <1>4, <1>6, <1>7 DEF Negative, FirstDigit
<1>9. LastDigit(v) = Len(v)
  BY <1>4, <1>6, <1>8, DigitsToTheEnd
<1>10. Number(v) = n
  BY <1>4, <1>8, <1>9 DEF Spelled, Number
<1>11. EndsWell(v)
  BY <1>4, <1>8, <1>9 DEF EndsWell
<1> QED
  BY <1>2, <1>5, <1>10, <1>11

\* sprintf and strtoll agree: what is written for a long long is read back,
\* the smallest one included, whatever the base and the width.
THEOREM TextReadsBack ==
  \A n \in MinLL..MaxLL : safe_strtoll(Text(n)) /\ Number(Text(n)) = n
<1> SUFFICES ASSUME NEW n \in MinLL..MaxLL
             PROVE  safe_strtoll(Text(n)) /\ Number(Text(n)) = n
  OBVIOUS
<1>1. n \in Int /\ MinLL <= n /\ n <= MaxLL
  BY NumeralAssumption DEF MinLL
<1>2. EndsWell(Text(n)) /\ Number(Text(n)) = n
  BY <1>1, TextNegative, TextPositive
<1> QED
  BY <1>1, <1>2 DEF safe_strtoll

-----------------------------------------------------------------------------
(* What strtoll finds in any text.                                         *)

LEMMA UnspacedFacts ==
  ASSUME NEW v, Len(v) \in Nat
  PROVE  /\ Unspaced(v) \in 1..(Len(v) + 1)
         /\ \A j \in 1..(Unspaced(v) - 1) : v[j] = Space
<1> DEFINE T == {i \in 1..(Len(v) + 1) : i > Len(v) \/ v[i] # Space}
<1>1. Len(v) + 1 \in T /\ T \in SUBSET Nat
  OBVIOUS
<1>2. PICK u \in T : \A i \in T : u <= i
  BY <1>1, LeastExists
<1>3. \A j \in 1..(u - 1) : v[j] = Space
  <2> SUFFICES ASSUME NEW j \in 1..(u - 1) PROVE v[j] = Space
    OBVIOUS
  <2>1. j \in 1..(Len(v) + 1) /\ j < u /\ j <= Len(v)
    BY <1>2
  <2> QED
    BY <1>2, <2>1
<1> QED
  BY <1>2, <1>3 DEF Unspaced

LEMMA ReadFacts ==
  ASSUME NEW v, Len(v) \in Nat
  PROVE  /\ FirstDigit(v) \in 1..(Len(v) + 1)
         /\ LastDigit(v) \in (FirstDigit(v) - 1)..Len(v)
         /\ \A i \in FirstDigit(v)..LastDigit(v) : IsDigit(v[i])
<1>1. FirstDigit(v) \in 1..(Len(v) + 1)
  BY UnspacedFacts DEF Negative, FirstDigit
<1> DEFINE f == FirstDigit(v)
           T == {j \in (f - 1)..Len(v) : j < Len(v) => ~IsDigit(v[j + 1])}
<1>2. Len(v) \in T /\ T \in SUBSET Nat
  BY <1>1
<1>3. PICK l \in T : \A j \in T : l <= j
  BY <1>2, LeastExists
<1>4. \A i \in f..l : IsDigit(v[i])
  <2> SUFFICES ASSUME NEW i \in f..l PROVE IsDigit(v[i])
    OBVIOUS
  <2>1. i - 1 \in (f - 1)..Len(v) /\ i - 1 < l /\ i - 1 < Len(v) /\ (i - 1) + 1 = i
    BY <1>1, <1>3
  <2>2. i - 1 \notin T
    BY <1>1, <1>3, <2>1
  <2> QED
    BY <2>1, <2>2
<1>5. \E j \in (f - 1)..Len(v) :
        /\ \A i \in f..j : IsDigit(v[i])
        /\ j < Len(v) => ~IsDigit(v[j + 1])
  BY <1>3, <1>4
<1> HIDE DEF f
<1> QED
  BY <1>1, <1>5 DEF LastDigit, f

\* A text that strtoll accepts shows the number it returns.
LEMMA ReadsWhatIsShown ==
  ASSUME NEW T, NEW v \in Seq(T), EndsWell(v)
  PROVE  Number(v) \in Int /\ Shows(v, Number(v))
<1> DEFINE u == Unspaced(v)
           first == FirstDigit(v)
           last == LastDigit(v)
<1>1. Len(v) \in Nat /\ DOMAIN v = 1..Len(v)
  OBVIOUS
<1>2. /\ first \in 1..(Len(v) + 1) /\ last \in (first - 1)..Len(v)
      /\ \A i \in first..last : IsDigit(v[i])
  BY <1>1, ReadFacts
<1>3. last >= first /\ (last < Len(v) => v[last + 1] = Space)
  BY DEF EndsWell
<1>4. first \in DOMAIN v /\ last \in first..Len(v) /\ first \in Nat \ {0}
  BY <1>1, <1>2, <1>3
<1>5. u \in 1..(Len(v) + 1) /\ \A j \in 1..(u - 1) : v[j] = Space
  BY <1>1, UnspacedFacts
<1>6. Amount(v, first, last) \in Nat
  BY <1>1, <1>2, <1>4, AmountType
<1>7. CASE Negative(v)
  <2>1. first = u + 1 /\ v[u] = Minus /\ Number(v) = -Amount(v, first, last)
    BY <1>7 DEF FirstDigit, Negative, Number, Spelled
  <2>2. SubSeq(v, 1, first - 1) = [i \in 1..(u - 1) |-> Space] \o <<Minus>>
    <3> DEFINE p == [i \in 1..(u - 1) |-> Space]
               w == p \o <<Minus>>
               x == SubSeq(v, 1, first - 1)
    <3>1. p \in Seq({Space}) /\ Len(p) = u - 1 /\ \A i \in 1..(u - 1) : p[i] = Space
      BY <1>5
    <3>2. /\ w \in Seq({Space, Minus}) /\ Len(w) = u
          /\ \A i \in 1..(u - 1) : w[i] = Space
          /\ w[u] = Minus
      <4> HIDE DEF p
      <4>1. p \in Seq({Space, Minus}) /\ <<Minus>> \in Seq({Space, Minus})
        BY <3>1
      <4> QED
        BY <1>5, <3>1, <4>1
    <3>3. x \in Seq(T) /\ Len(x) = u /\ \A i \in 1..u : x[i] = v[i]
      BY <1>1, <1>4, <1>5, <2>1
    <3> HIDE DEF w, x
    <3>4. \A i \in 1..u : x[i] = w[i]
      BY <1>5, <2>1, <3>2, <3>3
    <3>5. x = w
      BY <3>2, <3>3, <3>4
    <3> QED
      BY <3>5 DEF w, x
  <2>3. u - 1 \in 0..(first - 1)
    BY <1>5, <2>1
  <2>4. <<Minus>> # <<>>
    OBVIOUS
  <2> HIDE DEF u, first, last
  <2>5. \E s \in 0..(first - 1) :
          SubSeq(v, 1, first - 1) = [i \in 1..s |-> Space] \o <<Minus>>
    BY <2>2, <2>3
  <2>6. \E sign \in {<<>>, <<Minus>>} :
          /\ \E s \in 0..(first - 1) :
               SubSeq(v, 1, first - 1) = [i \in 1..s |-> Space] \o sign
          /\ Number(v) = IF sign = <<>> THEN Amount(v, first, last) ELSE -Amount(v, first, last)
    BY <2>1, <2>4, <2>5
  <2>7. Number(v) \in Int
    BY <1>6, <2>1
  <2> QED
    BY <1>2, <1>3, <1>4, <2>6, <2>7 DEF Shows
<1>8. CASE ~Negative(v)
  <2>1. first = u /\ Number(v) = Amount(v, first, last)
    BY <1>8 DEF FirstDigit, Number, Spelled
  <2>2. SubSeq(v, 1, first - 1) = [i \in 1..(u - 1) |-> Space] \o <<>>
    <3> DEFINE p == [i \in 1..(u - 1) |-> Space]
               x == SubSeq(v, 1, first - 1)
    <3>1. p \in Seq({Space}) /\ Len(p) = u - 1 /\ \A i \in 1..(u - 1) : p[i] = Space
      BY <1>5
    <3>2. x \in Seq(T) /\ Len(x) = u - 1 /\ \A i \in 1..(u - 1) : x[i] = v[i]
      BY <1>1, <1>4, <1>5, <2>1
    <3> HIDE DEF p, x
    <3>3. x = p
      BY <1>5, <3>1, <3>2
    <3>4. p \o <<>> = p
      BY <3>1
    <3> QED
      BY <3>3, <3>4 DEF p, x
  <2>3. u - 1 \in 0..(first - 1)
    BY <1>5, <2>1
  <2> HIDE DEF u, first, last
  <2>5. \E s \in 0..(first - 1) :
          SubSeq(v, 1, first - 1) = [i \in 1..s |-> Space] \o <<>>
    BY <2>2, <2>3
  <2>6. \E sign \in {<<>>, <<Minus>>} :
          /\ \E s \in 0..(first - 1) :
               SubSeq(v, 1, first - 1) = [i \in 1..s |-> Space] \o sign
          /\ Number(v) = IF sign = <<>> THEN Amount(v, first, last) ELSE -Amount(v, first, last)
    BY <2>1, <2>3, <2>5
  <2>7. Number(v) \in Int
    BY <1>6, <2>1
  <2> QED
    BY <1>2, <1>3, <1>4, <2>6, <2>7 DEF Shows
<1> QED
  BY <1>7, <1>8

\* Two's complement stays inside the width and changes nothing modulo it.
LEMMA WrapFacts ==
  ASSUME NEW x \in Int
  PROVE  Wrap(x) \in MinLL..MaxLL /\ (Wrap(x) - x) % Span = 0
<1> DEFINE a == x - MinLL
           b == Span
           q == a \div b
<1>1. MaxLL \in Nat /\ MinLL \in Int /\ a \in Int /\ b \in Nat \ {0} /\ MaxLL = MinLL + b - 1
  BY NumeralAssumption DEF MinLL, Span
<1>2. a = b * q + (a % b) /\ a % b \in 0..(b - 1) /\ q \in Int
  BY <1>1
<1>3. Wrap(x) = (a % b) + MinLL
  BY DEF Wrap
<1>4. x = a + MinLL
  BY <1>1
<1> HIDE DEF a, b, q
<1>5. Wrap(x) - x = b * (-q)
  BY <1>1, <1>2, <1>3, <1>4
<1>6. (b * (-q)) % b = 0
  <2>1. -q \in Int
    BY <1>2
  <2>2. \A p \in Int : (b * p) % b = 0
    BY <1>1
  <2> QED
    BY <2>1, <2>2
<1>7. Wrap(x) \in MinLL..MaxLL
  BY <1>1, <1>2, <1>3
<1> QED
  BY <1>5, <1>6, <1>7 DEF b

-----------------------------------------------------------------------------
(* The handlers of this module keep what RevelStore's keep.                *)

\* What a counter request does, by how it ends.
CountSteps(d, req, k, step) ==
  \/ ~safe_strtoll(step) /\ BadStep(req)
  \/ NotServed(req)
  \/ Miss(d, req, k)
  \/ NotANumber(d, req, k)
  \/ safe_strtoll(step) /\ Counted(d, req, k, step)
  \/ Overrun(d, req, k)

LEMMA CountIsSteps ==
  ASSUME NEW op, NEW d, NEW k, NEW step, Count(op, d, k, step)
  PROVE  CountSteps(d, Request(op, d, <<k>>, <<step>>), k, step)
BY DEF Count, CountSteps

\* What a counter writes is a value, and the next request can read it.
LEMMA SteppedType ==
  ASSUME NEW op, NEW v \in Values, NEW step \in Values,
         safe_strtoll(v), safe_strtoll(step)
  PROVE  /\ Stepped(op, Number(v), Number(step)) \in MinLL..MaxLL
         /\ Text(Stepped(op, Number(v), Number(step))) \in Values
<1>1. Number(v) \in Int /\ Number(step) \in Int
  BY ReadsWhatIsShown DEF Values, safe_strtoll
<1>2. Stepped(op, Number(v), Number(step)) \in MinLL..MaxLL
  BY <1>1, WrapFacts DEF Stepped
<1>3. \A n \in MinLL..MaxLL : Text(n) \in Values
  <2> SUFFICES ASSUME NEW n \in MinLL..MaxLL PROVE Text(n) \in Values
    OBVIOUS
  <2>1. n \in Int
    BY NumeralAssumption DEF MinLL
  <2>2. Text(n) \in Seq(DigitSet \cup {Minus})
    BY <2>1, TextNegative, TextPositive
  <2>3. DigitSet \cup {Minus} \subseteq Chunks
    BY CounterAssumption DEF DigitSet
  <2> QED
    BY <2>2, <2>3 DEF Values
<1> QED
  BY <1>2, <1>3

LEMMA CountKeeps ==
  ASSUME StoreInv, NEW op, NEW d \in DBs, NEW k \in Keys, NEW step \in StepTexts,
         Count(op, d, k, step)
  PROVE  StoreInv'
<1> DEFINE req == Request(op, d, <<k>>, <<step>>)
<1>1. CountSteps(d, req, k, step)
  BY CountIsSteps
<1> HIDE DEF req
<1>2. CASE BadStep(req) \/ NotANumber(d, req, k)
  BY <1>2, QuietKeeps DEF BadStep, NotANumber, Stays, StoreInv, TypeOK
<1>3. CASE safe_strtoll(step) /\ Counted(d, req, k, step)
  <2> DEFINE new == Stepped(req.op, Number(disk[d][k]), Number(step))
  <2>1. Serving(d) /\ disk[d][k] # Absent /\ safe_strtoll(disk[d][k])
    BY <1>3 DEF Counted
  <2>2. disk[d][k] \in Values /\ step \in Values
    BY <2>1, OldValue, CounterAssumption
  <2>3. Text(new) \in Values
    BY <1>3, <2>1, <2>2, SteppedType
  <2>4. WriteAndKeep(d, req, Put(disk[d], k, Text(new)))
    BY <1>3 DEF Counted
  <2> HIDE DEF new
  <2> QED
    BY <2>1, <2>3, <2>4, EditKeeps
<1>4. CASE Overrun(d, req, k)
  BY <1>4, DieKeeps DEF Overrun, StoreInv, TypeOK
<1> QED
  BY <1>1, <1>2, <1>3, <1>4, NotServedKeeps, MissKeeps DEF CountSteps

LEMMA SetValueKeeps ==
  ASSUME StoreInv, NEW d \in DBs, NEW k \in Keys, NEW v \in Values, rpc_set(d, k, v)
  PROVE  StoreInv'
<1> DEFINE c == Put(disk[d], k, v)
<1>1. PICK req : NotServed(req) \/ WriteAndReset(d, req, c, 200, NoBody)
  BY DEF rpc_set
<1>2. Serving(d) => c \in Contents
  BY ServedContents, PutType
<1> HIDE DEF c
<1> QED
  BY <1>1, <1>2, NotServedKeeps, WriteAndResetKeeps

LEMMA CounterStoreStep == StoreInv /\ [CounterNext]_vars => StoreInv'
<1> SUFFICES ASSUME StoreInv, [CounterNext]_vars PROVE StoreInv'
  OBVIOUS
<1>1. CASE Start
  BY <1>1, StoreAssumption, OpenDoneKeeps, OpenFailedKeeps DEF Start
<1>2. CASE Killed
  BY <1>2, DieKeeps DEF Killed, StoreInv, TypeOK
<1>3. ASSUME NEW d \in DBs, rpc_new(d) \/ rpc_destroy(d) PROVE StoreInv'
  BY <1>3, OpenDoneKeeps, OpenFailedKeeps, DestroyKeeps DEF rpc_new
<1>4. ASSUME NEW d \in DBs, NEW k \in Keys, NEW v \in Inputs, rpc_set(d, k, v)
      PROVE  StoreInv'
  BY <1>4, CounterAssumption, SetValueKeeps
<1>5. ASSUME NEW d \in DBs, NEW k \in Keys, NEW step \in StepTexts,
             rpc_incr(d, k, step) \/ rpc_decr(d, k, step)
      PROVE  StoreInv'
  BY <1>5, CountKeeps DEF rpc_incr, rpc_decr
<1>6. CASE UNCHANGED vars
  BY <1>6, QuietKeeps DEF vars, Stays, StoreInv, TypeOK
<1> QED
  BY <1>1, <1>2, <1>3, <1>4, <1>5, <1>6 DEF CounterNext

-----------------------------------------------------------------------------
(* Only incr and decr answer for themselves.                               *)

LEMMA NotServedAnswers ==
  ASSUME NEW req, NotServed(req)
  PROVE  /\ reply'.req = req /\ disk' = disk /\ reply'.code \in {0, 404}
BY DEF NotServed, NoSuchDb, BadHandle, Answer, Die

LEMMA OthersAnswer ==
  ASSUME NEW d, NEW k, NEW v, rpc_new(d) \/ rpc_destroy(d) \/ rpc_set(d, k, v)
  PROVE  reply'.req.op \notin Counting
<1>1. CASE rpc_new(d)
  BY <1>1 DEF rpc_new, OpenDone, OpenFailed, Answer, Die, Request, RequestAt, Counting
<1>2. CASE rpc_destroy(d)
  <2>1. reply'.req = Request("destroy", d, <<>>, <<>>)
    BY <1>2, NotServedAnswers DEF rpc_destroy, NotServed, DestroyOpen, Answer
  <2> QED
    BY <2>1 DEF Request, RequestAt, Counting
<1>3. CASE rpc_set(d, k, v)
  <2> DEFINE req == Request("set", d, <<k>>, <<v>>)
             c == Put(disk[d], k, v)
  <2>1. NotServed(req) \/ WriteAndReset(d, req, c, 200, NoBody)
    BY <1>3 DEF rpc_set
  <2>2. req.op = "set"
    BY DEF Request, RequestAt
  <2> HIDE DEF req, c
  <2>3. reply'.req = req
    BY <2>1, NotServedAnswers DEF WriteAndReset, Answer
  <2> QED
    BY <2>2, <2>3 DEF Counting
<1> QED
  BY <1>1, <1>2, <1>3

LEMMA UpAndDownAnswer ==
  ASSUME Start \/ Killed
  PROVE  reply'.req.op \notin Counting
BY DEF Start, Killed, OpenDone, OpenFailed, Answer, Die, Request, RequestAt, Counting

\* A step after which the last request is incr or decr is one of theirs.
LEMMA CountersAnswer ==
  ASSUME CounterNext, reply'.req.op \in Counting
  PROVE  \E d \in DBs, k \in Keys, step \in StepTexts, op \in Counting : Count(op, d, k, step)
<1>1. \E d \in DBs, k \in Keys, step \in StepTexts : rpc_incr(d, k, step) \/ rpc_decr(d, k, step)
  BY OthersAnswer, UpAndDownAnswer DEF CounterNext
<1>2. PICK d \in DBs, k \in Keys, step \in StepTexts :
        Count("incr", d, k, step) \/ Count("decr", d, k, step)
  BY <1>1 DEF rpc_incr, rpc_decr
<1>3. "incr" \in Counting /\ "decr" \in Counting
  BY DEF Counting
<1> QED
  BY <1>2, <1>3

-----------------------------------------------------------------------------
(* One step of one counter.                                                *)

\* What one request leaves behind: where it counted and what it answered.
CountedOnce(req) ==
  /\ reply'.req = req
  /\ \A e \in DBs \ {req.db} : disk'[e] = disk[e]
  /\ reply'.code = 200 => MovedBy(req, disk[req.db], disk'[req.db])
  /\ reply'.code \in {400, 404} => disk' = disk
  /\ disk' = disk \/ MovedBy(req, disk[req.db], disk'[req.db])

\* A counter that moved shows its number and the next request can read it.
LEMMA CountedMoves ==
  ASSUME StoreInv, NEW op, NEW d \in DBs, NEW k \in Keys, NEW step \in Values,
         Serving(d), disk[d][k] # Absent, safe_strtoll(disk[d][k]), safe_strtoll(step),
         NEW new, new = Stepped(op, Number(disk[d][k]), Number(step)),
         NEW c2, c2 = Put(disk[d], k, Text(new))
  PROVE  /\ new \in MinLL..MaxLL
         /\ MovedBy(Request(op, d, <<k>>, <<step>>), disk[d], c2)
<1> DEFINE v == disk[d][k]
           n == Number(v)
           s == Number(step)
           req == Request(op, d, <<k>>, <<step>>)
<1>1. v \in Values /\ disk[d] \in Contents /\ disk[d] # NoDb
  BY OldValue, ServedContents, ContentsAreFiles
<1>2. new \in MinLL..MaxLL /\ Text(new) \in Values
  BY <1>1, SteppedType
<1>3. n \in MinLL..MaxLL /\ Shows(v, n)
  BY <1>1, ReadsWhatIsShown, NumeralAssumption DEF Values, safe_strtoll, MinLL
<1>4. s \in MinLL..MaxLL /\ Shows(step, s)
  BY ReadsWhatIsShown, NumeralAssumption DEF Values, safe_strtoll, MinLL
<1>5. Shows(Text(new), new)
  <2>1. safe_strtoll(Text(new)) /\ Number(Text(new)) = new
    BY <1>2, TextReadsBack
  <2> QED
    BY <1>2, <2>1, ReadsWhatIsShown DEF Values, safe_strtoll
<1>6. (new - IF op = "incr" THEN n + s ELSE n - s) % Span = 0
  <2>1. n + s \in Int /\ n - s \in Int
    BY <1>3, <1>4, NumeralAssumption DEF MinLL
  <2> HIDE DEF n, s
  <2>2. CASE op = "incr"
    BY <2>1, <2>2, WrapFacts DEF Stepped, n, s, v
  <2>3. CASE op # "incr"
    BY <2>1, <2>3, WrapFacts DEF Stepped, n, s, v
  <2> QED
    BY <2>2, <2>3
<1>7. c2[k] = Text(new) /\ \A j \in Keys \ {k} : c2[j] = disk[d][j]
  BY <1>1 DEF Put, Contents
<1>8. req.keys[1] = k /\ req.vals[1] = step /\ req.op = op
  BY DEF Request, RequestAt
<1> HIDE DEF v, n, s, req
<1>9. MovedBy(req, disk[d], c2)
  BY <1>1, <1>2, <1>3, <1>4, <1>5, <1>6, <1>7, <1>8 DEF MovedBy, v
<1> QED
  BY <1>2, <1>9 DEF req

LEMMA CountsOneStep ==
  ASSUME StoreInv, NEW op, NEW d \in DBs, NEW k \in Keys, NEW step \in StepTexts,
         Count(op, d, k, step)
  PROVE  CountedOnce(Request(op, d, <<k>>, <<step>>))
<1> DEFINE req == Request(op, d, <<k>>, <<step>>)
<1> SUFFICES CountedOnce(req)
  OBVIOUS
<1>1. CountSteps(d, req, k, step) /\ req.db = d /\ req.op = op
  BY CountIsSteps DEF Request, RequestAt
<1>2. ASSUME reply'.req = req, disk' = disk, reply'.code \in {0, 400, 404}
      PROVE  CountedOnce(req)
  BY <1>1, <1>2 DEF CountedOnce
<1>3. CASE safe_strtoll(step) /\ Counted(d, req, k, step)
  <2> DEFINE new == Stepped(op, Number(disk[d][k]), Number(step))
             c2 == Put(disk[d], k, Text(new))
  <2>1. /\ Serving(d) /\ disk[d][k] # Absent /\ safe_strtoll(disk[d][k])
        /\ WriteAndKeep(d, req, c2)
    BY <1>1, <1>3 DEF Counted
  <2>2. MovedBy(req, disk[d], c2)
    BY <1>3, <2>1, CounterAssumption, CountedMoves
  <2> HIDE DEF new, c2, req
  <2>3. PICK fault \in Faults :
          /\ Write(d, c2, fault)
          /\ Answer(req, IF fault \/ err[d] THEN 500 ELSE 200, NoBody)
    BY <2>1 DEF WriteAndKeep
  <2>4. fault \in BOOLEAN /\ err[d] \in BOOLEAN
    BY FaultType DEF StoreInv, TypeOK
  <2>5. disk \in [DBs -> Contents \cup {NoDb}]
    BY DEF StoreInv, TypeOK
  <2>6. CASE fault
    <3>1. disk' = disk /\ reply'.req = req /\ reply'.code = 500
      BY <2>3, <2>4, <2>5, <2>6 DEF Write, SetDisk, Answer
    <3> QED
      BY <1>1, <3>1 DEF CountedOnce
  <2>7. CASE ~fault
    <3>1. /\ disk'[d] = c2 /\ \A e \in DBs \ {d} : disk'[e] = disk[e]
          /\ reply'.req = req /\ reply'.code \in {200, 500}
      BY <2>3, <2>5, <2>7 DEF Write, SetDisk, Answer
    <3> QED
      BY <1>1, <2>2, <3>1 DEF CountedOnce
  <2> QED
    BY <2>6, <2>7
<1> HIDE DEF req
<1>4. CASE BadStep(req) \/ NotANumber(d, req, k) \/ Miss(d, req, k) \/ Overrun(d, req, k)
  <2>1. reply'.req = req /\ disk' = disk /\ reply'.code \in {0, 400, 404}
    BY <1>4 DEF BadStep, NotANumber, Miss, Overrun, Die, Answer
  <2> QED
    BY <1>2, <2>1
<1>5. CASE NotServed(req)
  BY <1>2, <1>5, NotServedAnswers
<1> QED
  BY <1>1, <1>3, <1>4, <1>5 DEF CountSteps

\* An action property that holds of a step, told by what it left behind.
LEMMA CountsOnceStep ==
  StoreInv /\ [CounterNext]_vars =>
    [reply'.req.op \in Counting =>
       LET d == reply'.req.db IN
       /\ \A e \in DBs \ {d} : disk'[e] = disk[e]
       /\ CASE reply'.code = 200 -> MovedBy(reply'.req, disk[d], disk'[d])
            [] reply'.code \in {400, 404} -> disk' = disk
            [] OTHER -> disk' = disk \/ MovedBy(reply'.req, disk[d], disk'[d])]_vars
<1> SUFFICES ASSUME StoreInv, CounterNext, reply'.req.op \in Counting
             PROVE  LET d == reply'.req.db IN
                    /\ \A e \in DBs \ {d} : disk'[e] = disk[e]
                    /\ CASE reply'.code = 200 -> MovedBy(reply'.req, disk[d], disk'[d])
                         [] reply'.code \in {400, 404} -> disk' = disk
                         [] OTHER -> disk' = disk \/ MovedBy(reply'.req, disk[d], disk'[d])
  OBVIOUS
<1>1. PICK d \in DBs, k \in Keys, step \in StepTexts, op \in Counting : Count(op, d, k, step)
  BY CountersAnswer
<1>2. CountedOnce(Request(op, d, <<k>>, <<step>>))
  BY <1>1, CountsOneStep
<1>3. PICK req : CountedOnce(req)
  BY <1>2
<1> QED
  BY <1>3 DEF CountedOnce

-----------------------------------------------------------------------------
(* What a counter answered 200 the next request can read.                  *)

\* The counter of the last request, answered 200, holds a number's text.
CountInv ==
  reply.req.op \in Counting /\ reply.code = 200 =>
    \E d \in DBs, k \in Keys :
      /\ reply.req.db = d /\ reply.req.keys = <<k>>
      /\ disk[d] # NoDb /\ \E m \in MinLL..MaxLL : disk[d][k] = Text(m)

LEMMA CountInvStep == StoreInv /\ CountInv /\ [CounterNext]_vars => CountInv'
<1> SUFFICES ASSUME StoreInv, CountInv, [CounterNext]_vars PROVE CountInv'
  OBVIOUS
<1>1. CASE UNCHANGED vars
  BY <1>1 DEF vars, CountInv
<1>2. CASE CounterNext
  <2> SUFFICES ASSUME reply'.req.op \in Counting, reply'.code = 200
               PROVE  \E d \in DBs, k \in Keys :
                        /\ reply'.req.db = d /\ reply'.req.keys = <<k>>
                        /\ disk'[d] # NoDb /\ \E m \in MinLL..MaxLL : disk'[d][k] = Text(m)
    BY DEF CountInv
  <2>1. PICK d \in DBs, k \in Keys, step \in StepTexts, op \in Counting : Count(op, d, k, step)
    BY <1>2, CountersAnswer
  <2> DEFINE req == Request(op, d, <<k>>, <<step>>)
             new == Stepped(op, Number(disk[d][k]), Number(step))
             c2 == Put(disk[d], k, Text(new))
  <2>2. CountSteps(d, req, k, step) /\ req.db = d /\ req.keys = <<k>> /\ req.op = op
    BY <2>1, CountIsSteps DEF Request, RequestAt
  <2> HIDE DEF req
  <2>3. ~NotServed(req)
    BY NotServedAnswers
  <2>4. safe_strtoll(step) /\ Counted(d, req, k, step)
    BY <2>2, <2>3 DEF CountSteps, BadStep, Miss, NotANumber, Overrun, Die, Answer
  <2>5. /\ Serving(d) /\ disk[d][k] # Absent /\ safe_strtoll(disk[d][k])
        /\ WriteAndKeep(d, req, c2)
    BY <2>2, <2>4 DEF Counted
  <2>6. disk[d][k] \in Values /\ step \in Values /\ disk[d] \in Contents
    BY <2>5, OldValue, ServedContents, CounterAssumption
  <2>7. new \in MinLL..MaxLL /\ Text(new) \in Values
    BY <2>4, <2>5, <2>6, SteppedType
  <2> HIDE DEF new
  <2>8. c2[k] = Text(new) /\ c2 \in Contents
    BY <2>6, <2>7, PutType DEF Put, Contents
  <2> HIDE DEF c2
  <2>9. disk'[d] = c2 /\ reply'.req = req
    <3>1. PICK fault \in Faults :
            /\ Write(d, c2, fault)
            /\ Answer(req, IF fault \/ err[d] THEN 500 ELSE 200, NoBody)
      BY <2>5 DEF WriteAndKeep
    <3>2. ~fault /\ reply'.req = req
      BY <3>1 DEF Answer
    <3>3. disk \in [DBs -> Contents \cup {NoDb}]
      BY DEF StoreInv, TypeOK
    <3> QED
      BY <3>1, <3>2, <3>3 DEF Write, SetDisk
  <2>10. disk'[d] # NoDb
    BY <2>8, <2>9, ContentsAreFiles
  <2> QED
    BY <2>2, <2>7, <2>8, <2>9, <2>10
<1> QED
  BY <1>1, <1>2

LEMMA CountsAgainStep ==
  StoreInv /\ CountInv /\ [CounterNext]_vars =>
    [LET last == reply.req  this == reply'.req IN
     last.op \in Counting /\ reply.code = 200 /\ this.op \in Counting
       /\ this.db = last.db /\ this.keys = last.keys /\ safe_strtoll(this.vals[1])
     => reply'.code # 400]_vars
<1> SUFFICES ASSUME StoreInv, CountInv, CounterNext,
                    reply.req.op \in Counting, reply.code = 200, reply'.req.op \in Counting,
                    reply'.req.db = reply.req.db, reply'.req.keys = reply.req.keys,
                    safe_strtoll(reply'.req.vals[1]), reply'.code = 400
             PROVE  FALSE
  OBVIOUS
<1>1. PICK d \in DBs, k \in Keys, step \in StepTexts, op \in Counting : Count(op, d, k, step)
  BY CountersAnswer
<1> DEFINE req == Request(op, d, <<k>>, <<step>>)
<1>2. /\ CountSteps(d, req, k, step) /\ reply'.req = req
      /\ req.db = d /\ req.keys = <<k>> /\ req.vals[1] = step
  BY <1>1, CountIsSteps, CountsOneStep DEF Request, RequestAt, CountedOnce
<1> HIDE DEF req
<1>3. disk[d] # NoDb /\ \E m \in MinLL..MaxLL : disk[d][k] = Text(m)
  <2>1. PICK d1 \in DBs, k1 \in Keys :
          /\ reply.req.db = d1 /\ reply.req.keys = <<k1>>
          /\ disk[d1] # NoDb /\ \E m \in MinLL..MaxLL : disk[d1][k1] = Text(m)
    BY DEF CountInv
  <2>2. d1 = d /\ k1 = k
    BY <1>2, <2>1
  <2> QED
    BY <2>1, <2>2
<1>4. safe_strtoll(disk[d][k])
  BY <1>3, TextReadsBack
<1>5. ~NotServed(req) /\ safe_strtoll(step) /\ ~NotANumber(d, req, k)
  BY <1>2, <1>4, NotServedAnswers DEF NotANumber
<1>6. ~Miss(d, req, k) /\ ~Overrun(d, req, k)
  BY DEF Miss, Overrun, Die, Answer
<1>7. ~Counted(d, req, k, step)
  BY DEF Counted, WriteAndKeep, Answer
<1> QED
  BY <1>2, <1>5, <1>6, <1>7 DEF CountSteps

LEMMA CounterInits == Init => StoreInv /\ CountInv
BY StoreInvInit DEF Init, CountInv, Request, RequestAt, Counting

-----------------------------------------------------------------------------
\* A counter request answered 200 moved its counter by exactly one step modulo
\* the width of a long long, one refused moved nothing, one that failed or died
\* moved it once or not at all: rpc_incr and rpc_decr, for any base, any width,
\* any values and any engine faults.
THEOREM CountsOnceAlways == CounterSpec => CountsOnce
<1>1. StoreInv /\ CountInv /\ [CounterNext]_vars => (StoreInv /\ CountInv)'
  BY CounterStoreStep, CountInvStep
<1> QED
  BY CounterInits, <1>1, CountsOnceStep, PTL DEF CounterSpec, CountsOnce

\* What incr or decr wrote and acknowledged the next incr or decr of that key
\* does not refuse as no number, even at the limits of a long long.
THEOREM CountsAgainAlways == CounterSpec => CountsAgain
<1>1. StoreInv /\ CountInv /\ [CounterNext]_vars => (StoreInv /\ CountInv)'
  BY CounterStoreStep, CountInvStep
<1> QED
  BY CounterInits, <1>1, CountsAgainStep, PTL DEF CounterSpec, CountsAgain
=============================================================================
