----------------------------- MODULE Numerals -----------------------------
(***************************************************************************)
(* Numbers as texts: what the safe_strto* helpers accept and what sprintf  *)
(* writes.  A text is a sequence of characters.  The base and the width of *)
(* a long long are parameters, so that TLC can run into the limits.        *)
(***************************************************************************)
EXTENDS Integers, Sequences

CONSTANTS
  Digits,   \* the digits, by their worth
  Minus,    \* the sign; a plus sign reads like none and is left out
  Space,    \* any character isspace accepts
  MaxLL,    \* bound: the largest long long, LLONG_MAX in the code
  MaxUInt   \* bound: the largest unsigned int, UINT_MAX in the code

ASSUME NumeralAssumption ==
  /\ Digits \in Seq({Digits[i] : i \in DOMAIN Digits})
  /\ Len(Digits) >= 2
  /\ \A i, j \in DOMAIN Digits : Digits[i] = Digits[j] => i = j
  /\ \A i \in DOMAIN Digits : Digits[i] \notin {Minus, Space}
  /\ Minus # Space
  /\ MaxLL \in Nat
  /\ MaxUInt \in Nat

Base == Len(Digits)
IsDigit(c) == \E i \in DOMAIN Digits : Digits[i] = c
Worth(c) == (CHOOSE i \in DOMAIN Digits : Digits[i] = c) - 1

MinLL == -MaxLL - 1
Span == 2 * (MaxLL + 1)

\* Two's complement arithmetic.
Wrap(n) == ((n - MinLL) % Span) + MinLL

\* The number that the digits of v from first to last spell.
Amounts(v, first) ==
  LET upTo[i \in 0..Len(v)] ==
        IF i < first THEN 0 ELSE upTo[i - 1] * Base + Worth(v[i])
  IN upTo
Amount(v, first, last) == Amounts(v, first)[last]

-----------------------------------------------------------------------------
(* strtoll and strtoul: white space, a sign, then as many digits as follow. *)

Unspaced(v) ==
  CHOOSE i \in 1..(Len(v) + 1) :
    (\A j \in 1..(i - 1) : v[j] = Space) /\ (i > Len(v) \/ v[i] # Space)

Negative(v) == LET i == Unspaced(v) IN i <= Len(v) /\ v[i] = Minus
FirstDigit(v) == IF Negative(v) THEN Unspaced(v) + 1 ELSE Unspaced(v)
LastDigit(v) ==
  CHOOSE j \in (FirstDigit(v) - 1)..Len(v) :
    /\ \A i \in FirstDigit(v)..j : IsDigit(v[i])
    /\ j < Len(v) => ~IsDigit(v[j + 1])

Spelled(v) == Amount(v, FirstDigit(v), LastDigit(v))
Number(v) == IF Negative(v) THEN -Spelled(v) ELSE Spelled(v)

\* Digits were found, and the text ends or a space follows them.
EndsWell(v) ==
  /\ LastDigit(v) >= FirstDigit(v)
  /\ LastDigit(v) < Len(v) => v[LastDigit(v) + 1] = Space

\* mutant: the smallest number counts as out of range
safe_strtoll_NoMin(v) == EndsWell(v) /\ Number(v) > MinLL /\ Number(v) <= MaxLL

safe_strtoll(v) == EndsWell(v) /\ MinLL <= Number(v) /\ Number(v) <= MaxLL

\* strtoul negates modulo its width; a result with the top bit set is refused
\* when the text has a minus sign anywhere.
Unsigned(v) == Number(v) % Span
safe_strtoul(v) ==
  /\ EndsWell(v) /\ Spelled(v) < Span
  /\ Unsigned(v) > MaxLL => \A i \in DOMAIN v : v[i] # Minus
\* ... and what fits an unsigned int is kept.
ToUnsigned(v) == Unsigned(v) % (MaxUInt + 1)

-----------------------------------------------------------------------------
(* sprintf("%lld").                                                        *)

Spell[m \in 0..(MaxLL + 1)] ==
  IF m < Base THEN <<Digits[m + 1]>>
  ELSE Append(Spell[m \div Base], Digits[(m % Base) + 1])

\* mutant: the sign is dropped
Text_Unsigned(n) == IF n < 0 THEN Spell[-n] ELSE Spell[n]

Text(n) == IF n < 0 THEN <<Minus>> \o Spell[-n] ELSE Spell[n]

=============================================================================
