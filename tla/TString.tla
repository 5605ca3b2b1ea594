------------------------------- MODULE TString -------------------------------
(***************************************************************************)
(* The growing string of the library.  Its bytes live in a block that is   *)
(* reallocated to a power of two; a value to insert may point into the     *)
(* string's own block.                                                     *)
(*                                                                         *)
(* bound: texts of MaxLen bytes.  Calls outside the preconditions that the *)
(* asserts state are left out (an empty text only comes with its length:   *)
(* maybe_expand asserts n > 0), and so is formatting: a formatted text is  *)
(* one of Values.                                                          *)
(***************************************************************************)
EXTENDS Integers, SequencesExt

CONSTANTS
  Values,    \* the texts that callers pass
  Wides,     \* the Unicode characters that callers pass
  MaxLen,
  MaxSize,   \* the largest unsigned int
  Junk,      \* a byte nobody wrote
  NoString   \* the NULL pointer

Character == 1 .. 255

\* A text is a C string, a wide character is an unsigned number, and an unsigned
\* int counts the bytes of every text.
ASSUME TStringAssumption ==
  /\ Values \subseteq Seq(Character) /\ \A s \in Values : Len(s) < MaxSize
  /\ Wides \subseteq Nat
  /\ MaxLen \in Nat /\ MaxSize \in Nat /\ MaxSize > MaxLen /\ MaxSize > 7
  /\ Junk \in 0 .. 255
  /\ NoString \notin Seq(Int) /\ NoString \notin [cells : Seq(Int), len : Nat]

VARIABLES
  str,    \* the bytes of the block, and the length of the text
  asked   \* the last operation, its arguments and its result where it has one

tstringVars == <<str, asked>>

Smaller(a, b) == IF a < b THEN a ELSE b

\* A pointer to the caller's bytes, and one into the string itself.
Foreign(s) == [own |-> FALSE, at |-> 0, bytes |-> s \o <<0>>]
Own(at) == [own |-> TRUE, at |-> at, bytes |-> <<>>]
Pointed(t, val) ==
  IF val.own THEN SubSeq(t.cells, val.at + 1, Len(t.cells)) ELSE val.bytes
strlen(s) == SelectInSeq(s, LAMBDA c : c = 0) - 1

\* memmove and memcpy: to what has no place in the block nothing is written.
Put(t, to, s) ==
  [t EXCEPT !.cells = [i \in DOMAIN @ |-> IF i \in (to + 1) .. (to + Len(s))
                                          THEN s[i - to] ELSE @[i]]]
Move(t, to, from, n) == Put(t, to, SubSeq(t.cells, from + 1, from + n))
Ended(t, n) == Put([t EXCEPT !.len = n], n, <<0>>)

Doubled(base, num) ==
  LET from[n \in base .. 2 * num] == IF n < num THEN from[2 * n] ELSE n
  IN from[base]
_nearest_power(base, num) == IF num > MaxSize \div 2 THEN MaxSize ELSE Doubled(base, num)

\* mutant: no room for the byte that ends the text
maybe_expand_Tight(t, n) ==
  IF t.len + n <= Len(t.cells) THEN t
  ELSE [t EXCEPT !.cells = [i \in 1 .. _nearest_power(1, t.len + n) |->
                              IF i \in DOMAIN @ THEN @[i] ELSE Junk]]

maybe_expand(t, n) ==
  IF t.len + n < Len(t.cells) THEN t
  ELSE [t EXCEPT !.cells = [i \in 1 .. _nearest_power(1, t.len + n + 1) |->
                              IF i \in DOMAIN @ THEN @[i] ELSE Junk]]

sized_new(n) ==
  Put(maybe_expand([cells |-> <<>>, len |-> 0], IF n < 2 THEN 2 ELSE n), 0, <<0>>)

Opened(t, p, n) == IF p < t.len THEN Move(t, p + n, p, t.len - p) ELSE t

\* n < 0: up to the byte that ends val; pos < 0: at the end.
insert_len(t, pos, val, n0) ==
  LET n == IF n0 < 0 THEN strlen(Pointed(t, val)) ELSE n0
      p == IF pos < 0 THEN t.len ELSE pos
      open == Opened(maybe_expand(t, n), p, n)
      before == IF val.at < p THEN Smaller(n, p - val.at) ELSE 0
      first == Move(open, p, val.at, before)
      second == IF n > before THEN Move(first, p + before, val.at + before + n, n - before)
                ELSE first
  IN IF n0 = 0 THEN t
     ELSE Ended(IF val.own THEN second ELSE Put(open, p, SubSeq(val.bytes, 1, n)), t.len + n)

append_len(t, val, n) == insert_len(t, -1, val, n)
append(t, val) == insert_len(t, -1, val, -1)
prepend_len(t, val, n) == insert_len(t, 0, val, n)
prepend(t, val) == insert_len(t, 0, val, -1)
insert_text(t, pos, val) == insert_len(t, pos, val, -1)

new(init) == IF init = <<>> THEN sized_new(2)
             ELSE append_len(sized_new(Len(init) + 2), Foreign(init), Len(init))
new_len(init, n) == IF n < 0 THEN new(init)
                    ELSE append_len(sized_new(n), Foreign(init), n)

insert_c(t, pos, c) ==
  LET p == IF pos < 0 THEN t.len ELSE pos
  IN Ended(Put(Opened(maybe_expand(t, 1), p, 1), p, <<c>>), t.len + 1)
append_c(t, c) == insert_c(t, -1, c)
prepend_c(t, c) == insert_c(t, 0, c)

append_c_inline(t, c) ==
  IF t.len + 1 < Len(t.cells) THEN Ended(Put(t, t.len, <<c>>), t.len + 1)
  ELSE insert_c(t, -1, c)

\* wc as UTF-8: its length, the mark of the first byte, six bits a byte.
Limits == <<128, 2048, 65536, 2097152, 67108864>>
Marks == <<0, 192, 224, 240, 248, 252>>
Weights == <<1, 64, 4096, 262144, 16777216, 1073741824>>
Utf8(wc) ==
  LET n == CHOOSE n \in 1 .. 6 : (n > 1 => wc >= Limits[n - 1]) /\ (n < 6 => wc < Limits[n])
  IN [i \in 1 .. n |-> IF i = 1 THEN Marks[n] + wc \div Weights[n]
                       ELSE 128 + ((wc \div Weights[n - i + 1]) % 64)]

insert_unichar(t, pos, wc) ==
  LET s == Utf8(wc)
      n == Len(s)
      p == IF pos < 0 THEN t.len ELSE pos
  IN Ended(Put(Opened(maybe_expand(t, n), p, n), p, s), t.len + n)
append_unichar(t, wc) == insert_unichar(t, -1, wc)
prepend_unichar(t, wc) == insert_unichar(t, 0, wc)

truncate(t, n) == Ended(t, Smaller(n, t.len))
set_size(t, n) == Ended(IF n >= Len(t.cells) THEN maybe_expand(t, n - t.len) ELSE t, n)
assign(t, val) == IF val.own /\ val.at = 0 THEN t ELSE append(truncate(t, 0), val)

overwrite_len(t, pos, s, n0) ==
  LET n == IF n0 < 0 THEN Len(s) ELSE n0
      end == pos + n
      wide == IF end > t.len THEN maybe_expand(t, end - t.len) ELSE t
      put == Put(wide, pos, SubSeq(s, 1, n))
  IN IF n0 = 0 THEN t ELSE IF end > t.len THEN Ended(put, end) ELSE put
overwrite(t, pos, s) == overwrite_len(t, pos, s, Len(s))

erase(t, pos, n0) ==
  LET n == IF n0 < 0 THEN t.len - pos ELSE n0
      moved == IF n0 >= 0 /\ pos + n < t.len
               THEN Move(t, pos, pos + n, t.len - (pos + n)) ELSE t
  IN Ended(moved, t.len - n)

lower(c) == IF c \in 65 .. 90 THEN c + 32 ELSE c
upper(c) == IF c \in 97 .. 122 THEN c - 32 ELSE c
ascii_down(t) == Put(t, 0, [i \in 1 .. t.len |-> lower(t.cells[i])])
ascii_up(t) == Put(t, 0, [i \in 1 .. t.len |-> upper(t.cells[i])])
down(t) == ascii_down(t)
up(t) == ascii_up(t)

equal(t, u) == t.len = u.len /\ \A i \in 1 .. t.len : t.cells[i] = u.cells[i]

\* s is what the format and the arguments make.
append_vprintf(t, s) ==
  [Put(maybe_expand(t, Len(s)), t.len, s \o <<0>>) EXCEPT !.len = t.len + Len(s)]
vprintf(t, s) == append_vprintf(truncate(t, 0), s)
printf(t, s) == append_vprintf(truncate(t, 0), s)
append_printf(t, s) == append_vprintf(t, s)

-----------------------------------------------------------------------------
(* One action per kind of operation; the functions that are calls of        *)
(* another are among its choices.                                          *)

Asks(op, at, n, val) == asked' = [op |-> op, at |-> at, n |-> n, val |-> val]
Becomes(options) == \E t \in options : t.len <= MaxLen /\ str' = t
Text(t) == SubSeq(t.cells, 1, t.len)

TStringInit == str = NoString /\ asked = [op |-> "none", at |-> 0, n |-> 0, val |-> <<>>]

Create == \E s \in Values :
  /\ str = NoString
  /\ Becomes({new(s), new_len(s, Len(s)), new_len(s, -1)})
  /\ Asks("new", 0, 0, s)

\* There is a place only in a string that there is.
Places == {p \in -1 .. MaxLen : str # NoString /\ p <= str.len}
Place(p) == IF p < 0 THEN str.len ELSE p

InsertValue == \E s \in Values, p \in Places :
  /\ LET val == Foreign(s) IN
     \/ Becomes({insert_len(str, p, val, Len(s))}
           \cup (IF p < 0 THEN {append_len(str, val, Len(s))} ELSE {})
           \cup (IF p = 0 THEN {prepend_len(str, val, Len(s))} ELSE {}))
     \/ /\ s # <<>>
        /\ Becomes({insert_len(str, p, val, -1)}
              \cup (IF p < 0 THEN {append(str, val), append_vprintf(str, s),
                                   append_printf(str, s)} ELSE {})
              \cup (IF p = 0 THEN {prepend(str, val)} ELSE {})
              \cup (IF p >= 0 THEN {insert_text(str, p, val)} ELSE {}))
  /\ Asks("insert", Place(p), 0, s)

\* val points into the string.
InsertOwn == \E p \in Places, o, n \in 0 .. MaxLen :
  /\ o + n <= str.len
  /\ LET s == SubSeq(Text(str), o + 1, o + n) IN
     /\ Becomes({insert_len(str, p, Own(o), n)}
           \cup IF n > 0 /\ strlen(Pointed(str, Own(o))) = n
                THEN {insert_len(str, p, Own(o), -1)} ELSE {})
     /\ Asks("insert", Place(p), 0, s)

InsertByte == \E s \in Values, p \in Places :
  /\ Len(s) = 1
  /\ Becomes({insert_c(str, p, s[1])}
        \cup (IF p < 0 THEN {append_c(str, s[1]), append_c_inline(str, s[1])} ELSE {})
        \cup IF p = 0 THEN {prepend_c(str, s[1])} ELSE {})
  /\ Asks("insert", Place(p), 0, s)

\* bound: into a text of one byte at most; a long character may pass MaxLen
InsertWide == \E wc \in Wides, p \in Places :
  /\ str.len <= 1
  /\ str' \in {insert_unichar(str, p, wc)}
              \cup (IF p < 0 THEN {append_unichar(str, wc)} ELSE {})
              \cup (IF p = 0 THEN {prepend_unichar(str, wc)} ELSE {})
  /\ Asks("unichar", Place(p), wc, <<>>)

Rewrite == \E s \in Values, p \in Places \ {-1} :
  /\ Becomes({overwrite(str, p, s), overwrite_len(str, p, s, -1)})
  /\ Asks("overwrite", p, 0, s)

Cut == \E p \in Places \ {-1}, n \in 0 .. MaxLen :
  /\ p + n <= str.len
  /\ Becomes({erase(str, p, n)} \cup IF p + n = str.len THEN {erase(str, p, -1)} ELSE {})
  /\ Asks("erase", p, n, <<>>)

Resize == \E n \in 0 .. MaxLen :
  /\ str # NoString
  /\ \/ Becomes({truncate(str, n)}) /\ Asks("truncate", 0, n, <<>>)
     \/ Becomes({set_size(str, n)}) /\ Asks("set_size", 0, n, <<>>)

Renew == \E s \in Values :
  /\ str # NoString
  /\ Becomes((IF s # <<>> THEN {assign(str, Foreign(s)), vprintf(str, s), printf(str, s)} ELSE {})
             \cup IF s = Text(str) THEN {assign(str, Own(0))} ELSE {})
  /\ Asks("assign", 0, 0, s)

Recase ==
  /\ str # NoString
  /\ \/ Becomes({ascii_down(str), down(str)}) /\ Asks("down", 0, 0, <<>>)
     \/ Becomes({ascii_up(str), up(str)}) /\ Asks("up", 0, 0, <<>>)

Compare == \E s \in Values :
  /\ str # NoString /\ UNCHANGED str
  /\ Asks("equal", 0, IF equal(str, new_len(s, Len(s))) THEN 1 ELSE 0, s)

TStringNext ==
  \/ Create \/ InsertValue \/ InsertOwn \/ InsertByte \/ InsertWide \/ Rewrite
  \/ Cut \/ Resize \/ Renew \/ Recase \/ Compare
TStringSpec == TStringInit /\ [][TStringNext]_tstringVars

-----------------------------------------------------------------------------
\* What a reader of the string sees: its text, if it is ended inside the block.
Seen == IF str = NoString THEN NoString
        ELSE IF str.len < Len(str.cells) /\ str.cells[str.len + 1] = 0 THEN Text(str)
        ELSE <<"overrun">>

\* Whatever is inserted where, the string's own bytes too, and whenever the
\* block moves, the string holds the text the calls describe, ended inside its
\* block.
Buffer == INSTANCE TextBuffer WITH NoText <- NoString, text <- Seen, call <- asked
StringsImplemented == Buffer!TextSpec
=============================================================================
