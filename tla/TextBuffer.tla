----------------------------- MODULE TextBuffer -----------------------------
(***************************************************************************)
(* What a growing string promises: a text, and operations that change it   *)
(* as their names say.  How much room is kept behind the text is nobody's  *)
(* business.                                                               *)
(***************************************************************************)
EXTENDS Integers, Sequences

CONSTANT NoText   \* there is no text yet

VARIABLES
  text,   \* a sequence of bytes
  call    \* the last operation, its arguments, and its result where it has one

Did(op, at, n, val) == call' = [op |-> op, at |-> at, n |-> n, val |-> val]

Upto(t, n) == SubSeq(t, 1, n)
From(t, n) == SubSeq(t, n + 1, Len(t))

TextInit == text = NoText /\ call = [op |-> "none", at |-> 0, n |-> 0, val |-> <<>>]

New(s) == text = NoText /\ text' = s /\ Did("new", 0, 0, s)

Insert(p, s) == Did("insert", p, 0, s) /\ text' = Upto(text, p) \o s \o From(text, p)

\* What a character's bytes are worth, by the number of them.
Lead == <<0, 192, 224, 240, 248, 252>>
Decoded(s) ==
  LET upTo[i \in 1 .. Len(s)] ==
        IF i = 1 THEN s[1] - Lead[Len(s)] ELSE upTo[i - 1] * 64 + s[i] - 128
  IN upTo[Len(s)]

\* The bytes are the shortest that are worth the character.
Least == <<0, 128, 2048, 65536, 2097152, 67108864>>
InsertUnichar(p, wc) ==
  /\ Did("unichar", p, wc, <<>>)
  /\ \E n \in 1 .. 6 :
    LET s == SubSeq(text', p + 1, p + n) IN
    /\ Len(text') = Len(text) + n
    /\ text' = Upto(text, p) \o s \o From(text, p)
    /\ Decoded(s) = wc
    /\ n > 1 => wc >= Least[n]
    /\ \A i \in 2 .. n : s[i] \in 128 .. 191

Overwrite(p, s) ==
  /\ Did("overwrite", p, 0, s)
  /\ text' = Upto(text, p) \o s \o From(text, p + Len(s))

Erase(p, n) == Did("erase", p, n, <<>>) /\ text' = Upto(text, p) \o From(text, p + n)

Truncate(n) ==
  /\ Did("truncate", 0, n, <<>>)
  /\ text' = IF n < Len(text) THEN Upto(text, n) ELSE text

\* New bytes may be anything.
SetSize(n) ==
  /\ Did("set_size", 0, n, <<>>)
  /\ Len(text') = n
  /\ \A i \in 1 .. n : i <= Len(text) => text'[i] = text[i]

Assign(s) == Did("assign", 0, 0, s) /\ text' = s

Lower(c) == IF c \in 65 .. 90 THEN c + 32 ELSE c
Upper(c) == IF c \in 97 .. 122 THEN c - 32 ELSE c
Recase(op, Case(_)) ==
  Did(op, 0, 0, <<>>) /\ text' = [i \in DOMAIN text |-> Case(text[i])]

Compare(s) == UNCHANGED text /\ Did("equal", 0, IF s = text THEN 1 ELSE 0, s)

\* An operation on a text there is, its arguments in call'.
Edit ==
  LET c == call' IN
  /\ text # NoText
  /\ \/ c.at \in 0 .. Len(text) /\ Insert(c.at, c.val)
     \/ c.at \in 0 .. Len(text) /\ InsertUnichar(c.at, c.n)
     \/ c.at \in 0 .. Len(text) /\ Overwrite(c.at, c.val)
     \/ c.at \in 0 .. Len(text) /\ c.n \in 0 .. (Len(text) - c.at) /\ Erase(c.at, c.n)
     \/ c.n >= 0 /\ (Truncate(c.n) \/ SetSize(c.n))
     \/ Assign(c.val) \/ Compare(c.val)
     \/ Recase("down", Lower) \/ Recase("up", Upper)

TextNext == New(call'.val) \/ Edit
TextSpec == TextInit /\ [][TextNext]_<<text, call>>
=============================================================================
