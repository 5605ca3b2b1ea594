--------------------------- MODULE RevelCounters ---------------------------
(***************************************************************************)
(* incr and decr: a value is read as a number, moved by a step and written *)
(* back as text, by one handler.  What the handlers do with the error slot *)
(* and with a bad handle is what the other handlers of RevelStore do.      *)
(***************************************************************************)
EXTENDS RevelStore, Numerals

CONSTANTS
  Inputs,     \* bound: the values set stores
  StepTexts,  \* bound: the step parameters of a request
  NumberBuf   \* size of the buffer safe_strntoll copies a value to, 64 in the code

ASSUME CounterAssumption ==
  /\ Inputs \subseteq Values /\ StepTexts \subseteq Values
  /\ {Minus} \cup {Digits[i] : i \in DOMAIN Digits} \subseteq Chunks
  /\ NumberBuf \in Nat

Counting == {"incr", "decr"}

\* The step is parsed before the database is looked up.
BadStep(req) ==
  /\ proc = "up"
  /\ Answer(req, 400, NoBody)
  /\ UNCHANGED <<proc, handle, err, leaked, disk>>

NotANumber(d, req, k) ==
  /\ Serving(d) /\ disk[d][k] # Absent /\ ~safe_strtoll(disk[d][k])
  /\ Answer(req, 400, NoBody)
  /\ UNCHANGED <<proc, handle, err, leaked, disk>>

\* mutant: decr adds too
Stepped_Up(op, n, step) == Wrap(n + step)

Stepped(op, n, step) == Wrap(IF op = "incr" THEN n + step ELSE n - step)

Counted(d, req, k, step) ==
  /\ Serving(d) /\ disk[d][k] # Absent /\ safe_strtoll(disk[d][k])
  /\ LET new == Stepped(req.op, Number(disk[d][k]), Number(step))
     IN WriteAndKeep(d, req, Put(disk[d], k, Text(new)))

\* A value that does not fit the buffer is copied past its end.
Overrun(d, req, k) ==
  /\ Serving(d) /\ disk[d][k] # Absent /\ Len(disk[d][k]) >= NumberBuf
  /\ Die(req)
  /\ UNCHANGED disk

Count(op, d, k, step) ==
  LET req == Request(op, d, <<k>>, <<step>>) IN
  \/ ~safe_strtoll(step) /\ BadStep(req)
  \/ /\ safe_strtoll(step)
     /\ \/ NotServed(req)
        \/ Miss(d, req, k)
        \/ NotANumber(d, req, k)
        \/ Counted(d, req, k, step)
        \/ Overrun(d, req, k)

rpc_incr(d, k, step) == Count("incr", d, k, step)
rpc_decr(d, k, step) == Count("decr", d, k, step)

CounterNext ==
  \/ Start
  \/ Killed
  \/ \E d \in DBs :
       \/ rpc_new(d)
       \/ rpc_destroy(d)
       \/ \E k \in Keys :
            \/ \E v \in Inputs : rpc_set(d, k, v)
            \/ \E step \in StepTexts : rpc_incr(d, k, step) \/ rpc_decr(d, k, step)

CounterSpec == Init /\ [][CounterNext]_vars

-----------------------------------------------------------------------------
(* Properties.                                                             *)

\* What a reader takes a text for, told without strtoll: spaces, a sign,
\* digits, and nothing or a space after them.
Shows(v, n) ==
  \E first \in DOMAIN v : \E last \in first..Len(v) :
    /\ \A i \in first..last : IsDigit(v[i])
    /\ last < Len(v) => v[last + 1] = Space
    /\ \E sign \in {<<>>, <<Minus>>} :
         /\ \E s \in 0..(first - 1) :
              SubSeq(v, 1, first - 1) = [i \in 1..s |-> Space] \o sign
         /\ n = IF sign = <<>> THEN Amount(v, first, last) ELSE -Amount(v, first, last)

\* The contents c2 are c with the counter moved by one step, modulo the width.
MovedBy(req, c, c2) ==
  LET k == req.keys[1] IN
  /\ c # NoDb /\ c[k] # Absent
  /\ \A j \in Keys \ {k} : c2[j] = c[j]
  /\ \E n \in MinLL..MaxLL : Shows(c[k], n) /\
       \E s \in MinLL..MaxLL : Shows(req.vals[1], s) /\
         \E m \in MinLL..MaxLL : Shows(c2[k], m) /\
           (m - IF req.op = "incr" THEN n + s ELSE n - s) % Span = 0

\* A counter request answered 200 moved its counter by exactly one step, also
\* across the limits of a long long; one refused moved nothing; one that failed
\* or was cut short moved it once or not at all.  No other pair is touched.
CountsOnce ==
  [][reply'.req.op \in Counting =>
       LET d == reply'.req.db IN
       /\ \A e \in DBs \ {d} : disk'[e] = disk[e]
       /\ CASE reply'.code = 200 -> MovedBy(reply'.req, disk[d], disk'[d])
            [] reply'.code \in {400, 404} -> disk' = disk
            [] OTHER -> disk' = disk \/ MovedBy(reply'.req, disk[d], disk'[d])]_vars

\* What a counter request wrote the next one can read: sprintf and strtoll
\* agree on every number a counter can come to, the smallest one included.
CountsAgain ==
  [][LET last == reply.req  this == reply'.req IN
     last.op \in Counting /\ reply.code = 200 /\ this.op \in Counting
       /\ this.db = last.db /\ this.keys = last.keys /\ safe_strtoll(this.vals[1])
     => reply'.code # 400]_vars
=============================================================================
