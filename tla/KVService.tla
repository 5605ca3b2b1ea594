----------------------------- MODULE KVService -----------------------------
(***************************************************************************)
(* What a client of reveldb may rely on, told by the "code" of a reply and *)
(* by nothing else: neither handles, nor error slots, nor restarts show.   *)
(*                                                                         *)
(*   2xx  the request took effect, once and as a whole;                    *)
(*   4xx  the request took no effect;                                      *)
(*   500  or no reply (0): a prefix of its effect, possibly all of it; of  *)
(*        a batch commit all or nothing; no other key and no other database *)
(*        was touched.                                                     *)
(***************************************************************************)
EXTENDS KVTypes

VARIABLES
  kv,       \* per database: its contents, or NoDb
  reply     \* the last request and its answer

\* The keys of S are dropped; an engine that fails may keep some of them.
Sweeps(S, c, c2) ==
  \E T \in SUBSET S : c2 = Without(c, T) /\ (EngineFaults \/ T = S)
Drops(S, c, c2) == \E T \in SUBSET S : c2 = Without(c, T)

InRange(start, end, c) ==
  LET from == {k \in Keys : start # NoKey => k >= start}
  IN {k \in from : end \in from /\ c[end] # Absent => k < end}

\* The last value the first n entries of a multiple set give to k.
Given(req, n, k) == {i \in 1..n : req.keys[i] = k}
AfterSets(req, n, c) ==
  [k \in Keys |->
     IF Given(req, n, k) = {} THEN c[k]
     ELSE req.vals[CHOOSE i \in Given(req, n, k) : \A j \in Given(req, n, k) : j <= i]]

\* c2 is c after the first n steps of a multi-key write.
Steps(req, n, c, c2) ==
  \/ req.op = "mset" /\ c2 = AfterSets(req, n, c)
  \/ req.op = "mdel" /\ c2 = Without(c, {req.keys[i] : i \in 1..n})

\* c2 is c after a write batch, taken as a whole.
Commits(req, c, c2) == req.op = "commit" /\ c2 = AfterSets(req, Len(req.keys), c)

\* The value that request gives to its key, whose value is old.
NewValue(req, old, new) ==
  LET v == req.vals[1] IN
  \/ req.op \in {"set", "add"} /\ new = v
  \/ req.op \in {"del", "seize"} /\ new = Absent
  \/ /\ old # Absent
     /\ \/ req.op = "replace" /\ new = v
        \/ req.op = "append" /\ new = old \o v
        \/ req.op = "prepend" /\ new = v \o old
        \/ req.op = "cas" /\ old = v /\ new = req.vals[2]
        \/ req.op = "insert" /\ req.pos < 0 /\ new = old \o v
        \/ req.op = "insert" /\ req.pos \in 0..Len(old) /\ new = InsertAt(old, req.pos, v)
        \/ req.op = "insert" /\ req.pos > Len(old) /\ \E g \in Chunks : new = old \o <<g>>

SetsOne(req, c, c2) ==
  LET k == req.keys[1] IN
  /\ Len(req.keys) = 1
  /\ \A j \in Keys \ {k} : c2[j] = c[j]
  /\ NewValue(req, c[k], c2[k])

SingleWrites == {"set", "add", "del", "seize", "replace", "append", "prepend", "cas", "insert"}

\* Of the requests that take a list, one whose list is empty: its 2xx says that
\* the name is known and nothing more, not even that the database has files.
AsksNothing(req) == req.op \in {"mget", "mset", "mdel", "mseize"} /\ req.keys = <<>>

\* c became c2 under a 2xx answer.
Takes(req, c, c2, answer) ==
  \/ AsksNothing(req) /\ c2 = c
  \/ req.op \in {"new", "start"} /\ (c2 = c \/ (c = NoDb /\ c2 = Empty))
  \/ req.op = "destroy" /\ c2 = NoDb
  \/ req.op = "repair" /\ (c2 = c \/ (c # NoDb /\ Drops(Keys, c, c2)))
  \/ /\ c # NoDb
     /\ \/ req.op \in {"get", "mget"} /\ c2 = c
        \/ req.op \in SingleWrites /\ SetsOne(req, c, c2)
        \/ req.op = "seize" /\ answer.kept /\ c2 = c
        \/ Steps(req, Len(req.keys), c, c2) \/ Commits(req, c, c2)
        \/ req.op = "mseize" /\ Sweeps(DOMAIN answer.body, c, c2)
        \/ req.op = "remove" /\ Sweeps(InRange(req.keys[1], req.keys[2], c), c, c2)

\* What a request that failed or was cut short may leave.
Leaves(req, c, c2) ==
  \/ c2 = c
  \/ req.op \in {"new", "start"} /\ c = NoDb /\ c2 = Empty
  \/ req.op = "destroy" /\ c2 = NoDb
  \/ /\ c # NoDb
     /\ \/ req.op \in SingleWrites /\ SetsOne(req, c, c2)
        \/ (\E n \in 0..Len(req.keys) : Steps(req, n, c, c2)) \/ Commits(req, c, c2)
        \/ req.op = "repair" /\ Drops(Keys, c, c2)
        \/ req.op = "mseize" /\ Drops(Named(req.keys), c, c2)
        \/ req.op = "remove" /\ Drops(InRange(req.keys[1], req.keys[2], c), c, c2)

\* The pairs an answer carries were asked for and are pairs the database had.
Carries(req, c, body) ==
  /\ DOMAIN body \subseteq Named(req.keys)
  /\ \A k \in DOMAIN body : c[k] = body[k]
  /\ req.op \in {"get", "cas", "seize"} => DOMAIN body = Named(req.keys)
  /\ req.op \in {"mget", "mseize"} /\ ~EngineFaults => body = Found(c, Named(req.keys))

Acknowledged(answer, c, c2) ==
  /\ answer.code \in {200, 204}
  /\ Takes(answer.req, c, c2, answer)
  /\ Carries(answer.req, c, answer.body)

Refused(answer, c, c2) == answer.code \in {400, 404, 405} /\ c2 = c
Failed(answer, c, c2) == answer.code \in {0, 500} /\ Leaves(answer.req, c, c2)

\* One request is answered; databases it does not name keep their contents.
Answers(answer) ==
  LET d == answer.req.db IN
  /\ \A e \in DBs \ {d} : kv'[e] = kv[e]
  /\ \/ Acknowledged(answer, kv[d], kv'[d])
     \/ Refused(answer, kv[d], kv'[d])
     \/ Failed(answer, kv[d], kv'[d])

KVInit == kv = [d \in DBs |-> NoDb]
KVSpec == KVInit /\ [][Answers(reply')]_<<kv, reply>>

=============================================================================
