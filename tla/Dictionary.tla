----------------------------- MODULE Dictionary -----------------------------
(***************************************************************************)
(* What a search tree promises: an ordered set of keys, the same whatever  *)
(* shape the tree takes.                                                   *)
(***************************************************************************)
EXTENDS Naturals

CONSTANTS Names, Nil

VARIABLES
  held,    \* the keys in the dictionary
  told     \* the last operation and what it returned

Tell(op, k, res) == told' = [op |-> op, key |-> k, res |-> res]

DictInit == held = {} /\ told = [op |-> "new", key |-> Nil, res |-> Nil]

Insert(k) ==
  /\ held' = held \cup {k}
  /\ Tell("insert", k, IF k \in held THEN 0 ELSE 1)

Erase(k) == held' = held \ {k} /\ Tell("erase", k, Nil)

Find(k) ==
  /\ Tell("find", k, IF k \in held THEN k ELSE Nil)
  /\ UNCHANGED held

Least(S) == IF S = {} THEN Nil ELSE CHOOSE x \in S : \A y \in S : x <= y
Greatest(S) == IF S = {} THEN Nil ELSE CHOOSE x \in S : \A y \in S : y <= x

Ends ==
  /\ UNCHANGED held
  /\ Tell("first", Nil, Least(held)) \/ Tell("last", Nil, Greatest(held))

Neighbours(k) ==
  /\ k \in held /\ UNCHANGED held
  /\ \/ Tell("next", k, Least({j \in held : j > k}))
     \/ Tell("prev", k, Greatest({j \in held : j < k}))

DictNext == Ends \/ \E k \in Names : Insert(k) \/ Erase(k) \/ Find(k) \/ Neighbours(k)
DictSpec == DictInit /\ [][DictNext]_<<held, told>>
=============================================================================
