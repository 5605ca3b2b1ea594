------------------------------- MODULE RbTree -------------------------------
(***************************************************************************)
(* The red-black tree that the server's four registries are kept in: the   *)
(* databases, and the iterators, snapshots and write batches of clients.   *)
(* A node is linked into the object it stands for, so nodes are named by   *)
(* the key of their object; an object is erased after it was looked up.    *)
(*                                                                         *)
(* The two sides of every case of the code are one case here, on a side s  *)
(* and its Opposite.                                                       *)
(***************************************************************************)
EXTENDS Naturals

CONSTANTS
  Names,    \* the keys; numbers for their order
  Nil       \* the NULL pointer

VARIABLES
  rb,      \* root, kid[n][side], parent and colour of every node
  answer   \* the last operation and what it returned

rbVars == <<rb, answer>>

ASSUME NamesAssumption == Names \subseteq Nat /\ Nil \notin Names

Sides == {"left", "right"}
Opposite(s) == IF s = "left" THEN "right" ELSE "left"
NoKids == [s \in Sides |-> Nil]

Red(t, n) == n # Nil /\ t.red[n]
Paint(t, n, red) == [t EXCEPT !.red[n] = red]
SetParent(t, n, p) == IF n = Nil THEN t ELSE [t EXCEPT !.parent[n] = p]
SideOf(t, n) == CHOOSE s \in Sides : t.kid[t.parent[n]][s] = n

\* Where up hung, its parent or the root, n hangs now.
Replace(t, up, n) ==
  IF t.parent[up] = Nil THEN [t EXCEPT !.root = n]
  ELSE [t EXCEPT !.kid[t.parent[up]][SideOf(t, up)] = n]

\* __rb_rotate_left and __rb_rotate_right: n goes down on side s.
Rotate(t, n, s) ==
  LET up == t.kid[n][Opposite(s)]
      hung == Replace(t, n, up)
      inner == t.kid[up][s]
      linked == [hung EXCEPT !.kid[n][Opposite(s)] = inner, !.kid[up][s] = n,
                             !.parent[up] = t.parent[n], !.parent[n] = up]
  IN SetParent(linked, inner, n)

-----------------------------------------------------------------------------
(* Insertion.                                                              *)

\* mutant: an uncle is taken for black
RECURSIVE rb_insert_color_NoUncle(_, _)
rb_insert_color_NoUncle(t, n) ==
  LET p == t.parent[n] IN
  IF ~Red(t, p) THEN Paint(t, t.root, FALSE)
  ELSE LET g == t.parent[p]
           s == SideOf(t, p)
           bent == SideOf(t, n) # s
           straight == IF bent THEN Rotate(t, p, s) ELSE t
           top == IF bent THEN n ELSE p
           low == IF bent THEN p ELSE n
       IN rb_insert_color_NoUncle(
            Rotate(Paint(Paint(straight, top, FALSE), g, TRUE), g, Opposite(s)), low)

RECURSIVE rb_insert_color(_, _)
rb_insert_color(t, n) ==
  LET p == t.parent[n] IN
  IF ~Red(t, p) THEN Paint(t, t.root, FALSE)
  ELSE LET g == t.parent[p]
           s == SideOf(t, p)
           uncle == t.kid[g][Opposite(s)]
           bent == SideOf(t, n) # s
           straight == IF bent THEN Rotate(t, p, s) ELSE t
           top == IF bent THEN n ELSE p
           low == IF bent THEN p ELSE n
       IN IF Red(t, uncle)
          THEN rb_insert_color(
                 Paint(Paint(Paint(t, uncle, FALSE), p, FALSE), g, TRUE), g)
          ELSE rb_insert_color(
                 Rotate(Paint(Paint(straight, top, FALSE), g, TRUE), g, Opposite(s)), low)

\* The node the descent for k ends at: k itself or the parent of its place.
RECURSIVE Descend(_, _, _)
Descend(t, n, k) ==
  LET s == IF k < n THEN "left" ELSE "right" IN
  IF k = n \/ t.kid[n][s] = Nil THEN n ELSE Descend(t, t.kid[n][s], k)

\* xleveldb_search_iter and its like.
Search(t, k) ==
  IF t.root # Nil /\ Descend(t, t.root, k) = k THEN k ELSE Nil

rb_link_node(t, n, p) ==
  LET fresh == [t EXCEPT !.kid[n] = NoKids, !.parent[n] = p, !.red[n] = TRUE] IN
  IF p = Nil THEN [fresh EXCEPT !.root = n]
  ELSE [fresh EXCEPT !.kid[p][IF n < p THEN "left" ELSE "right"] = n]

-----------------------------------------------------------------------------
(* Removal.  n, which may be NULL, is short of one black node; p is its    *)
(* parent.                                                                 *)

RECURSIVE rb_erase_color(_, _, _)
rb_erase_color(t, n, p) ==
  IF Red(t, n) \/ n = t.root
  THEN IF n = Nil THEN t ELSE Paint(t, n, FALSE)
  ELSE LET s == CHOOSE x \in Sides : t.kid[p][x] = n
           o == Opposite(s)
           first == t.kid[p][o]
           u == IF Red(t, first)
                THEN Rotate(Paint(Paint(t, first, FALSE), p, TRUE), p, s) ELSE t
           other == u.kid[p][o]
           near == u.kid[other][s]
           far == u.kid[other][o]
           v == IF Red(u, far) THEN u
                ELSE Rotate(Paint(Paint(u, near, FALSE), other, TRUE), other, o)
           top == v.kid[p][o]
           done == Paint(Paint(Paint(v, top, v.red[p]), p, FALSE), v.kid[top][o], FALSE)
           turned == Rotate(done, p, s)
       IN IF ~Red(u, near) /\ ~Red(u, far)
          THEN rb_erase_color(Paint(u, other, TRUE), p, u.parent[p])
          ELSE Paint(turned, turned.root, FALSE)

RECURSIVE Outermost(_, _, _)
Outermost(t, n, s) == IF t.kid[n][s] = Nil THEN n ELSE Outermost(t, t.kid[n][s], s)

\* n has one child at most, which takes its place.
Unlink(t, n) ==
  LET child == IF t.kid[n]["left"] = Nil THEN t.kid[n]["right"] ELSE t.kid[n]["left"]
      p == t.parent[n]
      u == SetParent(Replace(t, n, child), child, p)
  IN IF t.red[n] THEN u ELSE rb_erase_color(u, child, p)

\* n has two children: the next node is taken out and put in its place, with
\* its colour.
Supplant(t, n) ==
  LET next == Outermost(t, t.kid[n]["right"], "left")
      child == t.kid[next]["right"]
      top == Replace(t, n, next)
      near == t.parent[next] = n
      p == IF near THEN next ELSE t.parent[next]
      out == IF near THEN top
             ELSE SetParent([SetParent(top, child, p) EXCEPT
                               !.kid[p]["left"] = child,
                               !.kid[next]["right"] = t.kid[n]["right"]],
                            t.kid[n]["right"], next)
      put == [out EXCEPT !.parent[next] = t.parent[n], !.red[next] = t.red[n],
                         !.kid[next]["left"] = t.kid[n]["left"]]
      u == SetParent(put, t.kid[n]["left"], next)
  IN IF t.red[next] THEN u ELSE rb_erase_color(u, child, p)

rb_erase(t, n) ==
  IF Nil \in {t.kid[n][s] : s \in Sides} THEN Unlink(t, n) ELSE Supplant(t, n)

-----------------------------------------------------------------------------
(* Walking.                                                                *)

\* rb_first and rb_last.
End(t, s) == IF t.root = Nil THEN Nil ELSE Outermost(t, t.root, s)

\* rb_next and rb_prev: outermost below, or the first ancestor on the way up
\* that lies on side s.
RECURSIVE Climb(_, _, _)
Climb(t, n, s) ==
  IF t.parent[n] # Nil /\ t.kid[t.parent[n]][s] = n
  THEN Climb(t, t.parent[n], s) ELSE t.parent[n]

Beside(t, n, s) ==
  IF t.kid[n][s] # Nil THEN Outermost(t, t.kid[n][s], Opposite(s)) ELSE Climb(t, n, s)

-----------------------------------------------------------------------------
Answers(op, k, res) == answer' = [op |-> op, key |-> k, res |-> res]

RbInit ==
  /\ rb = [root |-> Nil, kid |-> [n \in Names |-> NoKids],
           parent |-> [n \in Names |-> Nil], red |-> [n \in Names |-> FALSE]]
  /\ answer = [op |-> "new", key |-> Nil, res |-> Nil]

\* reveldb_insert_db and its like.  A name that is taken is left alone.
insert_db(k) ==
  LET p == IF rb.root = Nil THEN Nil ELSE Descend(rb, rb.root, k) IN
  IF p = k
  THEN UNCHANGED rb /\ Answers("insert", k, 0)
  ELSE rb' = rb_insert_color(rb_link_node(rb, k, p), k) /\ Answers("insert", k, 1)

search_db(k) == UNCHANGED rb /\ Answers("find", k, Search(rb, k))

\* The destroy handlers.  The object is freed first; its node lies behind what
\* free writes into the block, and nothing is allocated in between.
erase_db(k) == Search(rb, k) # Nil /\ rb' = rb_erase(rb, k) /\ Answers("erase", k, Nil)

Visit ==
  /\ UNCHANGED rb
  /\ \/ Answers("first", Nil, End(rb, "left"))
     \/ Answers("last", Nil, End(rb, "right"))
     \/ \E k \in Names :
          /\ Search(rb, k) # Nil
          /\ \/ Answers("next", k, Beside(rb, k, "right"))
             \/ Answers("prev", k, Beside(rb, k, "left"))

RbNext == Visit \/ \E k \in Names : insert_db(k) \/ search_db(k) \/ erase_db(k)
RbSpec == RbInit /\ [][RbNext]_rbVars

-----------------------------------------------------------------------------
(* Properties.                                                             *)

RECURSIVE Below(_, _)
Below(t, n) ==
  IF n = Nil THEN {} ELSE {n} \cup UNION {Below(t, t.kid[n][s]) : s \in Sides}

Linked == Below(rb, rb.root)

\* The black nodes on the ways from n down to a missing child.
RECURSIVE Blacks(_, _)
Blacks(t, n) ==
  IF n = Nil THEN {0}
  ELSE {b + IF t.red[n] THEN 0 ELSE 1 : b \in UNION {Blacks(t, t.kid[n][s]) : s \in Sides}}

\* After any sequence of insertions and removals the tree is ordered, parents
\* and children agree, no red node has a red child and every way down passes as
\* many black nodes: no lookup is longer than twice the shortest.
Balanced ==
  /\ ~Red(rb, rb.root) /\ (rb.root # Nil => rb.parent[rb.root] = Nil)
  /\ \A n \in Linked, s \in Sides :
       LET c == rb.kid[n][s] IN
       c # Nil =>
         /\ rb.parent[c] = n
         /\ ~(rb.red[n] /\ rb.red[c])
         /\ \A m \in Below(rb, c) : IF s = "left" THEN m < n ELSE m > n
  /\ \A b, c \in Blacks(rb, rb.root) : b = c

\* Whatever its shape, the tree answers as a set of keys does.
RbDict == INSTANCE Dictionary WITH held <- Linked, told <- answer
RbImplemented == RbDict!DictSpec
=============================================================================
