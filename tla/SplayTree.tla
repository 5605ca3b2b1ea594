----------------------------- MODULE SplayTree -----------------------------
(***************************************************************************)
(* The top-down splay tree with sizes, a container of the library that the *)
(* program does not use yet.  A tree is the record of its root, with its   *)
(* two subtrees in it.                                                     *)
(***************************************************************************)
EXTENDS Integers, SequencesExt

CONSTANTS
  SplayKeys,   \* the keys
  Empty        \* the NULL pointer

VARIABLES
  tree,    \* the tree the caller holds
  reply    \* the last operation and what the caller can tell from its result

splayVars == <<tree, reply>>

ASSUME SplayKeysAssumption == SplayKeys \subseteq Nat /\ Empty \notin SplayKeys

node_size(t) == IF t = Empty THEN 0 ELSE t.size
Fresh(t) == [t EXCEPT !.size = 1 + node_size(t.left) + node_size(t.right)]

\* The way down from t to i: the nodes passed to the right of i and to the left
\* of i, with the half of their subtree that hangs beyond them.
RECURSIVE Down(_, _, _, _)
Down(t, i, ls, rs) ==
  LET atRight == i < t.key
      side == IF atRight THEN t.left ELSE t.right
      zigzig == side # Empty /\ (IF atRight THEN i < side.key ELSE i > side.key)
      turned == IF atRight THEN [side EXCEPT !.right = Fresh([t EXCEPT !.left = side.right])]
                ELSE [side EXCEPT !.left = Fresh([t EXCEPT !.right = side.left])]
      up == IF zigzig THEN turned ELSE t
      next == IF atRight THEN up.left ELSE up.right
  IN IF i = t.key \/ side = Empty THEN [root |-> t, ls |-> ls, rs |-> rs]
     ELSE IF next = Empty THEN [root |-> up, ls |-> ls, rs |-> rs]
     ELSE IF atRight THEN Down(next, i, ls, Append(rs, up))
     ELSE Down(next, i, Append(ls, up), rs)

\* The nodes passed, each the last child of the one before, the last one over
\* below; their sizes are counted down from the number of all these nodes.
Weight(nodes, Inner(_), below) ==
  FoldLeft(LAMBDA n, y : n + 1 + node_size(Inner(y)), node_size(below), nodes)

RECURSIVE LeftTree(_, _, _)
LeftTree(ls, below, size) ==
  IF ls = <<>> THEN below
  ELSE [Head(ls) EXCEPT !.size = size,
          !.right = LeftTree(Tail(ls), below, size - 1 - node_size(Head(ls).left))]

RECURSIVE RightTree(_, _, _)
RightTree(rs, below, size) ==
  IF rs = <<>> THEN below
  ELSE [Head(rs) EXCEPT !.size = size,
          !.left = RightTree(Tail(rs), below, size - 1 - node_size(Head(rs).right))]

splaytree_splay(t, i) ==
  IF t = Empty THEN Empty
  ELSE LET d == Down(t, i, <<>>, <<>>)
           l_size == Weight(d.ls, LAMBDA y : y.left, d.root.left)
           r_size == Weight(d.rs, LAMBDA y : y.right, d.root.right)
       IN [d.root EXCEPT !.size = l_size + r_size + 1,
                         !.left = LeftTree(d.ls, d.root.left, l_size),
                         !.right = RightTree(d.rs, d.root.right, r_size)]

Node(i, l, r) == Fresh([key |-> i, size |-> 0, left |-> l, right |-> r])

splaytree_insert(tt, i) ==
  LET t == splaytree_splay(tt, i) IN
  IF t = Empty THEN Node(i, Empty, Empty)
  ELSE IF i = t.key THEN t
  ELSE IF i < t.key THEN Node(i, t.left, Fresh([t EXCEPT !.left = Empty]))
  ELSE Node(i, Fresh([t EXCEPT !.right = Empty]), t.right)

\* mutant: whatever the splay brought up is removed
splaytree_delete_Any(tt, i) ==
  LET t == splaytree_splay(tt, i)
      x == IF t.left = Empty THEN t.right
           ELSE [splaytree_splay(t.left, i) EXCEPT !.right = t.right]
  IN IF t = Empty \/ x = Empty THEN Empty ELSE [x EXCEPT !.size = tt.size - 1]

splaytree_delete(tt, i) ==
  LET t == splaytree_splay(tt, i)
      x == IF t.left = Empty THEN t.right
           ELSE [splaytree_splay(t.left, i) EXCEPT !.right = t.right]
  IN IF t = Empty THEN Empty
     ELSE IF i # t.key THEN t
     ELSE IF x = Empty THEN Empty
     ELSE [x EXCEPT !.size = tt.size - 1]

-----------------------------------------------------------------------------
Replies(op, i, res) == reply' = [op |-> op, key |-> i, res |-> res]

SplayInit == tree = Empty /\ reply = [op |-> "new", key |-> Empty, res |-> Empty]

\* The caller learns from the size whether a node was added.
insert(i) ==
  /\ tree' = splaytree_insert(tree, i)
  /\ Replies("insert", i, node_size(tree') - node_size(tree))

delete(i) == tree' = splaytree_delete(tree, i) /\ Replies("erase", i, Empty)

\* The caller looks at the root after a splay.
find(i) ==
  /\ tree' = splaytree_splay(tree, i)
  /\ Replies("find", i, IF tree' # Empty /\ tree'.key = i THEN i ELSE Empty)

SplayNext == \E i \in SplayKeys : insert(i) \/ delete(i) \/ find(i)
SplaySpec == SplayInit /\ [][SplayNext]_splayVars

-----------------------------------------------------------------------------
(* Properties.                                                             *)

RECURSIVE KeysOf(_)
KeysOf(t) == IF t = Empty THEN {} ELSE {t.key} \cup KeysOf(t.left) \cup KeysOf(t.right)

\* Every subtree is ordered and knows its size, whatever was splayed to the root
\* before: a rank counted from the sizes is the rank of the key.
RECURSIVE Sized(_)
Sized(t) ==
  t # Empty =>
    /\ \A k \in KeysOf(t.left) : k < t.key
    /\ \A k \in KeysOf(t.right) : k > t.key
    /\ t.size = Cardinality(KeysOf(t))
    /\ Sized(t.left) /\ Sized(t.right)

\* Whatever is at the root, the tree answers as a set of keys does.
SplayDict == INSTANCE Dictionary WITH Names <- SplayKeys, Nil <- Empty,
                                      held <- KeysOf(tree), told <- reply
SplayImplemented == SplayDict!DictSpec
=============================================================================
