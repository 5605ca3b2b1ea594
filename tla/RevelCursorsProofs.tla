------------------------- MODULE RevelCursorsProofs -------------------------
(***************************************************************************)
(* Theorems of RevelCursors, for any databases, keys, iterators and        *)
(* snapshots.                                                              *)
(*                                                                         *)
(* The versions past[d] end in the present contents of d (PastIsDisk), so  *)
(* an object made now reads what is stored now; the list only grows while  *)
(* the instance stays open, and an object stays live no longer than that,  *)
(* so what it reads cannot change (Frozen).                                *)
(***************************************************************************)
EXTENDS RevelScans, RevelStoreProofs, FiniteSetTheorems

-----------------------------------------------------------------------------
(* Least and greatest keys, and the keys a walk passes.                    *)

LEMMA KeySets ==
  ASSUME NEW S \in SUBSET Keys
  PROVE  S \in SUBSET Nat /\ IsFiniteSet(S)
  BY StoreAssumption, CursorAssumption, FS_Subset

LEMMA LeastIsLeast ==
  ASSUME NEW S \in SUBSET Keys, S # {}
  PROVE  Least(S) \in S /\ \A j \in S : Least(S) <= j
<1>1. \E k \in S : \A j \in S : k <= j
  BY KeySets, LeastExists
<1> QED
  BY <1>1 DEF Least

Upto(S, m) == {k \in S : k <= m}

\* A finite set of naturals is bounded: the number of its members up to m
\* takes a greatest value, and past the m that takes it there are none.
LEMMA Bounded ==
  ASSUME NEW S \in SUBSET Nat, IsFiniteSet(S), S # {}
  PROVE  \E m \in S : \A k \in S : k <= m
<1> DEFINE Counts == {Cardinality(Upto(S, m)) : m \in S}
<1>1. Cardinality(S) \in Nat
  BY FS_CardinalityType
<1>2. ASSUME NEW m \in S
      PROVE  IsFiniteSet(Upto(S, m)) /\ Cardinality(Upto(S, m)) \in 1..Cardinality(S)
  <2>1. Upto(S, m) \in SUBSET S /\ m \in Upto(S, m)
    BY DEF Upto
  <2>2. IsFiniteSet(Upto(S, m)) /\ Cardinality(Upto(S, m)) <= Cardinality(S)
    BY <2>1, FS_Subset
  <2>3. Cardinality(Upto(S, m)) \in Nat /\ Cardinality(Upto(S, m)) # 0
    BY <2>1, <2>2, FS_CardinalityType, FS_EmptySet
  <2> QED
    BY <1>1, <2>2, <2>3
<1>3. Counts \in SUBSET (1..Cardinality(S)) /\ Counts # {}
  BY <1>2
<1>4. PICK m \in S : \A c \in Counts : c <= Cardinality(Upto(S, m))
  <2>1. PICK top \in Counts : \A c \in Counts : c <= top
    BY <1>1, <1>3, LastExists
  <2> QED
    BY <2>1
<1>5. ASSUME NEW k \in S, ~(k <= m) PROVE FALSE
  <2>1. k \in Nat /\ m \in Nat /\ m < k
    BY <1>5
  <2>2. /\ Upto(S, m) \in SUBSET Upto(S, k)
        /\ k \in Upto(S, k) /\ k \notin Upto(S, m)
    <3>1. \A j \in S : j \in Nat /\ (j <= m => j <= k)
      BY <2>1
    <3>2. k <= k /\ ~(k <= m)
      BY <2>1
    <3> QED
      BY <3>1, <3>2 DEF Upto
  <2>3. Cardinality(Upto(S, k)) <= Cardinality(Upto(S, m))
    BY <1>4
  <2>4. /\ Cardinality(Upto(S, m)) <= Cardinality(Upto(S, k))
        /\ Cardinality(Upto(S, k)) = Cardinality(Upto(S, m)) => Upto(S, k) = Upto(S, m)
    BY <1>2, <2>2, FS_Subset
  <2>5. Cardinality(Upto(S, k)) \in Int /\ Cardinality(Upto(S, m)) \in Int
    BY <1>2
  <2> QED
    BY <2>2, <2>3, <2>4, <2>5
<1> QED
  BY <1>4, <1>5

LEMMA GreatestIsGreatest ==
  ASSUME NEW S \in SUBSET Keys, S # {}
  PROVE  Greatest(S) \in S /\ \A j \in S : j <= Greatest(S)
<1>1. \E k \in S : \A j \in S : j <= k
  BY KeySets, Bounded
<1> QED
  BY <1>1 DEF Greatest

\* Counting from the least key, the nth key is there as long as n keys are: it
\* is the least of those with at least n keys up to them.
LEMMA NthFromBelow ==
  ASSUME NEW S \in SUBSET Nat, IsFiniteSet(S), NEW n \in 1..Cardinality(S)
  PROVE  \E k \in S : Cardinality(Upto(S, k)) = n
<1> DEFINE T == {k \in S : Cardinality(Upto(S, k)) >= n}
<1>1. \A m : /\ IsFiniteSet(Upto(S, m))
             /\ Cardinality(Upto(S, m)) \in Nat
  BY FS_Subset, FS_CardinalityType DEF Upto
<1>2. T # {}
  <2>1. PICK g \in S : \A k \in S : k <= g
    BY FS_CardinalityType, FS_EmptySet, Bounded
  <2>2. Upto(S, g) = S
    BY <2>1 DEF Upto
  <2> QED
    BY <2>2, FS_CardinalityType
<1>3. PICK k \in T : \A j \in T : k <= j
  BY <1>2, LeastExists
<1>4. ASSUME Cardinality(Upto(S, k)) # n PROVE FALSE
  <2> DEFINE R == Upto(S, k) \ {k}
  <2>1. k \in Upto(S, k)
    BY DEF Upto
  <2>2. IsFiniteSet(R) /\ Cardinality(R) = Cardinality(Upto(S, k)) - 1
    BY <1>1, <2>1, FS_RemoveElement
  <2>3. Cardinality(R) >= n /\ R # {}
    BY <1>1, <1>4, <2>2, FS_EmptySet
  <2>4. R \in SUBSET Nat
    BY DEF Upto
  <2>5. PICK m \in R : \A j \in R : j <= m
    BY <2>2, <2>3, <2>4, Bounded
  <2>6. m \in S /\ m \in Nat /\ k \in Nat /\ m < k
    BY DEF Upto
  <2>7. Upto(S, m) = R
    <3>1. \A j \in S : j \in Nat /\ (j <= m => j <= k /\ j # k)
      BY <2>6
    <3> QED
      BY <2>5, <3>1 DEF Upto
  <2>8. m \in T
    BY <2>3, <2>6, <2>7
  <2> QED
    BY <1>3, <2>6, <2>8
<1> QED
  BY <1>4

Downto(S, m) == {k \in S : k >= m}

\* The same from the greatest key.
LEMMA NthFromAbove ==
  ASSUME NEW S \in SUBSET Nat, IsFiniteSet(S), NEW n \in 1..Cardinality(S)
  PROVE  \E k \in S : Cardinality(Downto(S, k)) = n
<1> DEFINE T == {k \in S : Cardinality(Downto(S, k)) >= n}
<1>1. \A m : /\ IsFiniteSet(Downto(S, m))
             /\ Cardinality(Downto(S, m)) \in Nat
  BY FS_Subset, FS_CardinalityType DEF Downto
<1>2. T # {}
  <2>1. PICK g \in S : \A k \in S : g <= k
    BY FS_CardinalityType, FS_EmptySet, LeastExists
  <2>2. Downto(S, g) = S
    BY <2>1 DEF Downto
  <2> QED
    BY <2>2, FS_CardinalityType
<1>3. IsFiniteSet(T) /\ T \in SUBSET Nat
  BY FS_Subset
<1>4. PICK k \in T : \A j \in T : j <= k
  BY <1>2, <1>3, Bounded
<1>5. ASSUME Cardinality(Downto(S, k)) # n PROVE FALSE
  <2> DEFINE R == Downto(S, k) \ {k}
  <2>1. k \in Downto(S, k)
    BY DEF Downto
  <2>2. IsFiniteSet(R) /\ Cardinality(R) = Cardinality(Downto(S, k)) - 1
    BY <1>1, <2>1, FS_RemoveElement
  <2>3. Cardinality(R) >= n /\ R # {}
    BY <1>1, <1>5, <2>2, FS_EmptySet
  <2>4. R \in SUBSET Nat
    BY DEF Downto
  <2>5. PICK m \in R : \A j \in R : m <= j
    BY <2>3, <2>4, LeastExists
  <2>6. m \in S /\ m \in Nat /\ k \in Nat /\ k < m
    BY DEF Downto
  <2>7. Downto(S, m) = R
    <3>1. \A j \in S : j \in Nat /\ (j >= m => j >= k /\ j # k)
      BY <2>6
    <3>2. \A j \in R : j >= m
      BY <2>4, <2>5, <2>6
    <3> QED
      BY <3>1, <3>2 DEF Downto
  <2>8. m \in T
    BY <2>3, <2>6, <2>7
  <2> QED
    BY <1>4, <2>6, <2>8
<1> QED
  BY <1>5

\* A walk over S ends on a key of S, past the last one, or nowhere.
LEMMA WalkEnds ==
  ASSUME NEW S \in SUBSET Keys, NEW n \in Nat, NEW pos, NEW passed,
         \A m \in 1..Cardinality(S) : \E k \in S : Cardinality(passed[k]) = m
  PROVE  Walk(pos, n, S, passed) \in S \cup {pos, Off, Lost}
<1>1. Cardinality(S) \in Nat
  BY KeySets, FS_CardinalityType
<1>2. CASE n \in 1..Cardinality(S) /\ pos # Off
  <2>1. PICK k \in S : Cardinality(passed[k]) = n
    BY <1>2
  <2> QED
    BY <1>1, <1>2, <2>1 DEF Walk
<1>3. CASE n \notin 1..Cardinality(S) \/ pos = Off
  BY <1>1, <1>3 DEF Walk
<1> QED
  BY <1>2, <1>3

LEMMA ForwardEnds ==
  ASSUME NEW c, NEW pos, NEW n \in Nat
  PROVE  Forward(c, pos, n) \in Present(c) \cup {pos, Off, Lost}
<1> DEFINE S == {k \in Present(c) : pos # Off /\ k > pos}
           passed == [k \in S |-> {j \in S : j <= k}]
<1>1. S \in SUBSET Keys /\ S \in SUBSET Present(c)
  BY DEF Present
<1>2. \A k \in S : passed[k] = Upto(S, k)
  BY DEF Upto
<1> HIDE DEF S
<1>3. \A m \in 1..Cardinality(S) : \E k \in S : Cardinality(passed[k]) = m
  <2>1. S \in SUBSET Nat /\ IsFiniteSet(S)
    BY <1>1, KeySets
  <2>2. \A m \in 1..Cardinality(S) : \E k \in S : Cardinality(Upto(S, k)) = m
    BY <2>1, NthFromBelow
  <2> QED
    BY <1>2, <2>2
<1> HIDE DEF passed
<1>4. Walk(pos, n, S, passed) \in S \cup {pos, Off, Lost}
  BY <1>1, <1>3, WalkEnds
<1>5. Forward(c, pos, n) = Walk(pos, n, S, passed)
  BY DEF Forward, S, passed
<1> QED
  BY <1>1, <1>4, <1>5

LEMMA BackwardEnds ==
  ASSUME NEW c, NEW pos, NEW n \in Nat
  PROVE  Backward(c, pos, n) \in Present(c) \cup {pos, Off, Lost}
<1> DEFINE S == {k \in Present(c) : pos # Off /\ k < pos}
           passed == [k \in S |-> {j \in S : j >= k}]
<1>1. S \in SUBSET Keys /\ S \in SUBSET Present(c)
  BY DEF Present
<1>2. \A k \in S : passed[k] = Downto(S, k)
  BY DEF Downto
<1> HIDE DEF S
<1>3. \A m \in 1..Cardinality(S) : \E k \in S : Cardinality(passed[k]) = m
  <2>1. S \in SUBSET Nat /\ IsFiniteSet(S)
    BY <1>1, KeySets
  <2>2. \A m \in 1..Cardinality(S) : \E k \in S : Cardinality(Downto(S, k)) = m
    BY <2>1, NthFromAbove
  <2> QED
    BY <1>2, <2>2
<1> HIDE DEF passed
<1>4. Walk(pos, n, S, passed) \in S \cup {pos, Off, Lost}
  BY <1>1, <1>3, WalkEnds
<1>5. Backward(c, pos, n) = Walk(pos, n, S, passed)
  BY DEF Backward, S, passed
<1> QED
  BY <1>1, <1>4, <1>5

\* One step forward goes to the least key beyond, or off the end.
LEMMA NextIsNext ==
  ASSUME NEW c, NEW pos, pos # Off
  PROVE  Forward(c, pos, 1) = Least({k \in Present(c) : k > pos})
<1> DEFINE S == {k \in Present(c) : pos # Off /\ k > pos}
           passed == [k \in S |-> {j \in S : j <= k}]
<1>1. S \in SUBSET Keys /\ S = {k \in Present(c) : k > pos}
  BY DEF Present
<1>2. \A k \in S : passed[k] = Upto(S, k)
  BY DEF Upto
<1> HIDE DEF S, passed
<1>3. Forward(c, pos, 1) = Walk(pos, 1, S, passed)
  BY DEF Forward, S, passed
<1>4. S \in SUBSET Nat /\ IsFiniteSet(S) /\ Cardinality(S) \in Nat
  BY <1>1, KeySets, FS_CardinalityType
<1>5. CASE S = {}
  <2>1. Cardinality(S) = 0
    BY <1>5, FS_EmptySet
  <2> QED
    BY <1>1, <1>3, <1>5, <2>1 DEF Walk, Least
<1>6. CASE S # {}
  <2>1. Cardinality(S) # 0
    BY <1>4, <1>6, FS_EmptySet
  <2>2. Walk(pos, 1, S, passed) = CHOOSE k \in S : Cardinality(passed[k]) = 1
    BY <1>4, <2>1 DEF Walk
  <2>3. Least(S) \in S /\ \A j \in S : Least(S) <= j
    BY <1>1, <1>6, LeastIsLeast
  <2>4. ASSUME NEW k \in S PROVE Cardinality(passed[k]) = 1 <=> k = Least(S)
    <3>1. Least(S) \in Upto(S, k) /\ k \in Upto(S, k) /\ IsFiniteSet(Upto(S, k))
      BY <1>4, <2>3, FS_Subset DEF Upto
    <3>2. Cardinality(Upto(S, k)) = 1 <=> \E x : Upto(S, k) = {x}
      BY <3>1, FS_Singleton
    <3>3. (\E x : Upto(S, k) = {x}) => k = Least(S)
      BY <3>1
    <3>4. ASSUME k = Least(S) PROVE Upto(S, k) = {k}
      <4>1. \A j \in S : j \in Nat /\ k <= j /\ (j <= k => j = k)
        BY <1>4, <2>3, <3>4
      <4> QED
        BY <3>1, <4>1 DEF Upto
    <3> QED
      BY <1>2, <3>2, <3>3, <3>4
  <2>5. (CHOOSE k \in S : Cardinality(passed[k]) = 1) = Least(S)
    BY <2>3, <2>4
  <2> QED
    BY <1>1, <1>3, <2>2, <2>5
<1> QED
  BY <1>5, <1>6

-----------------------------------------------------------------------------
(* The invariant.  h and p stand for handle and past, or their next values. *)

\* The version that object o reads is there and is what it saw.
Intact(o, h, p) ==
  h[o.db] = "open" /\ o.at \in 1..Len(p[o.db]) /\ p[o.db][o.at] = o.saw

\* An iterator stands on a pair it saw, at the end of what it has scanned.
Stands(c, pos, scan) ==
  /\ pos # Off => pos \in Present(c)
  /\ scan # None => scan = {k \in Present(c) : pos # Off => k <= pos}

SnapFrozen(o, h, p) == o.live => Intact(o, h, p)
IterFrozen(o, h, p) ==
  o.live => /\ h[o.db] = "open"
            /\ o.own => Intact(o, h, p) /\ Stands(o.saw, o.pos, o.scan)

Frozen(h, p, sn, it) ==
  /\ \A s \in SnapIds : sn[s] # None => SnapFrozen(sn[s], h, p)
  /\ \A i \in IterIds : it[i] # None => IterFrozen(it[i], h, p)

PastIsDisk(p, c) ==
  \A d \in DBs :
    /\ Len(p[d]) <= MaxVersions
    /\ c[d] = NoDb => p[d] = <<>>
    /\ c[d] # NoDb => p[d] # <<>> /\ p[d][Len(p[d])] = c[d]

CursorInv ==
  /\ StoreInv
  /\ CursorTypeOK
  /\ PastIsDisk(past, disk)
  /\ Frozen(handle, past, snaps, iters)

LEMMA CursorInvInit == CursorInit => CursorInv
<1> SUFFICES ASSUME CursorInit PROVE CursorInv
  OBVIOUS
<1>1. StoreInv
  BY StoreInvInit DEF CursorInit
<1>2. CursorTypeOK
  BY DEF CursorInit, CursorTypeOK
<1>3. PastIsDisk(past, disk)
  <2>1. past = [d \in DBs |-> <<>>] /\ disk = [d \in DBs |-> NoDb]
    BY DEF CursorInit, Init
  <2>2. MaxVersions \in Nat
    BY CursorAssumption
  <2> QED
    BY <2>1, <2>2 DEF PastIsDisk
<1>4. Frozen(handle, past, snaps, iters)
  BY DEF CursorInit, Frozen
<1> QED
  BY <1>1, <1>2, <1>3, <1>4 DEF CursorInv

\* For the store a read through a snapshot that fails is a get that fails.
LEMMA ReadFailsSteps ==
  ASSUME NEW d \in DBs, NEW k \in Keys, ReadFails(d, k)
  PROVE  Next
<1>1. TRUE \in Faults
  BY DEF ReadFails, Faults
<1>2. Miss(d, Request("get", d, <<k>>, <<>>), k)
  BY <1>1 DEF ReadFails, Miss
<1> QED
  BY <1>2 DEF rpc_get, OneKey, Next

\* With the iterators and snapshots the server still is the store.
LEMMA StoreSteps == [CursorNext]_allVars => [Next]_vars
<1> SUFFICES ASSUME [CursorNext]_allVars PROVE [Next]_vars
  OBVIOUS
<1>1. CASE StoreStep
  BY <1>1 DEF StoreStep, Next, Administer, OneKey
<1>2. ASSUME NEW op, NEW id, Crash(op, id) PROVE Next
  BY <1>2 DEF Crash, Next
<1>3. ASSUME NEW d, NEW op, NEW id, NoDbToUse(d, op, id) PROVE [Next]_vars
  BY <1>2, <1>3 DEF NoDbToUse, StoreStays
<1>4. ASSUME NEW obj, NEW op, NEW id, NoSuch(obj, op, id) PROVE UNCHANGED vars
  BY <1>4 DEF NoSuch, StoreStays
<1>5. ASSUME NEW s \in SnapIds, SnapStep(s) PROVE [Next]_vars
  <2>1. ASSUME NEW d \in DBs, snapshot_new(d, s) PROVE [Next]_vars
    BY <1>3, <2>1 DEF snapshot_new, StoreStays
  <2>2. ASSUME NEW d \in DBs, NEW k \in Keys, get_with_snapshot(d, k, s) PROVE [Next]_vars
    BY <1>2, <1>3, <2>2, ReadFailsSteps DEF get_with_snapshot, StoreStays
  <2>3. ASSUME NEW param, snapshot_release(s, param) PROVE [Next]_vars
    BY <1>2, <1>4, <2>3 DEF snapshot_release, StoreStays
  <2> QED
    BY <1>5, <2>1, <2>2, <2>3 DEF SnapStep
<1>6. ASSUME NEW i \in IterIds, IterStep(i) PROVE [Next]_vars
  <2>1. ASSUME NEW d \in DBs, NEW s, iter_new(d, i, s) PROVE [Next]_vars
    BY <1>2, <1>3, <2>1 DEF iter_new, StoreStays
  <2>2. ASSUME NEW op, NEW to, NEW jumps, Moved(op, i, to, jumps) PROVE [Next]_vars
    BY <1>2, <1>4, <2>2 DEF Moved, StoreStays
  <2>3. CASE iter_first(i) \/ iter_last(i) \/ iter_next(i) \/ iter_prev(i)
    BY <2>2, <2>3 DEF iter_first, iter_last, iter_next, iter_prev
  <2>4. ASSUME NEW k, iter_seek(i, k) PROVE [Next]_vars
    BY <2>2, <2>4 DEF iter_seek
  <2>5. ASSUME NEW n, iter_forward(i, n) \/ iter_backward(i, n) PROVE [Next]_vars
    BY <2>2, <2>5 DEF iter_forward, iter_backward
  <2>6. CASE iter_kv(i)
    BY <1>2, <1>4, <2>6 DEF iter_kv, StoreStays
  <2>7. CASE iter_destroy(i)
    BY <1>2, <1>4, <2>7 DEF iter_destroy, StoreStays
  <2> QED
    BY <1>6, <2>1, <2>3, <2>4, <2>5, <2>6, <2>7 DEF IterStep
<1>7. CASE UNCHANGED allVars
  BY <1>7 DEF allVars, vars
<1> QED
  BY <1>1, <1>5, <1>6, <1>7 DEF CursorNext

Rest(h, p, c, sn, it) ==
  /\ p \in [DBs -> Seq(Contents)]
  /\ sn \in [SnapIds -> Snapshots \cup {None}]
  /\ it \in [IterIds -> Iterators \cup {None}]
  /\ PastIsDisk(p, c)
  /\ Frozen(h, p, sn, it)

LEMMA InvParts ==
  /\ CursorInv <=> StoreInv /\ Rest(handle, past, disk, snaps, iters)
  /\ CursorInv' <=> StoreInv' /\ Rest(handle', past', disk', snaps', iters')
  BY DEF CursorInv, CursorTypeOK, Rest

\* Death leaves no object and one version of each database.
LEMMA LostKeeps ==
  ASSUME StoreInv', LoseObjects, LastOnly
  PROVE  Rest(handle', past', disk', snaps', iters')
<1>1. disk' \in [DBs -> Contents \cup {NoDb}]
  BY DEF StoreInv, TypeOK
<1>2. ASSUME NEW d \in DBs
      PROVE  /\ past'[d] \in Seq(Contents) /\ Len(past'[d]) <= MaxVersions
             /\ disk'[d] = NoDb => past'[d] = <<>>
             /\ disk'[d] # NoDb => past'[d] # <<>> /\ past'[d][Len(past'[d])] = disk'[d]
  <2>1. CASE disk'[d] = NoDb
    <3>1. past'[d] = <<>>
      BY <2>1 DEF LastOnly
    <3> QED
      BY <2>1, <3>1, CursorAssumption
  <2>2. CASE disk'[d] # NoDb
    <3>1. past'[d] = <<disk'[d]>> /\ disk'[d] \in Contents
      BY <1>1, <2>2 DEF LastOnly
    <3>2. Len(past'[d]) = 1 /\ past'[d][1] = disk'[d]
      BY <3>1
    <3> QED
      BY <2>2, <3>1, <3>2, CursorAssumption
  <2> QED
    BY <2>1, <2>2
<1>3. past' \in [DBs -> Seq(Contents)] /\ PastIsDisk(past', disk')
  BY <1>2 DEF LastOnly, PastIsDisk
<1>4. /\ snaps' \in [SnapIds -> Snapshots \cup {None}]
      /\ iters' \in [IterIds -> Iterators \cup {None}]
      /\ Frozen(handle', past', snaps', iters')
  BY DEF LoseObjects, Frozen
<1> QED
  BY <1>3, <1>4 DEF Rest

\* What an object reads stays while versions are only added.
LEMMA IntactKeeps ==
  ASSUME NEW o, NEW h, NEW p, NEW h2, NEW p2, Intact(o, h, p), h2[o.db] = "open",
         Len(p[o.db]) <= Len(p2[o.db]), Len(p[o.db]) \in Nat, Len(p2[o.db]) \in Nat,
         \A n \in 1..Len(p[o.db]) : p2[o.db][n] = p[o.db][n]
  PROVE  Intact(o, h2, p2)
  BY DEF Intact

\* A write adds a version, and an open instance never loses its files.
LEMMA VersionKeeps ==
  ASSUME CursorInv, StoreInv', NEW d \in DBs, past'[d] = NextVersion(d),
         Len(past'[d]) <= MaxVersions
  PROVE  /\ past'[d] \in Seq(Contents)
         /\ disk'[d] = NoDb => past'[d] = <<>>
         /\ disk'[d] # NoDb => past'[d] # <<>> /\ past'[d][Len(past'[d])] = disk'[d]
         /\ handle'[d] = "open" =>
              /\ Len(past[d]) <= Len(past'[d])
              /\ \A n \in 1..Len(past[d]) : past'[d][n] = past[d][n]
<1>1. past[d] \in Seq(Contents) /\ Len(past[d]) \in Nat
  BY DEF CursorInv, CursorTypeOK
<1>2. disk'[d] \in Contents \cup {NoDb} /\ (handle'[d] = "open" => disk'[d] # NoDb)
  BY DEF StoreInv, TypeOK, OpenHasFiles
<1>3. CASE disk'[d] = NoDb
  BY <1>2, <1>3 DEF NextVersion
<1>4. CASE disk'[d] # NoDb /\ disk'[d] = disk[d]
  <2>1. past'[d] = past[d]
    BY <1>4 DEF NextVersion
  <2>2. past[d] # <<>> /\ past[d][Len(past[d])] = disk[d]
    BY <1>4 DEF CursorInv, PastIsDisk
  <2> QED
    BY <1>1, <1>4, <2>1, <2>2
<1>5. CASE disk'[d] # NoDb /\ disk'[d] # disk[d]
  <2>1. past'[d] = Append(past[d], disk'[d]) /\ disk'[d] \in Contents
    BY <1>2, <1>5 DEF NextVersion
  <2>2. /\ past'[d] \in Seq(Contents) /\ Len(past'[d]) = Len(past[d]) + 1
        /\ past'[d][Len(past[d]) + 1] = disk'[d]
        /\ \A n \in 1..Len(past[d]) : past'[d][n] = past[d][n]
    BY <1>1, <2>1
  <2>3. past'[d] # <<>>
    BY <1>1, <2>2
  <2> QED
    BY <1>1, <1>5, <2>2, <2>3
<1> QED
  BY <1>3, <1>4, <1>5

\* A request of the store keeps every object whose instance stays open, and
\* marks the others.
LEMMA StoreStepKeeps ==
  ASSUME CursorInv, StoreInv', StoreStep
  PROVE  Rest(handle', past', disk', snaps', iters')
<1>1. CASE LoseObjects /\ LastOnly
  BY <1>1, LostKeeps
<1>2. CASE /\ past' = [d \in DBs |-> NextVersion(d)]
           /\ \A d \in DBs : Len(past'[d]) <= MaxVersions
           /\ snaps' = [s \in SnapIds |-> Behind(snaps[s])]
           /\ iters' = [i \in IterIds |-> Behind(iters[i])]
  <2>1. ASSUME NEW d \in DBs
        PROVE  /\ past'[d] \in Seq(Contents)
               /\ disk'[d] = NoDb => past'[d] = <<>>
               /\ disk'[d] # NoDb => past'[d] # <<>> /\ past'[d][Len(past'[d])] = disk'[d]
               /\ handle'[d] = "open" =>
                    /\ Len(past[d]) <= Len(past'[d])
                    /\ \A n \in 1..Len(past[d]) : past'[d][n] = past[d][n]
    BY <1>2, VersionKeeps
  <2>2. past' \in [DBs -> Seq(Contents)] /\ PastIsDisk(past', disk')
    BY <1>2, <2>1 DEF PastIsDisk
  <2>3. \A d \in DBs : Len(past[d]) \in Nat /\ Len(past'[d]) \in Nat
    BY <2>1 DEF CursorInv, CursorTypeOK
  <2>4. ASSUME NEW s \in SnapIds, snaps'[s] # None
        PROVE  snaps'[s] \in Snapshots /\ SnapFrozen(snaps'[s], handle', past')
    <3>1. snaps[s] # None /\ snaps[s] \in Snapshots /\ SnapFrozen(snaps[s], handle, past)
      BY <1>2, <2>4 DEF Behind, CursorInv, CursorTypeOK, Frozen
    <3>2. CASE handle'[snaps[s].db] # "open"
      <4>1. snaps'[s] = [snaps[s] EXCEPT !.live = FALSE]
        BY <1>2, <3>1, <3>2 DEF Behind
      <4> QED
        BY <3>1, <4>1 DEF Snapshots, SnapFrozen
    <3>3. CASE handle'[snaps[s].db] = "open"
      <4>1. snaps'[s] = snaps[s] /\ snaps[s].db \in DBs
        BY <1>2, <3>1, <3>3 DEF Behind, Snapshots
      <4>2. snaps[s].live => Intact(snaps[s], handle', past')
        BY <2>1, <2>3, <3>1, <3>3, <4>1, IntactKeeps DEF SnapFrozen
      <4> QED
        BY <3>1, <4>1, <4>2 DEF SnapFrozen
    <3> QED
      BY <3>2, <3>3
  <2>5. ASSUME NEW i \in IterIds, iters'[i] # None
        PROVE  iters'[i] \in Iterators /\ IterFrozen(iters'[i], handle', past')
    <3>1. iters[i] # None /\ iters[i] \in Iterators /\ IterFrozen(iters[i], handle, past)
      BY <1>2, <2>5 DEF Behind, CursorInv, CursorTypeOK, Frozen
    <3>2. CASE handle'[iters[i].db] # "open"
      <4>1. iters'[i] = [iters[i] EXCEPT !.live = FALSE]
        BY <1>2, <3>1, <3>2 DEF Behind
      <4> QED
        BY <3>1, <4>1 DEF Iterators, IterFrozen
    <3>3. CASE handle'[iters[i].db] = "open"
      <4>1. iters'[i] = iters[i] /\ iters[i].db \in DBs
        BY <1>2, <3>1, <3>3 DEF Behind, Iterators
      <4>2. iters[i].live /\ iters[i].own => Intact(iters[i], handle', past')
        BY <2>1, <2>3, <3>1, <3>3, <4>1, IntactKeeps DEF IterFrozen
      <4> QED
        BY <3>1, <3>3, <4>1, <4>2 DEF IterFrozen
    <3> QED
      BY <3>2, <3>3
  <2>6. /\ snaps' \in [SnapIds -> Snapshots \cup {None}]
        /\ iters' \in [IterIds -> Iterators \cup {None}]
    BY <1>2, <2>4, <2>5
  <2> QED
    BY <2>2, <2>4, <2>5, <2>6 DEF Rest, Frozen
<1> QED
  BY <1>1, <1>2 DEF StoreStep, Followed

-----------------------------------------------------------------------------
(* Requests on one object.                                                 *)

\* What CursorInv says of the objects there are.
LEMMA ObjectFrozen ==
  ASSUME CursorInv
  PROVE  /\ \A s \in SnapIds : snaps[s] # None =>
              snaps[s] \in Snapshots /\ SnapFrozen(snaps[s], handle, past)
         /\ \A i \in IterIds : iters[i] # None =>
              iters[i] \in Iterators /\ IterFrozen(iters[i], handle, past)
  BY DEF CursorInv, CursorTypeOK, Frozen

LEMMA CrashKeeps ==
  ASSUME StoreInv', NEW op, NEW id, Crash(op, id)
  PROVE  Rest(handle', past', disk', snaps', iters')
  BY LostKeeps DEF Crash

LEMMA SameKeeps ==
  ASSUME CursorInv, UNCHANGED <<handle, disk, past, snaps, iters>>
  PROVE  Rest(handle', past', disk', snaps', iters')
  BY DEF CursorInv, CursorTypeOK, Rest

LEMMA OneSnapKeeps ==
  ASSUME CursorInv, UNCHANGED <<handle, disk, past, iters>>, NEW s \in SnapIds, NEW o,
         o = None \/ (o \in Snapshots /\ SnapFrozen(o, handle, past)),
         snaps' = [snaps EXCEPT ![s] = o]
  PROVE  Rest(handle', past', disk', snaps', iters')
<1>1. snaps' \in [SnapIds -> Snapshots \cup {None}]
  BY DEF CursorInv, CursorTypeOK
<1>2. \A r \in SnapIds : snaps'[r] # None => SnapFrozen(snaps'[r], handle, past)
  BY DEF CursorInv, CursorTypeOK, Frozen
<1> QED
  BY <1>1, <1>2 DEF CursorInv, CursorTypeOK, Rest, Frozen

LEMMA OneIterKeeps ==
  ASSUME CursorInv, UNCHANGED <<handle, disk, past, snaps>>, NEW i \in IterIds, NEW o,
         o = None \/ (o \in Iterators /\ IterFrozen(o, handle, past)),
         iters' = [iters EXCEPT ![i] = o]
  PROVE  Rest(handle', past', disk', snaps', iters')
<1>1. iters' \in [IterIds -> Iterators \cup {None}]
  BY DEF CursorInv, CursorTypeOK
<1>2. \A j \in IterIds : iters'[j] # None => IterFrozen(iters'[j], handle, past)
  BY DEF CursorInv, CursorTypeOK, Frozen
<1> QED
  BY <1>1, <1>2 DEF CursorInv, CursorTypeOK, Rest, Frozen

\* The present version of a database that is served is its contents.
LEMMA PresentVersion ==
  ASSUME CursorInv, NEW d \in DBs, Serving(d)
  PROVE  /\ disk[d] \in Contents
         /\ Len(past[d]) \in 1..MaxVersions
         /\ past[d][Len(past[d])] = disk[d]
<1>1. disk[d] \in Contents
  BY ServedContents DEF CursorInv
<1>2. disk[d] # NoDb
  BY <1>1, ContentsAreFiles
<1>3. /\ past[d] \in Seq(Contents) /\ past[d] # <<>>
      /\ Len(past[d]) <= MaxVersions /\ past[d][Len(past[d])] = disk[d]
  BY <1>2 DEF CursorInv, CursorTypeOK, PastIsDisk
<1>4. Len(past[d]) \in Nat /\ Len(past[d]) # 0
  BY <1>3
<1> QED
  BY <1>1, <1>3, <1>4, CursorAssumption

LEMMA SnapStepKeeps ==
  ASSUME CursorInv, StoreInv', NEW s \in SnapIds, SnapStep(s)
  PROVE  Rest(handle', past', disk', snaps', iters')
<1>1. ASSUME NEW d, NEW op, NoDbToUse(d, op, s)
      PROVE  Rest(handle', past', disk', snaps', iters')
  BY <1>1, CrashKeeps, SameKeeps DEF NoDbToUse, StoreStays, vars
<1>2. ASSUME NEW d \in DBs, snapshot_new(d, s)
      PROVE  Rest(handle', past', disk', snaps', iters')
  <2>1. CASE /\ Serving(d) /\ StoreStays /\ UNCHANGED <<past, iters>>
             /\ snaps' = [snaps EXCEPT ![s] =
                   [db |-> d, at |-> Len(past[d]), live |-> TRUE, saw |-> disk[d]]]
    <3> DEFINE o == [db |-> d, at |-> Len(past[d]), live |-> TRUE, saw |-> disk[d]]
    <3>1. o \in Snapshots
      BY <2>1, PresentVersion DEF Snapshots
    <3>2. /\ o.db = d /\ o.at = Len(past[d]) /\ o.saw = disk[d]
          /\ o.at \in 1..Len(past[o.db])
      BY <2>1, PresentVersion
    <3>3. Intact(o, handle, past)
      BY <2>1, <3>2, PresentVersion DEF Intact, Serving
    <3>4. SnapFrozen(o, handle, past) /\ snaps' = [snaps EXCEPT ![s] = o]
      BY <2>1, <3>3 DEF SnapFrozen
    <3> HIDE DEF o
    <3> QED
      BY <2>1, <3>1, <3>4, OneSnapKeeps DEF StoreStays, vars
  <2> QED
    BY <1>1, <1>2, <2>1 DEF snapshot_new
<1>3. ASSUME NEW d \in DBs, NEW k \in Keys, get_with_snapshot(d, k, s)
      PROVE  Rest(handle', past', disk', snaps', iters')
  BY <1>1, <1>3, CrashKeeps, SameKeeps DEF get_with_snapshot, StoreStays, vars, ReadFails, Stays
<1>4. ASSUME NEW param, snapshot_release(s, param)
      PROVE  Rest(handle', past', disk', snaps', iters')
  <2>1. CASE /\ StoreStays /\ UNCHANGED <<past, iters>>
             /\ snaps' = [snaps EXCEPT ![s] = None]
    BY <2>1, OneSnapKeeps DEF StoreStays, vars
  <2>2. CASE StoreStays /\ UNCHANGED <<past, snaps, iters>>
    BY <2>2, SameKeeps DEF StoreStays, vars
  <2>3. ASSUME Crash("release", s) PROVE Rest(handle', past', disk', snaps', iters')
    BY <2>3, CrashKeeps
  <2> QED
    BY <1>4, <2>1, <2>2, <2>3 DEF snapshot_release, NoSuch
<1> QED
  BY <1>2, <1>3, <1>4 DEF SnapStep

\* A new iterator reads the present version, or that of its snapshot.
LEMMA NewKeeps ==
  ASSUME CursorInv, StoreInv', NEW i \in IterIds, NEW d \in DBs,
         NEW s \in SnapIds \cup {None}, iter_new(d, i, s)
  PROVE  Rest(handle', past', disk', snaps', iters')
<1>1. ASSUME NEW op, NoDbToUse(d, op, i) PROVE Rest(handle', past', disk', snaps', iters')
  BY <1>1, CrashKeeps, SameKeeps DEF NoDbToUse, StoreStays, vars
<1>2. ASSUME Crash("iter", i) PROVE Rest(handle', past', disk', snaps', iters')
  BY <1>2, CrashKeeps
<1>3. ASSUME Serving(d), StoreStays, UNCHANGED <<past, snaps>>, s # None => snaps[s] # None,
             NEW p, p \in IF OpenedAt(d, s).own
                          THEN {Least(Present(past[d][OpenedAt(d, s).at]))} ELSE Positions,
             iters' = [iters EXCEPT ![i] =
                         [db |-> d, at |-> OpenedAt(d, s).at, own |-> OpenedAt(d, s).own,
                          live |-> TRUE, saw |-> OpenedAt(d, s).saw, pos |-> p, scan |-> None]]
      PROVE  Rest(handle', past', disk', snaps', iters')
  <2> DEFINE v == OpenedAt(d, s)
             o == [db |-> d, at |-> v.at, own |-> v.own, live |-> TRUE, saw |-> v.saw,
                   pos |-> p, scan |-> None]
  <2>1. /\ v.at \in 1..MaxVersions /\ v.own \in BOOLEAN /\ v.saw \in Contents
        /\ v.own => v.at \in 1..Len(past[d]) /\ past[d][v.at] = v.saw
    <3>1. CASE s = None
      <4>1. v.at = Len(past[d]) /\ v.own = TRUE /\ v.saw = disk[d]
        BY <3>1 DEF OpenedAt
      <4>2. /\ disk[d] \in Contents /\ Len(past[d]) \in 1..MaxVersions
            /\ Len(past[d]) \in 1..Len(past[d]) /\ past[d][Len(past[d])] = disk[d]
        BY <1>3, PresentVersion
      <4> HIDE DEF v
      <4> QED
        BY <4>1, <4>2, Zenon
    <3>2. CASE s # None
      <4>1. v.at = snaps[s].at /\ v.own = Own(s, d) /\ v.saw = snaps[s].saw
        BY <3>2 DEF OpenedAt
      <4>2. snaps[s] \in Snapshots /\ SnapFrozen(snaps[s], handle, past)
        BY <1>3, <3>2, ObjectFrozen
      <4>3. Own(s, d) => snaps[s].live /\ snaps[s].db = d
        BY DEF Own
      <4>4. Own(s, d) \in BOOLEAN
        BY <4>2 DEF Own, Snapshots
      <4> QED
        BY <4>1, <4>2, <4>3, <4>4 DEF Snapshots, SnapFrozen, Intact
    <3> QED
      BY <3>1, <3>2
  <2> HIDE DEF v
  <2>2. p \in Positions /\ (v.own /\ p # Off => p \in Present(v.saw))
    <3>1. CASE v.own
      <4>1. p = Least(Present(v.saw)) /\ Present(v.saw) \in SUBSET Keys
        BY <1>3, <2>1, <3>1 DEF v, Present
      <4>2. p = Off \/ p \in Present(v.saw)
        BY <4>1, LeastIsLeast DEF Least
      <4> QED
        BY <4>1, <4>2 DEF Positions
    <3>2. CASE ~v.own
      BY <1>3, <3>2 DEF v
    <3> QED
      BY <3>1, <3>2
  <2>3. o \in Iterators
    BY <2>1, <2>2 DEF Iterators
  <2>4. IterFrozen(o, handle, past)
    <3>1. /\ o.db = d /\ o.at = v.at /\ o.own = v.own /\ o.saw = v.saw
          /\ o.pos = p /\ o.scan = None
      OBVIOUS
    <3> HIDE DEF o
    <3>2. handle[d] = "open"
      BY <1>3 DEF Serving
    <3>3. v.own => Intact(o, handle, past) /\ Stands(o.saw, o.pos, o.scan)
      BY <2>1, <2>2, <3>1, <3>2 DEF Intact, Stands
    <3> QED
      BY <3>1, <3>2, <3>3 DEF IterFrozen
  <2>5. iters' = [iters EXCEPT ![i] = o]
    BY <1>3 DEF v
  <2> HIDE DEF o
  <2> QED
    BY <1>3, <2>3, <2>4, <2>5, OneIterKeeps DEF StoreStays, vars
<1>4. \/ NoDbToUse(d, "iter", i)
      \/ Crash("iter", i)
      \/ /\ Serving(d) /\ StoreStays /\ UNCHANGED <<past, snaps>>
         /\ s # None => snaps[s] # None
         /\ \E p \in IF OpenedAt(d, s).own
                     THEN {Least(Present(past[d][OpenedAt(d, s).at]))} ELSE Positions :
              iters' = [iters EXCEPT ![i] =
                         [db |-> d, at |-> OpenedAt(d, s).at, own |-> OpenedAt(d, s).own,
                          live |-> TRUE, saw |-> OpenedAt(d, s).saw, pos |-> p, scan |-> None]]
  BY DEF iter_new
<1> QED
  BY <1>1, <1>2, <1>3, <1>4

\* A move keeps the invariant when, of a sound iterator, it ends on a pair or
\* past the last and the scanned keys are what they should be.
LEMMA MovedKeeps ==
  ASSUME CursorInv, StoreInv', NEW i \in IterIds, NEW op, NEW to, NEW jumps,
         Moved(op, i, to, jumps),
         Sound(i) => /\ to \in Positions \cup {Lost}
                     /\ to # Lost => Stands(iters[i].saw, to, Scanned(i, op, to))
  PROVE  Rest(handle', past', disk', snaps', iters')
<1>1. CASE NoSuch(iters[i], op, i)
  BY <1>1, SameKeeps DEF NoSuch, StoreStays, vars
<1>2. ASSUME Crash(op, i) PROVE Rest(handle', past', disk', snaps', iters')
  BY <1>2, CrashKeeps
<1>3. ASSUME iters[i] # None, NEW p \in Landings(i, to, jumps), p # Lost,
             iters' = [iters EXCEPT ![i].pos = p, ![i].scan = Scanned(i, op, p)],
             UNCHANGED <<past, snaps>>, StoreStays
      PROVE  Rest(handle', past', disk', snaps', iters')
  <2> DEFINE o == [iters[i] EXCEPT !.pos = p, !.scan = Scanned(i, op, p)]
  <2>1. iters[i] \in Iterators /\ IterFrozen(iters[i], handle, past)
    BY <1>3, ObjectFrozen
  <2>2. p \in Positions /\ (Sound(i) => p = to)
    BY <1>3 DEF Landings
  <2>3. Scanned(i, op, p) \in {None} \cup SUBSET Keys
    BY <2>1, <2>2 DEF Scanned, Positions, Iterators
  <2>4. o \in Iterators
    BY <2>1, <2>2, <2>3 DEF Iterators
  <2>5. /\ o.db = iters[i].db /\ o.at = iters[i].at /\ o.own = iters[i].own
        /\ o.live = iters[i].live /\ o.saw = iters[i].saw
        /\ o.pos = p /\ o.scan = Scanned(i, op, p)
    BY <2>1 DEF Iterators
  <2>6. iters' = [iters EXCEPT ![i] = o]
    BY <1>3 DEF CursorInv, CursorTypeOK
  <2> HIDE DEF o
  <2>7. o.live /\ o.own => Intact(o, handle, past)
    BY <2>1, <2>5 DEF IterFrozen, Intact
  <2>8. o.live /\ o.own => Stands(o.saw, o.pos, o.scan)
    BY <1>3, <2>2, <2>5 DEF Sound
  <2>9. IterFrozen(o, handle, past)
    BY <2>1, <2>5, <2>7, <2>8 DEF IterFrozen
  <2> QED
    BY <1>3, <2>4, <2>6, <2>9, OneIterKeeps DEF StoreStays, vars
<1> QED
  BY <1>1, <1>2, <1>3 DEF Moved

LEMMA SoundStands ==
  ASSUME CursorInv, NEW i \in IterIds, Sound(i)
  PROVE  /\ iters[i] \in Iterators /\ iters[i] # None
         /\ Intact(iters[i], handle, past)
         /\ View(i) = iters[i].saw
         /\ Stands(iters[i].saw, iters[i].pos, iters[i].scan)
<1>1. iters[i] \in Iterators /\ IterFrozen(iters[i], handle, past)
  BY ObjectFrozen DEF Sound
<1>2. iters[i].live /\ iters[i].own /\ iters[i] # None
  BY DEF Sound
<1> QED
  BY <1>1, <1>2 DEF IterFrozen, Intact, View

\* The first pair is where a scan begins, and the next pair where it goes on.
LEMMA FirstStands ==
  ASSUME NEW c
  PROVE  /\ Least(Present(c)) \in Positions
         /\ Stands(c, Least(Present(c)), {Least(Present(c))} \ {Off})
<1>1. Present(c) \in SUBSET Keys
  BY DEF Present
<1>2. CASE Present(c) = {}
  BY <1>2 DEF Least, Stands, Positions
<1>3. CASE Present(c) # {}
  <2> DEFINE m == Least(Present(c))
  <2>1. m \in Present(c) /\ m \in Keys /\ \A k \in Present(c) : m <= k
    BY <1>1, <1>3, LeastIsLeast
  <2> HIDE DEF m
  <2>2. m # Off
    BY <2>1, CursorAssumption
  <2>3. \A k \in Present(c) : k <= m <=> k = m
    BY <1>1, <2>1, StoreAssumption
  <2>4. {m} \ {Off} = {k \in Present(c) : m # Off => k <= m}
    BY <2>1, <2>2, <2>3
  <2>5. m \in Positions /\ Stands(c, m, {m} \ {Off})
    BY <2>1, <2>4 DEF Stands, Positions
  <2> QED
    BY <2>5 DEF m
<1> QED
  BY <1>2, <1>3

LEMMA NextStands ==
  ASSUME NEW c, NEW pos, pos # Off, NEW scan, Stands(c, pos, scan)
  PROVE  /\ Forward(c, pos, 1) \in Positions
         /\ Stands(c, Forward(c, pos, 1),
                   IF scan = None THEN None ELSE scan \cup ({Forward(c, pos, 1)} \ {Off}))
<1> DEFINE S == {k \in Present(c) : k > pos}
           to == Forward(c, pos, 1)
<1>1. to = Least(S)
  BY NextIsNext
<1> HIDE DEF to
<1>2. Present(c) \in SUBSET Nat /\ Present(c) \in SUBSET Keys /\ pos \in Present(c) /\ pos \in Nat
  BY StoreAssumption DEF Present, Stands
<1>3. scan # None => scan = {k \in Present(c) : k <= pos}
  BY DEF Stands
<1>4. CASE S = {}
  <2>1. to = Off
    BY <1>1, <1>4 DEF Least
  <2>2. \A k \in Present(c) : k <= pos
    BY <1>2, <1>4
  <2>3. scan # None => scan = Present(c)
    BY <1>3, <2>2
  <2>4. scan # None => scan \cup ({to} \ {Off}) = {k \in Present(c) : to # Off => k <= to}
    BY <2>1, <2>3
  <2> QED
    BY <2>1, <2>4 DEF Stands, Positions, to
<1>5. CASE S # {}
  <2>1. to \in S /\ \A k \in S : to <= k
    BY <1>1, <1>2, <1>5, LeastIsLeast
  <2>2. to \in Present(c) /\ to \in Keys /\ to \in Nat /\ to # Off /\ pos < to
    BY <1>2, <2>1, CursorAssumption
  <2>3. \A k \in Present(c) : k <= to <=> (k <= pos \/ k = to)
    <3>1. ASSUME NEW k \in Present(c), k <= to PROVE k <= pos \/ k = to
      <4>1. k \in Nat
        BY <1>2
      <4>2. k \in S => to <= k
        BY <2>1
      <4> QED
        BY <1>2, <2>2, <3>1, <4>1, <4>2
    <3>2. ASSUME NEW k \in Present(c), k <= pos \/ k = to PROVE k <= to
      <4>1. k \in Nat
        BY <1>2
      <4> QED
        BY <1>2, <2>2, <3>2, <4>1
    <3> QED
      BY <3>1, <3>2
  <2>4. scan # None => scan \cup ({to} \ {Off}) = {k \in Present(c) : to # Off => k <= to}
    BY <1>3, <2>2, <2>3
  <2> QED
    BY <2>2, <2>4 DEF Stands, Positions, to
<1> QED
  BY <1>4, <1>5

LEMMA IterStepKeeps ==
  ASSUME CursorInv, StoreInv', NEW i \in IterIds, IterStep(i)
  PROVE  Rest(handle', past', disk', snaps', iters')
<1>1. ASSUME NEW d \in DBs, NEW s \in SnapIds \cup {None}, iter_new(d, i, s)
      PROVE  Rest(handle', past', disk', snaps', iters')
  BY <1>1, NewKeeps
<1>2. CASE iter_first(i)
  <2>1. Sound(i) => /\ Least(Present(View(i))) \in Positions
                    /\ Stands(iters[i].saw, Least(Present(View(i))),
                              {Least(Present(View(i)))} \ {Off})
    BY SoundStands, FirstStands
  <2>2. \A p : Scanned(i, "first", p) = {p} \ {Off}
    BY DEF Scanned
  <2> QED
    BY <1>2, <2>1, <2>2, MovedKeeps DEF iter_first
\* A move other than first and next that ends on a pair or past the last.
<1>3. ASSUME NEW op \in {"last", "seek", "prev", "forward", "backward"}, NEW to, NEW jumps,
             Moved(op, i, to, jumps),
             Sound(i) => to \in Present(View(i)) \cup {iters[i].pos, Off, Lost}
      PROVE  Rest(handle', past', disk', snaps', iters')
  <2>1. \A p : Scanned(i, op, p) = None
    BY <1>3 DEF Scanned
  <2>2. Sound(i) => to = Lost \/ (to \in Positions /\ Stands(iters[i].saw, to, None))
    <3> SUFFICES ASSUME Sound(i), to # Lost
                 PROVE  to \in Positions /\ Stands(iters[i].saw, to, None)
      OBVIOUS
    <3>1. /\ View(i) = iters[i].saw
          /\ iters[i].pos # Off => iters[i].pos \in Present(iters[i].saw)
      BY SoundStands DEF Stands
    <3>2. to = Off \/ to \in Present(iters[i].saw)
      BY <1>3, <3>1
    <3> QED
      BY <3>2 DEF Stands, Positions, Present
  <2> QED
    BY <1>3, <2>1, <2>2, MovedKeeps
<1>4. CASE iter_last(i)
  <2>1. Present(View(i)) \in SUBSET Keys
    BY DEF Present
  <2>2. Greatest(Present(View(i))) \in Present(View(i)) \cup {Off}
    BY <2>1, GreatestIsGreatest DEF Greatest
  <2> QED
    BY <1>3, <1>4, <2>2 DEF iter_last
<1>5. ASSUME NEW k \in Keys, iter_seek(i, k)
      PROVE  Rest(handle', past', disk', snaps', iters')
  <2> DEFINE S == {j \in Present(View(i)) : j >= k}
  <2>1. S \in SUBSET Keys /\ S \in SUBSET Present(View(i))
    BY DEF Present
  <2>2. Seek(View(i), k) = Least(S)
    BY DEF Seek
  <2> HIDE DEF S
  <2>3. Seek(View(i), k) \in Present(View(i)) \cup {Off}
    BY <2>1, <2>2, LeastIsLeast DEF Least
  <2> QED
    BY <1>3, <1>5, <2>3 DEF iter_seek
<1>6. CASE iter_next(i)
  <2> DEFINE to == Forward(View(i), iters[i].pos, 1)
  <2>1. Moved("next", i, to, FALSE)
    BY <1>6 DEF iter_next
  <2>2. Scanned(i, "next", to) =
          IF iters[i].scan = None THEN None ELSE iters[i].scan \cup ({to} \ {Off})
    BY DEF Scanned
  <2>3. iters[i].pos = Off => to = Lost
    BY DEF Forward, Walk
  <2>4. ASSUME Sound(i), iters[i].pos # Off
        PROVE  to \in Positions /\ Stands(iters[i].saw, to, Scanned(i, "next", to))
    <3>1. View(i) = iters[i].saw /\ Stands(iters[i].saw, iters[i].pos, iters[i].scan)
      BY <2>4, SoundStands
    <3> QED
      BY <2>2, <2>4, <3>1, NextStands
  <2> HIDE DEF to
  <2> QED
    BY <2>1, <2>3, <2>4, MovedKeeps
<1>7. CASE iter_prev(i)
  <2>1. Backward(View(i), iters[i].pos, 1) \in Present(View(i)) \cup {iters[i].pos, Off, Lost}
    BY BackwardEnds
  <2> QED
    BY <1>3, <1>7, <2>1 DEF iter_prev
<1>8. ASSUME NEW n \in StepCounts, iter_forward(i, n) \/ iter_backward(i, n)
      PROVE  Rest(handle', past', disk', snaps', iters')
  <2>1. n \in Nat
    BY CursorAssumption
  <2>2. /\ Forward(View(i), iters[i].pos, n) \in Present(View(i)) \cup {iters[i].pos, Off, Lost}
        /\ Backward(View(i), iters[i].pos, n) \in Present(View(i)) \cup {iters[i].pos, Off, Lost}
    BY <2>1, ForwardEnds, BackwardEnds
  <2> QED
    BY <1>3, <1>8, <2>2 DEF iter_forward, iter_backward
<1>9. CASE iter_kv(i)
  <2>1. CASE StoreStays /\ UNCHANGED <<past, snaps, iters>>
    BY <2>1, SameKeeps DEF StoreStays, vars
  <2>2. ASSUME Crash("kv", i) PROVE Rest(handle', past', disk', snaps', iters')
    BY <2>2, CrashKeeps
  <2> QED
    BY <1>9, <2>1, <2>2 DEF iter_kv, NoSuch
<1>10. CASE iter_destroy(i)
  <2>1. CASE StoreStays /\ UNCHANGED <<past, snaps, iters>>
    BY <2>1, SameKeeps DEF StoreStays, vars
  <2>2. CASE StoreStays /\ UNCHANGED <<past, snaps>> /\ iters' = [iters EXCEPT ![i] = None]
    BY <2>2, OneIterKeeps DEF StoreStays, vars
  <2>3. ASSUME Crash("destroy", i) PROVE Rest(handle', past', disk', snaps', iters')
    BY <2>3, CrashKeeps
  <2> QED
    BY <1>10, <2>1, <2>2, <2>3 DEF iter_destroy, NoSuch
<1> QED
  BY <1>1, <1>2, <1>4, <1>5, <1>6, <1>7, <1>8, <1>9, <1>10 DEF IterStep

LEMMA CursorInvStep == CursorInv /\ [CursorNext]_allVars => CursorInv'
<1> SUFFICES ASSUME CursorInv, [CursorNext]_allVars PROVE CursorInv'
  OBVIOUS
<1>1. StoreInv'
  BY StoreSteps, StoreInvStep DEF CursorInv
<1>2. Rest(handle', past', disk', snaps', iters')
  <2>1. CASE StoreStep
    BY <1>1, <2>1, StoreStepKeeps
  <2>2. ASSUME NEW s \in SnapIds, SnapStep(s)
        PROVE  Rest(handle', past', disk', snaps', iters')
    BY <1>1, <2>2, SnapStepKeeps
  <2>3. ASSUME NEW i \in IterIds, IterStep(i)
        PROVE  Rest(handle', past', disk', snaps', iters')
    BY <1>1, <2>3, IterStepKeeps
  <2>4. CASE UNCHANGED allVars
    BY <2>4, SameKeeps DEF allVars
  <2> QED
    BY <2>1, <2>2, <2>3, <2>4 DEF CursorNext
<1> QED
  BY <1>1, <1>2, InvParts

-----------------------------------------------------------------------------
(* The theorems.                                                           *)

LEMMA CursorInvariance == CursorSpec => []CursorInv
  BY CursorInvInit, CursorInvStep, PTL DEF CursorSpec

\* A server that holds iterators and snapshots, some of them on instances that
\* are gone, does to its databases no more than the requests of RevelStore do:
\* whatever is proved of Spec holds of it.
THEOREM CursorsAreReaders == CursorSpec => Spec
<1>1. CursorInit => Init
  BY DEF CursorInit
<1> QED
  BY <1>1, StoreSteps, PTL DEF CursorSpec, Spec

\* Versions, snapshots and iterators have their types.
THEOREM CursorsHaveType == CursorSpec => []CursorTypeOK
<1>1. CursorInv => CursorTypeOK
  BY DEF CursorInv
<1> QED
  BY <1>1, CursorInvariance, PTL

\* What a live snapshot or an iterator over the open instance reads stays what
\* it was when it was made, through writes, destroys and restarts.
THEOREM ViewsAreFrozen == CursorSpec => []ViewIsFrozen
<1>1. ASSUME CursorInv PROVE ViewIsFrozen
  <2>1. \A s \in SnapIds : snaps[s] # None /\ snaps[s].live => Intact(snaps[s], handle, past)
    BY <1>1, ObjectFrozen DEF SnapFrozen
  <2>2. \A i \in IterIds : Sound(i) => View(i) = iters[i].saw
    BY <1>1, SoundStands
  <2> QED
    BY <2>1, <2>2 DEF ViewIsFrozen, Intact
<1> QED
  BY <1>1, CursorInvariance, PTL

\* No move of a sound iterator leaves it on a key that its contents lack.
THEOREM IteratorsStandOnPairs == CursorSpec => []StandsOnAPair
<1>1. ASSUME CursorInv PROVE StandsOnAPair
  <2>1. \A i \in IterIds : Sound(i) /\ iters[i].pos # Off =>
          iters[i].pos \in Present(iters[i].saw)
    BY <1>1, SoundStands DEF Stands
  <2> QED
    BY <2>1 DEF StandsOnAPair, Present
<1> QED
  BY <1>1, CursorInvariance, PTL

\* first and then next, next, ... stands on every pair in turn: none is passed
\* over and none is stood on that the contents lack.
THEOREM ScansSeeAll == CursorSpec => []ScanSeesAll
<1>1. ASSUME CursorInv PROVE ScanSeesAll
  BY <1>1, SoundStands DEF ScanSeesAll, Stands
<1> QED
  BY <1>1, CursorInvariance, PTL

\* A step whose told pair is not <<>> is a get through a snapshot or a kv.
LEMMA PairsAreToldBy ==
  ASSUME CursorNext, told'[4] # <<>>
  PROVE  \/ \E d \in DBs, k \in Keys, s \in SnapIds :
              /\ Serving(d) /\ snaps[s] # None
              /\ \/ \E v \in ReadsAt(s, d, k) :
                      \E code : told' = <<"get", s, code, <<d, k, v>>>>
                 \/ ReadFails(d, k) /\ told' = <<"get", s, 404, <<d, k, Absent>>>>
         \/ \E i \in IterIds :
              /\ Sound(i)
              /\ told' = <<"kv", i, 200,
                           <<iters[i].db, iters[i].pos, View(i)[iters[i].pos]>>>>
<1>1. ASSUME NEW op, NEW id, NEW code, Told(op, id, code) PROVE FALSE
  BY <1>1 DEF Told, Tell
<1>2. ASSUME NEW op, NEW id, Crash(op, id) PROVE FALSE
  BY <1>1, <1>2 DEF Crash
<1>3. ASSUME NEW d, NEW op, NEW id, NoDbToUse(d, op, id) PROVE FALSE
  BY <1>1, <1>2, <1>3 DEF NoDbToUse
<1>4. ASSUME NEW obj, NEW op, NEW id, NoSuch(obj, op, id) PROVE FALSE
  BY <1>1, <1>4 DEF NoSuch
<1>5. ASSUME NEW op, NEW i, NEW to, NEW jumps, Moved(op, i, to, jumps) PROVE FALSE
  BY <1>1, <1>2, <1>4, <1>5 DEF Moved
<1>6. ~StoreStep
  BY DEF StoreStep, Followed, Silent
<1>7. ASSUME NEW s \in SnapIds, SnapStep(s)
      PROVE  \E d \in DBs, k \in Keys : get_with_snapshot(d, k, s)
  <2>1. ~ \E d \in DBs : snapshot_new(d, s)
    BY <1>1, <1>3 DEF snapshot_new
  <2>2. ~ \E param \in {"iter", "snapshot"} : snapshot_release(s, param)
    BY <1>1, <1>2, <1>4 DEF snapshot_release
  <2> QED
    BY <1>7, <2>1, <2>2 DEF SnapStep
<1>8. ASSUME NEW i \in IterIds, IterStep(i) PROVE iter_kv(i)
  <2>1. ~ \E d \in DBs, s \in SnapIds \cup {None} : iter_new(d, i, s)
    BY <1>1, <1>2, <1>3 DEF iter_new
  <2>2. ~iter_first(i) /\ ~iter_last(i) /\ ~iter_next(i) /\ ~iter_prev(i)
    BY <1>5 DEF iter_first, iter_last, iter_next, iter_prev
  <2>3. ~ \E k \in Keys : iter_seek(i, k)
    BY <1>5 DEF iter_seek
  <2>4. ~ \E n \in StepCounts : iter_forward(i, n) \/ iter_backward(i, n)
    BY <1>5 DEF iter_forward, iter_backward
  <2>5. ~iter_destroy(i)
    BY <1>1, <1>2, <1>4 DEF iter_destroy
  <2> QED
    BY <1>8, <2>1, <2>2, <2>3, <2>4, <2>5 DEF IterStep
<1>9. ASSUME NEW s \in SnapIds, NEW d \in DBs, NEW k \in Keys, get_with_snapshot(d, k, s)
      PROVE  /\ Serving(d) /\ snaps[s] # None
             /\ \/ \E v \in ReadsAt(s, d, k) :
                     \E code : told' = <<"get", s, code, <<d, k, v>>>>
                \/ ReadFails(d, k) /\ told' = <<"get", s, 404, <<d, k, Absent>>>>
  <2>1. /\ Serving(d) /\ snaps[s] # None
        /\ \/ \E v \in ReadsAt(s, d, k) :
                 Tell("get", s, IF v = Absent THEN 404 ELSE 200, <<d, k, v>>)
           \/ ReadFails(d, k) /\ Tell("get", s, 404, <<d, k, Absent>>)
    BY <1>2, <1>3, <1>9 DEF get_with_snapshot, ReadFails
  <2> QED
    BY <2>1 DEF Tell
<1>10. ASSUME NEW i \in IterIds, iter_kv(i)
       PROVE  /\ Sound(i)
              /\ told' = <<"kv", i, 200,
                           <<iters[i].db, iters[i].pos, View(i)[iters[i].pos]>>>>
  BY <1>1, <1>2, <1>4, <1>10 DEF iter_kv, Tell
<1> QED
  BY <1>6, <1>7, <1>8, <1>9, <1>10 DEF CursorNext

\* The action that AnswersAreFrozen asks of every step.
ToldOfView ==
  told'[4] # <<>> =>
    LET d == told'[4][1]  k == told'[4][2]  v == told'[4][3] IN
    \/ /\ told'[1] = "get"
       /\ Own(told'[2], d) =>
            \/ v = snaps[told'[2]].saw[k]
            \/ EngineFaults /\ told'[3] = 404 /\ err'[d]
    \/ told'[1] = "kv" /\ v = iters[told'[2]].saw[k]

LEMMA StepToldOfView == CursorInv /\ CursorNext => ToldOfView
<1> SUFFICES ASSUME CursorInv, CursorNext, told'[4] # <<>> PROVE ToldOfView
  BY DEF ToldOfView
<1>1. ASSUME NEW d \in DBs, NEW k \in Keys, NEW s \in SnapIds, snaps[s] # None,
             NEW v \in ReadsAt(s, d, k), NEW code, told' = <<"get", s, code, <<d, k, v>>>>
      PROVE  ToldOfView
  <2>1. ASSUME Own(s, d) PROVE v = snaps[s].saw[k]
    <3>1. v = past[d][snaps[s].at][k] /\ snaps[s].live /\ snaps[s].db = d
      BY <1>1, <2>1 DEF ReadsAt, Own
    <3>2. past[snaps[s].db][snaps[s].at] = snaps[s].saw
      BY <1>1, <3>1, ObjectFrozen DEF SnapFrozen, Intact
    <3> QED
      BY <3>1, <3>2
  <2>2. /\ told'[1] = "get" /\ told'[2] = s
        /\ told'[4][1] = d /\ told'[4][2] = k /\ told'[4][3] = v
    BY <1>1
  <2> QED
    BY <2>1, <2>2 DEF ToldOfView
<1>2. ASSUME NEW i \in IterIds, Sound(i),
             told' = <<"kv", i, 200, <<iters[i].db, iters[i].pos, View(i)[iters[i].pos]>>>>
      PROVE  ToldOfView
  <2>1. View(i) = iters[i].saw
    BY <1>2, SoundStands
  <2>2. /\ told'[1] = "kv" /\ told'[2] = i
        /\ told'[4][2] = iters[i].pos /\ told'[4][3] = View(i)[iters[i].pos]
    BY <1>2
  <2> QED
    BY <2>1, <2>2 DEF ToldOfView
<1>3. ASSUME NEW d \in DBs, NEW k \in Keys, NEW s \in SnapIds, ReadFails(d, k),
             told' = <<"get", s, 404, <<d, k, Absent>>>>
      PROVE  ToldOfView
  <2>1. EngineFaults /\ err'[d]
    BY <1>3 DEF ReadFails, KeepErr, CursorInv, StoreInv, TypeOK
  <2>2. told'[1] = "get" /\ told'[3] = 404 /\ told'[4][1] = d
    BY <1>3
  <2> QED
    BY <2>1, <2>2 DEF ToldOfView
<1> QED
  BY <1>1, <1>2, <1>3, PairsAreToldBy

\* Every pair told to a reader is one of the contents when its snapshot or
\* iterator was made, and a key these have is denied only over a failed read that
\* leaves the error slot filled.
THEOREM AnswersAreOfTheView == CursorSpec => AnswersAreFrozen
<1>1. CursorInv /\ [CursorNext]_allVars => [ToldOfView]_allVars
  BY StepToldOfView
<1> QED
  BY <1>1, CursorInvariance, PTL DEF CursorSpec, AnswersAreFrozen, ToldOfView

-----------------------------------------------------------------------------
(* Theorems of RevelScans, for any databases, keys, patterns and values.   *)
(*                                                                         *)
(* A scan takes no step of its own in the store, so the invariant of       *)
(* RevelCursors holds with scans as well: what a scan reads through a      *)
(* snapshot of its database is what the snapshot saw.                      *)

(* Scans are steps of the readers, or none.                                *)

LEMMA TellsStays == ASSUME NEW req, NEW code, NEW body, Tells(req, code, body)
                    PROVE  UNCHANGED allVars
BY DEF Tells, CursorsStay

LEMMA DiesSteps == ASSUME NEW req, Dies(req) PROVE CursorNext
BY DEF Dies, CursorNext, StoreStep

LEMMA NotScannedSteps ==
  ASSUME NEW req, NotScanned(req)
  PROVE  [CursorNext]_allVars /\ seen'.code # 200
<1>1. ASSUME NEW code \in {0, 404}, NEW body, Says(req, code, body) PROVE seen'.code # 200
  BY <1>1 DEF Says
<1>2. ASSUME Tells(req, 404, NoBody) PROVE seen'.code # 200 /\ UNCHANGED allVars
  BY <1>1, <1>2 DEF Tells, CursorsStay
<1>3. ASSUME Dies(req) PROVE seen'.code # 200 /\ CursorNext
  BY <1>1, <1>3, DiesSteps DEF Dies
<1> QED
  BY <1>2, <1>3 DEF NotScanned

LEMMA MatchedSteps ==
  ASSUME NEW req, NEW c, NEW S, NEW pattern, Matched(req, c, S, pattern)
  PROVE  [CursorNext]_allVars
<1>1. CASE pattern.ok
  BY <1>1, TellsStays DEF Matched
<1>2. CASE ~pattern.ok
  BY <1>2, TellsStays, DiesSteps DEF Matched
<1> QED
  BY <1>1, <1>2

LEMMA ScanSteps == ASSUME NEW d \in DBs, Scan(d) PROVE [CursorNext]_allVars
<1>1. ASSUME NEW start, NEW end, rpc_range(d, start, end) \/ rpc_compact(d, start, end)
      PROVE  [CursorNext]_allVars
  BY <1>1, NotScannedSteps, TellsStays DEF rpc_range, rpc_compact
<1>2. ASSUME NEW start, NEW limit, rpc_size(d, start, limit) PROVE [CursorNext]_allVars
  BY <1>2, NotScannedSteps, TellsStays, DiesSteps DEF rpc_size, BadParameter
<1>3. ASSUME NEW name, rpc_property(d, name) PROVE [CursorNext]_allVars
  BY <1>3, NotScannedSteps, TellsStays DEF rpc_property
<1>4. ASSUME NEW s, NEW kp, rpc_kregex(d, s, kp) PROVE [CursorNext]_allVars
  BY <1>4, NotScannedSteps, TellsStays, DiesSteps DEF rpc_kregex
<1>5. ASSUME NEW s, NEW vp, rpc_vregex(d, s, vp) PROVE [CursorNext]_allVars
  BY <1>5, NotScannedSteps, MatchedSteps DEF rpc_vregex
<1>6. ASSUME NEW s, NEW kp, NEW vp, rpc_regex(d, s, kp, vp) PROVE [CursorNext]_allVars
  BY <1>6, NotScannedSteps, MatchedSteps, DiesSteps DEF rpc_regex
<1>7. ASSUME NEW s, NEW t, NEW n, rpc_ksimilar(d, s, t, n) PROVE [CursorNext]_allVars
  BY <1>7, NotScannedSteps, TellsStays DEF rpc_ksimilar, Similar, BadParameter
<1>8. ASSUME NEW s, NEW t, NEW n, rpc_vsimilar(d, s, t, n) PROVE [CursorNext]_allVars
  BY <1>8, NotScannedSteps, TellsStays DEF rpc_vsimilar, Similar, BadParameter
<1>9. ASSUME NEW s, NEW t, NEW n, NEW u, NEW m, rpc_similar(d, s, t, n, u, m)
      PROVE  [CursorNext]_allVars
  BY <1>9, NotScannedSteps, TellsStays DEF rpc_similar, Similar, BadParameter
<1> QED
  BY <1>1, <1>2, <1>3, <1>4, <1>5, <1>6, <1>7, <1>8, <1>9 DEF Scan

LEMMA ScanNextSteps == [ScanNext]_scanVars => [CursorNext]_allVars
<1>1. ASSUME NEW op, Constant(op) \/ Empty_handler(op) PROVE UNCHANGED allVars
  BY <1>1, TellsStays DEF Constant, Empty_handler
<1>2. ASSUME StoreStep \/ \E s \in SnapIds : SnapStep(s) PROVE CursorNext
  BY <1>2 DEF CursorNext
<1>3. UNCHANGED scanVars => UNCHANGED allVars
  BY DEF scanVars, allVars
<1> QED
  BY <1>1, <1>2, <1>3, ScanSteps DEF ScanNext

\* A server that answers scans does to its databases, snapshots and iterators
\* no more than one that answers none.
THEOREM ScansAreReaders == ScanSpec => CursorSpec
BY ScanNextSteps, PTL DEF ScanSpec, ScanInit, CursorSpec

LEMMA ScanInvariance == ScanSpec => []CursorInv
BY ScansAreReaders, CursorInvariance, PTL

-----------------------------------------------------------------------------
(* Answers of scans.                                                       *)

\* What ScansAreFrozen asks of an answered scan.
AnsweredFrom(req, body) ==
  (req.snap # None => Own(req.snap, req.db)) =>
    /\ \A k \in DOMAIN body : body[k] = Source(req)[k] /\ Asks(req, k, body[k])
    /\ req.op \in {"kregex", "vregex", "regex"} =>
         \A k \in Present(Source(req)) : Asks(req, k, Source(req)[k]) => k \in DOMAIN body

Scanning == {"range", "kregex", "vregex", "regex", "ksimilar", "vsimilar"}

FrozenStep ==
  seen'.code = 200 /\ seen'.req.op \in Scanning => AnsweredFrom(seen'.req, seen'.body)

\* A snapshot of its database shows what it saw when it was taken.
LEMMA SourceIsSeen ==
  ASSUME CursorInv, NEW req, NEW c \in Sources(req.db, req.snap), Readable(req),
         req.snap \in SnapIds \cup {None}, req.snap # None => Own(req.snap, req.db)
  PROVE  c = Source(req)
<1>1. CASE req.snap = None
  BY <1>1 DEF Sources, Source
<1>2. CASE req.snap # None
  <2> DEFINE s == req.snap
  <2>1. s \in SnapIds /\ snaps[s] # None /\ Own(s, req.db)
    BY <1>2 DEF Readable
  <2>2. c = past[req.db][snaps[s].at]
    BY <1>2, <2>1 DEF Sources
  <2>3. snaps[s].live /\ snaps[s].db = req.db
    BY <2>1 DEF Own
  <2>4. past[snaps[s].db][snaps[s].at] = snaps[s].saw
    BY <2>1, <2>3, ObjectFrozen DEF SnapFrozen, Intact
  <2> QED
    BY <1>2, <2>2, <2>3, <2>4 DEF Source
<1> QED
  BY <1>1, <1>2

\* The answer to a scan of c shows, of the keys that exist in S, the pairs of c.
LEMMA FoundPairs ==
  ASSUME NEW c, NEW S, NEW k
  PROVE  /\ k \in DOMAIN Found(c, S) <=> k \in S /\ c[k] # Absent
         /\ k \in DOMAIN Found(c, S) => Found(c, S)[k] = c[k]
BY DEF Found

LEMMA EmptyBody == DOMAIN NoBody = {}
BY DEF NoBody, Found, Empty

\* An answer that shows of c what the scan asks for, in a step that tells it.
LEMMA ToldPairs ==
  ASSUME CursorInv, NEW req, NEW S, NEW c \in Sources(req.db, req.snap), Readable(req),
         req.snap \in SnapIds \cup {None},
         \A k \in S : c[k] # Absent => Asks(req, k, c[k]),
         req.op \in {"kregex", "vregex", "regex"} =>
           \A k \in Present(c) : Asks(req, k, c[k]) => k \in S
  PROVE  AnsweredFrom(req, Found(c, S))
<1> SUFFICES ASSUME req.snap # None => Own(req.snap, req.db)
             PROVE  /\ \A k \in DOMAIN Found(c, S) :
                          Found(c, S)[k] = Source(req)[k] /\ Asks(req, k, Found(c, S)[k])
                    /\ req.op \in {"kregex", "vregex", "regex"} =>
                         \A k \in Present(Source(req)) :
                           Asks(req, k, Source(req)[k]) => k \in DOMAIN Found(c, S)
  BY DEF AnsweredFrom
<1>1. c = Source(req)
  BY SourceIsSeen
<1>2. ASSUME NEW k \in DOMAIN Found(c, S)
      PROVE  Found(c, S)[k] = Source(req)[k] /\ Asks(req, k, Found(c, S)[k])
  <2>1. k \in S /\ c[k] # Absent
    BY FoundPairs
  <2>2. Found(c, S)[k] = c[k]
    BY FoundPairs
  <2>3. Asks(req, k, c[k])
    BY <2>1
  <2> QED
    BY <1>1, <2>2, <2>3
<1>3. ASSUME req.op \in {"kregex", "vregex", "regex"},
             NEW k \in Present(c), Asks(req, k, c[k])
      PROVE  k \in DOMAIN Found(c, S)
  <2>1. k \in S
    BY <1>3
  <2>2. c[k] # Absent
    BY <1>3 DEF Present
  <2> QED
    BY <2>1, <2>2, FoundPairs
<1> QED
  BY <1>1, <1>2, <1>3

LEMMA TellsAnswer ==
  ASSUME NEW req, NEW body, Tells(req, 200, body), AnsweredFrom(req, body)
  PROVE  FrozenStep
BY DEF Tells, Says, FrozenStep

LEMMA DiesFrozen == ASSUME NEW req, Dies(req) \/ NotScanned(req) PROVE FrozenStep
<1>1. ASSUME Dies(req) PROVE seen'.code # 200
  BY <1>1 DEF Dies, Says
<1> QED
  BY <1>1, NotScannedSteps DEF FrozenStep

LEMMA RangeFrozen ==
  ASSUME CursorInv, NEW d \in DBs, NEW start, NEW end, rpc_range(d, start, end)
  PROVE  FrozenStep
<1> DEFINE req == Asked("range", d, None, <<start, end>>)
<1>1. req.op = "range" /\ req.db = d /\ req.snap = None
  BY DEF Asked
<1>2. CASE NotScanned(req)
  BY <1>2, DiesFrozen
<1>3. CASE Readable(req) /\ Tells(req, 200, Found(disk[d], RangeKeys(disk[d], start, end)))
  <2> HIDE DEF req
  <2>1. disk[d] \in Sources(req.db, req.snap)
    BY <1>1 DEF Sources
  <2>2. \A k, v : Asks(req, k, v)
    BY <1>1 DEF Asks
  <2>3. AnsweredFrom(req, Found(disk[d], RangeKeys(disk[d], start, end)))
    BY <1>1, <1>3, <2>1, <2>2, ToldPairs
  <2> QED
    BY <1>3, <2>3, TellsAnswer
<1> QED
  BY <1>2, <1>3 DEF rpc_range

\* Kinds of scan: by values, by keys, by distance.
LEMMA MatchedFrozen ==
  ASSUME CursorInv, NEW req, NEW S, NEW c \in Sources(req.db, req.snap), Readable(req),
         req.snap \in SnapIds \cup {None}, NEW pattern,
         Matched(req, c, S, pattern),
         \A k \in S : c[k] \in pattern.fits => Asks(req, k, c[k]),
         \A k \in Present(c) : Asks(req, k, c[k]) => k \in S /\ c[k] \in pattern.fits
  PROVE  FrozenStep
<1> DEFINE T == {k \in S : c[k] \in pattern.fits}
<1>1. CASE Dies(req)
  BY <1>1, DiesFrozen
<1>2. AnsweredFrom(req, Found(c, T))
  <2>1. /\ \A k \in T : c[k] # Absent => Asks(req, k, c[k])
        /\ \A k \in Present(c) : Asks(req, k, c[k]) => k \in T
    OBVIOUS
  <2> HIDE DEF T
  <2> QED
    BY <2>1, ToldPairs
<1>3. CASE pattern.ok
  BY <1>2, <1>3, TellsAnswer DEF Matched
<1>4. CASE ~pattern.ok /\ S = {} /\ Tells(req, 200, NoBody)
  <2>1. DOMAIN Found(c, T) = {} /\ DOMAIN NoBody = {}
    BY <1>4, EmptyBody DEF Found
  <2>2. AnsweredFrom(req, NoBody)
    BY <1>2, <2>1 DEF AnsweredFrom
  <2> QED
    BY <1>4, <2>2, TellsAnswer
<1> QED
  BY <1>1, <1>3, <1>4 DEF Matched

LEMMA ValuesFrozen ==
  ASSUME CursorInv, NEW d \in DBs, NEW s \in SnapIds \cup {None}, NEW vp \in ValPatterns,
         rpc_vregex(d, s, vp)
  PROVE  FrozenStep
<1> DEFINE req == Asked("vregex", d, s, <<vp>>)
<1>1. req.op = "vregex" /\ req.db = d /\ req.snap = s /\ req.args[1] = vp
  BY DEF Asked
<1> HIDE DEF req
<1>2. \A k, v : Asks(req, k, v) <=> v \in vp.fits
  BY <1>1 DEF Asks
<1>3. CASE NotScanned(req)
  BY <1>3, DiesFrozen
<1>4. ASSUME Readable(req), NEW c \in Sources(d, s), Matched(req, c, Present(c), vp)
      PROVE  FrozenStep
  BY <1>1, <1>2, <1>4, MatchedFrozen
<1> QED
  BY <1>3, <1>4 DEF rpc_vregex, req

LEMMA KeysFrozen ==
  ASSUME CursorInv, NEW d \in DBs, NEW s \in SnapIds \cup {None}, NEW kp \in KeyPatterns,
         rpc_kregex(d, s, kp)
  PROVE  FrozenStep
<1> DEFINE req == Asked("kregex", d, s, <<kp>>)
<1>1. req.op = "kregex" /\ req.db = d /\ req.snap = s /\ req.args[1] = kp
  BY DEF Asked
<1> HIDE DEF req
<1>2. \A k, v : Asks(req, k, v) <=> k \in kp.fits
  BY <1>1 DEF Asks
<1>3. CASE Dies(req) \/ NotScanned(req)
  BY <1>3, DiesFrozen
<1>4. ASSUME Readable(req), NEW c \in Sources(d, s), Tells(req, 200, Found(c, kp.fits))
      PROVE  FrozenStep
  <2>1. AnsweredFrom(req, Found(c, kp.fits))
    BY <1>1, <1>2, <1>4, ToldPairs
  <2> QED
    BY <1>4, <2>1, TellsAnswer
<1> QED
  BY <1>3, <1>4 DEF rpc_kregex, req

LEMMA PairsFrozen ==
  ASSUME CursorInv, NEW d \in DBs, NEW s \in SnapIds \cup {None}, NEW kp \in KeyPatterns,
         NEW vp \in ValPatterns, rpc_regex(d, s, kp, vp)
  PROVE  FrozenStep
<1> DEFINE req == Asked("regex", d, s, <<kp, vp>>)
<1>1. /\ req.op = "regex" /\ req.db = d /\ req.snap = s
      /\ req.args[1] = kp /\ req.args[2] = vp
  BY DEF Asked
<1> HIDE DEF req
<1>2. \A k, v : Asks(req, k, v) <=> k \in kp.fits /\ v \in vp.fits
  BY <1>1 DEF Asks
<1>3. CASE Dies(req) \/ NotScanned(req)
  BY <1>3, DiesFrozen
<1>4. ASSUME Readable(req), NEW c \in Sources(d, s),
             Matched(req, c, Present(c) \cap kp.fits, vp)
      PROVE  FrozenStep
  BY <1>1, <1>2, <1>4, MatchedFrozen
<1> QED
  BY <1>3, <1>4 DEF rpc_regex, req

LEMMA SimilarFrozen ==
  ASSUME CursorInv, NEW d \in DBs, NEW s \in SnapIds \cup {None}, NEW t, NEW n,
         rpc_ksimilar(d, s, t, n) \/ rpc_vsimilar(d, s, t, n)
  PROVE  FrozenStep
<1>1. ASSUME NEW op \in {"ksimilar", "vsimilar"}, NEW c \in Sources(d, s), NEW S,
             Readable(Asked(op, d, s, <<t, n>>)),
             Tells(Asked(op, d, s, <<t, n>>), 200, Found(c, S))
      PROVE  FrozenStep
  <2> DEFINE req == Asked(op, d, s, <<t, n>>)
  <2>1. req.op = op /\ req.db = d /\ req.snap = s
    BY DEF Asked
  <2> HIDE DEF req
  <2>2. \A k, v : Asks(req, k, v)
    BY <2>1 DEF Asks
  <2>3. AnsweredFrom(req, Found(c, S))
    BY <1>1, <2>1, <2>2, ToldPairs DEF req
  <2> QED
    BY <1>1, <2>3, TellsAnswer DEF req
<1>2. ASSUME NEW op, BadParameter(Asked(op, d, s, <<t, n>>)) \/ NotScanned(Asked(op, d, s, <<t, n>>))
      PROVE  FrozenStep
  <2>1. CASE NotScanned(Asked(op, d, s, <<t, n>>))
    BY <2>1, DiesFrozen
  <2>2. CASE BadParameter(Asked(op, d, s, <<t, n>>))
    BY <2>2 DEF BadParameter, Tells, Says, FrozenStep
  <2> QED
    BY <1>2, <2>1, <2>2
<1>3. Asked("ksimilar", d, s, <<t, n>>).db = d /\ Asked("vsimilar", d, s, <<t, n>>).db = d
      /\ Asked("ksimilar", d, s, <<t, n>>).snap = s /\ Asked("vsimilar", d, s, <<t, n>>).snap = s
  BY DEF Asked
<1>4. CASE rpc_ksimilar(d, s, t, n)
  BY <1>1, <1>2, <1>3, <1>4 DEF rpc_ksimilar, Similar
<1>5. CASE rpc_vsimilar(d, s, t, n)
  BY <1>1, <1>2, <1>3, <1>5 DEF rpc_vsimilar, Similar
<1> QED
  BY <1>4, <1>5

\* The other requests are no scans of pairs.
LEMMA OthersFrozen == ASSUME seen'.req.op \notin Scanning PROVE FrozenStep
BY DEF FrozenStep

LEMMA AskedOp ==
  ASSUME NEW op, NEW d, NEW s, NEW args, NEW code, NEW body,
         Says(Asked(op, d, s, args), code, body)
  PROVE  seen'.req.op = op
BY DEF Says, Asked

LEMMA ToldOp ==
  ASSUME NEW op, NEW d, NEW s, NEW args, NEW code, NEW body,
         \/ Tells(Asked(op, d, s, args), code, body)
         \/ Dies(Asked(op, d, s, args))
         \/ NotScanned(Asked(op, d, s, args))
         \/ BadParameter(Asked(op, d, s, args))
  PROVE  seen'.req.op = op
BY AskedOp DEF Tells, Dies, NotScanned, BadParameter

\* Which request a step that is no range answers.
LEMMA MatchedOp ==
  ASSUME NEW op, NEW d, NEW s, NEW args, NEW c, NEW S, NEW pattern,
         Matched(Asked(op, d, s, args), c, S, pattern)
  PROVE  seen'.req.op = op
BY ToldOp DEF Matched

LEMMA QuestionOps ==
  /\ \A d, a, b : rpc_size(d, a, b) => seen'.req.op = "size"
  /\ \A d, a, b : rpc_compact(d, a, b) => seen'.req.op = "compact"
  /\ \A d, a : rpc_property(d, a) => seen'.req.op = "property"
  /\ \A op : Constant(op) \/ Empty_handler(op) => seen'.req.op = op
BY ToldOp DEF rpc_size, rpc_compact, rpc_property, Constant, Empty_handler

LEMMA PatternOps ==
  /\ \A d, s, p : rpc_kregex(d, s, p) => seen'.req.op = "kregex"
  /\ \A d, s, p : rpc_vregex(d, s, p) => seen'.req.op = "vregex"
  /\ \A d, s, p, q : rpc_regex(d, s, p, q) => seen'.req.op = "regex"
BY ToldOp, MatchedOp DEF rpc_kregex, rpc_vregex, rpc_regex

LEMMA SimilarOps ==
  ASSUME NEW d, NEW s, NEW t, NEW n
  PROVE  /\ rpc_ksimilar(d, s, t, n) => seen'.req.op = "ksimilar"
         /\ rpc_vsimilar(d, s, t, n) => seen'.req.op = "vsimilar"
         /\ \A u, m : rpc_similar(d, s, t, n, u, m) => seen'.req.op = "similar"
<1>1. ASSUME rpc_ksimilar(d, s, t, n) PROVE seen'.req.op = "ksimilar"
  BY <1>1, ToldOp DEF rpc_ksimilar, Similar
<1>2. ASSUME rpc_vsimilar(d, s, t, n) PROVE seen'.req.op = "vsimilar"
  BY <1>2, ToldOp DEF rpc_vsimilar, Similar
<1>3. ASSUME NEW u, NEW m, rpc_similar(d, s, t, n, u, m) PROVE seen'.req.op = "similar"
  BY <1>3, ToldOp DEF rpc_similar, Similar
<1> QED
  BY <1>1, <1>2, <1>3

LEMMA StepIsFrozen == CursorInv /\ ScanNext => FrozenStep
<1> SUFFICES ASSUME CursorInv, ScanNext PROVE FrozenStep
  OBVIOUS
<1>1. CASE seen' = NoScan
  BY <1>1, OthersFrozen DEF NoScan, Asked, Scanning
<1>2. ASSUME NEW op \in {"void", "echo", "head", "version", "report", "status", "clear", "sync"},
             Constant(op) \/ Empty_handler(op)
      PROVE  FrozenStep
  BY <1>2, QuestionOps, OthersFrozen DEF Scanning
<1>3. ASSUME NEW d \in DBs, Scan(d) PROVE FrozenStep
  <2>1. ASSUME NEW start, NEW end, rpc_range(d, start, end) PROVE FrozenStep
    BY <2>1, RangeFrozen
  <2>2. ASSUME NEW a, NEW b, rpc_size(d, a, b) \/ rpc_compact(d, a, b) \/ rpc_property(d, a)
        PROVE  FrozenStep
    BY <2>2, QuestionOps, OthersFrozen DEF Scanning
  <2>3. ASSUME NEW s \in SnapIds \cup {None}, NEW kp \in KeyPatterns, NEW vp \in ValPatterns,
               rpc_kregex(d, s, kp) \/ rpc_vregex(d, s, vp) \/ rpc_regex(d, s, kp, vp)
        PROVE  FrozenStep
    BY <2>3, KeysFrozen, ValuesFrozen, PairsFrozen
  <2>4. ASSUME NEW s \in SnapIds \cup {None}, NEW t, NEW n,
               rpc_ksimilar(d, s, t, n) \/ rpc_vsimilar(d, s, t, n)
        PROVE  FrozenStep
    BY <2>4, SimilarFrozen
  <2>5. ASSUME NEW s, NEW t, NEW n, NEW u, NEW m, rpc_similar(d, s, t, n, u, m)
        PROVE  FrozenStep
    BY <2>5, SimilarOps, OthersFrozen DEF Scanning
  <2>6. KeyPatterns # {} /\ ValPatterns # {}
    BY DEF KeyPatterns, ValPatterns
  <2> QED
    BY <1>3, <2>1, <2>2, <2>3, <2>4, <2>5, <2>6 DEF Scan
<1> QED
  BY <1>1, <1>2, <1>3 DEF ScanNext

\* A scan of a database, or through a snapshot of it, is answered with pairs of
\* its contents then, and one for a pattern with every pair that fits.
THEOREM ScansAreOfTheSource == ScanSpec => ScansAreFrozen
<1>1. CursorInv /\ [ScanNext]_scanVars => [FrozenStep]_scanVars
  BY StepIsFrozen
<1> QED
  BY <1>1, ScanInvariance, PTL DEF ScanSpec, ScansAreFrozen, FrozenStep, AnsweredFrom, Scanning

-----------------------------------------------------------------------------
(* range and remove.                                                       *)

\* range and remove begin at the same pair and stop at the same one.
LEMMA RangeIsSwept ==
  ASSUME NEW c, NEW start \in Keys \cup {NoKey}, NEW end
  PROVE  RangeKeys(c, start, end) = Swept(c, start, end)
<1> DEFINE first == IF start = NoKey THEN Least(Present(c)) ELSE Seek(c, start)
<1>1. Keys \subseteq Nat /\ Off \notin Keys /\ NoKey \notin Keys
  BY StoreAssumption, CursorAssumption
<1>2. ASSUME NEW k \in Present(c)
      PROVE  first # Off /\ k >= first <=> start = NoKey \/ k >= start
  <2>1. k \in Keys
    BY <1>2 DEF Present
  <2>2. CASE start = NoKey
    <3>1. first \in Present(c) /\ first <= k
      BY <2>2, <1>2, LeastIsLeast DEF Present
    <3> QED
      BY <1>1, <2>1, <2>2, <3>1 DEF Present
  <2>3. CASE start # NoKey
    <3> DEFINE S == {j \in Present(c) : j >= start}
    <3>1. first = Least(S) /\ S \subseteq Keys /\ start \in Keys
      BY <2>3 DEF Seek, Present
    <3>2. S # {} => Least(S) \in S /\ \A j \in S : Least(S) <= j
      BY <3>1, LeastIsLeast
    <3>3. S = {} => first = Off
      BY <3>1 DEF Least
    <3>4. CASE k \in S
      BY <1>1, <2>1, <2>3, <3>1, <3>2, <3>4
    <3>5. CASE k \notin S
      <4>1. ~(k >= start)
        BY <1>2, <3>5
      <4>2. ASSUME first # Off PROVE first >= start /\ first \in Keys
        BY <3>1, <3>2, <3>3, <4>2
      <4>3. k \in Nat /\ start \in Nat
        BY <1>1, <2>1, <3>1
      <4> HIDE DEF first
      <4>4. ASSUME first # Off, k >= first PROVE FALSE
        <5>1. first \in Nat /\ first >= start
          BY <1>1, <4>2, <4>4
        <5> QED
          BY <4>1, <4>3, <4>4, <5>1
      <4> QED
        BY <2>3, <4>1, <4>4
    <3> QED
      BY <3>4, <3>5
  <2> QED
    BY <2>2, <2>3
<1> DEFINE from == {k \in Present(c) : first # Off /\ k >= first}
           rest == {k \in Keys : c[k] # Absent /\ (start = NoKey \/ k >= start)}
<1>3. from = rest
  BY <1>2 DEF Present
<1>4. RangeKeys(c, start, end) = {k \in from : end \in from => k < end}
  BY DEF RangeKeys
<1>5. Swept(c, start, end) = {k \in rest : end \in rest => k < end}
  BY DEF Swept
<1> QED
  BY <1>3, <1>4, <1>5

RangeStep ==
  seen'.req.op = "range" /\ seen'.code = 200 =>
    DOMAIN seen'.body = Swept(disk[seen'.req.db], seen'.req.args[1], seen'.req.args[2])

LEMMA RangeShows ==
  ASSUME NEW d \in DBs, NEW start \in Keys \cup {NoKey}, NEW end, rpc_range(d, start, end)
  PROVE  RangeStep
<1> DEFINE req == Asked("range", d, None, <<start, end>>)
           S == RangeKeys(disk[d], start, end)
<1>1. req.db = d /\ req.args[1] = start /\ req.args[2] = end
  BY DEF Asked
<1>2. S \subseteq Present(disk[d])
  BY DEF RangeKeys
<1>3. DOMAIN Found(disk[d], S) = S
  BY <1>2 DEF Found, Present
<1>4. S = Swept(disk[d], start, end)
  BY RangeIsSwept
<1>5. CASE NotScanned(req)
  BY <1>5, NotScannedSteps DEF RangeStep
<1>6. CASE Tells(req, 200, Found(disk[d], S))
  <2>1. seen'.req = req /\ seen'.body = Found(disk[d], S)
    BY <1>6 DEF Tells, Says
  <2> QED
    BY <1>1, <1>3, <1>4, <2>1 DEF RangeStep
<1> QED
  BY <1>5, <1>6 DEF rpc_range

LEMMA StepShowsRange == ScanNext => RangeStep
<1> SUFFICES ASSUME ScanNext PROVE RangeStep
  OBVIOUS
<1>1. CASE seen'.req.op # "range"
  BY <1>1 DEF RangeStep
<1>2. CASE seen' = NoScan
  BY <1>1, <1>2 DEF NoScan, Asked
<1>3. ASSUME NEW op \in {"void", "echo", "head", "version", "report", "status", "clear", "sync"},
             Constant(op) \/ Empty_handler(op)
      PROVE  RangeStep
  BY <1>1, <1>3, QuestionOps
<1>4. ASSUME NEW d \in DBs, Scan(d) PROVE RangeStep
  <2>1. ASSUME NEW a, NEW b, rpc_size(d, a, b) \/ rpc_compact(d, a, b) \/ rpc_property(d, a)
        PROVE  RangeStep
    BY <1>1, <2>1, QuestionOps
  <2>2. ASSUME NEW s, NEW p, NEW q,
               rpc_kregex(d, s, p) \/ rpc_vregex(d, s, p) \/ rpc_regex(d, s, p, q)
        PROVE  RangeStep
    BY <1>1, <2>2, PatternOps
  <2>3. ASSUME NEW s, NEW t, NEW n,
               \/ rpc_ksimilar(d, s, t, n) \/ rpc_vsimilar(d, s, t, n)
               \/ \E u \in Samples, m \in Distances : rpc_similar(d, s, t, n, u, m)
        PROVE  RangeStep
    BY <1>1, <2>3, SimilarOps
  <2> QED
    BY <1>4, <2>1, <2>2, <2>3, RangeShows DEF Scan
<1> QED
  BY <1>2, <1>3, <1>4 DEF ScanNext

\* For any bounds, stored or not, given or not, in order or not, range answers
\* with the keys that remove would delete.
THEOREM RangesAreRemovals == ScanSpec => RangeShowsWhatRemoveTakes
<1>1. [ScanNext]_scanVars => [RangeStep]_scanVars
  BY StepShowsRange
<1> QED
  BY <1>1, PTL DEF ScanSpec, RangeShowsWhatRemoveTakes, RangeStep
=============================================================================
