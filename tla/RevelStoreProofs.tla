-------------------------- MODULE RevelStoreProofs --------------------------
(***************************************************************************)
(* Theorems of RevelStore, for any databases, keys and values.             *)
(*                                                                         *)
(* StoreInv is inductive: a handler of an open instance needs the contents *)
(* of its files to be there (OpenHasFiles) for TypeOK to hold after it,    *)
(* and OpenHasFiles survives a destroy only because a leaked instance      *)
(* never shares its name with an open one (LeakIsUnusable).                *)
(***************************************************************************)
EXTENDS RevelStore, WellFoundedInduction, TLAPS

StoreInv == TypeOK /\ OpenHasFiles /\ LeakIsUnusable

-----------------------------------------------------------------------------
(* What the operators on contents return.                                  *)

\* A value a client sends is a value.
LEMMA WordType == Words \subseteq Values
<1>1. ASSUME NEW c \in Chunks PROVE <<c>> \in Seq(Chunks)
  OBVIOUS
<1> QED
  BY <1>1 DEF Words, Values

\* A database without keys is contents.
LEMMA EmptyType == Empty \in Contents
  BY DEF Empty, Contents

\* Setting or deleting one key gives contents.
LEMMA PutType ==
  ASSUME NEW c \in Contents, NEW k \in Keys, NEW v \in Values \cup {Absent}
  PROVE  Put(c, k, v) \in Contents
  BY DEF Put, Contents

\* Dropping any keys gives contents.
LEMMA WithoutType ==
  ASSUME NEW c \in Contents, NEW S
  PROVE  Without(c, S) \in Contents
  BY DEF Without, Contents

\* Contents are files.
LEMMA ContentsAreFiles == \A c \in Contents : c # NoDb
  BY StoreAssumption

\* Concatenation and insertion at any position stay inside the values.
LEMMA JoinType == \A u, v \in Values : u \o v \in Values
  BY DEF Values

LEMMA InsertAtType ==
  ASSUME NEW u \in Values, NEW v \in Values, NEW pos \in Nat, pos <= Len(u)
  PROVE  InsertAt(u, pos, v) \in Values
<1>1. SubSeq(u, 1, pos) \in Values
  BY DEF Values
<1>2. SubSeq(u, pos + 1, Len(u)) \in Values
  BY DEF Values
<1> QED
  BY <1>1, <1>2, JoinType DEF InsertAt

\* What an insert leaves is a value, wherever its position lies.
LEMMA InsertedType ==
  ASSUME NEW u \in Values, NEW v \in Values, NEW pos \in Int
  PROVE  Inserted(u, pos, v) \subseteq Values
<1>1. CASE pos < 0
  BY <1>1, JoinType DEF Inserted
<1>2. CASE pos >= 0 /\ pos <= Len(u)
  BY <1>2, InsertAtType DEF Inserted
<1>3. CASE pos > Len(u)
  <2>1. \A g \in Chunks : u \o <<g>> \in Values
    BY WordType, JoinType DEF Words
  <2>2. Len(u) \in Nat
    BY DEF Values
  <2>3. ~(pos < 0) /\ ~(pos <= Len(u))
    BY <1>3, <2>2
  <2>4. Inserted(u, pos, v) = {u \o <<g>> : g \in Chunks}
    BY <2>3 DEF Inserted
  <2> QED
    BY <2>1, <2>4
<1>4. Len(u) \in Nat
  BY DEF Values
<1> QED
  BY <1>1, <1>2, <1>3, <1>4

\* A nonempty set of naturals has a least element, and one inside 1..n a
\* greatest: the last write of a batch to a key exists.
LEMMA LeastExists ==
  ASSUME NEW T \in SUBSET Nat, T # {}
  PROVE  \E x \in T : \A y \in T : x <= y
<1> DEFINE R == OpToRel(<, Nat)
<1>1. IsWellFoundedOn(R, Nat)
  BY NatLessThanWellFounded
<1>2. \A x, y \in Nat : x < y => <<x, y>> \in R
  BY DEF OpToRel
<1> HIDE DEF R
<1>3. PICK x \in T : \A y \in T : ~(<<y, x>> \in R)
  BY <1>1, WFMin
<1>4. \A y \in T : ~(y < x) /\ y \in Nat /\ x \in Nat
  BY <1>2, <1>3
<1>5. \A y \in T : x <= y
  BY <1>4
<1> QED
  BY <1>5

LEMMA LastExists ==
  ASSUME NEW n \in Nat, NEW S \in SUBSET (1..n), S # {}
  PROVE  \E m \in S : \A j \in S : j <= m
<1> DEFINE T == {n - i : i \in S}
<1>1. \A i \in S : i \in Int /\ n - i \in Nat
  OBVIOUS
<1>2. T \in SUBSET Nat
  BY <1>1
<1>3. T # {}
  OBVIOUS
<1>4. PICK x \in T : \A y \in T : x <= y
  BY <1>2, <1>3, LeastExists
<1>5. PICK m \in S : x = n - m
  BY <1>4
<1>6. \A j \in S : j <= m
  BY <1>1, <1>4, <1>5
<1> QED
  BY <1>6

\* After n puts every key still has a value or none.
LEMMA PutFirstType ==
  ASSUME NEW c \in Contents, NEW ks, NEW n \in Nat,
         NEW vs, \A i \in 1..n : vs[i] \in Values \cup {Absent}
  PROVE  PutFirst(c, ks, vs, n) \in Contents
<1> SUFFICES ASSUME NEW k \in Keys
             PROVE  PutFirst(c, ks, vs, n)[k] \in Values \cup {Absent}
  BY DEF PutFirst, Contents
<1>1. CASE \E i \in 1..n : ks[i] = k
  <2> DEFINE S == {i \in 1..n : ks[i] = k}
  <2>1. \E m \in S : \A j \in S : j <= m
    BY <1>1, LastExists
  <2>2. \E i \in 1..n : ks[i] = k /\ \A j \in 1..n : ks[j] = k => j <= i
    BY <2>1
  <2>3. vs[CHOOSE i \in 1..n : ks[i] = k /\ \A j \in 1..n : ks[j] = k => j <= i]
          \in Values \cup {Absent}
    BY <2>2
  <2> QED
    BY <1>1, <2>3 DEF PutFirst
<1>2. CASE ~\E i \in 1..n : ks[i] = k
  BY <1>2 DEF PutFirst, Contents
<1> QED
  BY <1>1, <1>2

-----------------------------------------------------------------------------
(* Steps that share a shape keep StoreInv.                                 *)

\* Death keeps no handle, so only the files have to have their type.
LEMMA DieKeeps ==
  ASSUME StoreInv, NEW req, Die(req),
         disk' \in [DBs -> Contents \cup {NoDb}]
  PROVE  StoreInv'
  BY DEF StoreInv, TypeOK, OpenHasFiles, LeakIsUnusable, Die, LoseMemory, Handles

\* A handler that keeps registry and handles and leaves contents behind.
LEMMA WorkKeeps ==
  ASSUME StoreInv, NEW d \in DBs, NEW c \in Contents,
         Stays, SetDisk(d, c), err' \in [DBs -> BOOLEAN]
  PROVE  StoreInv'
<1>1. TypeOK'
  BY DEF StoreInv, TypeOK, Stays, SetDisk
<1>2. \A e \in DBs : disk[e] # NoDb => disk'[e] # NoDb
  BY ContentsAreFiles DEF StoreInv, TypeOK, SetDisk
<1>3. OpenHasFiles' /\ LeakIsUnusable'
  BY <1>2 DEF StoreInv, OpenHasFiles, LeakIsUnusable, Stays
<1> QED
  BY <1>1, <1>3 DEF StoreInv

\* A handler that only answers, or fills or resets the slot.
LEMMA QuietKeeps ==
  ASSUME StoreInv, Stays, UNCHANGED disk, err' \in [DBs -> BOOLEAN]
  PROVE  StoreInv'
  BY DEF StoreInv, TypeOK, OpenHasFiles, LeakIsUnusable, Stays

LEMMA SlotType ==
  ASSUME StoreInv, NEW d \in DBs,
         ResetErr(d) \/ \E fault \in BOOLEAN : KeepErr(d, fault)
  PROVE  err' \in [DBs -> BOOLEAN]
  BY DEF StoreInv, TypeOK, ResetErr, KeepErr

\* An instance that serves has contents to serve.
LEMMA ServedContents ==
  ASSUME StoreInv, NEW d \in DBs, Serving(d)
  PROVE  disk[d] \in Contents
  BY DEF StoreInv, TypeOK, OpenHasFiles, Serving

LEMMA FaultType == Faults \subseteq BOOLEAN
  BY DEF Faults

LEMMA NotServedKeeps ==
  ASSUME StoreInv, NEW req, NotServed(req)
  PROVE  StoreInv'
<1>1. CASE NoSuchDb(req)
  BY <1>1, QuietKeeps DEF NoSuchDb, Stays, StoreInv, TypeOK
<1>2. CASE BadHandle(req)
  BY <1>2, DieKeeps DEF BadHandle, StoreInv, TypeOK
<1> QED
  BY <1>1, <1>2 DEF NotServed

LEMMA MissKeeps ==
  ASSUME StoreInv, NEW d \in DBs, NEW req, NEW k, Miss(d, req, k)
  PROVE  StoreInv'
<1>1. err' \in [DBs -> BOOLEAN]
  BY FaultType, SlotType DEF Miss
<1> QED
  BY <1>1, QuietKeeps DEF Miss

LEMMA WriteKeeps ==
  ASSUME StoreInv, NEW d \in DBs, NEW c \in Contents, NEW fault \in BOOLEAN,
         Serving(d), Stays, Write(d, c, fault), err' \in [DBs -> BOOLEAN]
  PROVE  StoreInv'
<1>1. (IF fault THEN disk[d] ELSE c) \in Contents
  BY ServedContents
<1> QED
  BY <1>1, WorkKeeps DEF Write

LEMMA WriteAndResetKeeps ==
  ASSUME StoreInv, NEW d \in DBs, NEW req, NEW c, NEW ok, NEW body,
         Serving(d) => c \in Contents,
         WriteAndReset(d, req, c, ok, body)
  PROVE  StoreInv'
<1>1. err' \in [DBs -> BOOLEAN]
  BY SlotType DEF WriteAndReset
<1>2. PICK fault \in BOOLEAN : Write(d, c, fault)
  BY FaultType DEF WriteAndReset
<1> QED
  BY <1>1, <1>2, WriteKeeps DEF WriteAndReset

LEMMA WriteAndKeepKeeps ==
  ASSUME StoreInv, NEW d \in DBs, NEW req, NEW c \in Contents,
         WriteAndKeep(d, req, c)
  PROVE  StoreInv'
<1>1. PICK fault \in BOOLEAN : Write(d, c, fault) /\ KeepErr(d, fault)
  BY FaultType DEF WriteAndKeep
<1>2. err' \in [DBs -> BOOLEAN]
  BY <1>1, SlotType
<1> QED
  BY <1>1, <1>2, WriteKeeps DEF WriteAndKeep

-----------------------------------------------------------------------------
(* Handlers that work on one key.                                          *)

LEMMA SetKeeps ==
  ASSUME StoreInv, NEW d \in DBs, NEW k \in Keys, NEW v \in Words,
         rpc_set(d, k, v) \/ rpc_add(d, k, v)
  PROVE  StoreInv'
<1> DEFINE c == Put(disk[d], k, v)
<1>1. PICK req : NotServed(req) \/ WriteAndReset(d, req, c, 200, NoBody)
  BY DEF rpc_set, rpc_add
<1>2. Serving(d) => c \in Contents
  BY ServedContents, PutType, WordType
<1> HIDE DEF c
<1> QED
  BY <1>1, <1>2, NotServedKeeps, WriteAndResetKeeps

LEMMA DelKeeps ==
  ASSUME StoreInv, NEW d \in DBs, NEW k \in Keys, rpc_del(d, k)
  PROVE  StoreInv'
<1> DEFINE c == Put(disk[d], k, Absent)
<1>1. PICK req : NotServed(req) \/ WriteAndReset(d, req, c, 204, NoBody)
  BY DEF rpc_del
<1>2. Serving(d) => c \in Contents
  BY ServedContents, PutType
<1> HIDE DEF c
<1> QED
  BY <1>1, <1>2, NotServedKeeps, WriteAndResetKeeps

\* What append, prepend, replace and insert write is a value.
LEMMA EditKeeps ==
  ASSUME StoreInv, NEW d \in DBs, NEW k \in Keys, NEW req, NEW new \in Values,
         Serving(d), WriteAndKeep(d, req, Put(disk[d], k, new))
  PROVE  StoreInv'
  BY ServedContents, PutType, WriteAndKeepKeeps

LEMMA OldValue ==
  ASSUME StoreInv, NEW d \in DBs, NEW k \in Keys, Serving(d), disk[d][k] # Absent
  PROVE  disk[d][k] \in Values
  BY ServedContents DEF Contents

LEMMA AppendKeeps ==
  ASSUME StoreInv, NEW d \in DBs, NEW k \in Keys, NEW v \in Words,
         \/ rpc_append(d, k, v)
         \/ rpc_prepend(d, k, v)
         \/ rpc_replace(d, k, v)
  PROVE  StoreInv'
<1>1. PICK req :
        \/ NotServed(req)
        \/ Miss(d, req, k)
        \/ Serving(d) /\ disk[d][k] # Absent /\ WriteAndKeep(d, req, Put(disk[d], k, disk[d][k] \o v))
        \/ Serving(d) /\ disk[d][k] # Absent /\ WriteAndKeep(d, req, Put(disk[d], k, v \o disk[d][k]))
        \/ Serving(d) /\ disk[d][k] # Absent /\ WriteAndKeep(d, req, Put(disk[d], k, v))
  BY DEF rpc_append, rpc_prepend, rpc_replace, MayGrow
<1>2. v \in Values
  BY WordType
<1>3. Serving(d) /\ disk[d][k] # Absent =>
        disk[d][k] \o v \in Values /\ v \o disk[d][k] \in Values
  BY <1>2, OldValue, JoinType
<1> QED
  BY <1>1, <1>2, <1>3, NotServedKeeps, MissKeeps, EditKeeps

LEMMA InsertKeeps ==
  ASSUME StoreInv, NEW d \in DBs, NEW k \in Keys, NEW v \in Words,
         NEW pos \in -1..(MaxLen + 1), rpc_insert(d, k, pos, v)
  PROVE  StoreInv'
<1> DEFINE old == disk[d][k]
<1>1. PICK req :
        \/ NotServed(req)
        \/ Miss(d, req, k)
        \/ /\ Serving(d) /\ MayGrow(d, k)
           /\ \/ \E new \in Inserted(old, pos, v) :
                   WriteAndKeep(d, req, Put(disk[d], k, new))
              \/ Die(req) /\ UNCHANGED disk
  BY DEF rpc_insert
<1>2. pos \in Int
  BY StoreAssumption
<1>3. Serving(d) /\ MayGrow(d, k) => Inserted(old, pos, v) \subseteq Values
  BY <1>2, OldValue, WordType, InsertedType DEF MayGrow
<1>4. ASSUME Serving(d), MayGrow(d, k),
             NEW new \in Inserted(old, pos, v), WriteAndKeep(d, req, Put(disk[d], k, new))
      PROVE  StoreInv'
  BY <1>3, <1>4, EditKeeps
<1>5. ASSUME Die(req), UNCHANGED disk PROVE StoreInv'
  BY <1>5, DieKeeps DEF StoreInv, TypeOK
<1> HIDE DEF old
<1> QED
  BY <1>1, <1>4, <1>5, NotServedKeeps, MissKeeps

LEMMA GetKeeps ==
  ASSUME StoreInv, NEW d \in DBs, NEW k \in Keys, rpc_get(d, k)
  PROVE  StoreInv'
<1>1. PICK req : \/ NotServed(req)
                 \/ Miss(d, req, k)
                 \/ UNCHANGED <<proc, handle, err, leaked, disk>>
  BY DEF rpc_get
<1>2. CASE UNCHANGED <<proc, handle, err, leaked, disk>>
  BY <1>2, QuietKeeps DEF Stays, StoreInv, TypeOK
<1> QED
  BY <1>1, <1>2, NotServedKeeps, MissKeeps

LEMMA CasKeeps ==
  ASSUME StoreInv, NEW d \in DBs, NEW k \in Keys, NEW old, NEW new \in Words,
         rpc_cas(d, k, old, new)
  PROVE  StoreInv'
<1> DEFINE c == Put(disk[d], k, new)
           body == Found(disk[d], {k})
<1>1. PICK req : \/ NotServed(req)
                 \/ Miss(d, req, k)
                 \/ WriteAndReset(d, req, c, 200, body)
                 \/ UNCHANGED <<proc, handle, err, leaked, disk>>
  BY DEF rpc_cas
<1>2. Serving(d) => c \in Contents
  BY ServedContents, PutType, WordType
<1>3. CASE UNCHANGED <<proc, handle, err, leaked, disk>>
  BY <1>3, QuietKeeps DEF Stays, StoreInv, TypeOK
<1> HIDE DEF c, body
<1>4. CASE WriteAndReset(d, req, c, 200, body)
  BY <1>2, <1>4, WriteAndResetKeeps
<1> QED
  BY <1>1, <1>3, <1>4, NotServedKeeps, MissKeeps

LEMMA SeizeKeeps ==
  ASSUME StoreInv, NEW d \in DBs, NEW k \in Keys, rpc_seize(d, k)
  PROVE  StoreInv'
<1> DEFINE c == Put(disk[d], k, Absent)
<1>1. PICK req : NotServed(req) \/ Miss(d, req, k) \/ SeizeFound(d, req, k)
  BY DEF rpc_seize
<1>2. CASE SeizeFound(d, req, k)
  <2>1. Serving(d) /\ Stays /\ err' \in [DBs -> BOOLEAN]
    BY <1>2, SlotType DEF SeizeFound
  <2>2. PICK fault \in BOOLEAN : Write(d, c, fault)
    BY <1>2, FaultType DEF SeizeFound
  <2>3. c \in Contents
    BY <2>1, ServedContents, PutType
  <2> HIDE DEF c
  <2> QED
    BY <2>1, <2>2, <2>3, WriteKeeps
<1> QED
  BY <1>1, <1>2, NotServedKeeps, MissKeeps

LEMMA OneKeyKeeps ==
  ASSUME StoreInv, NEW d \in DBs, NEW k \in Keys, OneKey(d, k)
  PROVE  StoreInv'
<1>1. CASE rpc_get(d, k) \/ rpc_del(d, k) \/ rpc_seize(d, k)
  BY <1>1, GetKeeps, DelKeeps, SeizeKeeps
<1>2. ASSUME NEW v \in Words,
             \/ rpc_set(d, k, v)
             \/ rpc_add(d, k, v)
             \/ rpc_append(d, k, v)
             \/ rpc_prepend(d, k, v)
             \/ rpc_replace(d, k, v)
      PROVE  StoreInv'
  BY <1>2, SetKeeps, AppendKeeps
<1>3. ASSUME NEW v \in Words, NEW pos \in -1..(MaxLen + 1), rpc_insert(d, k, pos, v)
      PROVE  StoreInv'
  BY <1>3, InsertKeeps
<1>4. ASSUME NEW v \in Words, NEW old \in Texts, rpc_cas(d, k, old, v)
      PROVE  StoreInv'
  BY <1>4, CasKeeps
<1> QED
  BY <1>1, <1>2, <1>3, <1>4 DEF OneKey

-----------------------------------------------------------------------------
(* Handlers that work on several keys.                                     *)

LEMMA DieWithContents ==
  ASSUME StoreInv, NEW d \in DBs, NEW req, NEW c \in Contents, Die(req), SetDisk(d, c)
  PROVE  StoreInv'
<1>1. disk' \in [DBs -> Contents \cup {NoDb}]
  BY DEF SetDisk, StoreInv, TypeOK
<1> QED
  BY <1>1, DieKeeps

\* The requests whose steps After describes.
IsBatch(req) ==
  /\ req.op \in {"mset", "mdel"}
  /\ Len(req.keys) \in Nat
  /\ DOMAIN req.keys = 1..Len(req.keys)
  /\ req.op = "mset" => \A i \in DOMAIN req.keys : req.vals[i] \in Values

LEMMA AfterType ==
  ASSUME NEW req, IsBatch(req), NEW c \in Contents, NEW n \in 0..Len(req.keys)
  PROVE  After(req, c, n) \in Contents
<1>1. n \in Nat /\ 1..n \subseteq DOMAIN req.keys
  BY DEF IsBatch
<1>2. CASE req.op = "mset"
  <2>1. \A i \in 1..n : req.vals[i] \in Values
    BY <1>1, <1>2 DEF IsBatch
  <2> QED
    BY <1>1, <1>2, <2>1, PutFirstType DEF After
<1>3. CASE req.op # "mset"
  BY <1>3, WithoutType DEF After
<1> QED
  BY <1>2, <1>3

LEMMA ListNotServedKeeps ==
  ASSUME StoreInv, NEW req, ListNotServed(req)
  PROVE  StoreInv'
<1>1. CASE NoKeys(req)
  BY <1>1, QuietKeeps DEF NoKeys, Stays, StoreInv, TypeOK
<1> QED
  BY <1>1, NotServedKeeps DEF ListNotServed, NotServed

LEMMA BatchKeeps ==
  ASSUME StoreInv, NEW d \in DBs, NEW req, IsBatch(req), Batch(d, req)
  PROVE  StoreInv'
<1>1. Serving(d) => \A n \in 0..Len(req.keys) : After(req, disk[d], n) \in Contents
  BY ServedContents, AfterType
<1>2. Len(req.keys) \in 0..Len(req.keys)
  BY DEF IsBatch
<1>3. CASE BatchDone(d, req)
  <2>1. Stays /\ err' \in [DBs -> BOOLEAN]
    BY <1>3 DEF BatchDone, Stays, StoreInv, TypeOK
  <2> QED
    BY <1>1, <1>2, <1>3, <2>1, WorkKeeps DEF BatchDone
<1>4. CASE BatchStopped(d, req)
  <2>1. Serving(d) /\ Stays /\ err' \in [DBs -> BOOLEAN]
    BY <1>4, SlotType DEF BatchStopped
  <2>2. PICK n \in DOMAIN req.keys, fault \in Faults :
          SetDisk(d, After(req, disk[d], IF fault THEN n - 1 ELSE n))
    BY <1>4 DEF BatchStopped
  <2>3. (IF fault THEN n - 1 ELSE n) \in 0..Len(req.keys)
    BY DEF IsBatch
  <2> QED
    BY <1>1, <2>1, <2>2, <2>3, WorkKeeps
<1>5. CASE BatchKilled(d, req)
  BY <1>1, <1>5, DieWithContents DEF BatchKilled
<1> QED
  BY <1>3, <1>4, <1>5, ListNotServedKeeps DEF Batch

LEMMA DeleteType ==
  ASSUME StoreInv, NEW d \in DBs, NEW S, Serving(d), Delete(d, S)
  PROVE  \E c \in Contents : SetDisk(d, c)
  BY ServedContents, WithoutType DEF Delete

LEMMA MgetKeeps ==
  ASSUME StoreInv, NEW d \in DBs, NEW ks, rpc_mget(d, ks)
  PROVE  StoreInv'
<1>1. PICK req : ListNotServed(req) \/ (Stays /\ UNCHANGED disk /\ \E F : KeepErr(d, F # {}))
  BY DEF rpc_mget
<1>2. CASE Stays /\ UNCHANGED disk /\ \E F : KeepErr(d, F # {})
  <2>1. err' \in [DBs -> BOOLEAN]
    BY <1>2, SlotType
  <2> QED
    BY <1>2, <2>1, QuietKeeps
<1> QED
  BY <1>1, <1>2, ListNotServedKeeps

LEMMA MseizeKeeps ==
  ASSUME StoreInv, NEW d \in DBs, NEW ks, rpc_mseize(d, ks)
  PROVE  StoreInv'
<1>1. PICK req : ListNotServed(req) \/ Seized(d, req, ks) \/ SeizeKilled(d, req, ks)
  BY DEF rpc_mseize
<1>2. CASE Seized(d, req, ks)
  <2>1. PICK F : /\ Delete(d, At(ks, Hits(d, ks, F)))
                 /\ err' = [err EXCEPT ![d] =
                      \/ Hits(d, ks, F) = {} /\ @
                      \/ \E i \in F : \A h \in Hits(d, ks, F) : h < i]
    BY <1>2 DEF Seized
  <2>2. err' \in [DBs -> BOOLEAN]
    BY <2>1 DEF StoreInv, TypeOK
  <2>3. Serving(d) /\ Stays
    BY <1>2 DEF Seized
  <2> QED
    BY <2>1, <2>2, <2>3, DeleteType, WorkKeeps
<1>3. CASE SeizeKilled(d, req, ks)
  BY <1>3, DeleteType, DieWithContents DEF SeizeKilled
<1> QED
  BY <1>1, <1>2, <1>3, ListNotServedKeeps

LEMMA RemoveKeeps ==
  ASSUME StoreInv, NEW d \in DBs, NEW start, NEW end, rpc_remove(d, start, end)
  PROVE  StoreInv'
<1>1. PICK req : \/ NotServed(req)
                 \/ Removed(d, req, start, end)
                 \/ RemoveKilled(d, req, start, end)
  BY DEF rpc_remove
<1>2. CASE Removed(d, req, start, end)
  <2>1. Serving(d) /\ Stays /\ \E S : Delete(d, S)
    BY <1>2 DEF Removed
  <2>2. err' \in [DBs -> BOOLEAN]
    BY <1>2, SlotType DEF Removed, StoreInv, TypeOK
  <2> QED
    BY <2>1, <2>2, DeleteType, WorkKeeps
<1>3. CASE RemoveKilled(d, req, start, end)
  <2>1. Serving(d) /\ Die(req) /\ \E S : Delete(d, S)
    BY <1>3 DEF RemoveKilled
  <2> QED
    BY <2>1, DeleteType, DieWithContents
<1> QED
  BY <1>1, <1>2, <1>3, NotServedKeeps

\* A batch is put or taken back key by key before it is written.
LEMMA CommitKeeps ==
  ASSUME StoreInv, NEW d \in DBs, NEW ks \in KeyLists,
         NEW vs \in [DOMAIN ks -> Words \cup {Absent}],
         rpc_writebatch_commit(d, ks, vs)
  PROVE  StoreInv'
<1> DEFINE c == PutFirst(disk[d], ks, vs, Len(ks))
<1>1. PICK req : NotServed(req) \/ WriteAndReset(d, req, c, 200, NoBody)
  BY DEF rpc_writebatch_commit
<1>2. Len(ks) \in Nat /\ DOMAIN ks = 1..Len(ks)
  BY StoreAssumption
<1>3. \A i \in 1..Len(ks) : vs[i] \in Values \cup {Absent}
  BY <1>2, WordType
<1>4. Serving(d) => c \in Contents
  BY <1>2, <1>3, ServedContents, PutFirstType
<1> HIDE DEF c
<1> QED
  BY <1>1, <1>4, NotServedKeeps, WriteAndResetKeeps

LEMMA ManyKeysKeeps ==
  ASSUME StoreInv, NEW d \in DBs, ManyKeys(d)
  PROVE  StoreInv'
<1>1. ASSUME NEW ks \in KeyLists, rpc_mget(d, ks) \/ rpc_mseize(d, ks)
      PROVE  StoreInv'
  BY <1>1, MgetKeeps, MseizeKeeps
<1>2. ASSUME NEW ks \in KeyLists, rpc_mdel(d, ks)
      PROVE  StoreInv'
  <2>1. IsBatch(Request("mdel", d, ks, <<>>))
    BY StoreAssumption DEF IsBatch, Request, RequestAt
  <2> QED
    BY <1>2, <2>1, BatchKeeps DEF rpc_mdel
<1>3. ASSUME NEW ks \in KeyLists, NEW vs \in [DOMAIN ks -> Words], rpc_mset(d, ks, vs)
      PROVE  StoreInv'
  <2>1. IsBatch(Request("mset", d, ks, vs))
    BY StoreAssumption, WordType DEF IsBatch, Request, RequestAt
  <2> QED
    BY <1>3, <2>1, BatchKeeps DEF rpc_mset
<1>4. ASSUME NEW ks \in KeyLists, NEW vs \in [DOMAIN ks -> Words \cup {Absent}],
             rpc_writebatch_commit(d, ks, vs)
      PROVE  StoreInv'
  BY <1>4, CommitKeeps
<1>5. ASSUME NEW start, NEW end, rpc_remove(d, start, end)
      PROVE  StoreInv'
  BY <1>5, RemoveKeeps
<1> QED
  BY <1>1, <1>2, <1>3, <1>4, <1>5 DEF ManyKeys

-----------------------------------------------------------------------------
(* Administration, death and restart.                                      *)

\* Whatever the name's record was, an opened instance has its files, and it
\* leaks only when the registered handle is unusable.
LEMMA OpenDoneKeeps ==
  ASSUME StoreInv, NEW d \in DBs, NEW req, OpenDone(d, req)
  PROVE  StoreInv'
<1>1. disk'[d] \in Contents /\ \A e \in DBs : disk[e] # NoDb => disk'[e] # NoDb
  BY EmptyType, ContentsAreFiles DEF OpenDone, Created, StoreInv, TypeOK
<1>2. TypeOK'
  BY EmptyType DEF OpenDone, Created, StoreInv, TypeOK, Handles
<1>3. OpenHasFiles'
  BY <1>1, ContentsAreFiles DEF OpenDone, StoreInv, TypeOK, OpenHasFiles
<1>4. LeakIsUnusable'
  BY DEF OpenDone, Locked, StoreInv, TypeOK, LeakIsUnusable, Handles
<1> QED
  BY <1>2, <1>3, <1>4 DEF StoreInv

LEMMA OpenFailedKeeps ==
  ASSUME StoreInv, NEW d \in DBs, NEW req, OpenFailed(d, req)
  PROVE  StoreInv'
<1>1. CASE Die(req) /\ UNCHANGED disk
  BY <1>1, DieKeeps DEF StoreInv, TypeOK
<1>2. CASE /\ handle' = [handle EXCEPT ![d] = IF @ = "none" THEN "null" ELSE @]
           /\ proc' = "up"
           /\ UNCHANGED <<err, leaked, disk>>
  <2>1. TypeOK'
    BY <1>2 DEF StoreInv, TypeOK, Handles
  <2>2. OpenHasFiles' /\ LeakIsUnusable'
    BY <1>2 DEF StoreInv, TypeOK, OpenHasFiles, LeakIsUnusable
  <2> QED
    BY <2>1, <2>2 DEF StoreInv
<1> QED
  BY <1>1, <1>2 DEF OpenFailed

\* destroy may remove the files: the handle is closed by then, and no leaked
\* instance of the same name exists.
LEMMA DestroyKeeps ==
  ASSUME StoreInv, NEW d \in DBs, rpc_destroy(d)
  PROVE  StoreInv'
<1>1. CASE DestroyOpen(d)
  <2>1. PICK failed \in Faults :
          /\ DestroyFiles(d, failed)
          /\ handle' = [handle EXCEPT ![d] = IF failed \/ err[d] THEN "closed" ELSE "none"]
    BY <1>1 DEF DestroyOpen
  <2>2. err' \in [DBs -> BOOLEAN]
    BY <1>1, SlotType DEF DestroyOpen
  <2>3. TypeOK'
    BY <1>1, <2>1, <2>2 DEF DestroyOpen, DestroyFiles, SetDisk, StoreInv, TypeOK, Handles
  <2>4. ~leaked[d]
    BY <1>1 DEF DestroyOpen, Serving, StoreInv, LeakIsUnusable
  <2>5. \A e \in DBs \ {d} : disk'[e] = disk[e] /\ handle'[e] = handle[e]
    BY <2>1 DEF DestroyFiles, SetDisk, StoreInv, TypeOK
  <2>6. handle'[d] \in {"closed", "none"} /\ leaked' = leaked
    BY <1>1, <2>1 DEF DestroyOpen, StoreInv, TypeOK
  <2>7. OpenHasFiles' /\ LeakIsUnusable'
    BY <2>4, <2>5, <2>6 DEF StoreInv, OpenHasFiles, LeakIsUnusable
  <2> QED
    BY <2>3, <2>7 DEF StoreInv
<1> QED
  BY <1>1, NotServedKeeps DEF rpc_destroy, NotServed

LEMMA RepairKeeps ==
  ASSUME StoreInv, NEW d \in DBs, rpc_repair(d)
  PROVE  StoreInv'
<1>1. CASE RepairFiles(d)
  <2>1. Stays /\ err' \in [DBs -> BOOLEAN]
    BY <1>1, SlotType DEF RepairFiles
  <2>2. UNCHANGED disk \/ \E c \in Contents : SetDisk(d, c)
    BY <1>1, WithoutType DEF RepairFiles, StoreInv, TypeOK
  <2> QED
    BY <2>1, <2>2, QuietKeeps, WorkKeeps
<1> QED
  BY <1>1, NotServedKeeps DEF rpc_repair, NotServed

LEMMA AdministerKeeps ==
  ASSUME StoreInv, NEW d \in DBs, Administer(d)
  PROVE  StoreInv'
<1>1. CASE rpc_new(d)
  BY <1>1, OpenDoneKeeps, OpenFailedKeeps DEF rpc_new
<1> QED
  BY <1>1, DestroyKeeps, RepairKeeps DEF Administer

LEMMA StoreInvInit == Init => StoreInv
  BY DEF Init, StoreInv, TypeOK, OpenHasFiles, LeakIsUnusable, Handles

LEMMA StoreInvStep == StoreInv /\ [Next]_vars => StoreInv'
<1> SUFFICES ASSUME StoreInv, [Next]_vars PROVE StoreInv'
  OBVIOUS
<1>1. CASE Start
  BY <1>1, StoreAssumption, OpenDoneKeeps, OpenFailedKeeps DEF Start
<1>2. CASE Killed
  BY <1>2, DieKeeps DEF Killed, StoreInv, TypeOK
<1>3. CASE RepairUnnamed
  <2>1. ASSUME NEW req, Die(req), UNCHANGED disk PROVE StoreInv'
    BY <2>1, DieKeeps DEF StoreInv, TypeOK
  <2>2. CASE UNCHANGED <<proc, handle, err, leaked, disk>>
    BY <2>2, QuietKeeps DEF Stays, StoreInv, TypeOK
  <2> QED
    BY <1>3, <2>1, <2>2 DEF RepairUnnamed
<1>4. ASSUME NEW d \in DBs, Administer(d) PROVE StoreInv'
  BY <1>4, AdministerKeeps
<1>5. ASSUME NEW d \in DBs, ManyKeys(d) PROVE StoreInv'
  BY <1>5, ManyKeysKeeps
<1>6. ASSUME NEW d \in DBs, BadRequest(d) \/ BadPost(d) PROVE StoreInv'
  BY <1>6, QuietKeeps DEF BadRequest, BadPost, Stays, StoreInv, TypeOK
<1>7. ASSUME NEW d \in DBs, NEW k \in Keys, OneKey(d, k) PROVE StoreInv'
  BY <1>7, OneKeyKeeps
<1>8. CASE UNCHANGED vars
  BY <1>8, QuietKeeps DEF vars, Stays, StoreInv, TypeOK
<1> QED
  BY <1>1, <1>2, <1>3, <1>4, <1>5, <1>6, <1>7, <1>8 DEF Next

-----------------------------------------------------------------------------
\* Every state has its type: in particular every value ever stored is made of
\* what clients sent, for any number of databases, keys and chunks.
THEOREM TypeCorrect == Spec => []TypeOK
<1>1. StoreInv => TypeOK
  BY DEF StoreInv
<1> QED
  BY <1>1, StoreInvInit, StoreInvStep, PTL DEF Spec

\* rpc_destroy and rpc_new never leave an instance open on removed files.
THEOREM OpenKeepsFiles == Spec => []OpenHasFiles
<1>1. StoreInv => OpenHasFiles
  BY DEF StoreInv
<1> QED
  BY <1>1, StoreInvInit, StoreInvStep, PTL DEF Spec

\* rpc_new leaks an instance only behind an unusable handle.
THEOREM LeaksAreUnusable == Spec => []LeakIsUnusable
<1>1. StoreInv => LeakIsUnusable
  BY DEF StoreInv
<1> QED
  BY <1>1, StoreInvInit, StoreInvStep, PTL DEF Spec

=============================================================================
