------------------------- MODULE RevelBatchesProofs -------------------------
(***************************************************************************)
(* Theorems of RevelBatches, for any databases, keys, batches and values.  *)
(*                                                                         *)
(* CommitTakesBatch compares a database with what the client asked for.    *)
(* It needs WishKept: the list a batch has collected holds, at the last    *)
(* place of every key, what the client last asked of that key.             *)
(***************************************************************************)
EXTENDS RevelBatches, RevelStoreProofs

Place(batch, k, i) ==
  /\ i \in DOMAIN batch.keys /\ batch.keys[i] = k
  /\ \A j \in DOMAIN batch.keys : batch.keys[j] = k => j <= i

Holds(batch, wish, k) ==
  \/ wish = NoKey /\ \A i \in DOMAIN batch.keys : batch.keys[i] # k
  \/ wish # NoKey /\ \E i \in DOMAIN batch.keys : Place(batch, k, i) /\ batch.vals[i] = wish

WishKept ==
  \A b \in BatchIds, k \in Keys : batches[b] # NoBatch => Holds(batches[b], asked[b][k], k)

BatchInv == StoreInv /\ BatchTypeOK /\ WishKept

\* What BatchTypeOK says of one batch.
Collection == [keys : KeyLists, vals : Seq(Words \cup {Absent})]

LEMMA BatchShape ==
  ASSUME BatchTypeOK, NEW b \in BatchIds, batches[b] # NoBatch
  PROVE  /\ batches[b] \in Collection
         /\ batches[b].keys \in Seq(Keys)
         /\ batches[b].vals \in [DOMAIN batches[b].keys -> Words \cup {Absent}]
         /\ DOMAIN batches[b].keys = 1..Len(batches[b].keys)
<1>1. batches[b] \in Collection
  BY DEF BatchTypeOK, Collection
<1>2. batches[b].keys \in KeyLists /\ batches[b].vals \in Seq(Words \cup {Absent})
  BY <1>1 DEF Collection
<1>3. batches[b].keys \in Seq(Keys)
  BY <1>2, StoreAssumption
<1>4. DOMAIN batches[b].keys = 1..Len(batches[b].keys)
  BY <1>3
<1>5. Len(batches[b].keys) = Len(batches[b].vals)
  BY DEF BatchTypeOK
<1>6. batches[b].vals \in [DOMAIN batches[b].keys -> Words \cup {Absent}]
  BY <1>2, <1>4, <1>5
<1> QED
  BY <1>1, <1>3, <1>4, <1>6

-----------------------------------------------------------------------------
(* A step of the batches is a step of the store or leaves it alone.        *)

LEMMA StoreSteps ==
  ASSUME BatchTypeOK, [BatchNext]_allVars
  PROVE  [Next]_vars
<1>1. CASE StoreStep
  BY <1>1 DEF StoreStep, Next, Administer, OneKey
<1>2. ASSUME NEW b \in BatchIds, NEW d \in DBs, batches[b] # NoBatch,
             rpc_writebatch_commit(d, batches[b].keys, batches[b].vals)
      PROVE  Next
  <2>1. ManyKeys(d)
    BY <1>2, BatchShape DEF ManyKeys, Collection
  <2> QED
    BY <2>1 DEF Next
<1>3. ASSUME NEW b \in BatchIds, BatchStep(b)
      PROVE  [Next]_vars
  <2>1. ASSUME NEW op, NoSuchBatch(op, b) PROVE UNCHANGED vars
    BY <2>1 DEF NoSuchBatch, StoreStays
  <2>2. ASSUME NEW op, NEW k, NEW v, Collect(op, b, k, v) PROVE UNCHANGED vars
    BY <2>2 DEF Collect, StoreStays
  <2>3. ASSUME NEW d \in DBs, writebatch_new(d, b) PROVE UNCHANGED vars
    BY <2>3 DEF writebatch_new, StoreStays
  <2>4. ASSUME NEW d \in DBs, writebatch_commit(d, b) PROVE [Next]_vars
    BY <2>4, <2>1, <1>2 DEF writebatch_commit
  <2>5. ASSUME writebatch_clear(b) PROVE UNCHANGED vars
    BY <2>5, <2>1 DEF writebatch_clear, StoreStays
  <2>6. ASSUME NEW param, writebatch_destroy(b, param) PROVE UNCHANGED vars
    BY <2>6, <2>1 DEF writebatch_destroy, StoreStays
  <2>7. ASSUME NEW k, writebatch_del(b, k) \/ \E v \in Words : writebatch_put(b, k, v)
        PROVE  UNCHANGED vars
    BY <2>7, <2>1, <2>2 DEF writebatch_del, writebatch_put
  <2> QED
    BY <1>3, <2>3, <2>4, <2>5, <2>6, <2>7 DEF BatchStep
<1>4. CASE UNCHANGED allVars
  BY <1>4 DEF allVars, vars
<1> QED
  BY <1>1, <1>3, <1>4 DEF BatchNext

-----------------------------------------------------------------------------
(* The batches keep BatchInv.                                              *)

\* An empty batch holds nothing, and nothing was asked of it.
LEMMA EmptyHolds ==
  /\ EmptyBatch \in Collection
  /\ NoWish \in [Keys -> Words \cup {Absent, NoKey}]
  /\ \A k \in Keys : Holds(EmptyBatch, NoWish[k], k)
  BY BatchAssumption DEF EmptyBatch, NoWish, Collection, Holds

\* Collecting v for k makes v the last entry of k and leaves the others' last.
LEMMA CollectedHolds ==
  ASSUME NEW batch \in Collection, Len(batch.keys) = Len(batch.vals),
         NEW k \in Keys, NEW v \in Words \cup {Absent},
         NEW wish \in [Keys -> Words \cup {Absent, NoKey}],
         \A j \in Keys : Holds(batch, wish[j], j)
  PROVE  \A j \in Keys : Holds(Collected(batch, k, v), [wish EXCEPT ![k] = v][j], j)
<1> DEFINE ks == batch.keys
           vs == batch.vals
           new == Collected(batch, k, v)
           n == Len(ks) + 1
<1>1. ks \in Seq(Keys) /\ vs \in Seq(Words \cup {Absent})
  BY StoreAssumption DEF Collection
<1>2. /\ DOMAIN ks = 1..Len(ks)
      /\ DOMAIN new.keys = 1..n
      /\ new.keys[n] = k /\ new.vals[n] = v
      /\ \A i \in 1..Len(ks) : new.keys[i] = ks[i] /\ new.vals[i] = vs[i]
  BY <1>1 DEF Collected
<1>3. Len(ks) \in Nat
  BY <1>1
<1> HIDE DEF new
<1> TAKE j \in Keys
<1>4. CASE j = k
  <2>1. Place(new, j, n) /\ new.vals[n] = v
    BY <1>2, <1>3, <1>4 DEF Place
  <2>2. v # NoKey
    BY BatchAssumption
  <2> QED
    BY <1>2, <1>4, <2>1, <2>2 DEF Holds, Place, new
<1>5. CASE j # k
  <2>1. [wish EXCEPT ![k] = v][j] = wish[j]
    BY <1>5
  <2>2. CASE wish[j] = NoKey /\ \A i \in DOMAIN ks : ks[i] # j
    <3>1. \A i \in DOMAIN new.keys : new.keys[i] # j
      BY <1>2, <1>3, <1>5, <2>2
    <3> QED
      BY <2>1, <2>2, <3>1 DEF Holds, new
  <2>3. ASSUME wish[j] # NoKey, NEW i \in DOMAIN ks, Place(batch, j, i), vs[i] = wish[j]
        PROVE  Holds(new, wish[j], j)
    <3>1. i \in 1..Len(ks) /\ i \in 1..n
      BY <1>2, <1>3
    <3>2. \A l \in 1..n : new.keys[l] = j => l \in 1..Len(ks) /\ ks[l] = j
      BY <1>2, <1>3, <1>5
    <3>3. Place(new, j, i)
      BY <1>2, <2>3, <3>1, <3>2 DEF Place
    <3>4. new.vals[i] = wish[j]
      BY <1>2, <2>3, <3>1
    <3> QED
      BY <1>2, <2>3, <3>1, <3>3, <3>4 DEF Holds
  <2>4. Holds(batch, wish[j], j)
    OBVIOUS
  <2>5. \/ wish[j] = NoKey /\ \A i \in DOMAIN ks : ks[i] # j
        \/ wish[j] # NoKey /\ \E i \in DOMAIN ks : Place(batch, j, i) /\ vs[i] = wish[j]
    BY <2>4 DEF Holds
  <2>6. Holds(new, wish[j], j)
    <3>1. CASE wish[j] = NoKey /\ \A i \in DOMAIN ks : ks[i] # j
      BY <2>1, <2>2, <3>1 DEF new
    <3> QED
      BY <2>3, <2>5, <3>1
  <2> QED
    BY <2>1, <2>6 DEF new
<1> QED
  BY <1>4, <1>5 DEF new

LEMMA BatchInvInit == BatchInit => BatchInv
<1> SUFFICES ASSUME BatchInit PROVE BatchInv
  OBVIOUS
<1>1. StoreInv
  BY StoreInvInit DEF BatchInit
<1>2. BatchTypeOK
  BY EmptyHolds DEF BatchInit, BatchTypeOK
<1>3. WishKept
  BY DEF BatchInit, WishKept
<1> QED
  BY <1>1, <1>2, <1>3 DEF BatchInv

\* The two parts about batches, given what happens to each of them.
Fit(b) ==
  \/ batches'[b] = NoBatch
  \/ /\ batches'[b] \in Collection
     /\ Len(batches'[b].keys) = Len(batches'[b].vals)
     /\ \A k \in Keys : Holds(batches'[b], asked'[b][k], k)

LEMMA FitKeeps ==
  ASSUME batches' \in [BatchIds -> Collection \cup {NoBatch}],
         asked' \in [BatchIds -> [Keys -> Words \cup {Absent, NoKey}]],
         \A b \in BatchIds : Fit(b)
  PROVE  BatchTypeOK' /\ WishKept'
  BY DEF Fit, BatchTypeOK, WishKept, Collection

LEMMA AllFit ==
  ASSUME BatchInv
  PROVE  /\ batches \in [BatchIds -> Collection \cup {NoBatch}]
         /\ asked \in [BatchIds -> [Keys -> Words \cup {Absent, NoKey}]]
         /\ \A b \in BatchIds : batches[b] # NoBatch =>
              /\ batches[b] \in Collection
              /\ Len(batches[b].keys) = Len(batches[b].vals)
              /\ \A k \in Keys : Holds(batches[b], asked[b][k], k)
  BY DEF BatchInv, BatchTypeOK, WishKept, Collection

LEMMA SameKeeps ==
  ASSUME BatchInv, UNCHANGED <<batches, asked>>
  PROVE  BatchTypeOK' /\ WishKept'
  BY AllFit, FitKeeps DEF Fit

LEMMA LostKeeps ==
  ASSUME LoseBatches
  PROVE  BatchTypeOK' /\ WishKept'
  BY EmptyHolds, FitKeeps DEF LoseBatches, Fit

\* One batch is made, cleared, extended or destroyed.
LEMMA OneKeeps ==
  ASSUME BatchInv, NEW b \in BatchIds,
         NEW batch \in Collection \cup {NoBatch},
         NEW wish \in [Keys -> Words \cup {Absent, NoKey}],
         batch # NoBatch =>
           Len(batch.keys) = Len(batch.vals) /\ \A k \in Keys : Holds(batch, wish[k], k),
         batches' = [batches EXCEPT ![b] = batch],
         asked' = [asked EXCEPT ![b] = wish]
  PROVE  BatchTypeOK' /\ WishKept'
<1>1. \A c \in BatchIds : Fit(c)
  BY AllFit DEF Fit
<1> QED
  BY <1>1, AllFit, FitKeeps

LEMMA CollectKeeps ==
  ASSUME BatchInv, NEW op, NEW b \in BatchIds, NEW k \in Keys,
         NEW v \in Words \cup {Absent}, Collect(op, b, k, v)
  PROVE  BatchTypeOK' /\ WishKept'
<1> DEFINE new == Collected(batches[b], k, v)
           wish == [asked[b] EXCEPT ![k] = v]
<1>1. /\ batches[b] \in Collection
      /\ Len(batches[b].keys) = Len(batches[b].vals)
      /\ asked[b] \in [Keys -> Words \cup {Absent, NoKey}]
      /\ \A j \in Keys : Holds(batches[b], asked[b][j], j)
  BY AllFit DEF Collect
<1>2. batches[b].keys \in Seq(Keys) /\ batches[b].vals \in Seq(Words \cup {Absent})
  BY <1>1, StoreAssumption DEF Collection
<1>3. new \in Collection /\ Len(new.keys) = Len(new.vals)
  BY <1>1, <1>2 DEF Collect, Collected, Collection
<1>4. \A j \in Keys : Holds(new, wish[j], j)
  BY <1>1, CollectedHolds
<1>5. batches' = [batches EXCEPT ![b] = new] /\ asked' = [asked EXCEPT ![b] = wish]
  BY AllFit DEF Collect
<1>6. wish \in [Keys -> Words \cup {Absent, NoKey}]
  BY <1>1
<1> HIDE DEF new, wish
<1> QED
  BY <1>3, <1>4, <1>5, <1>6, OneKeeps

LEMMA BatchStepKeeps ==
  ASSUME BatchInv, NEW b \in BatchIds, BatchStep(b)
  PROVE  BatchTypeOK' /\ WishKept'
<1>1. ASSUME NEW op, NoSuchBatch(op, b) PROVE BatchTypeOK' /\ WishKept'
  BY <1>1, SameKeeps DEF NoSuchBatch
<1>2. ASSUME batches' = [batches EXCEPT ![b] = EmptyBatch], asked' = [asked EXCEPT ![b] = NoWish]
      PROVE  BatchTypeOK' /\ WishKept'
  <2>1. Len(EmptyBatch.keys) = Len(EmptyBatch.vals)
    BY DEF EmptyBatch
  <2> QED
    BY <1>2, <2>1, EmptyHolds, OneKeeps
<1>3. ASSUME NEW d \in DBs, writebatch_new(d, b) PROVE BatchTypeOK' /\ WishKept'
  BY <1>3, <1>2, SameKeeps DEF writebatch_new
<1>4. ASSUME NEW d \in DBs, writebatch_commit(d, b) PROVE BatchTypeOK' /\ WishKept'
  BY <1>4, <1>1, SameKeeps, LostKeeps DEF writebatch_commit, KeepBatches
<1>5. ASSUME writebatch_clear(b) PROVE BatchTypeOK' /\ WishKept'
  BY <1>5, <1>1, <1>2 DEF writebatch_clear
<1>6. ASSUME NEW param, writebatch_destroy(b, param) PROVE BatchTypeOK' /\ WishKept'
  <2>1. CASE batches' = [batches EXCEPT ![b] = NoBatch] /\ asked' = [asked EXCEPT ![b] = NoWish]
    BY <2>1, EmptyHolds, OneKeeps
  <2> QED
    BY <1>6, <1>1, <2>1, SameKeeps DEF writebatch_destroy
<1>7. ASSUME NEW k \in Keys, writebatch_del(b, k) \/ \E v \in Words : writebatch_put(b, k, v)
      PROVE  BatchTypeOK' /\ WishKept'
  BY <1>7, <1>1, CollectKeeps DEF writebatch_del, writebatch_put
<1> QED
  BY <1>3, <1>4, <1>5, <1>6, <1>7 DEF BatchStep

LEMMA BatchInvStep == BatchInv /\ [BatchNext]_allVars => BatchInv'
<1> SUFFICES ASSUME BatchInv, [BatchNext]_allVars PROVE BatchInv'
  OBVIOUS
<1>1. StoreInv'
  BY StoreSteps, StoreInvStep DEF BatchInv
<1>2. ASSUME StoreStep PROVE BatchTypeOK' /\ WishKept'
  BY <1>2, SameKeeps, LostKeeps DEF StoreStep, KeepBatches
<1>3. ASSUME UNCHANGED allVars PROVE BatchTypeOK' /\ WishKept'
  BY <1>3, SameKeeps DEF allVars
<1>4. BatchTypeOK' /\ WishKept'
  BY <1>2, <1>3, BatchStepKeeps DEF BatchNext
<1> QED
  BY <1>1, <1>4 DEF BatchInv

-----------------------------------------------------------------------------
(* What a commit leaves.                                                   *)

Whole(wish, c) == [k \in Keys |-> IF wish[k] = NoKey THEN c[k] ELSE wish[k]]

\* The collected list, applied in order, gives every key the client's last wish.
LEMMA AppliedIsWhole ==
  ASSUME NEW batch, NEW wish, NEW c, NEW n \in Nat, DOMAIN batch.keys = 1..n,
         \A k \in Keys : Holds(batch, wish[k], k)
  PROVE  PutFirst(c, batch.keys, batch.vals, n) = Whole(wish, c)
<1> SUFFICES ASSUME NEW k \in Keys
             PROVE  PutFirst(c, batch.keys, batch.vals, n)[k] = Whole(wish, c)[k]
  BY DEF PutFirst, Whole
<1> DEFINE ks == batch.keys
           Last(i) == i \in 1..n /\ ks[i] = k /\ \A j \in 1..n : ks[j] = k => j <= i
<1>1. CASE wish[k] = NoKey
  <2>1. ~\E i \in 1..n : ks[i] = k
    BY <1>1 DEF Holds
  <2> QED
    BY <1>1, <2>1 DEF PutFirst, Whole
<1>2. CASE wish[k] # NoKey
  <2>1. PICK i : Last(i) /\ batch.vals[i] = wish[k]
    BY <1>2 DEF Holds, Place
  <2>2. \A j \in 1..n : Last(j) => j = i
    BY <2>1
  <2>3. (CHOOSE j \in 1..n : ks[j] = k /\ \A l \in 1..n : ks[l] = k => l <= j) = i
    BY <2>1, <2>2
  <2> QED
    BY <1>2, <2>1, <2>3 DEF PutFirst, Whole
<1> QED
  BY <1>1, <1>2

\* What the shape of a resetting write does to the database and the answer.
LEMMA ResetWrites ==
  ASSUME NEW d, NEW req, NEW c, NEW ok, NEW body, WriteAndReset(d, req, c, ok, body)
  PROVE  \E fault \in BOOLEAN :
           /\ disk' = [disk EXCEPT ![d] = IF fault THEN disk[d] ELSE c]
           /\ reply'.req = req
           /\ fault => reply'.code = 500
<1>1. PICK fault \in BOOLEAN :
        /\ Write(d, c, fault)
        /\ IF fault \/ err[d] THEN Answer(req, 500, NoBody) ELSE Answer(req, ok, body)
  BY FaultType DEF WriteAndReset
<1>2. disk' = [disk EXCEPT ![d] = IF fault THEN disk[d] ELSE c]
  BY <1>1 DEF Write, SetDisk
<1>3. reply'.req = req /\ (fault => reply'.code = 500)
  BY <1>1 DEF Answer
<1> QED
  BY <1>2, <1>3

LEMMA DeathAnswers == \A req : BadHandle(req) => reply'.code = 0 /\ disk' = disk
  BY DEF BadHandle, Die, Answer

LEMMA UnknownAnswers == \A req : NoSuchDb(req) => reply'.code = 404
  BY DEF NoSuchDb, Answer

\* The action that CommitTakesBatch asks every step to be.
Taken ==
  told'[1] = "commit" /\ told'[3] \in {0, 200, 500} =>
    LET b == told'[2]  d == reply'.req.db
    IN disk[d] # NoDb =>
         \/ disk' = [disk EXCEPT ![d] = Whole(asked[b], disk[d])]
         \/ told'[3] # 200 /\ disk' = disk

LEMMA CommitIsTaken ==
  ASSUME BatchInv, NEW b \in BatchIds, NEW d \in DBs, writebatch_commit(d, b)
  PROVE  Taken
<1>1. CASE NoSuchBatch("commit", b)
  <2>1. told'[3] = 404
    BY <1>1 DEF NoSuchBatch, Tell
  <2> QED
    BY <2>1 DEF Taken
<1>2. CASE /\ batches[b] # NoBatch
           /\ rpc_writebatch_commit(d, batches[b].keys, batches[b].vals)
           /\ Tell("commit", b, reply'.code)
  <2> DEFINE ks == batches[b].keys
             vs == batches[b].vals
             req == Request("commit", d, ks, vs)
             new == PutFirst(disk[d], ks, vs, Len(ks))
  <2>1. told'[2] = b /\ told'[3] = reply'.code
    BY <1>2 DEF Tell
  <2>2. req.db = d
    BY DEF Request, RequestAt
  <2>3. CASE NoSuchDb(req)
    <3>1. reply'.code = 404
      BY <2>3, UnknownAnswers
    <3> QED
      BY <2>1, <3>1 DEF Taken
  <2>4. CASE BadHandle(req)
    <3>1. reply'.code = 0 /\ disk' = disk
      BY <2>4, DeathAnswers
    <3> QED
      BY <2>1, <3>1 DEF Taken
  <2>5. CASE WriteAndReset(d, req, new, 200, NoBody)
    <3>1. PICK fault \in BOOLEAN :
            /\ disk' = [disk EXCEPT ![d] = IF fault THEN disk[d] ELSE new]
            /\ reply'.req = req
            /\ fault => reply'.code = 500
      BY <2>5, ResetWrites
    <3>2. new = Whole(asked[b], disk[d])
      <4>1. \A k \in Keys : Holds(batches[b], asked[b][k], k)
        BY <1>2, AllFit
      <4>2. DOMAIN ks = 1..Len(ks) /\ Len(ks) \in Nat
        BY <1>2, BatchShape DEF BatchInv
      <4> QED
        BY <4>1, <4>2, AppliedIsWhole
    <3>3. CASE fault
      <4>1. disk' = disk
        BY <3>1, <3>3 DEF BatchInv, StoreInv, TypeOK
      <4> QED
        BY <2>1, <3>1, <3>3, <4>1 DEF Taken
    <3>4. CASE ~fault
      <4>1. disk' = [disk EXCEPT ![d] = Whole(asked[b], disk[d])]
        BY <3>1, <3>2, <3>4
      <4>2. reply'.req.db = d
        BY <2>2, <3>1
      <4> QED
        BY <2>1, <4>1, <4>2 DEF Taken
    <3> QED
      BY <3>3, <3>4
  <2> QED
    BY <1>2, <2>3, <2>4, <2>5 DEF rpc_writebatch_commit, NotServed
<1> QED
  BY <1>1, <1>2 DEF writebatch_commit

LEMMA StepIsTaken ==
  ASSUME BatchInv, BatchNext
  PROVE  Taken
<1>1. CASE StoreStep
  BY <1>1 DEF StoreStep, Taken
<1>2. ASSUME NEW b \in BatchIds, BatchStep(b) PROVE Taken
  <2>1. ASSUME NEW op, op # "commit", NEW code, Tell(op, b, code) PROVE Taken
    BY <2>1 DEF Tell, Taken
  <2>2. ASSUME NEW op, op # "commit", NoSuchBatch(op, b) PROVE Taken
    BY <2>1, <2>2 DEF NoSuchBatch
  <2>3. ASSUME NEW d \in DBs, writebatch_new(d, b) PROVE Taken
    BY <2>1, <2>3 DEF writebatch_new
  <2>4. ASSUME writebatch_clear(b) PROVE Taken
    BY <2>1, <2>2, <2>4 DEF writebatch_clear
  <2>5. ASSUME NEW param, writebatch_destroy(b, param) PROVE Taken
    BY <2>1, <2>2, <2>5 DEF writebatch_destroy
  <2>6. ASSUME NEW k, writebatch_del(b, k) \/ \E v \in Words : writebatch_put(b, k, v)
        PROVE  Taken
    BY <2>1, <2>2, <2>6 DEF writebatch_del, writebatch_put, Collect
  <2> QED
    BY <1>2, <2>3, <2>4, <2>5, <2>6, CommitIsTaken DEF BatchStep
<1> QED
  BY <1>1, <1>2 DEF BatchNext

-----------------------------------------------------------------------------
\* With batches the server still is the store: every step of a batch handler is
\* a step of RevelStore or leaves the store alone, so all that holds of Spec
\* holds here.
THEOREM BatchesAreRequests == BatchSpec => Spec
<1>1. BatchInit => Init
  BY DEF BatchInit
<1>2. BatchInv /\ [BatchNext]_allVars => [Next]_vars
  BY StoreSteps DEF BatchInv
<1> QED
  BY <1>1, <1>2, BatchInvInit, BatchInvStep, PTL DEF BatchSpec, Spec

\* A batch always pairs one value with every key it has collected.
THEOREM BatchesHaveType == BatchSpec => []BatchTypeOK
<1>1. BatchInv => BatchTypeOK
  BY DEF BatchInv
<1> QED
  BY <1>1, BatchInvInit, BatchInvStep, PTL DEF BatchSpec

\* URI_rpc_writebatch_commit_cb leaves exactly what the client last asked of
\* every key, or nothing and says so, for batches of any length.
THEOREM CommitsAreWhole == BatchSpec => CommitTakesBatch
<1>1. BatchInv /\ [BatchNext]_allVars => [Taken]_allVars
  BY StepIsTaken
<1> QED
  BY <1>1, BatchInvInit, BatchInvStep, PTL DEF BatchSpec, CommitTakesBatch, Taken, Whole
=============================================================================
