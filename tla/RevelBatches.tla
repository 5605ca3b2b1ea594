---------------------------- MODULE RevelBatches ----------------------------
(***************************************************************************)
(* Write batches over the store.  A batch lives in the tree dbwritebatch   *)
(* under a uuid, collects puts and deletes across requests, and is written *)
(* to a database by one engine call.  It names the database it was made    *)
(* for, but no handler reads that name again: commit takes its own.        *)
(***************************************************************************)
EXTENDS RevelStore

CONSTANTS
  BatchIds,     \* bound: the uuids handed out
  NoBatch       \* marks an id that names no batch

VARIABLES
  batches,      \* per id: the keys and values collected, in order
  asked,        \* per id: what the client last asked of each key (history)
  told          \* the last batch request: its operation, id and code

batchVars == <<batches, asked, told>>
allVars == <<proc, handle, err, leaked, disk, reply, batches, asked, told>>

ASSUME BatchAssumption ==
  /\ NoBatch \notin [keys : Seq(Keys), vals : Seq(Words \cup {Absent})]
  /\ NoKey \notin Words \cup {Absent}
  /\ <<>> \in KeyLists

EmptyBatch == [keys |-> <<>>, vals |-> <<>>]
NoWish == [k \in Keys |-> NoKey]    \* nothing asked of any key

Tell(op, b, code) == told' = <<op, b, code>>
StoreStays == UNCHANGED vars

\* Every handler but new looks the batch up by its id.
NoSuchBatch(op, b) ==
  /\ proc = "up" /\ batches[b] = NoBatch
  /\ Tell(op, b, 404)
  /\ UNCHANGED <<batches, asked>> /\ StoreStays

\* The database must be registered; its handle is not looked at.
writebatch_new(d, b) ==
  /\ proc = "up" /\ batches[b] = NoBatch /\ StoreStays
  /\ IF handle[d] = "none"
     THEN Tell("new", b, 404) /\ UNCHANGED <<batches, asked>>
     ELSE /\ batches' = [batches EXCEPT ![b] = EmptyBatch]
          /\ asked' = [asked EXCEPT ![b] = NoWish]
          /\ Tell("new", b, 200)

\* mutant: new entries are taken to the front
Collected_Front(batch, k, v) == [keys |-> <<k>> \o batch.keys, vals |-> <<v>> \o batch.vals]

\* mutant: a delete takes no slot in the values
Collected_KeyOnly(batch, k, v) ==
  [keys |-> Append(batch.keys, k),
   vals |-> IF v = Absent THEN batch.vals ELSE Append(batch.vals, v)]

Collected(batch, k, v) == [keys |-> Append(batch.keys, k), vals |-> Append(batch.vals, v)]

\* writebatch put, and del with v = Absent.  bound: batches as in KeyLists
Collect(op, b, k, v) ==
  /\ proc = "up" /\ batches[b] # NoBatch /\ StoreStays
  /\ Collected(batches[b], k, v).keys \in KeyLists
  /\ batches' = [batches EXCEPT ![b] = Collected(@, k, v)]
  /\ asked' = [asked EXCEPT ![b][k] = v]
  /\ Tell(op, b, 200)

writebatch_put(b, k, v) == NoSuchBatch("put", b) \/ Collect("put", b, k, v)
writebatch_del(b, k) == NoSuchBatch("del", b) \/ Collect("del", b, k, Absent)

writebatch_clear(b) ==
  \/ NoSuchBatch("clear", b)
  \/ /\ proc = "up" /\ batches[b] # NoBatch /\ StoreStays
     /\ batches' = [batches EXCEPT ![b] = EmptyBatch]
     /\ asked' = [asked EXCEPT ![b] = NoWish]
     /\ Tell("clear", b, 200)

\* The batch stays as it is, whatever the engine says: it can be committed
\* again, to any database.
Forgotten == proc' = "down"
LoseBatches ==
  /\ batches' = [b \in BatchIds |-> NoBatch]
  /\ asked' = [b \in BatchIds |-> NoWish]
KeepBatches == IF Forgotten THEN LoseBatches ELSE UNCHANGED <<batches, asked>>

writebatch_commit(d, b) ==
  \/ NoSuchBatch("commit", b)
  \/ /\ batches[b] # NoBatch
     /\ rpc_writebatch_commit(d, batches[b].keys, batches[b].vals)
     /\ KeepBatches
     /\ Tell("commit", b, reply'.code)

\* The id is read from the parameter "iter"; a request that gives it as
\* "batch", like the other handlers', is told that it must be specified.
writebatch_destroy(b, param) ==
  IF param = "iter"
  THEN \/ NoSuchBatch("destroy", b)
       \/ /\ proc = "up" /\ batches[b] # NoBatch /\ StoreStays
          /\ batches' = [batches EXCEPT ![b] = NoBatch]
          /\ asked' = [asked EXCEPT ![b] = NoWish]
          /\ Tell("destroy", b, 200)
  ELSE /\ proc = "up" /\ StoreStays
       /\ UNCHANGED <<batches, asked>>
       /\ Tell("destroy", b, 400)

\* Other requests and restarts, which batches live through or not.
StoreStep ==
  /\ \/ Start
     \/ Killed
     \/ \E d \in DBs :
          \/ rpc_new(d)
          \/ rpc_destroy(d)
          \/ \E k \in Keys : rpc_get(d, k) \/ rpc_del(d, k)
  /\ KeepBatches
  /\ told' = <<"store", NoBatch, 0>>

BatchStep(b) ==
  \/ \E d \in DBs : writebatch_new(d, b) \/ writebatch_commit(d, b)
  \/ \E k \in Keys : writebatch_del(b, k) \/ \E v \in Words : writebatch_put(b, k, v)
  \/ writebatch_clear(b)
  \/ \E param \in {"iter", "batch"} : writebatch_destroy(b, param)

BatchInit ==
  /\ Init
  /\ batches = [b \in BatchIds |-> NoBatch]
  /\ asked = [b \in BatchIds |-> NoWish]
  /\ told = <<"store", NoBatch, 0>>

BatchNext == StoreStep \/ \E b \in BatchIds : BatchStep(b)
BatchSpec == BatchInit /\ [][BatchNext]_allVars

-----------------------------------------------------------------------------
BatchTypeOK ==
  /\ batches \in [BatchIds -> [keys : KeyLists, vals : Seq(Words \cup {Absent})] \cup {NoBatch}]
  /\ asked \in [BatchIds -> [Keys -> Words \cup {Absent, NoKey}]]
  /\ \A b \in BatchIds :
       batches[b] # NoBatch => Len(batches[b].keys) = Len(batches[b].vals)

\* A commit that is acknowledged leaves, in the database it names and nowhere
\* else, exactly what the client last asked of every key since the batch was
\* made or cleared; one that is not has applied all of it or nothing, so the
\* client may commit the batch again.
CommitTakesBatch ==
  [][told'[1] = "commit" /\ told'[3] \in {0, 200, 500} =>
       LET b == told'[2]  d == reply'.req.db
           whole == [k \in Keys |-> IF asked[b][k] = NoKey THEN disk[d][k] ELSE asked[b][k]]
       IN disk[d] # NoDb =>
            \/ disk' = [disk EXCEPT ![d] = whole]
            \/ told'[3] # 200 /\ disk' = disk]_allVars
=============================================================================
