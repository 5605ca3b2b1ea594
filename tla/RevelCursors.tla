---------------------------- MODULE RevelCursors ----------------------------
(***************************************************************************)
(* Iterators and snapshots over the store.  Both live in a tree under a    *)
(* uuid, across requests, and point into the instance they were made from. *)
(* leveldb gives a reader the version of the database at one sequence      *)
(* number: a snapshot is such a number, an iterator reads at one.          *)
(*                                                                         *)
(* Nothing ties these objects to their instance: destroy closes it and     *)
(* leaves them behind, and a request may use a snapshot with any database. *)
(* leveldb is used outside its contract then; so it is when an iterator    *)
(* that stands on no pair is moved by a step or asked for its pair.        *)
(*                                                                         *)
(* An iterator's own read errors are left out: nothing in the server asks  *)
(* for them (leveldb_iter_get_error is never called), so what is said of   *)
(* scans is said of iterators that read without one.                       *)
(***************************************************************************)
EXTENDS RevelStore

CONSTANTS
  IterIds, SnapIds,   \* bound: the uuids handed out
  None,               \* marks an id that names no object, and a missing parameter
  Off,                \* the position of an iterator that is not valid
  Lost,               \* what a step from there comes to
  MaxVersions,        \* bound: versions of a database between two starts
  StepCounts          \* bound: the step parameters of forward and backward

VARIABLES
  past,     \* per database: its contents after each write since it was opened
  snaps,    \* per id: the snapshot, or None
  iters,    \* per id: the iterator, or None
  told      \* the last iterator or snapshot request: operation, object, code, pair

cursorVars == <<past, snaps, iters, told>>
allVars == <<proc, handle, err, leaked, disk, reply, past, snaps, iters, told>>

ASSUME CursorAssumption ==
  /\ IsFiniteSet(Keys)    \* a database has finitely many pairs
  /\ Off \notin Keys /\ Lost \notin Keys /\ Off # Lost
  /\ MaxVersions \in Nat \ {0}
  /\ StepCounts \subseteq Nat

Positions == Keys \cup {Off}
StoreStays == UNCHANGED vars
Tell(op, id, code, pair) == told' = <<op, id, code, pair>>
Told(op, id, code) == Tell(op, id, code, <<>>)
Silent == <<"store", None, 0, <<>>>>

-----------------------------------------------------------------------------
(* Positions in the contents c, as leveldb's iterator moves over them.     *)

Present(c) == {k \in Keys : c[k] # Absent}
Least(S) == IF S = {} THEN Off ELSE CHOOSE k \in S : \A j \in S : k <= j
Greatest(S) == IF S = {} THEN Off ELSE CHOOSE k \in S : \A j \in S : j <= k

\* mutant: seek stands on the key it is given, present or not
Seek_There(c, k) == k

Seek(c, k) == Least({j \in Present(c) : j >= k})

\* n steps from pos over the keys of S, which lie beyond it; a move to k passes
\* passed[k].  Lost when a step is taken from no pair.
Walk(pos, n, S, passed) ==
  IF n = 0 THEN pos
  ELSE IF pos = Off \/ n > Cardinality(S) + 1 THEN Lost
  ELSE IF n = Cardinality(S) + 1 THEN Off
  ELSE CHOOSE k \in S : Cardinality(passed[k]) = n

\* mutant: the loop takes one step too many
Forward_TooFar(c, pos, n) ==
  LET S == {k \in Present(c) : pos # Off /\ k > pos}
      passed == [k \in S |-> {j \in S : j <= k}]
  IN Walk(pos, n + 1, S, passed)

Forward(c, pos, n) ==
  LET S == {k \in Present(c) : pos # Off /\ k > pos}
      passed == [k \in S |-> {j \in S : j <= k}]
  IN Walk(pos, n, S, passed)

Backward(c, pos, n) ==
  LET S == {k \in Present(c) : pos # Off /\ k < pos}
      passed == [k \in S |-> {j \in S : j >= k}]
  IN Walk(pos, n, S, passed)

-----------------------------------------------------------------------------
(* Death and restart, and the requests that write, as the objects see them. *)

LoseObjects ==
  /\ snaps' = [s \in SnapIds |-> None]
  /\ iters' = [i \in IterIds |-> None]

\* The version numbers of a run of the process do not outlive it.
LastOnly == past' = [d \in DBs |-> IF disk'[d] = NoDb THEN <<>> ELSE <<disk'[d]>>]

\* The process dies in a handler.
Crash(op, id) ==
  /\ Killed
  /\ LoseObjects /\ LastOnly
  /\ Told(op, id, 0)

\* Objects of an instance that is closed stay behind.
Behind(obj) ==
  IF obj # None /\ handle'[obj.db] # "open" THEN [obj EXCEPT !.live = FALSE] ELSE obj

\* mutant: the versions of a destroyed database are carried on
NextVersion_Keeps(d) ==
  IF disk'[d] = disk[d] THEN past[d] ELSE Append(past[d], disk'[d])

NextVersion(d) ==
  CASE disk'[d] = NoDb -> <<>>
    [] disk'[d] # NoDb /\ disk'[d] = disk[d] -> past[d]
    [] OTHER -> Append(past[d], disk'[d])

\* What a step of the store does to the versions and the objects.
Followed ==
  /\ IF proc' = "down"
     THEN LoseObjects /\ LastOnly
     ELSE /\ past' = [d \in DBs |-> NextVersion(d)]
          /\ \A d \in DBs : Len(past'[d]) <= MaxVersions
          /\ snaps' = [s \in SnapIds |-> Behind(snaps[s])]
          /\ iters' = [i \in IterIds |-> Behind(iters[i])]
  /\ told' = Silent

StoreStep ==
  /\ \/ Start
     \/ Killed
     \/ \E d \in DBs :
          \/ rpc_new(d)
          \/ rpc_destroy(d)
          \/ \E k \in Keys : rpc_del(d, k) \/ \E v \in Words : rpc_set(d, k, v)
  /\ Followed

-----------------------------------------------------------------------------
(* Snapshots.                                                              *)

\* A handler that wants database d answers 404, or faults on a bad handle.
NoDbToUse(d, op, id) ==
  \/ /\ proc = "up" /\ handle[d] = "none" /\ StoreStays
     /\ UNCHANGED <<past, snaps, iters>> /\ Told(op, id, 404)
  \/ proc = "up" /\ handle[d] \in {"closed", "null"} /\ Crash(op, id)

NoSuch(obj, op, id) ==
  /\ proc = "up" /\ obj = None /\ StoreStays
  /\ UNCHANGED <<past, snaps, iters>>
  /\ Told(op, id, 404)

\* The database the snapshot is of, its sequence number, whether that instance
\* is still open, and (history) the contents then.
snapshot_new(d, s) ==
  \/ NoDbToUse(d, "snapshot", s)
  \/ /\ Serving(d) /\ snaps[s] = None /\ StoreStays
     /\ snaps' = [snaps EXCEPT ![s] =
                    [db |-> d, at |-> Len(past[d]), live |-> TRUE, saw |-> disk[d]]]
     /\ UNCHANGED <<past, iters>>
     /\ Told("snapshot", s, 200)

\* The id is read from the parameter "iter".  Releasing reaches into the
\* instance the snapshot was made from, closed or not.
snapshot_release(s, param) ==
  IF param = "iter"
  THEN \/ NoSuch(snaps[s], "release", s)
       \/ /\ proc = "up" /\ snaps[s] # None /\ StoreStays
          /\ snaps' = [snaps EXCEPT ![s] = None]
          /\ UNCHANGED <<past, iters>>
          /\ Told("release", s, 200)
       \/ snaps[s] # None /\ ~snaps[s].live /\ Crash("release", s)
  ELSE /\ proc = "up" /\ StoreStays
       /\ UNCHANGED <<past, snaps, iters>>
       /\ Told("release", s, 400)

\* A snapshot used with the open instance it was taken of.
Own(s, d) == snaps[s].live /\ snaps[s].db = d

\* What leveldb may return for k at the number of a snapshot of another
\* instance: some version's value, or none.
AnyVersion(d, k) == {past[d][n][k] : n \in DOMAIN past[d]} \cup {Absent}

\* mutant: the read options are not handed to leveldb_get
ReadsAt_Present(s, d, k) == {disk[d][k]}

ReadsAt(s, d, k) ==
  IF Own(s, d) THEN {past[d][snaps[s].at][k]} ELSE AnyVersion(d, k)

\* leveldb_get failed, whatever it was to read: it fills the slot and gives no
\* value, which the handler answers as it answers a key that has none.
ReadFails(d, k) ==
  /\ EngineFaults /\ Serving(d) /\ Stays
  /\ KeepErr(d, TRUE)
  /\ Answer(Request("get", d, <<k>>, <<>>), 404, NoBody)
  /\ UNCHANGED disk

\* get, check and exists with a snapshot.  An id that names none is not
\* checked: the handler reads through a NULL pointer.
get_with_snapshot(d, k, s) ==
  \/ NoDbToUse(d, "get", s)
  \/ Serving(d) /\ snaps[s] = None /\ Crash("get", s)
  \/ /\ Serving(d) /\ snaps[s] # None /\ StoreStays
     /\ \E v \in ReadsAt(s, d, k) :
          Tell("get", s, IF v = Absent THEN 404 ELSE 200, <<d, k, v>>)
     /\ UNCHANGED <<past, snaps, iters>>
  \/ /\ snaps[s] # None /\ ReadFails(d, k)
     /\ Tell("get", s, 404, <<d, k, Absent>>)
     /\ UNCHANGED <<past, snaps, iters>>

-----------------------------------------------------------------------------
(* Iterators.                                                              *)

\* An iterator whose moves leveldb defines: over a version of the open
\* instance it was made from.
Sound(i) == iters[i] # None /\ iters[i].live /\ iters[i].own
View(i) == past[iters[i].db][iters[i].at]

\* mutant: the iterator reads with the instance's options, not the snapshot's
OpenedAt_Present(d, s) ==
  IF s = None THEN [at |-> Len(past[d]), own |-> TRUE, saw |-> disk[d]]
  ELSE [at |-> Len(past[d]), own |-> Own(s, d), saw |-> snaps[s].saw]

\* The version a new iterator reads: the present one or the snapshot's.
OpenedAt(d, s) ==
  IF s = None THEN [at |-> Len(past[d]), own |-> TRUE, saw |-> disk[d]]
  ELSE [at |-> snaps[s].at, own |-> Own(s, d), saw |-> snaps[s].saw]

\* iter new moves to the first pair.  scan is history: the keys stood on since
\* the last iter first, as long as only next followed.
iter_new(d, i, s) ==
  \/ NoDbToUse(d, "iter", i)
  \/ Serving(d) /\ s # None /\ snaps[s] = None /\ Crash("iter", i)
  \/ /\ Serving(d) /\ iters[i] = None /\ StoreStays
     /\ s # None => snaps[s] # None
     /\ LET v == OpenedAt(d, s) IN
        \E p \in IF v.own THEN {Least(Present(past[d][v.at]))} ELSE Positions :
          iters' = [iters EXCEPT ![i] =
                      [db |-> d, at |-> v.at, own |-> v.own, live |-> TRUE,
                       saw |-> v.saw, pos |-> p, scan |-> None]]
     /\ UNCHANGED <<past, snaps>>
     /\ Told("iter", i, 200)

\* Where a move can end that ends at to when the iterator is sound.  jumps: it
\* does not start from the present position.
Landings(i, to, jumps) ==
  IF Sound(i) THEN {to}
  ELSE Positions \cup (IF jumps /\ iters[i].live THEN {} ELSE {Lost})

Scanned(i, op, p) ==
  CASE op = "first" -> {p} \ {Off}
    [] op = "next" /\ iters[i].scan # None -> iters[i].scan \cup ({p} \ {Off})
    [] OTHER -> None

\* A move is answered 500 when it ends on no pair.
Moved(op, i, to, jumps) ==
  \/ NoSuch(iters[i], op, i)
  \/ /\ proc = "up" /\ iters[i] # None
     /\ \E p \in Landings(i, to, jumps) :
          IF p = Lost THEN Crash(op, i)
          ELSE /\ iters' = [iters EXCEPT ![i].pos = p, ![i].scan = Scanned(i, op, p)]
               /\ Told(op, i, IF p = Off THEN 500 ELSE 200)
               /\ UNCHANGED <<past, snaps>> /\ StoreStays

iter_first(i) == Moved("first", i, Least(Present(View(i))), TRUE)
iter_last(i) == Moved("last", i, Greatest(Present(View(i))), TRUE)
iter_seek(i, k) == Moved("seek", i, Seek(View(i), k), TRUE)
iter_next(i) == Moved("next", i, Forward(View(i), iters[i].pos, 1), FALSE)
iter_prev(i) == Moved("prev", i, Backward(View(i), iters[i].pos, 1), FALSE)
iter_forward(i, n) == Moved("forward", i, Forward(View(i), iters[i].pos, n), FALSE)
iter_backward(i, n) == Moved("backward", i, Backward(View(i), iters[i].pos, n), FALSE)

\* key, value and kv do not ask whether the iterator stands on a pair.
iter_kv(i) ==
  \/ NoSuch(iters[i], "kv", i)
  \/ /\ proc = "up" /\ Sound(i) /\ iters[i].pos # Off /\ StoreStays
     /\ LET k == iters[i].pos IN Tell("kv", i, 200, <<iters[i].db, k, View(i)[k]>>)
     /\ UNCHANGED <<past, snaps, iters>>
  \/ /\ proc = "up" /\ iters[i] # None /\ ~Sound(i) /\ StoreStays
     /\ Told("kv", i, 200)
     /\ UNCHANGED <<past, snaps, iters>>
  \/ iters[i] # None /\ (iters[i].pos = Off \/ ~iters[i].live) /\ Crash("kv", i)

iter_destroy(i) ==
  \/ NoSuch(iters[i], "destroy", i)
  \/ /\ proc = "up" /\ iters[i] # None /\ StoreStays
     /\ iters' = [iters EXCEPT ![i] = None]
     /\ UNCHANGED <<past, snaps>>
     /\ Told("destroy", i, 200)
  \/ iters[i] # None /\ ~iters[i].live /\ Crash("destroy", i)

-----------------------------------------------------------------------------
SnapStep(s) ==
  \/ \E d \in DBs : snapshot_new(d, s) \/ \E k \in Keys : get_with_snapshot(d, k, s)
  \/ \E param \in {"iter", "snapshot"} : snapshot_release(s, param)

IterStep(i) ==
  \/ \E d \in DBs, s \in SnapIds \cup {None} : iter_new(d, i, s)
  \/ iter_first(i) \/ iter_last(i)
  \/ \E k \in Keys : iter_seek(i, k)
  \/ iter_next(i) \/ iter_prev(i)
  \/ \E n \in StepCounts : iter_forward(i, n) \/ iter_backward(i, n)
  \/ iter_kv(i)
  \/ iter_destroy(i)

CursorInit ==
  /\ Init
  /\ past = [d \in DBs |-> <<>>]
  /\ snaps = [s \in SnapIds |-> None]
  /\ iters = [i \in IterIds |-> None]
  /\ told = Silent

CursorNext ==
  \/ StoreStep
  \/ \E s \in SnapIds : SnapStep(s)
  \/ \E i \in IterIds : IterStep(i)

CursorSpec == CursorInit /\ [][CursorNext]_allVars

-----------------------------------------------------------------------------
(* Properties.                                                             *)

Snapshots == [db : DBs, at : 1..MaxVersions, live : BOOLEAN, saw : Contents]
Iterators ==
  [db : DBs, at : 1..MaxVersions, own : BOOLEAN, live : BOOLEAN, saw : Contents,
   pos : Positions, scan : {None} \cup SUBSET Keys]

CursorTypeOK ==
  /\ past \in [DBs -> Seq(Contents)]
  /\ snaps \in [SnapIds -> Snapshots \cup {None}]
  /\ iters \in [IterIds -> Iterators \cup {None}]

\* Whatever is written, destroyed, created anew or restarted in between, the
\* version that a live snapshot, or an iterator over one, reads is the contents
\* at the moment it was taken.
ViewIsFrozen ==
  /\ \A s \in SnapIds : snaps[s] # None /\ snaps[s].live =>
       past[snaps[s].db][snaps[s].at] = snaps[s].saw
  /\ \A i \in IterIds : Sound(i) => View(i) = iters[i].saw

\* An iterator that is valid stands on a pair of the contents it was made over,
\* also when that pair has been deleted or the key was never there to seek.
StandsOnAPair ==
  \A i \in IterIds : Sound(i) /\ iters[i].pos # Off => iters[i].saw[iters[i].pos] # Absent

\* A client that goes to the first pair and then asks for the next until it is
\* refused has stood on every pair of the contents it opened, in order, no
\* matter what was written meanwhile.
ScanSeesAll ==
  \A i \in IterIds : Sound(i) /\ iters[i].scan # None =>
    iters[i].scan =
      {k \in Present(iters[i].saw) : iters[i].pos # Off => k <= iters[i].pos}

\* A get through a snapshot of the database, and the pair of an iterator, are
\* answered from the contents when the snapshot or iterator was made.  Only a 404
\* may deny a key that these have, when leveldb_get failed, and never without a
\* trace: the error slot is filled behind it.
AnswersAreFrozen ==
  [][told'[4] # <<>> =>
       LET d == told'[4][1]  k == told'[4][2]  v == told'[4][3] IN
       \/ /\ told'[1] = "get"
          /\ Own(told'[2], d) =>
               \/ v = snaps[told'[2]].saw[k]
               \/ EngineFaults /\ told'[3] = 404 /\ err'[d]
       \/ told'[1] = "kv" /\ v = iters[told'[2]].saw[k]]_allVars
=============================================================================
