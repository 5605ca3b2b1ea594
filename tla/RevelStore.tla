----------------------------- MODULE RevelStore -----------------------------
(***************************************************************************)
(* The core of the reveldb server: the registry of leveldb instances, the  *)
(* administration handlers (new, destroy, repair), the handlers that read  *)
(* and write keys, and process death and restart.                          *)
(*                                                                         *)
(* reveldb runs every RPC handler to completion on one libevent loop, so   *)
(* one handler invocation is one action.  A handler that makes several     *)
(* engine calls may in addition be cut short by the death of the process.  *)
(*                                                                         *)
(* What a handler does is decided by three things the code keeps apart:    *)
(* the registry (is the name there), the leveldb handle behind it (is it   *)
(* usable) and instance->err, one error slot per instance that every       *)
(* engine call may fill, that no engine call clears, and that only some    *)
(* handlers reset.                                                         *)
(***************************************************************************)
EXTENDS KVTypes

VARIABLES
  proc,     \* "up" | "down": the server process
  handle,   \* per name: "none" = not in the registry, else the state of instance->db
  err,      \* per name: instance->err # NULL
  leaked,   \* per name: an unregistered instance holds the path's lock
  disk,     \* per name: what leveldb stores under datadir/name
  reply     \* the last request and what was answered

vars == <<proc, handle, err, leaked, disk, reply>>

Handles == {"none", "open", "closed", "null"}
Faults == IF EngineFaults THEN BOOLEAN ELSE {FALSE}

-----------------------------------------------------------------------------
(* Replies.  code is the "code" member of the JSON body, 0 when the        *)
(* process died before it answered (the HTTP status of the reply, which    *)
(* some handlers leave at 200 for a 500 in the body, is left out); body    *)
(* the pairs it carries; kept is set when the message says that the pair   *)
(* could not be deleted.                                                   *)

Answer(req, code, body) ==
  reply' = [req |-> req, code |-> code, body |-> body, kept |-> FALSE]

\* Nothing but the files survives the process.
LoseMemory ==
  /\ proc' = "down"
  /\ handle' = [d \in DBs |-> "none"]
  /\ err' = [d \in DBs |-> FALSE]
  /\ leaked' = [d \in DBs |-> FALSE]

Die(req) == LoseMemory /\ Answer(req, 0, NoBody)

\* Every handler that works on a database looks it up by name first, and
\* uses instance->db without looking at it: a NULL or closed handle faults.
NoSuchDb(req) ==
  /\ proc = "up" /\ handle[req.db] = "none"
  /\ Answer(req, 404, NoBody)
  /\ UNCHANGED <<proc, handle, err, leaked, disk>>

\* mutant: a handler drops a name with a bad handle instead of using it
BadHandle_Unregisters(req) ==
  /\ proc = "up" /\ handle[req.db] \in {"closed", "null"}
  /\ handle' = [handle EXCEPT ![req.db] = "none"]
  /\ Answer(req, 500, NoBody)
  /\ UNCHANGED <<proc, err, leaked, disk>>

BadHandle(req) ==
  /\ proc = "up" /\ handle[req.db] \in {"closed", "null"}
  /\ Die(req)
  /\ UNCHANGED disk

Serving(d) == proc = "up" /\ handle[d] = "open"
Stays == UNCHANGED <<proc, handle, leaked>>

\* xleveldb_reset_err
ResetErr(d) == err' = [err EXCEPT ![d] = FALSE]
\* leveldb's C API stores an error in the slot and leaves the slot alone on success.
KeepErr(d, fault) == err' = [err EXCEPT ![d] = @ \/ fault]

SetDisk(d, c) == disk' = [disk EXCEPT ![d] = c]

\* The contents after the first n puts of ks[i] := vs[i].
PutFirst(c, ks, vs, n) ==
  [k \in Keys |->
     IF \E i \in 1..n : ks[i] = k
     THEN vs[CHOOSE i \in 1..n : ks[i] = k /\ \A j \in 1..n : ks[j] = k => j <= i]
     ELSE c[k]]

-----------------------------------------------------------------------------
(* Administration.                                                         *)

\* leveldb's LOCK file: one open instance per path.
Locked(d) == handle[d] = "open" \/ leaked[d]

\* mutant: opening starts from an empty database
Created_Truncates(d) == [disk EXCEPT ![d] = Empty]

\* leveldb_open with create_if_missing set and error_if_exist clear.
Created(d) == [disk EXCEPT ![d] = IF @ = NoDb THEN Empty ELSE @]

\* mutant: the failed instance replaces the record registered under its name
OpenFailed_Replaces(d, req) ==
  /\ Locked(d) \/ EngineFaults
  /\ handle' = [handle EXCEPT ![d] = "null"]
  /\ proc' = "up"
  /\ UNCHANGED <<err, leaked, disk>>
  /\ Answer(req, 200, NoBody)

\* leveldb_open failed.  It was given an uninitialised errptr, which it may
\* free, so the process may die here; otherwise instance->db is NULL.
OpenFailed(d, req) ==
  /\ Locked(d) \/ EngineFaults
  /\ UNCHANGED disk
  /\ \/ Die(req)
     \/ /\ handle' = [handle EXCEPT ![d] = IF @ = "none" THEN "null" ELSE @]
        /\ proc' = "up"
        /\ UNCHANGED <<err, leaked>>
        /\ Answer(req, 200, NoBody)

\* The new instance is registered, or leaks when the name is taken.
OpenDone(d, req) ==
  /\ ~Locked(d)
  /\ disk' = Created(d)
  /\ handle' = [handle EXCEPT ![d] = IF @ = "none" THEN "open" ELSE @]
  /\ leaked' = [leaked EXCEPT ![d] = handle[d] # "none"]
  /\ proc' = "up"
  /\ UNCHANGED err
  /\ Answer(req, 200, NoBody)

rpc_new(d) ==
  LET req == Request("new", d, <<>>, <<>>) IN
  /\ proc = "up"
  /\ OpenDone(d, req) \/ OpenFailed(d, req)

\* leveldb_destroy_db on the closed path.  Failing, it may have removed the
\* files all the same.  No leaked instance can hold them here (LeakIsUnusable).
DestroyFiles(d, failed) ==
  \/ SetDisk(d, NoDb)
  \/ failed /\ UNCHANGED disk

\* mutant: the files are removed under a handle that stays open
DestroyOpen_NotClosed(d) ==
  LET req == Request("destroy", d, <<>>, <<>>) IN
  /\ Serving(d)
  /\ \E failed \in Faults :
       LET bad == failed \/ err[d] IN
       /\ DestroyFiles(d, failed)
       /\ handle' = [handle EXCEPT ![d] = IF bad THEN "open" ELSE "none"]
       /\ ResetErr(d)
       /\ Answer(req, IF bad THEN 500 ELSE 200, NoBody)
  /\ UNCHANGED <<proc, leaked>>

\* leveldb_close comes first.  Only a clean error slot takes the name out of
\* the registry.
DestroyOpen(d) ==
  LET req == Request("destroy", d, <<>>, <<>>) IN
  /\ Serving(d)
  /\ \E failed \in Faults :
       LET bad == failed \/ err[d] IN
       /\ DestroyFiles(d, failed)
       /\ handle' = [handle EXCEPT ![d] = IF bad THEN "closed" ELSE "none"]
       /\ ResetErr(d)
       /\ Answer(req, IF bad THEN 500 ELSE 200, NoBody)
  /\ UNCHANGED <<proc, leaked>>

rpc_destroy(d) ==
  \/ NoSuchDb(Request("destroy", d, <<>>, <<>>))
  \/ BadHandle(Request("destroy", d, <<>>, <<>>))
  \/ DestroyOpen(d)

\* leveldb_repair_db runs on the path, not on the handle, and may drop keys.
RepairFiles(d) ==
  /\ proc = "up" /\ handle[d] # "none"
  /\ \E fault \in Faults :
       LET bad == fault \/ err[d] IN
       /\ \/ UNCHANGED disk
          \/ disk[d] # NoDb /\ \E S \in SUBSET Keys : SetDisk(d, Without(disk[d], S))
       /\ Answer(Request("repair", d, <<>>, <<>>), IF bad THEN 500 ELSE 200, NoBody)
  /\ ResetErr(d)
  /\ Stays

rpc_repair(d) == NoSuchDb(Request("repair", d, <<>>, <<>>)) \/ RepairFiles(d)

\* With no db parameter the name is NULL and is compared with the root's.
RepairUnnamed ==
  /\ proc = "up"
  /\ IF \A d \in DBs : handle[d] = "none"
     THEN /\ Answer(Request("repair", DefaultDB, <<>>, <<>>), 404, NoBody)
          /\ UNCHANGED <<proc, handle, err, leaked>>
     ELSE Die(Request("repair", DefaultDB, <<>>, <<>>))
  /\ UNCHANGED disk

\* main: the default database is the only one opened at start-up.
Start ==
  /\ proc = "down"
  /\ \/ OpenDone(DefaultDB, Request("start", DefaultDB, <<>>, <<>>))
     \/ OpenFailed(DefaultDB, Request("start", DefaultDB, <<>>, <<>>))

\* The process is killed between two handlers.
Killed ==
  /\ proc = "up"
  /\ Die(Request("kill", DefaultDB, <<>>, <<>>))
  /\ UNCHANGED disk

-----------------------------------------------------------------------------
(* Handlers that work on one key.                                          *)

\* mutant: the value leveldb_get returned is not looked at
Miss_Always(d, req, k) ==
  /\ Serving(d) /\ Stays
  /\ \E fault \in Faults : KeepErr(d, fault)
  /\ Answer(req, 404, NoBody)
  /\ UNCHANGED disk

\* leveldb_get gave no value: the key has none, or the read failed.  No
\* handler tells the two apart, and none resets the slot here.
Miss(d, req, k) ==
  /\ Serving(d) /\ Stays
  /\ \E fault \in Faults :
       /\ fault \/ disk[d][k] = Absent
       /\ KeepErr(d, fault)
  /\ Answer(req, 404, NoBody)
  /\ UNCHANGED disk

\* leveldb_put or leveldb_delete making the contents c; one that reports an
\* error of its own changed nothing.
Write(d, c, fault) == SetDisk(d, IF fault THEN disk[d] ELSE c)

\* mutant: xleveldb_reset_err is forgotten
WriteAndReset_Keeps(d, req, c, ok, body) ==
  /\ Serving(d) /\ Stays
  /\ \E fault \in Faults :
       /\ Write(d, c, fault)
       /\ IF fault \/ err[d]
          THEN Answer(req, 500, NoBody)
          ELSE Answer(req, ok, body)
       /\ KeepErr(d, fault)

\* set, add, del and the put of cas: a filled slot is reported and reset.
WriteAndReset(d, req, c, ok, body) ==
  /\ Serving(d) /\ Stays
  /\ \E fault \in Faults :
       /\ Write(d, c, fault)
       /\ IF fault \/ err[d]
          THEN Answer(req, 500, NoBody)
          ELSE Answer(req, ok, body)
  /\ ResetErr(d)

\* append, prepend, insert, replace: the slot is reported but stays filled.
WriteAndKeep(d, req, c) ==
  /\ Serving(d) /\ Stays
  /\ \E fault \in Faults :
       /\ Write(d, c, fault)
       /\ KeepErr(d, fault)
       /\ Answer(req, IF fault \/ err[d] THEN 500 ELSE 200, NoBody)

NotServed(req) == NoSuchDb(req) \/ BadHandle(req)

rpc_set(d, k, v) ==
  LET req == Request("set", d, <<k>>, <<v>>) IN
  NotServed(req) \/ WriteAndReset(d, req, Put(disk[d], k, v), 200, NoBody)

\* add is set under another name: it overwrites too.
rpc_add(d, k, v) ==
  LET req == Request("add", d, <<k>>, <<v>>) IN
  NotServed(req) \/ WriteAndReset(d, req, Put(disk[d], k, v), 200, NoBody)

rpc_del(d, k) ==
  LET req == Request("del", d, <<k>>, <<>>) IN
  NotServed(req) \/ WriteAndReset(d, req, Put(disk[d], k, Absent), 204, NoBody)

\* bound: a stored value does not grow past MaxLen chunks.
MayGrow(d, k) == disk[d][k] # Absent /\ Len(disk[d][k]) < MaxLen

rpc_append(d, k, v) ==
  LET req == Request("append", d, <<k>>, <<v>>) IN
  \/ NotServed(req)
  \/ Miss(d, req, k)
  \/ Serving(d) /\ MayGrow(d, k) /\ WriteAndKeep(d, req, Put(disk[d], k, disk[d][k] \o v))

rpc_prepend(d, k, v) ==
  LET req == Request("prepend", d, <<k>>, <<v>>) IN
  \/ NotServed(req)
  \/ Miss(d, req, k)
  \/ Serving(d) /\ MayGrow(d, k) /\ WriteAndKeep(d, req, Put(disk[d], k, v \o disk[d][k]))

rpc_replace(d, k, v) ==
  LET req == Request("replace", d, <<k>>, <<v>>) IN
  \/ NotServed(req)
  \/ Miss(d, req, k)
  \/ Serving(d) /\ disk[d][k] # Absent /\ WriteAndKeep(d, req, Put(disk[d], k, v))

\* mutant: bytes past the end stay without a value
Inserted_Unfilled(old, pos, x) ==
  IF pos <= Len(old) THEN {old \o x} ELSE {old \o <<Absent>>}

\* What tstring_insert_len can leave.  pos is unsigned in the request and
\* signed here: one that turns negative means the end.  Past the end the new
\* bytes land outside the string, which grows over bytes nobody wrote.
Inserted(old, pos, x) ==
  IF pos < 0 THEN {old \o x}
  ELSE IF pos <= Len(old) THEN {InsertAt(old, pos, x)}
  ELSE {old \o <<g>> : g \in Chunks}

rpc_insert(d, k, pos, v) ==
  LET req == RequestAt("insert", d, <<k>>, <<v>>, pos) IN
  \/ NotServed(req)
  \/ Miss(d, req, k)
  \/ /\ Serving(d) /\ MayGrow(d, k)
     /\ \/ \E new \in Inserted(disk[d][k], pos, v) :
             WriteAndKeep(d, req, Put(disk[d], k, new))
        \/ pos > Len(disk[d][k]) /\ Die(req) /\ UNCHANGED disk

rpc_get(d, k) ==
  LET req == Request("get", d, <<k>>, <<>>) IN
  \/ NotServed(req)
  \/ Miss(d, req, k)
  \/ /\ Serving(d) /\ disk[d][k] # Absent
     /\ Answer(req, 200, Found(disk[d], {k}))
     /\ UNCHANGED <<proc, handle, err, leaked, disk>>

\* cas answers with the old value; a value that differs is "not found".
rpc_cas(d, k, old, new) ==
  LET req == Request("cas", d, <<k>>, <<old, new>>) IN
  \/ NotServed(req)
  \/ Miss(d, req, k)
  \/ /\ Serving(d) /\ disk[d][k] = old
     /\ WriteAndReset(d, req, Put(disk[d], k, new), 200, Found(disk[d], {k}))
  \/ /\ Serving(d) /\ disk[d][k] \notin {Absent, old}
     /\ Answer(req, 404, NoBody)
     /\ UNCHANGED <<proc, handle, err, leaked, disk>>

\* seize gets and deletes.  A filled slot only changes the message.
SeizeFound(d, req, k) ==
  /\ Serving(d) /\ Stays /\ disk[d][k] # Absent
  /\ \E fault \in Faults :
       /\ Write(d, Put(disk[d], k, Absent), fault)
       /\ reply' = [req |-> req, code |-> 200,
                    body |-> Found(disk[d], {k}), kept |-> fault \/ err[d]]
  /\ ResetErr(d)

rpc_seize(d, k) ==
  LET req == Request("seize", d, <<k>>, <<>>) IN
  NotServed(req) \/ Miss(d, req, k) \/ SeizeFound(d, req, k)

-----------------------------------------------------------------------------
(* Handlers that work on several keys.                                     *)

\* The contents c after the first n engine writes of mset or mdel.
After(req, c, n) ==
  IF req.op = "mset" THEN PutFirst(c, req.keys, req.vals, n)
  ELSE Without(c, {req.keys[i] : i \in 1..n})

\* The loop ran to its end.  A slot filled earlier stops it at the first key.
BatchDone(d, req) ==
  /\ Serving(d)
  /\ err[d] => req.keys = <<>>
  /\ SetDisk(d, After(req, disk[d], Len(req.keys)))
  /\ Answer(req, 200, NoBody)
  /\ UNCHANGED <<proc, handle, err, leaked>>

\* The nth write finds the slot filled, by itself or by an earlier handler.
BatchStopped(d, req) ==
  /\ Serving(d) /\ Stays
  /\ \E n \in DOMAIN req.keys, fault \in Faults :
       /\ IF err[d] THEN n = 1 ELSE fault
       /\ SetDisk(d, After(req, disk[d], IF fault THEN n - 1 ELSE n))
  /\ ResetErr(d)
  /\ Answer(req, 500, NoBody)

\* The process dies inside the loop: killed, or on an array member that is
\* not a string.
BatchKilled(d, req) ==
  /\ Serving(d)
  /\ \E n \in 0..Len(req.keys) :
       /\ err[d] => n <= 1
       /\ SetDisk(d, After(req, disk[d], n))
  /\ Die(req)

\* The handlers that take a list touch the handle in their loop only: with no
\* key in the list they answer whatever state it is in.
NoKeys(req) ==
  /\ proc = "up" /\ handle[req.db] \in {"closed", "null"} /\ req.keys = <<>>
  /\ Answer(req, 200, NoBody)
  /\ UNCHANGED <<proc, handle, err, leaked, disk>>

ListNotServed(req) ==
  NoSuchDb(req) \/ NoKeys(req) \/ (req.keys # <<>> /\ BadHandle(req))

Batch(d, req) ==
  ListNotServed(req) \/ BatchDone(d, req) \/ BatchStopped(d, req) \/ BatchKilled(d, req)

rpc_mset(d, ks, vs) == Batch(d, Request("mset", d, ks, vs))
rpc_mdel(d, ks) == Batch(d, Request("mdel", d, ks, <<>>))

\* mutant: the operations of the batch are written one by one
rpc_writebatch_commit_Loop(d, ks, vs) ==
  LET req == Request("commit", d, ks, vs) IN
  \/ NotServed(req)
  \/ \E n \in 0..Len(ks) : WriteAndReset(d, req, PutFirst(disk[d], ks, vs, n), 200, NoBody)

\* The keys and values of a write batch, applied by one leveldb_write.
rpc_writebatch_commit(d, ks, vs) ==
  LET req == Request("commit", d, ks, vs) IN
  NotServed(req) \/ WriteAndReset(d, req, PutFirst(disk[d], ks, vs, Len(ks)), 200, NoBody)

\* mutant: the loop stops one key early
Hits_ButLast(d, ks, F) ==
  {i \in DOMAIN ks : i \notin F /\ i < Len(ks) /\ disk[d][ks[i]] # Absent}

\* Reads of ks at the positions of F fail: what the loop still finds.
Hits(d, ks, F) == {i \in DOMAIN ks : i \notin F /\ disk[d][ks[i]] # Absent}
At(ks, I) == {ks[i] : i \in I}
ReadFaults(ks) == IF EngineFaults THEN SUBSET DOMAIN ks ELSE {{}}

rpc_mget(d, ks) ==
  LET req == Request("mget", d, ks, <<>>) IN
  \/ ListNotServed(req)
  \/ /\ Serving(d) /\ Stays
     /\ \E F \in ReadFaults(ks) :
          /\ Answer(req, 200, Found(disk[d], At(ks, Hits(d, ks, F))))
          /\ KeepErr(d, F # {})
     /\ UNCHANGED disk

\* leveldb_delete of every key of S, each of which may fail.
Delete(d, S) ==
  \E gone \in SUBSET S :
    /\ EngineFaults \/ gone = S
    /\ SetDisk(d, Without(disk[d], gone))

\* mseize deletes what it finds; failed deletes are not reported.  The slot
\* is reset after every delete, so only a read fault after the last stays.
Seized(d, req, ks) ==
  /\ Serving(d) /\ Stays
  /\ \E F \in ReadFaults(ks) :
       LET hits == Hits(d, ks, F) IN
       /\ Delete(d, At(ks, hits))
       /\ Answer(req, 200, Found(disk[d], At(ks, hits)))
       /\ err' = [err EXCEPT ![d] =
            (hits = {} /\ @) \/ \E i \in F : \A h \in hits : h < i]

SeizeKilled(d, req, ks) ==
  /\ Serving(d)
  /\ \E n \in 0..Len(ks) : Delete(d, At(ks, 1..n))
  /\ Die(req)

rpc_mseize(d, ks) ==
  LET req == Request("mseize", d, ks, <<>>) IN
  ListNotServed(req) \/ Seized(d, req, ks) \/ SeizeKilled(d, req, ks)

\* mutant: the end key is removed too
Swept_WithEnd(c, start, end) ==
  {k \in Keys : /\ c[k] # Absent
                /\ start = NoKey \/ k >= start
                /\ end = NoKey \/ k <= end}

\* The keys remove visits: from start, or from the first key, up to a key
\* that equals end; when the iterator meets none, up to the last key.
Swept(c, start, end) ==
  LET from == {k \in Keys : c[k] # Absent /\ (start = NoKey \/ k >= start)}
  IN {k \in from : end \in from => k < end}

\* Deletes that fail are not reported and leave the slot clean.
Removed(d, req, start, end) ==
  /\ Serving(d) /\ Stays
  /\ LET swept == Swept(disk[d], start, end) IN
     /\ Delete(d, swept)
     /\ IF swept = {} THEN UNCHANGED err ELSE ResetErr(d)
  /\ Answer(req, 204, NoBody)

RemoveKilled(d, req, start, end) ==
  /\ Serving(d)
  /\ LET swept == Swept(disk[d], start, end) IN
     \E last \in Keys : Delete(d, {k \in swept : k <= last})
  /\ Die(req)

rpc_remove(d, start, end) ==
  LET req == Request("remove", d, <<start, end>>, <<>>) IN
  NotServed(req) \/ Removed(d, req, start, end) \/ RemoveKilled(d, req, start, end)

\* The checks before the database is looked up: protocol, method, parameters.
BadRequest(d) ==
  /\ proc = "up"
  /\ \E code \in {400, 405} : Answer(Request("bad", d, <<>>, <<>>), code, NoBody)
  /\ UNCHANGED <<proc, handle, err, leaked, disk>>

\* A body that is no JSON, or lacks "keys", is refused after the lookup.
BadPost(d) ==
  /\ proc = "up" /\ handle[d] # "none"
  /\ Answer(Request("post", d, <<>>, <<>>), 400, NoBody)
  /\ UNCHANGED <<proc, handle, err, leaked, disk>>

-----------------------------------------------------------------------------
Administer(d) == rpc_new(d) \/ rpc_destroy(d) \/ rpc_repair(d)

OneKey(d, k) ==
  \/ rpc_get(d, k)
  \/ rpc_del(d, k)
  \/ rpc_seize(d, k)
  \/ \E v \in Words :
       \/ rpc_set(d, k, v)
       \/ rpc_add(d, k, v)
       \/ rpc_append(d, k, v)
       \/ rpc_prepend(d, k, v)
       \/ rpc_replace(d, k, v)
       \/ \E pos \in -1..(MaxLen + 1) : rpc_insert(d, k, pos, v)
       \/ \E old \in Texts : rpc_cas(d, k, old, v)

ManyKeys(d) ==
  \/ \E ks \in KeyLists :
       \/ rpc_mget(d, ks)
       \/ rpc_mdel(d, ks)
       \/ rpc_mseize(d, ks)
       \/ \E vs \in [DOMAIN ks -> Words] : rpc_mset(d, ks, vs)
       \/ \E vs \in [DOMAIN ks -> Words \cup {Absent}] : rpc_writebatch_commit(d, ks, vs)
  \/ \E start, end \in Keys \cup {NoKey} : rpc_remove(d, start, end)

Init ==
  /\ proc = "down"
  /\ handle = [d \in DBs |-> "none"]
  /\ err = [d \in DBs |-> FALSE]
  /\ leaked = [d \in DBs |-> FALSE]
  /\ disk = [d \in DBs |-> NoDb]
  /\ reply = [req |-> Request("start", DefaultDB, <<>>, <<>>), code |-> 0,
              body |-> NoBody, kept |-> FALSE]

Next ==
  \/ Start
  \/ Killed
  \/ RepairUnnamed
  \/ \E d \in DBs :
       \/ Administer(d)
       \/ ManyKeys(d)
       \/ BadRequest(d)
       \/ BadPost(d)
       \/ \E k \in Keys : OneKey(d, k)

Spec == Init /\ [][Next]_vars

-----------------------------------------------------------------------------
(* Properties.                                                             *)

TypeOK ==
  /\ proc \in {"up", "down"}
  /\ handle \in [DBs -> Handles]
  /\ err \in [DBs -> BOOLEAN]
  /\ leaked \in [DBs -> BOOLEAN]
  /\ disk \in [DBs -> Contents \cup {NoDb}]

\* An instance that can be reached, or that leaked with its lock, has its
\* files: whatever sequence of new, failed destroy and restart came before, no
\* handler of an open instance works on files that destroy removed.
OpenHasFiles ==
  \A d \in DBs : handle[d] = "open" \/ leaked[d] => disk[d] # NoDb

\* rpc_new leaks an instance only under a name whose registered handle is
\* already unusable, so no two instances of the process are open on one path
\* and destroy never meets a path locked by a leaked instance.
LeakIsUnusable ==
  \A d \in DBs : leaked[d] => handle[d] \in {"closed", "null"}

\* A request answered 500 leaves a clean slot, so that the next one pays only
\* for its own failure; all handlers but the append family see to that.
ReportedErrorIsReset ==
  reply.code = 500 /\ reply.req.op \notin {"append", "prepend", "insert", "replace"}
     => ~err[reply.req.db]

\* As long as leveldb itself does not fail, no sequence of requests, kills and
\* restarts makes a registered handle unusable, leaks an instance, fills an
\* error slot or is answered 500.
HealthyStore ==
  ~EngineFaults =>
    /\ \A d \in DBs : handle[d] \in {"none", "open"} /\ ~err[d] /\ ~leaked[d]
    /\ reply.code # 500

\* With a leveldb that does not fail, a 404 from a registered database is the
\* truth: the key has no value, or cas named another one.
NotFoundIsTrue ==
  [][LET d == reply'.req.db  k == reply'.req.keys[1] IN
     ~EngineFaults /\ proc = "up" /\ handle[d] = "open" /\ reply'.code = 404 =>
       \/ disk[d][k] = Absent
       \/ reply'.req.op = "cas" /\ disk[d][k] # reply'.req.vals[1]]_vars

\* README.md documents remove as taking the one key to be removed.
RemoveTakesOneKey ==
  [][reply'.req.op = "remove" =>
       \A j, k \in Keys : \A d \in DBs :
         disk[d] # NoDb /\ disk'[d] # NoDb /\ j # k =>
           disk[d][j] = disk'[d][j] \/ disk[d][k] = disk'[d][k]]_vars

\* Handles, slots and restarts implement the service a client sees.
KV == INSTANCE KVService WITH kv <- disk
KVImplemented == KV!KVSpec

=============================================================================
