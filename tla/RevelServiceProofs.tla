------------------------- MODULE RevelServiceProofs -------------------------
(***************************************************************************)
(* RevelStore implements KVService: every handler's answer tells a client  *)
(* the truth about what happened to the database.                          *)
(*                                                                         *)
(* The proof goes handler by handler.  It needs StoreInv for one thing: an *)
(* open instance has contents, so that a write leaves contents.            *)
(***************************************************************************)
EXTENDS RevelRest, RevelStoreProofs

Elsewhere(d) == \A e \in DBs \ {d} : disk'[e] = disk[e]

-----------------------------------------------------------------------------
(* The three kinds of answer.                                              *)

LEMMA Refuses ==
  ASSUME NEW req, NEW code \in {400, 404, 405}, NEW body,
         Answer(req, code, body), UNCHANGED disk
  PROVE  KV!Answers(reply')
  BY DEF Answer, KV!Answers, KV!Refused

LEMMA Fails ==
  ASSUME NEW req, NEW code \in {0, 500}, NEW body, Answer(req, code, body),
         Elsewhere(req.db), KV!Leaves(req, disk[req.db], disk'[req.db])
  PROVE  KV!Answers(reply')
<1>1. reply'.req = req /\ reply'.code = code
  BY DEF Answer
<1> QED
  BY <1>1 DEF KV!Answers, KV!Failed, Elsewhere

LEMMA Acknowledges ==
  ASSUME NEW req, reply'.req = req, reply'.code \in {200, 204},
         Elsewhere(req.db), KV!Takes(req, disk[req.db], disk'[req.db], reply'),
         KV!Carries(req, disk[req.db], reply'.body)
  PROVE  KV!Answers(reply')
  BY DEF KV!Answers, KV!Acknowledged, Elsewhere

\* Whatever the request, to have done nothing is a failure's right.
LEMMA Dies ==
  ASSUME NEW req, Die(req), UNCHANGED disk
  PROVE  KV!Answers(reply')
<1>1. KV!Leaves(req, disk[req.db], disk'[req.db]) /\ Elsewhere(req.db)
  BY DEF KV!Leaves, Elsewhere
<1> QED
  BY <1>1, Fails DEF Die

LEMMA NotServedServes ==
  ASSUME NEW req, NotServed(req)
  PROVE  KV!Answers(reply')
<1>1. CASE NoSuchDb(req)
  BY <1>1, Refuses DEF NoSuchDb
<1>2. CASE BadHandle(req)
  BY <1>2, Dies DEF BadHandle
<1> QED
  BY <1>1, <1>2 DEF NotServed

LEMMA MissServes ==
  ASSUME NEW d, NEW req, NEW k, Miss(d, req, k)
  PROVE  KV!Answers(reply')
  BY Refuses DEF Miss

-----------------------------------------------------------------------------
(* Bodies.                                                                 *)

LEMMA CarriesNothing ==
  ASSUME NEW req, req.op \notin {"get", "cas", "seize", "mget", "mseize"}, NEW c
  PROVE  KV!Carries(req, c, NoBody)
<1>1. DOMAIN NoBody = {}
  BY DEF NoBody, Found
<1> QED
  BY <1>1 DEF KV!Carries

LEMMA CarriesFound ==
  ASSUME NEW req, req.op \in {"get", "cas", "seize"}, NEW k, req.keys = <<k>>,
         NEW c, c[k] # Absent
  PROVE  KV!Carries(req, c, Found(c, {k}))
<1>1. KV!Named(req.keys) = {k}
  BY DEF KV!Named
<1>2. DOMAIN Found(c, {k}) = {k} /\ Found(c, {k})[k] = c[k]
  BY DEF Found
<1> QED
  BY <1>1, <1>2 DEF KV!Carries

-----------------------------------------------------------------------------
(* Handlers that work on one key.                                          *)

LEMMA SetDiskChanges ==
  ASSUME StoreInv, NEW d \in DBs, NEW c, SetDisk(d, c)
  PROVE  disk'[d] = c /\ Elsewhere(d)
  BY DEF SetDisk, StoreInv, TypeOK, Elsewhere

\* A write that is answered by the slot: 500 whether it is applied or not.
LEMMA WriteServes ==
  ASSUME StoreInv, NEW d \in DBs, NEW req, req.db = d, NEW c, NEW fault \in BOOLEAN,
         Write(d, c, fault), KV!Leaves(req, disk[d], c),
         NEW ok \in {200, 204}, NEW body,
         IF fault \/ err[d] THEN Answer(req, 500, NoBody) ELSE Answer(req, ok, body),
         \A answer : KV!Takes(req, disk[d], c, answer),
         KV!Carries(req, disk[d], body)
  PROVE  KV!Answers(reply')
<1>1. disk'[d] = (IF fault THEN disk[d] ELSE c) /\ Elsewhere(d)
  BY SetDiskChanges DEF Write
<1>2. CASE fault \/ err[d]
  <2>1. KV!Leaves(req, disk[d], disk'[d])
    <3>1. KV!Leaves(req, disk[d], disk[d])
      BY DEF KV!Leaves
    <3> QED
      BY <1>1, <3>1
  <2> QED
    BY <1>1, <1>2, <2>1, Fails
<1>3. CASE ~(fault \/ err[d])
  <2>1. reply'.req = req /\ reply'.code = ok /\ reply'.body = body /\ disk'[d] = c
    BY <1>1, <1>3 DEF Answer
  <2> QED
    BY <1>1, <2>1, Acknowledges
<1> QED
  BY <1>2, <1>3

LEMMA WriteAndResetServes ==
  ASSUME StoreInv, NEW d \in DBs, NEW req, req.db = d, NEW c, NEW ok \in {200, 204},
         NEW body, KV!Leaves(req, disk[d], c),
         \A answer : KV!Takes(req, disk[d], c, answer), KV!Carries(req, disk[d], body),
         WriteAndReset(d, req, c, ok, body)
  PROVE  KV!Answers(reply')
<1>1. PICK fault \in BOOLEAN :
        /\ Write(d, c, fault)
        /\ IF fault \/ err[d] THEN Answer(req, 500, NoBody) ELSE Answer(req, ok, body)
  BY FaultType DEF WriteAndReset
<1> QED
  BY <1>1, WriteServes

LEMMA WriteAndKeepServes ==
  ASSUME StoreInv, NEW d \in DBs, NEW req, req.db = d, NEW c,
         KV!Leaves(req, disk[d], c),
         \A answer : KV!Takes(req, disk[d], c, answer),
         KV!Carries(req, disk[d], NoBody),
         WriteAndKeep(d, req, c)
  PROVE  KV!Answers(reply')
<1>1. PICK fault \in BOOLEAN :
        /\ Write(d, c, fault)
        /\ Answer(req, IF fault \/ err[d] THEN 500 ELSE 200, NoBody)
  BY FaultType DEF WriteAndKeep
<1> QED
  BY <1>1, WriteServes

\* Setting or deleting one key as the request asks is its effect.
LEMMA OneKeyTakes ==
  ASSUME NEW c \in Contents, NEW k \in Keys, NEW v,
         NEW req, req.op \in KV!SingleWrites, req.keys = <<k>>,
         KV!NewValue(req, c[k], v)
  PROVE  /\ KV!Leaves(req, c, Put(c, k, v))
         /\ \A answer : KV!Takes(req, c, Put(c, k, v), answer)
<1>1. Put(c, k, v)[k] = v /\ \A j \in Keys \ {k} : Put(c, k, v)[j] = c[j]
  BY DEF Put, Contents
<1>2. Len(req.keys) = 1 /\ req.keys[1] = k
  OBVIOUS
<1>3. KV!SetsOne(req, c, Put(c, k, v))
  BY <1>1, <1>2 DEF KV!SetsOne
<1>4. c # NoDb
  BY ContentsAreFiles
<1> QED
  BY <1>3, <1>4 DEF KV!Leaves, KV!Takes

LEMMA RequestFields ==
  ASSUME NEW op, NEW d, NEW ks, NEW vs, NEW pos
  PROVE  /\ LET req == RequestAt(op, d, ks, vs, pos) IN
            req.db = d /\ req.pos = pos /\ req.op = op /\ req.keys = ks /\ req.vals = vs
         /\ LET req == Request(op, d, ks, vs) IN
            req.db = d /\ req.pos = 0 /\ req.op = op /\ req.keys = ks /\ req.vals = vs
  BY DEF Request, RequestAt

\* Handlers that write one key and reset the slot.
LEMMA SetServes ==
  ASSUME StoreInv, NEW d \in DBs, NEW k \in Keys, NEW v,
         rpc_set(d, k, v) \/ rpc_add(d, k, v)
  PROVE  KV!Answers(reply')
<1>1. PICK op \in {"set", "add"} :
        LET req == Request(op, d, <<k>>, <<v>>) IN
        NotServed(req) \/ WriteAndReset(d, req, Put(disk[d], k, v), 200, NoBody)
  BY DEF rpc_set, rpc_add
<1> DEFINE req == Request(op, d, <<k>>, <<v>>)
<1>2. req.db = d /\ req.op = op /\ req.keys = <<k>> /\ req.vals[1] = v
  BY DEF Request, RequestAt
<1> HIDE DEF req
<1>3. CASE WriteAndReset(d, req, Put(disk[d], k, v), 200, NoBody)
  <2>1. disk[d] \in Contents
    BY <1>3, ServedContents DEF WriteAndReset
  <2>2. req.op \in KV!SingleWrites /\ KV!NewValue(req, disk[d][k], v)
    BY <1>2 DEF KV!SingleWrites, KV!NewValue
  <2>3. KV!Carries(req, disk[d], NoBody)
    BY <1>2, CarriesNothing
  <2> QED
    BY <1>2, <1>3, <2>1, <2>2, <2>3, OneKeyTakes, WriteAndResetServes
<1> QED
  BY <1>1, <1>3, NotServedServes DEF req

LEMMA DelServes ==
  ASSUME StoreInv, NEW d \in DBs, NEW k \in Keys, rpc_del(d, k)
  PROVE  KV!Answers(reply')
<1> DEFINE req == Request("del", d, <<k>>, <<>>)
<1>1. NotServed(req) \/ WriteAndReset(d, req, Put(disk[d], k, Absent), 204, NoBody)
  BY DEF rpc_del
<1>2. req.db = d /\ req.op = "del" /\ req.keys = <<k>>
  BY RequestFields
<1> HIDE DEF req
<1>3. CASE WriteAndReset(d, req, Put(disk[d], k, Absent), 204, NoBody)
  <2>1. disk[d] \in Contents
    BY <1>3, ServedContents DEF WriteAndReset
  <2>2. req.op \in KV!SingleWrites /\ KV!NewValue(req, disk[d][k], Absent)
    BY <1>2 DEF KV!SingleWrites, KV!NewValue
  <2>3. KV!Carries(req, disk[d], NoBody)
    BY <1>2, CarriesNothing
  <2> QED
    BY <1>2, <1>3, <2>1, <2>2, <2>3, OneKeyTakes, WriteAndResetServes
<1> QED
  BY <1>1, <1>3, NotServedServes

\* A write of append, prepend, insert or replace that gives the asked value.
LEMMA EditServes ==
  ASSUME StoreInv, NEW d \in DBs, NEW k \in Keys, NEW new, NEW req, req.db = d,
         req.op \in {"append", "prepend", "insert", "replace"}, req.keys = <<k>>,
         KV!NewValue(req, disk[d][k], new), WriteAndKeep(d, req, Put(disk[d], k, new))
  PROVE  KV!Answers(reply')
<1>1. disk[d] \in Contents
  BY ServedContents DEF WriteAndKeep
<1>2. req.op \in KV!SingleWrites
  BY DEF KV!SingleWrites
<1>3. KV!Carries(req, disk[d], NoBody)
  BY CarriesNothing
<1> QED
  BY <1>1, <1>2, <1>3, OneKeyTakes, WriteAndKeepServes

LEMMA AppendServes ==
  ASSUME StoreInv, NEW d \in DBs, NEW k \in Keys, NEW v,
         rpc_append(d, k, v) \/ rpc_prepend(d, k, v) \/ rpc_replace(d, k, v)
  PROVE  KV!Answers(reply')
<1> DEFINE old == disk[d][k]
           req(op) == Request(op, d, <<k>>, <<v>>)
<1>1. ASSUME NEW op \in {"append", "prepend", "replace"}, NotServed(req(op)) \/ Miss(d, req(op), k)
      PROVE  KV!Answers(reply')
  BY <1>1, NotServedServes, MissServes
<1>2. ASSUME NEW op \in {"append", "prepend", "replace"}, NEW new, old # Absent,
             \/ op = "append" /\ new = old \o v
             \/ op = "prepend" /\ new = v \o old
             \/ op = "replace" /\ new = v,
             WriteAndKeep(d, req(op), Put(disk[d], k, new))
      PROVE  KV!Answers(reply')
  <2>1. /\ req(op).db = d /\ req(op).op = op /\ req(op).keys = <<k>>
        /\ req(op).vals[1] = v
    BY RequestFields
  <2> HIDE DEF req
  <2>2. KV!NewValue(req(op), disk[d][k], new)
    BY <1>2, <2>1 DEF KV!NewValue
  <2> QED
    BY <1>2, <2>1, <2>2, EditServes
<1>3. \/ \E op \in {"append", "prepend", "replace"} : NotServed(req(op)) \/ Miss(d, req(op), k)
      \/ /\ old # Absent
         /\ \/ WriteAndKeep(d, req("append"), Put(disk[d], k, old \o v))
            \/ WriteAndKeep(d, req("prepend"), Put(disk[d], k, v \o old))
            \/ WriteAndKeep(d, req("replace"), Put(disk[d], k, v))
  BY DEF rpc_append, rpc_prepend, rpc_replace, MayGrow
<1> HIDE DEF req
<1> QED
  BY <1>1, <1>2, <1>3

LEMMA InsertServes ==
  ASSUME StoreInv, NEW d \in DBs, NEW k \in Keys, NEW v, NEW pos \in Int,
         rpc_insert(d, k, pos, v)
  PROVE  KV!Answers(reply')
<1> DEFINE old == disk[d][k]
           req == RequestAt("insert", d, <<k>>, <<v>>, pos)
<1>1. \/ NotServed(req)
      \/ Miss(d, req, k)
      \/ /\ Serving(d) /\ MayGrow(d, k)
         /\ \/ \E new \in Inserted(old, pos, v) :
                 WriteAndKeep(d, req, Put(disk[d], k, new))
            \/ Die(req) /\ UNCHANGED disk
  BY DEF rpc_insert
<1>2. req.db = d /\ req.op = "insert" /\ req.keys = <<k>> /\ req.vals[1] = v /\ req.pos = pos
  BY RequestFields
<1> HIDE DEF req
<1>3. ASSUME Serving(d), MayGrow(d, k), NEW new \in Inserted(old, pos, v)
      PROVE  KV!NewValue(req, old, new)
  <2>1. old # Absent /\ Len(old) \in Nat
    BY <1>3, OldValue DEF MayGrow, Values
  <2> HIDE DEF old
  <2>2. CASE pos < 0
    BY <1>2, <1>3, <2>1, <2>2 DEF Inserted, KV!NewValue
  <2>3. CASE pos \in 0..Len(old)
    <3>1. new = InsertAt(old, pos, v)
      BY <1>3, <2>1, <2>3 DEF Inserted
    <3>2. InsertAt(old, pos, v) = KV!InsertAt(old, pos, v)
      BY DEF InsertAt, KV!InsertAt
    <3> QED
      BY <1>2, <2>1, <2>3, <3>1, <3>2 DEF KV!NewValue
  <2>4. CASE pos > Len(old)
    <3>1. ~(pos < 0) /\ ~(pos <= Len(old))
      BY <2>1, <2>4
    <3>2. \E g \in Chunks : new = old \o <<g>>
      BY <1>3, <3>1 DEF Inserted
    <3> QED
      BY <1>2, <2>1, <2>4, <3>2 DEF KV!NewValue
  <2> QED
    BY <2>1, <2>2, <2>3, <2>4
<1>4. ASSUME Serving(d), MayGrow(d, k), NEW new \in Inserted(old, pos, v),
             WriteAndKeep(d, req, Put(disk[d], k, new))
      PROVE  KV!Answers(reply')
  BY <1>2, <1>3, <1>4, EditServes
<1> HIDE DEF old
<1> QED
  BY <1>1, <1>4, NotServedServes, MissServes, Dies

LEMMA GetServes ==
  ASSUME StoreInv, NEW d \in DBs, NEW k \in Keys, rpc_get(d, k)
  PROVE  KV!Answers(reply')
<1> DEFINE req == Request("get", d, <<k>>, <<>>)
<1>1. \/ NotServed(req)
      \/ Miss(d, req, k)
      \/ /\ Serving(d) /\ disk[d][k] # Absent
         /\ Answer(req, 200, Found(disk[d], {k})) /\ UNCHANGED disk
  BY DEF rpc_get
<1>2. req.db = d /\ req.op = "get" /\ req.keys = <<k>>
  BY RequestFields
<1> HIDE DEF req
<1>3. ASSUME Serving(d), disk[d][k] # Absent, Answer(req, 200, Found(disk[d], {k})), UNCHANGED disk
      PROVE  KV!Answers(reply')
  <2>1. KV!Carries(req, disk[d], Found(disk[d], {k}))
    BY <1>2, <1>3, CarriesFound
  <2>2. KV!Takes(req, disk[d], disk'[d], reply') /\ Elsewhere(d)
    BY <1>2, <1>3, ServedContents, ContentsAreFiles DEF KV!Takes, Elsewhere
  <2>3. reply'.req = req /\ reply'.code = 200 /\ reply'.body = Found(disk[d], {k})
    BY <1>3 DEF Answer
  <2> QED
    BY <1>2, <2>1, <2>2, <2>3, Acknowledges
<1> QED
  BY <1>1, <1>3, NotServedServes, MissServes

LEMMA CasServes ==
  ASSUME StoreInv, NEW d \in DBs, NEW k \in Keys, NEW old, old # Absent, NEW new,
         rpc_cas(d, k, old, new)
  PROVE  KV!Answers(reply')
<1> DEFINE req == Request("cas", d, <<k>>, <<old, new>>)
<1>1. \/ NotServed(req)
      \/ Miss(d, req, k)
      \/ /\ Serving(d) /\ disk[d][k] = old
         /\ WriteAndReset(d, req, Put(disk[d], k, new), 200, Found(disk[d], {k}))
      \/ Answer(req, 404, NoBody) /\ UNCHANGED disk
  BY DEF rpc_cas
<1>2. /\ req.db = d /\ req.op = "cas" /\ req.keys = <<k>>
      /\ req.vals[1] = old /\ req.vals[2] = new
  BY RequestFields
<1> HIDE DEF req
<1>3. ASSUME Serving(d), disk[d][k] = old,
             WriteAndReset(d, req, Put(disk[d], k, new), 200, Found(disk[d], {k}))
      PROVE  KV!Answers(reply')
  <2>1. disk[d] \in Contents /\ disk[d][k] # Absent
    BY <1>3, ServedContents
  <2>2. req.op \in KV!SingleWrites /\ KV!NewValue(req, disk[d][k], new)
    BY <1>2, <1>3, <2>1 DEF KV!SingleWrites, KV!NewValue
  <2>3. KV!Carries(req, disk[d], Found(disk[d], {k}))
    BY <1>2, <2>1, CarriesFound
  <2> QED
    BY <1>2, <1>3, <2>1, <2>2, <2>3, OneKeyTakes, WriteAndResetServes
<1> QED
  BY <1>1, <1>3, NotServedServes, MissServes, Refuses

\* seize answers 200 whether the delete worked or not, and says which.
LEMMA SeizeServes ==
  ASSUME StoreInv, NEW d \in DBs, NEW k \in Keys, rpc_seize(d, k)
  PROVE  KV!Answers(reply')
<1> DEFINE req == Request("seize", d, <<k>>, <<>>)
<1>1. NotServed(req) \/ Miss(d, req, k) \/ SeizeFound(d, req, k)
  BY DEF rpc_seize
<1>2. req.db = d /\ req.op = "seize" /\ req.keys = <<k>>
  BY RequestFields
<1> HIDE DEF req
<1>3. CASE SeizeFound(d, req, k)
  <2>1. PICK fault \in BOOLEAN :
          /\ Write(d, Put(disk[d], k, Absent), fault)
          /\ reply' = [req |-> req, code |-> 200,
                       body |-> Found(disk[d], {k}), kept |-> fault \/ err[d]]
    BY <1>3, FaultType DEF SeizeFound
  <2>2. disk[d] \in Contents /\ disk[d][k] # Absent /\ disk[d] # NoDb
    BY <1>3, ServedContents, ContentsAreFiles DEF SeizeFound
  <2>3. KV!Carries(req, disk[d], Found(disk[d], {k}))
    BY <1>2, <2>2, CarriesFound
  <2>4. /\ reply'.req = req /\ reply'.code = 200 /\ reply'.body = Found(disk[d], {k})
        /\ fault => reply'.kept
    BY <2>1
  <2>5. disk'[d] = (IF fault THEN disk[d] ELSE Put(disk[d], k, Absent)) /\ Elsewhere(d)
    BY <2>1, SetDiskChanges DEF Write
  <2>6. KV!Takes(req, disk[d], disk'[d], reply')
    <3>1. CASE fault
      BY <1>2, <2>2, <2>4, <2>5, <3>1 DEF KV!Takes
    <3>2. CASE ~fault
      <4>1. req.op \in KV!SingleWrites /\ KV!NewValue(req, disk[d][k], Absent)
        BY <1>2 DEF KV!SingleWrites, KV!NewValue
      <4> QED
        BY <1>2, <2>2, <2>5, <3>2, <4>1, OneKeyTakes
    <3> QED
      BY <3>1, <3>2
  <2> QED
    BY <1>2, <2>3, <2>4, <2>5, <2>6, Acknowledges
<1> QED
  BY <1>1, <1>3, NotServedServes, MissServes

LEMMA OneKeyServes ==
  ASSUME StoreInv, NEW d \in DBs, NEW k \in Keys, OneKey(d, k)
  PROVE  KV!Answers(reply')
<1>1. CASE rpc_get(d, k) \/ rpc_del(d, k) \/ rpc_seize(d, k)
  BY <1>1, GetServes, DelServes, SeizeServes
<1>2. ASSUME NEW v,
             \/ rpc_set(d, k, v)
             \/ rpc_add(d, k, v)
             \/ rpc_append(d, k, v)
             \/ rpc_prepend(d, k, v)
             \/ rpc_replace(d, k, v)
      PROVE  KV!Answers(reply')
  BY <1>2, SetServes, AppendServes
<1>3. ASSUME NEW v, NEW pos \in -1..(MaxLen + 1), rpc_insert(d, k, pos, v)
      PROVE  KV!Answers(reply')
  <2>1. pos \in Int
    BY StoreAssumption
  <2> QED
    BY <1>3, <2>1, InsertServes
<1>4. ASSUME NEW v, NEW old \in Texts, rpc_cas(d, k, old, v)
      PROVE  KV!Answers(reply')
  <2>1. Absent \notin Texts
    <3>1. ASSUME NEW n \in 1..MaxLen, NEW t \in [1..n -> Chunks] PROVE t \in Values
      BY StoreAssumption DEF Values
    <3>2. Texts \in SUBSET Values
      BY <3>1 DEF Texts
    <3> QED
      BY <3>2, StoreAssumption
  <2>2. old # Absent
    BY <2>1
  <2> QED
    BY <1>4, <2>2, CasServes
<1> QED
  BY <1>1, <1>2, <1>3, <1>4 DEF OneKey

-----------------------------------------------------------------------------
(* Handlers that work on several keys.                                     *)

LEMMA SameWithout == \A c, S : Without(c, S) = KV!Without(c, S)
  BY DEF Without, KV!Without

\* Both modules say what n sets leave, each in its own words.
LEMMA SameSets ==
  ASSUME NEW req, NEW c, NEW n
  PROVE  PutFirst(c, req.keys, req.vals, n) = KV!AfterSets(req, n, c)
<1>1. ASSUME NEW k \in Keys
      PROVE  (\E i \in 1..n : req.keys[i] = k) <=> KV!Given(req, n, k) # {}
  BY DEF KV!Given
<1>2. ASSUME NEW k \in Keys, NEW i
      PROVE  (/\ i \in 1..n
              /\ req.keys[i] = k /\ \A j \in 1..n : req.keys[j] = k => j <= i)
             <=> (i \in KV!Given(req, n, k) /\ \A j \in KV!Given(req, n, k) : j <= i)
  BY DEF KV!Given
<1>3. ASSUME NEW k \in Keys
      PROVE  (CHOOSE i \in 1..n :
                req.keys[i] = k /\ \A j \in 1..n : req.keys[j] = k => j <= i)
             = (CHOOSE i \in KV!Given(req, n, k) : \A j \in KV!Given(req, n, k) : j <= i)
  BY <1>2
<1> DEFINE last(k) == CHOOSE i \in 1..n :
                        req.keys[i] = k /\ \A j \in 1..n : req.keys[j] = k => j <= i
           given(k) == CHOOSE i \in KV!Given(req, n, k) : \A j \in KV!Given(req, n, k) : j <= i
<1>4. PutFirst(c, req.keys, req.vals, n) =
        [k \in Keys |-> IF \E i \in 1..n : req.keys[i] = k THEN req.vals[last(k)] ELSE c[k]]
  BY DEF PutFirst
<1>5. KV!AfterSets(req, n, c) =
        [k \in Keys |-> IF KV!Given(req, n, k) = {} THEN c[k] ELSE req.vals[given(k)]]
  BY DEF KV!AfterSets
<1>6. \A k \in Keys : last(k) = given(k)
  BY <1>3
<1> HIDE DEF last, given
<1> QED
  BY <1>1, <1>4, <1>5, <1>6

\* A list that names no key is answered over any handle, with no pair.
LEMMA ListNotServedServes ==
  ASSUME NEW req, req.op \in {"mget", "mset", "mdel", "mseize"}, ListNotServed(req)
  PROVE  KV!Answers(reply')
<1>1. CASE NoKeys(req)
  <2>1. req.keys = <<>> /\ UNCHANGED disk /\ Elsewhere(req.db)
    BY <1>1 DEF NoKeys, Elsewhere
  <2>2. reply'.req = req /\ reply'.code = 200 /\ reply'.body = NoBody
    BY <1>1 DEF NoKeys, Answer
  <2>3. KV!Takes(req, disk[req.db], disk'[req.db], reply')
    BY <2>1 DEF KV!Takes, KV!AsksNothing
  <2>4. KV!Named(req.keys) = {}
    BY <2>1 DEF KV!Named
  <2>5. DOMAIN NoBody = {} /\ NoBody = KV!Found(disk[req.db], {})
    BY DEF NoBody, Found, KV!Found
  <2>6. KV!Carries(req, disk[req.db], reply'.body)
    BY <2>2, <2>4, <2>5 DEF KV!Carries
  <2> QED
    BY <2>1, <2>2, <2>3, <2>6, Acknowledges
<1> QED
  BY <1>1, NotServedServes DEF ListNotServed, NotServed

LEMMA BatchServes ==
  ASSUME StoreInv, NEW d \in DBs, NEW req, req.db = d, IsBatch(req), Batch(d, req)
  PROVE  KV!Answers(reply')
<1>1. \A n : KV!Steps(req, n, disk[d], After(req, disk[d], n))
  <2>1. CASE req.op = "mset"
    BY <2>1, SameSets DEF After, KV!Steps
  <2>2. CASE req.op = "mdel"
    BY <2>2, SameWithout DEF After, KV!Steps
  <2> QED
    BY <2>1, <2>2 DEF IsBatch
<1>2. KV!Carries(req, disk[d], NoBody)
  BY CarriesNothing DEF IsBatch
<1>3. ASSUME Serving(d), NEW n \in 0..Len(req.keys), NEW code \in {0, 500},
             SetDisk(d, After(req, disk[d], n)), Answer(req, code, NoBody)
      PROVE  KV!Answers(reply')
  <2>1. disk[d] # NoDb
    BY <1>3, ServedContents, ContentsAreFiles
  <2>2. disk'[d] = After(req, disk[d], n) /\ Elsewhere(d)
    BY <1>3, SetDiskChanges
  <2>3. KV!Leaves(req, disk[d], disk'[d])
    BY <1>1, <1>3, <2>1, <2>2 DEF KV!Leaves
  <2> QED
    BY <1>3, <2>2, <2>3, Fails
<1>4. CASE BatchDone(d, req)
  <2>1. disk[d] # NoDb
    BY <1>4, ServedContents, ContentsAreFiles DEF BatchDone
  <2>2. disk'[d] = After(req, disk[d], Len(req.keys)) /\ Elsewhere(d)
    BY <1>4, SetDiskChanges DEF BatchDone
  <2>3. reply'.req = req /\ reply'.code = 200 /\ reply'.body = NoBody
    BY <1>4 DEF BatchDone, Answer
  <2>4. KV!Takes(req, disk[d], disk'[d], reply')
    BY <1>1, <2>1, <2>2 DEF KV!Takes
  <2> QED
    BY <1>2, <2>2, <2>3, <2>4, Acknowledges
<1>5. CASE BatchStopped(d, req)
  <2>1. Serving(d) /\ Answer(req, 500, NoBody)
    BY <1>5 DEF BatchStopped
  <2>2. PICK n \in DOMAIN req.keys, fault \in Faults :
          SetDisk(d, After(req, disk[d], IF fault THEN n - 1 ELSE n))
    BY <1>5 DEF BatchStopped
  <2>3. (IF fault THEN n - 1 ELSE n) \in 0..Len(req.keys)
    BY DEF IsBatch
  <2> QED
    BY <1>3, <2>1, <2>2, <2>3
<1>6. CASE BatchKilled(d, req)
  BY <1>3, <1>6 DEF BatchKilled, Die
<1> QED
  BY <1>4, <1>5, <1>6, ListNotServedServes DEF Batch, IsBatch

LEMMA CommitServes ==
  ASSUME StoreInv, NEW d \in DBs, NEW ks, NEW vs, rpc_writebatch_commit(d, ks, vs)
  PROVE  KV!Answers(reply')
<1> DEFINE req == Request("commit", d, ks, vs)
           c == PutFirst(disk[d], ks, vs, Len(ks))
<1>1. NotServed(req) \/ WriteAndReset(d, req, c, 200, NoBody)
  BY DEF rpc_writebatch_commit
<1>2. req.db = d /\ req.op = "commit" /\ req.keys = ks /\ req.vals = vs
  BY RequestFields
<1> HIDE DEF req
<1>3. KV!Commits(req, disk[d], c)
  BY <1>2, SameSets DEF KV!Commits
<1> HIDE DEF c
<1>4. CASE WriteAndReset(d, req, c, 200, NoBody)
  <2>1. disk[d] # NoDb
    BY <1>4, ServedContents, ContentsAreFiles DEF WriteAndReset
  <2>2. KV!Leaves(req, disk[d], c) /\ \A answer : KV!Takes(req, disk[d], c, answer)
    BY <1>3, <2>1 DEF KV!Leaves, KV!Takes
  <2>3. KV!Carries(req, disk[d], NoBody)
    BY <1>2, CarriesNothing
  <2> QED
    BY <1>2, <1>4, <2>2, <2>3, WriteAndResetServes
<1> QED
  BY <1>1, <1>4, NotServedServes

\* The pairs found at keys of ks are pairs that were asked for; when no read
\* fails they are all there are.
LEMMA HitsCarry ==
  ASSUME NEW d \in DBs, NEW ks, NEW F \in ReadFaults(ks),
         NEW req, req.op \in {"mget", "mseize"}, req.keys = ks
  PROVE  /\ KV!Carries(req, disk[d], Found(disk[d], At(ks, Hits(d, ks, F))))
         /\ DOMAIN Found(disk[d], At(ks, Hits(d, ks, F))) = At(ks, Hits(d, ks, F))
<1> DEFINE S == At(ks, Hits(d, ks, F))
<1>1. \A k \in S : disk[d][k] # Absent
  BY DEF At, Hits
<1>2. S \in SUBSET KV!Named(req.keys)
  BY DEF At, Hits, KV!Named
<1>3. ~EngineFaults => S = {k \in KV!Named(req.keys) : disk[d][k] # Absent}
  BY DEF At, Hits, KV!Named, ReadFaults
<1> HIDE DEF S
<1>4. DOMAIN Found(disk[d], S) = S /\ \A k \in S : Found(disk[d], S)[k] = disk[d][k]
  BY <1>1 DEF Found
<1>5. ~EngineFaults => Found(disk[d], S) = KV!Found(disk[d], KV!Named(req.keys))
  BY <1>1, <1>3 DEF Found, KV!Found
<1>6. KV!Carries(req, disk[d], Found(disk[d], S))
  BY <1>2, <1>4, <1>5 DEF KV!Carries
<1> QED
  BY <1>4, <1>6 DEF S

LEMMA MgetServes ==
  ASSUME StoreInv, NEW d \in DBs, NEW ks, rpc_mget(d, ks)
  PROVE  KV!Answers(reply')
<1> DEFINE req == Request("mget", d, ks, <<>>)
<1>1. \/ ListNotServed(req)
      \/ /\ Serving(d) /\ UNCHANGED disk
         /\ \E F \in ReadFaults(ks) : Answer(req, 200, Found(disk[d], At(ks, Hits(d, ks, F))))
  BY DEF rpc_mget
<1>2. req.db = d /\ req.op = "mget" /\ req.keys = ks
  BY RequestFields
<1> HIDE DEF req
<1>3. ASSUME Serving(d), UNCHANGED disk, NEW F \in ReadFaults(ks),
             Answer(req, 200, Found(disk[d], At(ks, Hits(d, ks, F))))
      PROVE  KV!Answers(reply')
  <2>1. KV!Carries(req, disk[d], Found(disk[d], At(ks, Hits(d, ks, F))))
    BY <1>2, HitsCarry
  <2>2. KV!Takes(req, disk[d], disk'[d], reply') /\ Elsewhere(d)
    BY <1>2, <1>3, ServedContents, ContentsAreFiles DEF KV!Takes, Elsewhere
  <2>3. /\ reply'.req = req /\ reply'.code = 200
        /\ reply'.body = Found(disk[d], At(ks, Hits(d, ks, F)))
    BY <1>3 DEF Answer
  <2> QED
    BY <1>2, <2>1, <2>2, <2>3, Acknowledges
<1> QED
  BY <1>1, <1>2, <1>3, ListNotServedServes

LEMMA DeleteChanges ==
  ASSUME StoreInv, NEW d \in DBs, NEW S, Delete(d, S)
  PROVE  /\ Elsewhere(d)
         /\ \E gone \in SUBSET S : /\ disk'[d] = KV!Without(disk[d], gone)
                                   /\ EngineFaults \/ gone = S
  BY SameWithout, SetDiskChanges DEF Delete

LEMMA MseizeServes ==
  ASSUME StoreInv, NEW d \in DBs, NEW ks \in KeyLists, rpc_mseize(d, ks)
  PROVE  KV!Answers(reply')
<1> DEFINE req == Request("mseize", d, ks, <<>>)
<1>1. ListNotServed(req) \/ Seized(d, req, ks) \/ SeizeKilled(d, req, ks)
  BY DEF rpc_mseize
<1>2. req.db = d /\ req.op = "mseize" /\ req.keys = ks
  BY RequestFields
<1> HIDE DEF req
<1>3. CASE Seized(d, req, ks)
  <2>1. PICK F \in ReadFaults(ks) :
          /\ Delete(d, At(ks, Hits(d, ks, F)))
          /\ Answer(req, 200, Found(disk[d], At(ks, Hits(d, ks, F))))
    BY <1>3 DEF Seized
  <2> DEFINE S == At(ks, Hits(d, ks, F))
  <2>2. KV!Carries(req, disk[d], Found(disk[d], S)) /\ DOMAIN Found(disk[d], S) = S
    BY <1>2, HitsCarry
  <2>3. reply'.req = req /\ reply'.code = 200 /\ reply'.body = Found(disk[d], S)
    BY <2>1 DEF Answer
  <2>4. /\ Elsewhere(d)
        /\ \E gone \in SUBSET S : /\ disk'[d] = KV!Without(disk[d], gone)
                                  /\ EngineFaults \/ gone = S
    BY <2>1, DeleteChanges
  <2> HIDE DEF S
  <2>5. KV!Sweeps(DOMAIN reply'.body, disk[d], disk'[d])
    BY <2>2, <2>3, <2>4 DEF KV!Sweeps
  <2>6. disk[d] # NoDb
    BY <1>3, ServedContents, ContentsAreFiles DEF Seized
  <2>7. KV!Takes(req, disk[d], disk'[d], reply')
    BY <1>2, <2>5, <2>6 DEF KV!Takes
  <2> QED
    BY <1>2, <2>2, <2>3, <2>4, <2>7, Acknowledges
<1>4. CASE SeizeKilled(d, req, ks)
  <2>1. PICK n \in 0..Len(ks) : Delete(d, At(ks, 1..n))
    BY <1>4 DEF SeizeKilled
  <2>2. PICK gone \in SUBSET At(ks, 1..n) : disk'[d] = KV!Without(disk[d], gone)
    BY <2>1, DeleteChanges
  <2>3. DOMAIN ks = 1..Len(ks) /\ Len(ks) \in Nat
    BY StoreAssumption
  <2>4. gone \in SUBSET KV!Named(req.keys)
    BY <1>2, <2>3 DEF At, KV!Named
  <2>5. KV!Drops(KV!Named(req.keys), disk[d], disk'[d])
    BY <2>2, <2>4 DEF KV!Drops
  <2>6. disk[d] # NoDb /\ Elsewhere(d)
    BY <1>4, <2>1, ServedContents, ContentsAreFiles, DeleteChanges DEF SeizeKilled
  <2>7. KV!Leaves(req, disk[d], disk'[d])
    BY <1>2, <2>5, <2>6 DEF KV!Leaves
  <2> QED
    BY <1>2, <1>4, <2>6, <2>7, Fails DEF SeizeKilled, Die
<1> QED
  BY <1>1, <1>2, <1>3, <1>4, ListNotServedServes

\* The keys that remove visits are the stored ones of the range asked for.
LEMMA SweptInRange ==
  ASSUME NEW c, NEW start, NEW end
  PROVE  /\ Swept(c, start, end) \in SUBSET KV!InRange(start, end, c)
         /\ \A k \in KV!InRange(start, end, c) : c[k] # Absent => k \in Swept(c, start, end)
<1>1. end \in {k \in Keys : c[k] # Absent /\ (start = NoKey \/ k >= start)}
      <=> end \in {k \in Keys : start # NoKey => k >= start} /\ c[end] # Absent
  OBVIOUS
<1> QED
  BY <1>1 DEF Swept, KV!InRange

LEMMA RemoveServes ==
  ASSUME StoreInv, NEW d \in DBs, NEW start, NEW end, rpc_remove(d, start, end)
  PROVE  KV!Answers(reply')
<1> DEFINE req == Request("remove", d, <<start, end>>, <<>>)
           swept == Swept(disk[d], start, end)
           range == KV!InRange(start, end, disk[d])
<1>1. \/ NotServed(req)
      \/ Removed(d, req, start, end)
      \/ RemoveKilled(d, req, start, end)
  BY DEF rpc_remove
<1>2. /\ req.db = d /\ req.op = "remove"
      /\ req.keys[1] = start /\ req.keys[2] = end
  BY RequestFields
<1> HIDE DEF req
<1>3. swept \in SUBSET range /\ \A k \in range : disk[d][k] # Absent => k \in swept
  BY SweptInRange
<1> HIDE DEF swept, range
<1>4. CASE Removed(d, req, start, end)
  <2>1. Serving(d) /\ Delete(d, swept) /\ Answer(req, 204, NoBody)
    BY <1>4 DEF Removed, swept
  <2>2. PICK gone \in SUBSET swept : /\ disk'[d] = KV!Without(disk[d], gone)
                                     /\ EngineFaults \/ gone = swept
    BY <2>1, DeleteChanges
  <2>3. range \in SUBSET Keys
    BY DEF range, KV!InRange
  <2>4. KV!Without(disk[d], range) = KV!Without(disk[d], swept)
    BY <1>3, <2>3 DEF KV!Without
  <2>5. KV!Sweeps(range, disk[d], disk'[d])
    <3>1. CASE EngineFaults
      BY <1>3, <2>2, <3>1 DEF KV!Sweeps
    <3>2. CASE ~EngineFaults
      BY <2>2, <2>4, <3>2 DEF KV!Sweeps
    <3> QED
      BY <3>1, <3>2
  <2>6. disk[d] # NoDb /\ Elsewhere(d)
    BY <2>1, ServedContents, ContentsAreFiles, DeleteChanges
  <2>7. KV!Takes(req, disk[d], disk'[d], reply')
    BY <1>2, <2>5, <2>6 DEF KV!Takes, range
  <2>8. reply'.req = req /\ reply'.code = 204 /\ reply'.body = NoBody
    BY <2>1 DEF Answer
  <2>9. KV!Carries(req, disk[d], NoBody)
    BY <1>2, CarriesNothing
  <2> QED
    BY <1>2, <2>6, <2>7, <2>8, <2>9, Acknowledges
<1>5. CASE RemoveKilled(d, req, start, end)
  <2>1. PICK last \in Keys : Delete(d, {k \in swept : k <= last})
    BY <1>5 DEF RemoveKilled, swept
  <2>2. PICK gone \in SUBSET {k \in swept : k <= last} : disk'[d] = KV!Without(disk[d], gone)
    BY <2>1, DeleteChanges
  <2>3. KV!Drops(range, disk[d], disk'[d])
    BY <1>3, <2>2 DEF KV!Drops
  <2>4. disk[d] # NoDb /\ Elsewhere(d)
    BY <1>5, <2>1, ServedContents, ContentsAreFiles, DeleteChanges DEF RemoveKilled
  <2>5. KV!Leaves(req, disk[d], disk'[d])
    BY <1>2, <2>3, <2>4 DEF KV!Leaves, range
  <2> QED
    BY <1>2, <1>5, <2>4, <2>5, Fails DEF RemoveKilled, Die
<1> QED
  BY <1>1, <1>4, <1>5, NotServedServes

LEMMA ManyKeysServes ==
  ASSUME StoreInv, NEW d \in DBs, ManyKeys(d)
  PROVE  KV!Answers(reply')
<1>1. ASSUME NEW ks \in KeyLists, rpc_mget(d, ks) \/ rpc_mseize(d, ks)
      PROVE  KV!Answers(reply')
  BY <1>1, MgetServes, MseizeServes
<1>2. ASSUME NEW ks \in KeyLists, rpc_mdel(d, ks)
      PROVE  KV!Answers(reply')
  <2>1. IsBatch(Request("mdel", d, ks, <<>>)) /\ Request("mdel", d, ks, <<>>).db = d
    BY StoreAssumption DEF IsBatch, Request, RequestAt
  <2> QED
    BY <1>2, <2>1, BatchServes DEF rpc_mdel
<1>3. ASSUME NEW ks \in KeyLists, NEW vs \in [DOMAIN ks -> Words], rpc_mset(d, ks, vs)
      PROVE  KV!Answers(reply')
  <2>1. IsBatch(Request("mset", d, ks, vs)) /\ Request("mset", d, ks, vs).db = d
    BY StoreAssumption, WordType DEF IsBatch, Request, RequestAt
  <2> QED
    BY <1>3, <2>1, BatchServes DEF rpc_mset
<1>4. ASSUME NEW ks, NEW vs, rpc_writebatch_commit(d, ks, vs)
      PROVE  KV!Answers(reply')
  BY <1>4, CommitServes
<1>5. ASSUME NEW start, NEW end, rpc_remove(d, start, end)
      PROVE  KV!Answers(reply')
  BY <1>5, RemoveServes
<1> QED
  BY <1>1, <1>2, <1>3, <1>4, <1>5 DEF ManyKeys

-----------------------------------------------------------------------------
(* Administration, death and restart.                                      *)

\* Opening creates the database if there is none, and changes nothing else.
LEMMA OpenServes ==
  ASSUME StoreInv, NEW d \in DBs, NEW op \in {"new", "start"},
         LET req == Request(op, d, <<>>, <<>>) IN OpenDone(d, req) \/ OpenFailed(d, req)
  PROVE  KV!Answers(reply')
<1> DEFINE req == Request(op, d, <<>>, <<>>)
<1>1. req.db = d /\ req.op = op
  BY DEF Request, RequestAt
<1>2. OpenDone(d, req) \/ OpenFailed(d, req)
  OBVIOUS
<1> HIDE DEF req
<1>3. ASSUME Answer(req, 200, NoBody), Elsewhere(d),
             disk'[d] = disk[d] \/ (disk[d] = NoDb /\ disk'[d] = KV!Empty)
      PROVE  KV!Answers(reply')
  <2>1. KV!Takes(req, disk[d], disk'[d], reply')
    BY <1>1, <1>3 DEF KV!Takes
  <2>2. reply'.req = req /\ reply'.code = 200 /\ reply'.body = NoBody
    BY <1>3 DEF Answer
  <2>3. KV!Carries(req, disk[d], NoBody)
    BY <1>1, CarriesNothing
  <2> QED
    BY <1>1, <1>3, <2>1, <2>2, <2>3, Acknowledges
<1>4. CASE OpenDone(d, req)
  <2>1. KV!Empty = Empty
    BY DEF KV!Empty, Empty
  <2>2. disk' = [disk EXCEPT ![d] = IF @ = NoDb THEN Empty ELSE @]
    BY <1>4 DEF OpenDone, Created
  <2>3. Elsewhere(d) /\ (disk'[d] = disk[d] \/ (disk[d] = NoDb /\ disk'[d] = KV!Empty))
    BY <2>1, <2>2 DEF Elsewhere, StoreInv, TypeOK
  <2> QED
    BY <1>3, <1>4, <2>3 DEF OpenDone
<1>5. CASE OpenFailed(d, req)
  <2>1. UNCHANGED disk /\ (Die(req) \/ Answer(req, 200, NoBody))
    BY <1>5 DEF OpenFailed
  <2> QED
    BY <1>3, <2>1, Dies DEF Elsewhere
<1> QED
  BY <1>2, <1>4, <1>5

LEMMA DestroyServes ==
  ASSUME StoreInv, NEW d \in DBs, rpc_destroy(d)
  PROVE  KV!Answers(reply')
<1> DEFINE req == Request("destroy", d, <<>>, <<>>)
<1>1. req.db = d /\ req.op = "destroy"
  BY RequestFields
<1>2. NotServed(req) \/ DestroyOpen(d)
  BY DEF rpc_destroy, NotServed
<1>3. CASE DestroyOpen(d)
  <2>1. PICK failed \in BOOLEAN :
          /\ DestroyFiles(d, failed)
          /\ Answer(req, IF failed \/ err[d] THEN 500 ELSE 200, NoBody)
    BY <1>3, FaultType DEF DestroyOpen
  <2> HIDE DEF req
  <2>2. /\ Elsewhere(d)
        /\ disk'[d] = NoDb \/ (failed /\ disk'[d] = disk[d])
    BY <2>1, SetDiskChanges DEF DestroyFiles, Elsewhere
  <2>3. CASE failed \/ err[d]
    <3>1. KV!Leaves(req, disk[d], disk'[d])
      BY <1>1, <2>2 DEF KV!Leaves
    <3> QED
      BY <1>1, <2>1, <2>2, <2>3, <3>1, Fails
  <2>4. CASE ~(failed \/ err[d])
    <3>1. KV!Takes(req, disk[d], disk'[d], reply')
      BY <1>1, <2>2, <2>4 DEF KV!Takes
    <3>2. reply'.req = req /\ reply'.code = 200 /\ reply'.body = NoBody
      BY <2>1, <2>4 DEF Answer
    <3>3. KV!Carries(req, disk[d], NoBody)
      BY <1>1, CarriesNothing
    <3> QED
      BY <1>1, <2>2, <3>1, <3>2, <3>3, Acknowledges
  <2> QED
    BY <2>3, <2>4
<1> HIDE DEF req
<1> QED
  BY <1>2, <1>3, NotServedServes

LEMMA RepairServes ==
  ASSUME StoreInv, NEW d \in DBs, rpc_repair(d)
  PROVE  KV!Answers(reply')
<1> DEFINE req == Request("repair", d, <<>>, <<>>)
<1>1. req.db = d /\ req.op = "repair"
  BY RequestFields
<1>2. NotServed(req) \/ RepairFiles(d)
  BY DEF rpc_repair, NotServed
<1>3. CASE RepairFiles(d)
  <2>1. PICK fault \in Faults :
          /\ \/ UNCHANGED disk
             \/ disk[d] # NoDb /\ \E S \in SUBSET Keys : SetDisk(d, Without(disk[d], S))
          /\ Answer(req, IF fault \/ err[d] THEN 500 ELSE 200, NoBody)
    BY <1>3 DEF RepairFiles
  <2> HIDE DEF req
  <2>2. \A S : SetDisk(d, Without(disk[d], S)) =>
               Elsewhere(d) /\ disk'[d] = KV!Without(disk[d], S)
    BY SetDiskChanges, SameWithout
  <2>3. /\ Elsewhere(d)
        /\ \/ disk'[d] = disk[d]
           \/ disk[d] # NoDb /\ KV!Drops(Keys, disk[d], disk'[d])
    BY <2>1, <2>2 DEF KV!Drops, Elsewhere
  <2>4. PICK code \in {500, 200} : Answer(req, code, NoBody)
    BY <2>1
  <2>5. KV!Leaves(req, disk[d], disk'[d]) /\ KV!Takes(req, disk[d], disk'[d], reply')
    BY <1>1, <2>3 DEF KV!Leaves, KV!Takes
  <2>6. CASE code = 500
    BY <1>1, <2>3, <2>4, <2>5, <2>6, Fails
  <2>7. CASE code = 200
    <3>1. reply'.req = req /\ reply'.code = 200 /\ reply'.body = NoBody
      BY <2>4, <2>7 DEF Answer
    <3>2. KV!Carries(req, disk[d], NoBody)
      BY <1>1, CarriesNothing
    <3> QED
      BY <1>1, <2>3, <2>5, <3>1, <3>2, Acknowledges
  <2> QED
    BY <2>6, <2>7
<1> HIDE DEF req
<1> QED
  BY <1>2, <1>3, NotServedServes

LEMMA StepServes == StoreInv /\ Next => KV!Answers(reply')
<1> SUFFICES ASSUME StoreInv, Next PROVE KV!Answers(reply')
  OBVIOUS
<1>1. CASE Start
  BY <1>1, StoreAssumption, OpenServes DEF Start
<1>2. CASE Killed
  BY <1>2, Dies DEF Killed
<1>3. CASE RepairUnnamed
  BY <1>3, Dies, Refuses DEF RepairUnnamed
<1>4. ASSUME NEW d \in DBs, Administer(d) PROVE KV!Answers(reply')
  BY <1>4, OpenServes, DestroyServes, RepairServes DEF Administer, rpc_new
<1>5. ASSUME NEW d \in DBs, ManyKeys(d) PROVE KV!Answers(reply')
  BY <1>5, ManyKeysServes
<1>6. ASSUME NEW d \in DBs, BadRequest(d) \/ BadPost(d) PROVE KV!Answers(reply')
  BY <1>6, Refuses DEF BadRequest, BadPost
<1>7. ASSUME NEW d \in DBs, NEW k \in Keys, OneKey(d, k) PROVE KV!Answers(reply')
  BY <1>7, OneKeyServes
<1> QED
  BY <1>1, <1>2, <1>3, <1>4, <1>5, <1>6, <1>7 DEF Next

-----------------------------------------------------------------------------
\* Handles, error slots, leaks, kills and restarts implement the service of
\* KVService: what a client concludes from the code of an answer is what
\* happened to the database.
THEOREM StoreServes == Spec => KVImplemented
<1>1. Init => KV!KVInit
  BY DEF Init, KV!KVInit
<1>2. StoreInv /\ [Next]_vars => [KV!Answers(reply')]_<<disk, reply>>
  BY StepServes DEF vars
<1> QED
  BY <1>1, <1>2, StoreInvInit, StoreInvStep, PTL DEF Spec, KVImplemented, KV!KVSpec

-----------------------------------------------------------------------------
(* What the error slot and the code of a reply tell.                       *)

Healthy == \A d \in DBs : handle[d] \in {"none", "open"} /\ ~err[d] /\ ~leaked[d]

KeepsErr == {"append", "prepend", "insert", "replace"}

\* Three claims about one step, proved together because each of them goes
\* through all the handlers.
Honest ==
  /\ reply'.code = 500 /\ reply'.req.op \notin KeepsErr => ~err'[reply'.req.db]
  /\ ~EngineFaults /\ Healthy => Healthy' /\ reply'.code # 500
  /\ LET d == reply'.req.db  k == reply'.req.keys[1] IN
     ~EngineFaults /\ proc = "up" /\ handle[d] = "open" /\ reply'.code = 404 =>
       \/ disk[d][k] = Absent
       \/ reply'.req.op = "cas" /\ disk[d][k] # reply'.req.vals[1]

LEMMA NoFaults == ~EngineFaults => \A fault \in Faults : fault = FALSE
  BY DEF Faults

LEMMA DieHonest ==
  ASSUME NEW req, Die(req) PROVE Honest
<1>1. reply'.code = 0
  BY DEF Die, Answer
<1>2. Healthy'
  BY DEF Die, LoseMemory, Healthy
<1> QED
  BY <1>1, <1>2 DEF Honest

\* A handler that leaves b in the slot of d.
LEMMA SlotHonest ==
  ASSUME TypeOK, NEW d \in DBs, NEW b \in BOOLEAN, Stays, err' = [err EXCEPT ![d] = b],
         reply'.req.db = d, reply'.code # 404,
         reply'.code # 500 \/ reply'.req.op \in KeepsErr,
         ~EngineFaults /\ Healthy => ~b /\ reply'.code # 500
  PROVE  Honest
<1>1. err'[d] = b /\ \A e \in DBs \ {d} : err'[e] = err[e]
  BY DEF TypeOK
<1>2. ~EngineFaults /\ Healthy => Healthy'
  BY <1>1 DEF Healthy, Stays
<1> QED
  BY <1>1, <1>2 DEF Honest

LEMMA ResetHonest ==
  ASSUME TypeOK, NEW d \in DBs, Stays, ResetErr(d), reply'.code # 404,
         ~EngineFaults /\ Healthy => reply'.code # 500, reply'.req.db = d
  PROVE  Honest
<1>1. ~err'[d] /\ \A e \in DBs \ {d} : err'[e] = err[e]
  BY DEF TypeOK, ResetErr
<1>2. ~EngineFaults /\ Healthy => Healthy'
  BY <1>1 DEF Healthy, Stays
<1> QED
  BY <1>1, <1>2 DEF Honest

LEMMA QuietHonest ==
  ASSUME Stays, UNCHANGED err, reply'.code \notin {404, 500}
  PROVE  Honest
<1>1. Healthy => Healthy'
  BY DEF Healthy, Stays
<1> QED
  BY <1>1 DEF Honest

\* A 404 that tells the truth.
LEMMA MissingHonest ==
  ASSUME Stays, UNCHANGED err, reply'.code = 404,
         LET d == reply'.req.db  k == reply'.req.keys[1] IN
         \/ handle[d] # "open"
         \/ disk[d][k] = Absent
         \/ reply'.req.op = "cas" /\ disk[d][k] # reply'.req.vals[1]
  PROVE  Honest
<1>1. Healthy => Healthy'
  BY DEF Healthy, Stays
<1> QED
  BY <1>1 DEF Honest

LEMMA NotServedHonest ==
  ASSUME NEW req, NotServed(req) PROVE Honest
<1>1. CASE NoSuchDb(req)
  <2>1. /\ Stays /\ UNCHANGED err
        /\ reply'.code = 404 /\ reply'.req = req /\ handle[req.db] # "open"
    BY <1>1 DEF NoSuchDb, Answer, Stays
  <2> QED
    BY <2>1, MissingHonest
<1>2. CASE BadHandle(req)
  BY <1>2, DieHonest DEF BadHandle
<1> QED
  BY <1>1, <1>2 DEF NotServed

LEMMA MissHonest ==
  ASSUME TypeOK, NEW d \in DBs, NEW req, req.db = d, NEW k, req.keys = <<k>>, Miss(d, req, k)
  PROVE  Honest
<1>1. PICK fault \in Faults : (fault \/ disk[d][k] = Absent) /\ KeepErr(d, fault)
  BY DEF Miss
<1>2. Stays /\ reply'.code = 404 /\ reply'.req = req
  BY DEF Miss, Answer
<1>3. CASE EngineFaults
  BY <1>2, <1>3 DEF Honest
<1>4. CASE ~EngineFaults
  <2>1. fault = FALSE
    BY <1>4, NoFaults
  <2>2. disk[d][k] = Absent /\ UNCHANGED err
    BY <1>1, <2>1 DEF KeepErr, TypeOK
  <2>3. reply'.req.db = d /\ reply'.req.keys[1] = k
    BY <1>2
  <2> QED
    BY <1>2, <2>2, <2>3, MissingHonest
<1> QED
  BY <1>3, <1>4

LEMMA WriteAndResetHonest ==
  ASSUME TypeOK, NEW d \in DBs, NEW req, req.db = d, NEW c, NEW ok \in {200, 204}, NEW body,
         WriteAndReset(d, req, c, ok, body)
  PROVE  Honest
<1>1. PICK fault \in Faults :
        IF fault \/ err[d] THEN Answer(req, 500, NoBody) ELSE Answer(req, ok, body)
  BY DEF WriteAndReset
<1>2. /\ Stays /\ ResetErr(d)
      /\ reply'.req = req /\ reply'.code \in {200, 204, 500}
      /\ reply'.code = 500 => fault \/ err[d]
  BY <1>1 DEF WriteAndReset, Answer
<1>3. ~EngineFaults /\ Healthy => reply'.code # 500
  BY <1>2, NoFaults DEF Healthy
<1>4. reply'.code # 404 /\ reply'.req.db = d
  BY <1>2
<1> QED
  BY <1>2, <1>3, <1>4, ResetHonest

LEMMA WriteAndKeepHonest ==
  ASSUME TypeOK, NEW d \in DBs, NEW req, req.db = d, req.op \in KeepsErr, NEW c,
         WriteAndKeep(d, req, c)
  PROVE  Honest
<1>1. PICK fault \in Faults :
        KeepErr(d, fault) /\ Answer(req, IF fault \/ err[d] THEN 500 ELSE 200, NoBody)
  BY DEF WriteAndKeep
<1>2. /\ reply'.req = req /\ reply'.code \in {200, 500}
      /\ reply'.code = 500 => err[d] \/ fault
  BY <1>1 DEF Answer
<1>3. ~EngineFaults /\ Healthy => ~(err[d] \/ fault) /\ reply'.code # 500
  BY <1>2, NoFaults DEF Healthy
<1>4. PICK b \in BOOLEAN : b = (err[d] \/ fault)
  OBVIOUS
<1>5. err' = [err EXCEPT ![d] = b]
  BY <1>1, <1>4 DEF KeepErr
<1>6. ~EngineFaults /\ Healthy => ~b /\ reply'.code # 500
  BY <1>3, <1>4
<1>7. /\ Stays /\ reply'.req.db = d /\ reply'.code # 404
      /\ reply'.code # 500 \/ reply'.req.op \in KeepsErr
  BY <1>2 DEF WriteAndKeep
<1> QED
  BY <1>5, <1>6, <1>7, SlotHonest

LEMMA OneKeyHonest ==
  ASSUME StoreInv, NEW d \in DBs, NEW k \in Keys, OneKey(d, k)
  PROVE  Honest
<1>0. TypeOK
  BY DEF StoreInv
<1> DEFINE Own(req) == req.db = d /\ req.keys = <<k>>
<1>1. ASSUME NEW req, Own(req), NEW c, NEW ok \in {200, 204}, NEW body,
             NotServed(req) \/ Miss(d, req, k) \/ WriteAndReset(d, req, c, ok, body)
      PROVE  Honest
  BY <1>0, <1>1, NotServedHonest, MissHonest, WriteAndResetHonest
<1>2. ASSUME NEW req, Own(req), req.op \in KeepsErr, NEW c,
             NotServed(req) \/ Miss(d, req, k) \/ WriteAndKeep(d, req, c)
      PROVE  Honest
  BY <1>0, <1>2, NotServedHonest, MissHonest, WriteAndKeepHonest
<1>3. ASSUME NEW op, NEW vs, NEW pos
      PROVE  Own(Request(op, d, <<k>>, vs)) /\ Own(RequestAt(op, d, <<k>>, vs, pos))
  BY RequestFields
<1>4. CASE rpc_get(d, k)
  <2> DEFINE req == Request("get", d, <<k>>, <<>>)
  <2>1. Own(req)
    BY <1>3
  <2>2. NotServed(req) \/ Miss(d, req, k) \/
        (Answer(req, 200, Found(disk[d], {k})) /\ UNCHANGED <<proc, handle, err, leaked, disk>>)
    BY <1>4 DEF rpc_get
  <2> HIDE DEF req
  <2>3. CASE Answer(req, 200, Found(disk[d], {k})) /\ UNCHANGED <<proc, handle, err, leaked, disk>>
    <3>1. Stays /\ UNCHANGED err /\ reply'.code \notin {404, 500}
      BY <2>3 DEF Answer, Stays
    <3> QED
      BY <3>1, QuietHonest
  <2> QED
    BY <1>0, <2>1, <2>2, <2>3, NotServedHonest, MissHonest
<1>5. CASE rpc_del(d, k)
  <2> DEFINE req == Request("del", d, <<k>>, <<>>)
  <2>1. Own(req)
    BY <1>3
  <2>2. NotServed(req) \/ WriteAndReset(d, req, Put(disk[d], k, Absent), 204, NoBody)
    BY <1>5 DEF rpc_del
  <2> HIDE DEF req
  <2> QED
    BY <1>1, <2>1, <2>2
<1>6. CASE rpc_seize(d, k)
  <2> DEFINE req == Request("seize", d, <<k>>, <<>>)
  <2>1. Own(req)
    BY <1>3
  <2>2. NotServed(req) \/ Miss(d, req, k) \/ SeizeFound(d, req, k)
    BY <1>6 DEF rpc_seize
  <2> HIDE DEF req
  <2>3. CASE SeizeFound(d, req, k)
    <3>1. Stays /\ ResetErr(d) /\ reply'.code = 200 /\ reply'.req = req
      BY <2>3 DEF SeizeFound
    <3>2. reply'.code \notin {404, 500} /\ reply'.req.db = d
      BY <2>1, <3>1
    <3> QED
      BY <1>0, <3>1, <3>2, ResetHonest
  <2> QED
    BY <1>0, <2>1, <2>2, <2>3, NotServedHonest, MissHonest
<1>7. ASSUME NEW v, rpc_set(d, k, v) \/ rpc_add(d, k, v) PROVE Honest
  BY <1>1, <1>3, <1>7 DEF rpc_set, rpc_add
<1>8. ASSUME NEW v, rpc_append(d, k, v) \/ rpc_prepend(d, k, v) \/ rpc_replace(d, k, v)
      PROVE  Honest
  <2>1. \A op : Request(op, d, <<k>>, <<v>>).op = op
    BY DEF Request, RequestAt
  <2> QED
    BY <1>2, <1>3, <1>8, <2>1 DEF rpc_append, rpc_prepend, rpc_replace, KeepsErr
<1>9. ASSUME NEW v, NEW pos, rpc_insert(d, k, pos, v) PROVE Honest
  <2> DEFINE req == RequestAt("insert", d, <<k>>, <<v>>, pos)
  <2>1. Own(req) /\ req.op \in KeepsErr
    BY RequestFields DEF KeepsErr
  <2>2. NotServed(req) \/ Miss(d, req, k) \/ Die(req) \/ \E c : WriteAndKeep(d, req, c)
    BY <1>9 DEF rpc_insert
  <2> HIDE DEF req
  <2> QED
    BY <1>2, <2>1, <2>2, DieHonest
<1>10. ASSUME NEW v, NEW old, rpc_cas(d, k, old, v) PROVE Honest
  <2> DEFINE req == Request("cas", d, <<k>>, <<old, v>>)
  <2>1. Own(req) /\ req.op = "cas" /\ req.vals[1] = old
    BY RequestFields
  <2>2. \/ NotServed(req) \/ Miss(d, req, k)
        \/ WriteAndReset(d, req, Put(disk[d], k, v), 200, Found(disk[d], {k}))
        \/ /\ disk[d][k] # old /\ Answer(req, 404, NoBody)
           /\ UNCHANGED <<proc, handle, err, leaked, disk>>
    BY <1>10 DEF rpc_cas
  <2> HIDE DEF req
  <2>3. CASE /\ disk[d][k] # old /\ Answer(req, 404, NoBody)
             /\ UNCHANGED <<proc, handle, err, leaked, disk>>
    <3>1. Stays /\ UNCHANGED err /\ reply'.code = 404 /\ reply'.req = req
      BY <2>3 DEF Answer, Stays
    <3>2. reply'.req.db = d /\ reply'.req.keys[1] = k
      BY <2>1, <3>1
    <3> QED
      BY <2>1, <2>3, <3>1, <3>2, MissingHonest
  <2> QED
    BY <1>1, <2>1, <2>2, <2>3
<1> HIDE DEF Own
<1> QED
  BY <1>4, <1>5, <1>6, <1>7, <1>8, <1>9, <1>10 DEF OneKey

LEMMA ListNotServedHonest ==
  ASSUME NEW req, ListNotServed(req) PROVE Honest
<1>1. CASE NoKeys(req)
  <2>1. Stays /\ UNCHANGED err /\ reply'.code \notin {404, 500}
    BY <1>1 DEF NoKeys, Answer, Stays
  <2> QED
    BY <2>1, QuietHonest
<1> QED
  BY <1>1, NotServedHonest DEF ListNotServed, NotServed

LEMMA BatchHonest ==
  ASSUME TypeOK, NEW d \in DBs, NEW req, req.db = d, Batch(d, req)
  PROVE  Honest
<1>1. CASE BatchDone(d, req)
  <2>1. Stays /\ UNCHANGED err /\ reply'.code \notin {404, 500}
    BY <1>1 DEF BatchDone, Answer, Stays
  <2> QED
    BY <2>1, QuietHonest
<1>2. CASE BatchStopped(d, req)
  <2>1. \E fault \in Faults : err[d] \/ fault
    BY <1>2 DEF BatchStopped
  <2>2. ~(~EngineFaults /\ Healthy)
    BY <2>1, NoFaults DEF Healthy
  <2>3. Stays /\ ResetErr(d) /\ reply'.code = 500 /\ reply'.req.db = d
    BY <1>2 DEF BatchStopped, Answer
  <2>4. reply'.code # 404
    BY <2>3
  <2> QED
    BY <2>2, <2>3, <2>4, ResetHonest
<1>3. CASE BatchKilled(d, req)
  BY <1>3, DieHonest DEF BatchKilled
<1> QED
  BY <1>1, <1>2, <1>3, ListNotServedHonest DEF Batch

LEMMA MgetHonest ==
  ASSUME TypeOK, NEW d \in DBs, NEW ks, rpc_mget(d, ks)
  PROVE  Honest
<1> DEFINE req == Request("mget", d, ks, <<>>)
<1>1. \/ ListNotServed(req)
      \/ /\ Stays
         /\ \E F \in ReadFaults(ks) :
              /\ Answer(req, 200, Found(disk[d], At(ks, Hits(d, ks, F))))
              /\ KeepErr(d, F # {})
  BY DEF rpc_mget
<1>2. req.db = d
  BY RequestFields
<1> HIDE DEF req
<1>3. ASSUME Stays, NEW F \in ReadFaults(ks), KeepErr(d, F # {}), NEW body, Answer(req, 200, body)
      PROVE  Honest
  <2>1. PICK b \in BOOLEAN : b = (err[d] \/ F # {})
    OBVIOUS
  <2>2. err' = [err EXCEPT ![d] = b]
    BY <1>3, <2>1 DEF KeepErr
  <2>3. reply'.code = 200 /\ reply'.req.db = d
    BY <1>2, <1>3 DEF Answer
  <2>4. ~EngineFaults /\ Healthy => ~b
    BY <1>3, <2>1 DEF Healthy, ReadFaults
  <2>5. ~EngineFaults /\ Healthy => ~b /\ reply'.code # 500
    BY <2>3, <2>4
  <2>6. /\ Stays /\ reply'.req.db = d /\ reply'.code # 404
        /\ reply'.code # 500 \/ reply'.req.op \in KeepsErr
    BY <1>3, <2>3
  <2> QED
    BY <2>2, <2>5, <2>6, SlotHonest
<1> QED
  BY <1>1, <1>3, ListNotServedHonest

LEMMA MseizeHonest ==
  ASSUME TypeOK, NEW d \in DBs, NEW ks, rpc_mseize(d, ks)
  PROVE  Honest
<1> DEFINE req == Request("mseize", d, ks, <<>>)
<1>1. ListNotServed(req) \/ Seized(d, req, ks) \/ Die(req)
  BY DEF rpc_mseize, SeizeKilled
<1>2. req.db = d
  BY RequestFields
<1> HIDE DEF req
<1>3. CASE Seized(d, req, ks)
  <2>1. PICK F \in ReadFaults(ks) :
          /\ Answer(req, 200, Found(disk[d], At(ks, Hits(d, ks, F))))
          /\ err' = [err EXCEPT ![d] = \/ Hits(d, ks, F) = {} /\ @
                                       \/ \E i \in F : \A h \in Hits(d, ks, F) : h < i]
    BY <1>3 DEF Seized
  <2>2. PICK b \in BOOLEAN : b = (\/ Hits(d, ks, F) = {} /\ err[d]
                                  \/ \E i \in F : \A h \in Hits(d, ks, F) : h < i)
    OBVIOUS
  <2>3. err' = [err EXCEPT ![d] = b]
    BY <2>1, <2>2
  <2>4. Stays /\ reply'.code = 200 /\ reply'.req.db = d
    BY <1>2, <1>3, <2>1 DEF Seized, Answer
  <2>5. ~EngineFaults /\ Healthy => ~b
    BY <2>2 DEF Healthy, ReadFaults
  <2>6. ~EngineFaults /\ Healthy => ~b /\ reply'.code # 500
    BY <2>4, <2>5
  <2>7. /\ Stays /\ reply'.req.db = d /\ reply'.code # 404
        /\ reply'.code # 500 \/ reply'.req.op \in KeepsErr
    BY <2>4
  <2> QED
    BY <2>3, <2>6, <2>7, SlotHonest
<1> QED
  BY <1>1, <1>3, ListNotServedHonest, DieHonest

LEMMA RemoveHonest ==
  ASSUME TypeOK, NEW d \in DBs, NEW start, NEW end, rpc_remove(d, start, end)
  PROVE  Honest
<1> DEFINE req == Request("remove", d, <<start, end>>, <<>>)
<1>1. NotServed(req) \/ Removed(d, req, start, end) \/ Die(req)
  BY DEF rpc_remove, RemoveKilled
<1>2. req.db = d
  BY RequestFields
<1> HIDE DEF req
<1>3. CASE Removed(d, req, start, end)
  <2>1. /\ Stays /\ reply'.code = 204 /\ reply'.req.db = d
        /\ UNCHANGED err \/ ResetErr(d)
    BY <1>2, <1>3 DEF Removed, Answer
  <2>2. reply'.code \notin {404, 500}
    BY <2>1
  <2> QED
    BY <2>1, <2>2, QuietHonest, ResetHonest
<1> QED
  BY <1>1, <1>3, NotServedHonest, DieHonest

LEMMA ManyKeysHonest ==
  ASSUME StoreInv, NEW d \in DBs, ManyKeys(d)
  PROVE  Honest
<1>0. TypeOK
  BY DEF StoreInv
<1>1. ASSUME NEW ks, rpc_mget(d, ks) \/ rpc_mseize(d, ks) PROVE Honest
  BY <1>0, <1>1, MgetHonest, MseizeHonest
<1>2. ASSUME NEW ks, NEW vs, rpc_mdel(d, ks) \/ rpc_mset(d, ks, vs) PROVE Honest
  BY <1>0, <1>2, RequestFields, BatchHonest DEF rpc_mdel, rpc_mset
<1>3. ASSUME NEW ks, NEW vs, rpc_writebatch_commit(d, ks, vs) PROVE Honest
  BY <1>0, <1>3, RequestFields, NotServedHonest, WriteAndResetHonest DEF rpc_writebatch_commit
<1>4. ASSUME NEW start, NEW end, rpc_remove(d, start, end) PROVE Honest
  BY <1>0, <1>4, RemoveHonest
<1> QED
  BY <1>1, <1>2, <1>3, <1>4 DEF ManyKeys

LEMMA OpenHonest ==
  ASSUME TypeOK, NEW d \in DBs, NEW req, OpenDone(d, req) \/ OpenFailed(d, req)
  PROVE  Honest
<1>1. CASE Die(req)
  BY <1>1, DieHonest
<1>2. CASE ~Die(req)
  <2>1. reply'.code = 200 /\ UNCHANGED err
    BY <1>2 DEF OpenDone, OpenFailed, Answer
  <2>2. ASSUME ~EngineFaults, Healthy PROVE Healthy'
    <3>1. handle[d] \in {"none", "open"} /\ ~leaked[d]
      BY <2>2 DEF Healthy
    <3>2. CASE OpenDone(d, req)
      <4>1. handle[d] = "none"
        BY <3>1, <3>2 DEF OpenDone, Locked
      <4>2. handle' = [handle EXCEPT ![d] = "open"] /\ leaked' = [leaked EXCEPT ![d] = FALSE]
        BY <3>2, <4>1 DEF OpenDone
      <4> QED
        BY <2>1, <2>2, <4>2 DEF Healthy, TypeOK
    <3>3. CASE OpenFailed(d, req)
      <4>1. handle[d] = "open"
        BY <2>2, <3>1, <3>3 DEF OpenFailed, Locked
      <4>2. UNCHANGED leaked /\ handle' = handle
        BY <1>2, <3>3, <4>1 DEF OpenFailed, TypeOK
      <4> QED
        BY <2>1, <2>2, <4>2 DEF Healthy
    <3> QED
      BY <3>2, <3>3
  <2> QED
    BY <2>1, <2>2 DEF Honest
<1> QED
  BY <1>1, <1>2

LEMMA AdministerHonest ==
  ASSUME TypeOK, NEW d \in DBs, Administer(d)
  PROVE  Honest
<1>1. CASE rpc_new(d)
  BY <1>1, OpenHonest DEF rpc_new
<1>2. CASE DestroyOpen(d)
  <2> DEFINE req == Request("destroy", d, <<>>, <<>>)
  <2>1. PICK failed \in Faults :
          Answer(req, IF failed \/ err[d] THEN 500 ELSE 200, NoBody)
    BY <1>2, FaultType DEF DestroyOpen
  <2>2. /\ reply'.code \in {200, 500} /\ reply'.req.db = d
        /\ reply'.code = 500 => failed \/ err[d]
    BY <2>1 DEF Answer, Request, RequestAt
  <2>3. ~err'[d] /\ \A e \in DBs \ {d} : err'[e] = err[e]
    BY <1>2 DEF DestroyOpen, ResetErr, TypeOK
  <2>4. ASSUME ~EngineFaults, Healthy PROVE Healthy' /\ reply'.code # 500
    <3>1. ~(failed \/ err[d])
      BY <2>4, NoFaults DEF Healthy
    <3>2. handle' = [handle EXCEPT ![d] = "none"]
      <4>1. PICK torn \in Faults :
              handle' = [handle EXCEPT ![d] = IF torn \/ err[d] THEN "closed" ELSE "none"]
        BY <1>2 DEF DestroyOpen
      <4>2. ~(torn \/ err[d])
        BY <2>4, NoFaults DEF Healthy
      <4> QED
        BY <4>1, <4>2
    <3> QED
      BY <1>2, <2>1, <2>2, <2>3, <2>4, <3>1, <3>2 DEF Healthy, TypeOK, DestroyOpen
  <2> QED
    BY <2>2, <2>3, <2>4 DEF Honest
<1>3. CASE RepairFiles(d)
  <2>1. PICK fault \in Faults :
          Answer(Request("repair", d, <<>>, <<>>), IF fault \/ err[d] THEN 500 ELSE 200, NoBody)
    BY <1>3 DEF RepairFiles
  <2>2. /\ Stays /\ ResetErr(d) /\ reply'.code # 404 /\ reply'.req.db = d
        /\ reply'.code = 500 => fault \/ err[d]
    BY <1>3, <2>1 DEF RepairFiles, Answer, Request, RequestAt
  <2>3. ~EngineFaults /\ Healthy => reply'.code # 500
    BY <2>2, NoFaults DEF Healthy
  <2> QED
    BY <2>2, <2>3, ResetHonest
<1> QED
  BY <1>1, <1>2, <1>3, NotServedHonest DEF Administer, rpc_destroy, rpc_repair, NotServed

LEMMA StepHonest == StoreInv /\ Next => Honest
<1> SUFFICES ASSUME StoreInv, Next PROVE Honest
  OBVIOUS
<1>0. TypeOK
  BY DEF StoreInv
<1>1. CASE Start
  BY <1>0, <1>1, StoreAssumption, OpenHonest DEF Start
<1>2. CASE Killed
  BY <1>2, DieHonest DEF Killed
<1>3. CASE RepairUnnamed
  <2>1. ASSUME NEW req, Die(req) PROVE Honest
    BY <2>1, DieHonest
  <2>2. CASE /\ \A d \in DBs : handle[d] = "none"
             /\ Answer(Request("repair", DefaultDB, <<>>, <<>>), 404, NoBody)
             /\ UNCHANGED <<proc, handle, err, leaked>>
    <3>1. /\ Stays /\ UNCHANGED err /\ reply'.code = 404
          /\ handle[reply'.req.db] # "open"
      BY <2>2, StoreAssumption DEF Answer, Request, RequestAt, Stays
    <3> QED
      BY <3>1, MissingHonest
  <2> QED
    BY <1>3, <2>1, <2>2 DEF RepairUnnamed
<1>4. ASSUME NEW d \in DBs, Administer(d) PROVE Honest
  BY <1>0, <1>4, AdministerHonest
<1>5. ASSUME NEW d \in DBs, ManyKeys(d) PROVE Honest
  BY <1>5, ManyKeysHonest
<1>6. ASSUME NEW d \in DBs, BadRequest(d) \/ BadPost(d) PROVE Honest
  <2>1. Stays /\ UNCHANGED err /\ reply'.code \notin {404, 500}
    BY <1>6 DEF BadRequest, BadPost, Answer, Stays
  <2> QED
    BY <2>1, QuietHonest
<1>7. ASSUME NEW d \in DBs, NEW k \in Keys, OneKey(d, k) PROVE Honest
  BY <1>7, OneKeyHonest
<1> QED
  BY <1>1, <1>2, <1>3, <1>4, <1>5, <1>6, <1>7 DEF Next

-----------------------------------------------------------------------------
\* With a leveldb that never fails no sequence of requests, kills and restarts
\* spoils a handle or a slot, leaks an instance or is answered 500.
THEOREM StaysHealthy == Spec => []HealthyStore
<1>1. Init => HealthyStore
  BY DEF Init, HealthyStore
<1>2. StoreInv /\ HealthyStore /\ [Next]_vars => HealthyStore'
  <2> SUFFICES ASSUME StoreInv, HealthyStore, [Next]_vars PROVE HealthyStore'
    OBVIOUS
  <2>1. CASE Next
    BY <2>1, StepHonest DEF Honest, Healthy, HealthyStore
  <2>2. CASE UNCHANGED vars
    BY <2>2 DEF vars, HealthyStore
  <2> QED
    BY <2>1, <2>2
<1> QED
  BY <1>1, <1>2, StoreInvInit, StoreInvStep, PTL DEF Spec

\* All handlers but the append family leave a clean slot behind a 500.
THEOREM ErrorsAreReset == Spec => []ReportedErrorIsReset
<1>1. Init => ReportedErrorIsReset
  BY DEF Init, ReportedErrorIsReset
<1>2. StoreInv /\ ReportedErrorIsReset /\ [Next]_vars => ReportedErrorIsReset'
  <2> SUFFICES ASSUME StoreInv, ReportedErrorIsReset, [Next]_vars PROVE ReportedErrorIsReset'
    OBVIOUS
  <2>1. CASE Next
    BY <2>1, StepHonest DEF Honest, KeepsErr, ReportedErrorIsReset
  <2>2. CASE UNCHANGED vars
    BY <2>2 DEF vars, ReportedErrorIsReset
  <2> QED
    BY <2>1, <2>2
<1> QED
  BY <1>1, <1>2, StoreInvInit, StoreInvStep, PTL DEF Spec

\* With a leveldb that never fails a 404 from an open database is the truth.
THEOREM MissesAreTrue == Spec => NotFoundIsTrue
<1> DEFINE Told == LET d == reply'.req.db  k == reply'.req.keys[1] IN
                   ~EngineFaults /\ proc = "up" /\ handle[d] = "open" /\ reply'.code = 404 =>
                     \/ disk[d][k] = Absent
                     \/ reply'.req.op = "cas" /\ disk[d][k] # reply'.req.vals[1]
<1>1. StoreInv /\ [Next]_vars => [Told]_vars
  BY StepHonest DEF Honest
<1> QED
  BY <1>1, StoreInvInit, StoreInvStep, PTL DEF Spec, NotFoundIsTrue

-----------------------------------------------------------------------------
(* Theorems of RevelRest, for any databases, keys and values: a server     *)
(* that answers both interfaces does to the store what one that answers    *)
(* commands alone could have done, so what is proved of the store holds    *)
(* for it as well.                                                         *)

\* A REST handler that works on one key is a command for that key.
LEMMA RestOneKey ==
  ASSUME NEW d \in DBs, NEW k \in Keys,
         \/ rest_get(d, k) \/ rest_del(d, k) \/ rest_seize(d, k)
         \/ \E v \in Words :
              \/ rest_set(d, k, v) \/ rest_add(d, k, v) \/ rest_replace(d, k, v)
              \/ \E old \in Texts : rest_cas(d, k, old, v)
  PROVE  OneKey(d, k)
BY DEF OneKey, rest_get, rest_del, rest_seize, rest_set, rest_add, rest_replace, rest_cas

\* The handlers that read a body do what the commands of the same name do.
LEMMA RestManyKeys ==
  ASSUME NEW d \in DBs, NEW ks \in KeyLists,
         \/ rest_mget(d, ks) \/ rest_mseize(d, ks) \/ rest_mdel(d, ks)
         \/ \E vs \in [DOMAIN ks -> Words] : rest_mset(d, ks, vs)
  PROVE  ManyKeys(d)
<1>1. rest_mget(d, ks) => rpc_mget(d, ks)
  BY DEF rest_mget, rest_do_mget, rpc_mget
<1>2. rest_mseize(d, ks) => rpc_mseize(d, ks)
  BY DEF rest_mseize, rest_do_mseize, rpc_mseize
<1>3. rest_mdel(d, ks) => rpc_mdel(d, ks)
  BY DEF rest_mdel, rest_do_mdel, rpc_mdel, Batch
<1>4. ASSUME NEW vs \in [DOMAIN ks -> Words], rest_mset(d, ks, vs)
      PROVE  rpc_mset(d, ks, vs)
  BY <1>4 DEF rest_mset, rest_do_mset, rpc_mset, Batch
<1> QED
  BY <1>1, <1>2, <1>3, <1>4 DEF ManyKeys

LEMMA RestSteps == ASSUME NEW d \in DBs, Rest(d) PROVE Next
<1>1. ASSUME rest_new(d) PROVE Next
  BY <1>1 DEF rest_new, Administer, Next
<1>2. ASSUME rest_refused(d) \/ rest_bad_post(d) PROVE Next
  BY <1>2 DEF rest_refused, rest_bad_post, Next
<1>3. ASSUME NEW k \in Keys, OneKey(d, k) PROVE Next
  BY <1>3 DEF Next
<1>4. ASSUME ManyKeys(d) PROVE Next
  BY <1>4 DEF Next
<1> QED
  BY <1>1, <1>2, <1>3, <1>4, RestOneKey, RestManyKeys DEF Rest

\* Every behaviour of a server with both interfaces is, for the store and for
\* whoever reads the answers, one of a server with the command interface.
THEOREM RestIsStore == RestSpec => Spec
<1>1. [RestNext]_vars => [Next]_vars
  BY RestSteps DEF RestNext
<1> QED
  BY <1>1, PTL DEF RestSpec, Spec

\* What a client of either interface concludes from the code of an answer is
\* what happened to the database.
THEOREM RestServes == RestSpec => KVImplemented
BY RestIsStore, StoreServes
=============================================================================
