------------------------------ MODULE RevelRest ------------------------------
(***************************************************************************)
(* The REST front end.  Its handlers are those of the command interface    *)
(* under the names of rest.c: each finds its database in the same registry *)
(* and works through the same instance and error slot, so a process that   *)
(* offers both takes its steps from either.  REST has no destroy, repair,  *)
(* append, prepend, insert, remove or write batches, and what it does to   *)
(* the store it never does in a step of its own: RestSpec implements Spec. *)
(***************************************************************************)
EXTENDS RevelStore

rest_new(d) == rpc_new(d)

\* _rest_proto_and_method_sanity_check and _rest_query_param_sanity_check.
rest_refused(d) == BadRequest(d)

rest_set(d, k, v) == rpc_set(d, k, v)

\* add resets the error slot after the reply is sent, which no client can tell.
rest_add(d, k, v) == rpc_add(d, k, v)
rest_del(d, k) == rpc_del(d, k)

\* A snapshot parameter is not looked at.
rest_get(d, k) == rpc_get(d, k)
rest_seize(d, k) == rpc_seize(d, k)
rest_cas(d, k, old, v) == rpc_cas(d, k, old, v)

\* replace leaves the error slot filled, here too.
rest_replace(d, k, v) == rpc_replace(d, k, v)

-----------------------------------------------------------------------------
(* Posts: the database is looked up, then the body is read and worked off. *)

rest_do_mget(d, req, ks) ==
  /\ Serving(d) /\ Stays
  /\ \E F \in ReadFaults(ks) :
       /\ Answer(req, 200, Found(disk[d], At(ks, Hits(d, ks, F))))
       /\ KeepErr(d, F # {})
  /\ UNCHANGED disk

rest_mget(d, ks) ==
  LET req == Request("mget", d, ks, <<>>)
  IN ListNotServed(req) \/ rest_do_mget(d, req, ks)

rest_do_mset(d, req) == BatchDone(d, req) \/ BatchStopped(d, req) \/ BatchKilled(d, req)

rest_mset(d, ks, vs) ==
  LET req == Request("mset", d, ks, vs)
  IN ListNotServed(req) \/ rest_do_mset(d, req)

rest_do_mdel(d, req) == BatchDone(d, req) \/ BatchStopped(d, req) \/ BatchKilled(d, req)

rest_mdel(d, ks) ==
  LET req == Request("mdel", d, ks, <<>>)
  IN ListNotServed(req) \/ rest_do_mdel(d, req)

rest_do_mseize(d, req, ks) == Seized(d, req, ks) \/ SeizeKilled(d, req, ks)

rest_mseize(d, ks) ==
  LET req == Request("mseize", d, ks, <<>>)
  IN ListNotServed(req) \/ rest_do_mseize(d, req, ks)

rest_bad_post(d) == BadPost(d)

-----------------------------------------------------------------------------
Rest(d) ==
  \/ rest_new(d)
  \/ rest_refused(d)
  \/ rest_bad_post(d)
  \/ \E k \in Keys :
       \/ rest_get(d, k) \/ rest_del(d, k) \/ rest_seize(d, k)
       \/ \E v \in Words :
            \/ rest_set(d, k, v) \/ rest_add(d, k, v) \/ rest_replace(d, k, v)
            \/ \E old \in Texts : rest_cas(d, k, old, v)
  \/ \E ks \in KeyLists :
       \/ rest_mget(d, ks) \/ rest_mseize(d, ks) \/ rest_mdel(d, ks)
       \/ \E vs \in [DOMAIN ks -> Words] : rest_mset(d, ks, vs)

RestNext == Next \/ \E d \in DBs : Rest(d)
RestSpec == Init /\ [][RestNext]_vars

=============================================================================
