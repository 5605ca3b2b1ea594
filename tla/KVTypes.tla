------------------------------ MODULE KVTypes ------------------------------
(***************************************************************************)
(* The data the store's modules share: databases as partial maps from keys *)
(* to values, and the requests a client sends.                             *)
(***************************************************************************)
EXTENDS Integers, Sequences, FiniteSets

CONSTANTS
  DBs,            \* names a client may use for a database
  DefaultDB,      \* engine.dbname of the configuration
  Keys,           \* keys, ordered as leveldb's bytewise comparator orders them
  Chunks,         \* the pieces of text a request carries; a value is a sequence of them
  Absent,         \* marks a key with no value
  NoDb,           \* marks a database with no files
  NoKey,          \* an omitted key parameter
  MaxLen,         \* bound: stored values grow to at most this many chunks
  KeyLists,       \* bound: the "keys" arrays a multi-key request carries
  EngineFaults    \* may leveldb calls report errors of their own?

Values == Seq(Chunks)
Contents == [Keys -> Values \cup {Absent}]
Empty == [k \in Keys |-> Absent]

ASSUME StoreAssumption ==
  /\ DefaultDB \in DBs
  /\ Keys \subseteq Nat
  /\ NoKey \notin Keys
  /\ Absent \notin Values
  /\ NoDb \notin Contents
  /\ MaxLen \in Nat \ {0}
  /\ KeyLists \subseteq Seq(Keys)
  /\ EngineFaults \in BOOLEAN

\* bound: the value parameters a request carries, and the old values a cas names
Words == {<<c>> : c \in Chunks}
Texts == UNION {[1..n -> Chunks] : n \in 1..MaxLen}

-----------------------------------------------------------------------------
(* Requests.  ks and vs are the key and value parameters in the order the  *)
(* handler reads them; pos is the position an insert names.                *)

RequestAt(op, d, ks, vs, pos) ==
  [db |-> d, pos |-> pos, op |-> op, keys |-> ks, vals |-> vs]
Request(op, d, ks, vs) == RequestAt(op, d, ks, vs, 0)
Named(ks) == {ks[i] : i \in DOMAIN ks}

Put(c, k, v) == [c EXCEPT ![k] = v]
Without(c, S) == [k \in Keys |-> IF k \in S THEN Absent ELSE c[k]]

\* The pairs of c at the keys of S that have one.
Found(c, S) == [k \in {k \in S : c[k] # Absent} |-> c[k]]
NoBody == Found(Empty, {})

\* x placed in v before its element at pos, counted from 0.
InsertAt(v, pos, x) == SubSeq(v, 1, pos) \o x \o SubSeq(v, pos + 1, Len(v))

=============================================================================
