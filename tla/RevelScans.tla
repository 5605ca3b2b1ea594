----------------------------- MODULE RevelScans -----------------------------
(***************************************************************************)
(* The handlers that look through a whole database: range, the three that  *)
(* match regular expressions, the three that look for similar texts; and   *)
(* the ones that ask about a database or the server.  None of them changes *)
(* the store, so every step here is a step of RevelCursors, one that ends  *)
(* the process, or none.                                                   *)
(*                                                                         *)
(* A scan reads the database as it is, or as a snapshot saw it.  The       *)
(* regular expression library is not modelled: a pattern is the set of     *)
(* keys, or of values, that it matches, or it is one that does not compile. *)
(* Read errors of iterators are left out, as in RevelCursors.              *)
(***************************************************************************)
EXTENDS RevelCursors, Numerals

CONSTANTS
  KeyText,        \* the text of each key
  ValuePatterns,  \* bound: the sets of values a pattern may match
  Samples,         \* bound: the texts similar values are looked for
  Distances       \* bound: the texts given for a distance

VARIABLE
  seen      \* the last scan and what it was answered

scanVars == <<proc, handle, err, leaked, disk, reply, past, snaps, iters, told, seen>>

ASSUME ScanAssumption == KeyText \in [Keys -> Values]

Unanswered == -1
Asked(op, d, s, args) == [op |-> op, db |-> d, snap |-> s, args |-> args]
Says(req, code, body) == seen' = [req |-> req, code |-> code, body |-> body]
NoScan == [req |-> Asked("none", DefaultDB, None, <<>>), code |-> 0, body |-> NoBody]

CursorsStay == UNCHANGED allVars
Tells(req, code, body) == proc = "up" /\ Says(req, code, body) /\ CursorsStay
Dies(req) == Killed /\ Followed /\ Says(req, 0, NoBody)

-----------------------------------------------------------------------------
(* The source of a scan.                                                   *)

\* mutant: the read options with the snapshot are not used
Sources_Present(d, s) == {disk[d]}

\* The contents an iterator made for the scan may show: a snapshot of another
\* instance mixes versions (see ReadsAt).
Sources(d, s) ==
  IF s = None THEN {disk[d]}
  ELSE IF Own(s, d) THEN {past[d][snaps[s].at]}
  ELSE LET mixed == UNION {AnyVersion(d, k) : k \in Keys}
       IN {c \in [Keys -> mixed] : \A k \in Keys : c[k] \in AnyVersion(d, k)}

Readable(req) == Serving(req.db) /\ (req.snap # None => snaps[req.snap] # None)

\* The database is looked up, then the snapshot, whose absence is not checked.
NotScanned(req) ==
  \/ handle[req.db] = "none" /\ Tells(req, 404, NoBody)
  \/ handle[req.db] \in {"closed", "null"} /\ Dies(req)
  \/ Serving(req.db) /\ req.snap # None /\ snaps[req.snap] = None /\ Dies(req)

BadParameter(req) == Tells(req, 400, NoBody)

-----------------------------------------------------------------------------
(* range.                                                                  *)

\* mutant: the loop stops behind the end key
RangeKeys_WithEnd(c, start, end) ==
  LET first == IF start = NoKey THEN Least(Present(c)) ELSE Seek(c, start)
  IN {k \in Present(c) : /\ first # Off /\ k >= first
                         /\ end = NoKey \/ k <= end}

\* From the pair the iterator is put on, up to one whose key equals end.
RangeKeys(c, start, end) ==
  LET first == IF start = NoKey THEN Least(Present(c)) ELSE Seek(c, start)
      from == {k \in Present(c) : first # Off /\ k >= first}
  IN {k \in from : end \in from => k < end}

rpc_range(d, start, end) ==
  LET req == Asked("range", d, None, <<start, end>>) IN
  \/ NotScanned(req)
  \/ /\ Readable(req)
     /\ Tells(req, 200, Found(disk[d], RangeKeys(disk[d], start, end)))

-----------------------------------------------------------------------------
(* Regular expressions.  What re_compile_pattern returns is not looked at,  *)
(* and the first match with a pattern that did not compile faults.         *)

Fits(S) == [ok |-> TRUE, fits |-> S]
Broken == [ok |-> FALSE, fits |-> {}]
KeyPatterns == {Fits(S) : S \in SUBSET Keys} \cup {Broken}
ValPatterns == {Fits(S) : S \in ValuePatterns} \cup {Broken}

\* The pairs of c at the keys of S whose value fits the pattern; a broken one
\* is met only when there is a pair to match.
Matched(req, c, S, pattern) ==
  IF pattern.ok
  THEN Tells(req, 200, Found(c, {k \in S : c[k] \in pattern.fits}))
  ELSE IF S = {} THEN Tells(req, 200, NoBody) ELSE Dies(req)

rpc_vregex(d, s, pattern) ==
  LET req == Asked("vregex", d, s, <<pattern>>) IN
  \/ NotScanned(req)
  \/ Readable(req) /\ \E c \in Sources(d, s) : Matched(req, c, Present(c), pattern)

rpc_kregex(d, s, pattern) ==
  LET req == Asked("kregex", d, s, <<pattern>>) IN
  \/ NotScanned(req)
  \/ /\ Readable(req)
     /\ \E c \in Sources(d, s) :
          IF pattern.ok \/ Present(c) = {}
          THEN Tells(req, 200, Found(c, pattern.fits))
          ELSE Dies(req)

rpc_regex(d, s, kpattern, vpattern) ==
  LET req == Asked("regex", d, s, <<kpattern, vpattern>>) IN
  \/ NotScanned(req)
  \/ /\ Readable(req)
     /\ \E c \in Sources(d, s) :
          IF kpattern.ok \/ Present(c) = {}
          THEN Matched(req, c, Present(c) \cap kpattern.fits, vpattern)
          ELSE Dies(req)

-----------------------------------------------------------------------------
(* Similar texts.                                                          *)

\* _rpc_levenshtein strips a character of both texts as long as the first one
\* of one text equals itself: what is left is how much longer one is.
Distance(v, w) == IF Len(v) < Len(w) THEN Len(w) - Len(v) ELSE Len(v) - Len(w)
Near(v, w, limit) == Distance(v, w) <= ToUnsigned(limit)

Similar(req, limits, Answered(_)) ==
  IF \E i \in DOMAIN limits : ~safe_strtoul(limits[i])
  THEN BadParameter(req)
  ELSE \/ NotScanned(req)
       \/ /\ Readable(req)
          /\ \E c \in Sources(req.db, req.snap) : Tells(req, 200, Answered(c))

rpc_ksimilar(d, s, text, limit) ==
  LET Answered(c) == Found(c, {k \in Keys : Near(KeyText[k], text, limit)})
  IN Similar(Asked("ksimilar", d, s, <<text, limit>>), <<limit>>, Answered)

rpc_vsimilar(d, s, text, limit) ==
  LET Answered(c) == Found(c, {k \in Present(c) : Near(c[k], text, limit)})
  IN Similar(Asked("vsimilar", d, s, <<text, limit>>), <<limit>>, Answered)

\* similar takes the key of a pair for its value, to compare and to answer.
rpc_similar(d, s, ktext, klimit, vtext, vlimit) ==
  LET Answered(c) ==
        [k \in {k \in Present(c) : /\ Near(KeyText[k], ktext, klimit)
                                   /\ Near(KeyText[k], vtext, vlimit)} |-> KeyText[k]]
  IN Similar(Asked("similar", d, s, <<ktext, klimit, vtext, vlimit>>),
             <<klimit, vlimit>>, Answered)

-----------------------------------------------------------------------------
(* Questions about a database and the server.                              *)

\* The limit is checked but a missing one is not refused: its length is taken.
rpc_size(d, start, limit) ==
  LET req == Asked("size", d, None, <<start, limit>>) IN
  IF start = NoKey THEN BadParameter(req)
  ELSE \/ NotScanned(req)
       \/ Readable(req) /\ IF limit = NoKey THEN Dies(req) ELSE Tells(req, 200, NoBody)

\* Compaction rewrites files and changes no pair.
rpc_compact(d, start, end) ==
  LET req == Asked("compact", d, None, <<start, end>>) IN
  NotScanned(req) \/ (Readable(req) /\ Tells(req, 200, NoBody))

\* The check of the name refuses none; leveldb has no value for an unknown one.
rpc_property(d, name) ==
  LET req == Asked("property", d, None, <<name>>) IN
  \/ NotScanned(req)
  \/ Readable(req) /\ Tells(req, IF name = "known" THEN 200 ELSE 500, NoBody)

\* void, echo, head and version answer from the request and constants.
Constant(op) == Tells(Asked(op, DefaultDB, None, <<>>), 200, NoBody)

\* The handlers of report, status, clear and sync have no statement.
Empty_handler(op) == Tells(Asked(op, DefaultDB, None, <<>>), Unanswered, NoBody)

-----------------------------------------------------------------------------
Scan(d) ==
  \/ \E start, end \in Keys \cup {NoKey} :
       rpc_range(d, start, end) \/ rpc_size(d, start, end) \/ rpc_compact(d, start, end)
  \/ \E name \in {"known", "unknown"} : rpc_property(d, name)
  \/ \E s \in SnapIds \cup {None} :
       \/ \E kp \in KeyPatterns : rpc_kregex(d, s, kp)
       \/ \E vp \in ValPatterns : rpc_vregex(d, s, vp)
       \/ \E kp \in KeyPatterns, vp \in ValPatterns : rpc_regex(d, s, kp, vp)
       \/ \E t \in Samples, n \in Distances :
            \/ rpc_ksimilar(d, s, t, n)
            \/ rpc_vsimilar(d, s, t, n)
            \/ \E u \in Samples, m \in Distances : rpc_similar(d, s, t, n, u, m)

ScanInit == CursorInit /\ seen = NoScan

ScanNext ==
  \/ StoreStep /\ seen' = NoScan
  \/ (\E s \in SnapIds : SnapStep(s)) /\ seen' = NoScan
  \/ \E d \in DBs : Scan(d)
  \/ \E op \in {"void", "echo", "head", "version"} : Constant(op)
  \/ \E op \in {"report", "status", "clear", "sync"} : Empty_handler(op)

ScanSpec == ScanInit /\ [][ScanNext]_scanVars

-----------------------------------------------------------------------------
(* Properties.                                                             *)

\* What a scan should have looked through.
Source(req) == IF req.snap = None THEN disk[req.db] ELSE snaps[req.snap].saw

\* The pair of k and v is one the scan asks for.
Asks(req, k, v) ==
  CASE req.op = "kregex" -> k \in req.args[1].fits
    [] req.op = "vregex" -> v \in req.args[1].fits
    [] req.op = "regex" -> k \in req.args[1].fits /\ v \in req.args[2].fits
    [] OTHER -> TRUE

\* A scan of the database, or through a snapshot of it, answers with pairs of
\* the contents then and only with those, no matter what was written after the
\* snapshot was taken; a regular expression finds every pair it should.  similar
\* is left out: what it answers as a value is the key.
ScansAreFrozen ==
  [][LET req == seen'.req  body == seen'.body IN
     seen'.code = 200 /\ req.op \in {"range", "kregex", "vregex", "regex", "ksimilar", "vsimilar"}
       /\ (req.snap # None => Own(req.snap, req.db)) =>
       /\ \A k \in DOMAIN body : body[k] = Source(req)[k] /\ Asks(req, k, body[k])
       /\ req.op \in {"kregex", "vregex", "regex"} =>
            \A k \in Present(Source(req)) : Asks(req, k, Source(req)[k]) => k \in DOMAIN body]_scanVars

\* range shows the pairs that remove with the same bounds would delete: the two
\* loops start, stop and run past an absent end key alike.
RangeShowsWhatRemoveTakes ==
  [][seen'.req.op = "range" /\ seen'.code = 200 =>
       DOMAIN seen'.body = Swept(disk[seen'.req.db], seen'.req.args[1], seen'.req.args[2])]_scanVars
=============================================================================
