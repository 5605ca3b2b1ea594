---------------------------- MODULE EvThrProofs ----------------------------
(***************************************************************************)
(* Theorems of EvThr, for any number of threads, callers and jobs, any     *)
(* size of a pipe and any bound on the backlog.                            *)
(*                                                                         *)
(* Two facts carry the rest.  CallInv: a caller holds the lock of a thread *)
(* exactly while it is between counting its job and writing it.  StopInv:  *)
(* the stop command is the last of its pipe, and a thread that has it, or  *)
(* has read it, is one main has passed, so that nothing is written to it   *)
(* any more.                                                               *)
(***************************************************************************)
EXTENDS EvThr, FiniteSetTheorems, TLAPS

Stopped(t) == main.at \in {"gone", "crashed"} \/ (main.at = "stop" /\ t < main.next)

\* The thread has read the stop command.
Heard(t) ==
  \/ thr[t] \in {"cmd", "done"} /\ hand[t] = Stop
  \/ thr[t] \in {"leave", "freed"} /\ ~err[t]

CallInv ==
  \A c \in Callers :
    /\ call[c].at # "idle" => main.at \in {"serve", "crashed"} /\ call[c].job \in Jobs
    /\ \A t \in Threads : rlock[t] = c <=> call[c].at = "send" /\ call[c].min = t

StopInv ==
  \A t \in Threads :
    /\ Has(t, Stop) \/ Heard(t) => Stopped(t)
    /\ \A i \in 1..Len(pipe[t]) : pipe[t][i] = Stop => i = Len(pipe[t])
    /\ Heard(t) => pipe[t] = <<>>

\* A thread in the callback serves the connection it was given.
Accepting == \A t \in Threads : thr[t] = "accept" => open[t] > 0 /\ hand[t] # Stop

\* Threads that were not created have done nothing.
Fresh == main.at = "start" => \A t \in Threads : main.next <= t => thr[t] = "new"

PoolInv == EvThrTypeOK /\ CallInv /\ StopInv /\ Accepting /\ Fresh

LEMMA Constants ==
  /\ NThreads \in Nat \ {0} /\ PipeCap \in Nat \ {0} /\ MaxJobs \in Nat /\ MaxBacklog \in Nat
  /\ Threads \subseteq Nat /\ 1 \in Threads /\ NThreads \in Threads
  /\ \A t \in Threads : t # NThreads => t + 1 \in Threads
  /\ Jobs \subseteq Nat \ {0} /\ Stop \notin Jobs /\ Stop \in Cmds /\ Jobs \subseteq Cmds
  /\ Nobody \notin Callers
BY EvThrAssumption, NobodyAssumption DEF Threads, Jobs, Stop, Cmds

-----------------------------------------------------------------------------
(* Pipes.                                                                  *)

In(p, cmd) == \E i \in 1..Len(p) : p[i] = cmd

LEMMA AppendIn ==
  ASSUME NEW p \in Seq(Cmds), NEW x \in Cmds, NEW y
  PROVE  In(Append(p, x), y) <=> In(p, y) \/ x = y
<1>1. Len(Append(p, x)) = Len(p) + 1 /\ Append(p, x)[Len(p) + 1] = x
  OBVIOUS
<1>2. \A i \in 1..Len(p) : Append(p, x)[i] = p[i]
  OBVIOUS
<1>3. Len(p) \in Nat
  OBVIOUS
<1>4. 1..(Len(p) + 1) = (1..Len(p)) \cup {Len(p) + 1}
  BY <1>3
<1> QED
  BY <1>1, <1>2, <1>4 DEF In

LEMMA TailIn ==
  ASSUME NEW p \in Seq(Cmds), p # <<>>, NEW y
  PROVE  /\ Tail(p) \in Seq(Cmds) /\ Len(Tail(p)) = Len(p) - 1 /\ Head(p) \in Cmds
         /\ Len(p) \in Nat \ {0} /\ Head(p) = p[1]
         /\ \A i \in 1..Len(Tail(p)) : Tail(p)[i] = p[i + 1]
         /\ In(p, y) <=> Head(p) = y \/ In(Tail(p), y)
<1>1. /\ Tail(p) \in Seq(Cmds) /\ Len(Tail(p)) = Len(p) - 1 /\ Head(p) \in Cmds
      /\ Len(p) \in Nat \ {0} /\ Head(p) = p[1]
      /\ \A i \in 1..Len(Tail(p)) : Tail(p)[i] = p[i + 1]
  OBVIOUS
<1>2. ASSUME In(p, y), Head(p) # y PROVE In(Tail(p), y)
  <2>1. PICK i \in 1..Len(p) : p[i] = y
    BY <1>2 DEF In
  <2>2. i - 1 \in 1..Len(Tail(p)) /\ Tail(p)[i - 1] = p[i]
    BY <1>1, <1>2, <2>1
  <2> QED
    BY <2>1, <2>2 DEF In
<1>3. ASSUME In(Tail(p), y) PROVE In(p, y)
  <2>1. PICK i \in 1..Len(Tail(p)) : Tail(p)[i] = y
    BY <1>3 DEF In
  <2>2. i + 1 \in 1..Len(p) /\ p[i + 1] = y
    BY <1>1, <2>1
  <2> QED
    BY <2>2 DEF In
<1>4. Head(p) = y => In(p, y)
  BY <1>1 DEF In
<1> QED
  BY <1>1, <1>2, <1>3, <1>4

\* Where stop is the last command it stays the last, and nothing is behind it.
LEMMA TailLast ==
  ASSUME NEW p \in Seq(Cmds), p # <<>>, \A i \in 1..Len(p) : p[i] = Stop => i = Len(p)
  PROVE  /\ \A i \in 1..Len(Tail(p)) : Tail(p)[i] = Stop => i = Len(Tail(p))
         /\ Head(p) = Stop => Tail(p) = <<>>
<1>1. PICK n \in Nat \ {0} : n = Len(p)
  OBVIOUS
<1>2. PICK q \in Seq(Cmds) : q = Tail(p)
  BY TailIn
<1>3. /\ Len(q) = n - 1 /\ Head(p) = p[1]
      /\ \A i \in 1..(n - 1) : q[i] = p[i + 1]
  BY <1>1, <1>2, TailIn
<1>4. \A i \in 1..n : p[i] = Stop => i = n
  BY <1>1
<1>5. ASSUME NEW i \in 1..(n - 1), q[i] = Stop PROVE i = n - 1
  BY <1>3, <1>4, <1>5
<1>6. ASSUME p[1] = Stop PROVE n = 1
  BY <1>4, <1>6
<1>7. n = 1 => q = <<>>
  BY <1>3
<1> QED
  BY <1>2, <1>3, <1>5, <1>6, <1>7

LEMMA HasIn == \A t, cmd : Has(t, cmd) <=> In(pipe[t], cmd)
BY DEF Has, In

-----------------------------------------------------------------------------
(* Types.                                                                  *)

LEMMA TypeInit == Init => EvThrTypeOK
BY Constants, EvThrAssumption DEF Init, EvThrTypeOK, Idle, Cmds

LEMMA CrashType == EvThrTypeOK /\ Crash => EvThrTypeOK'
BY DEF EvThrTypeOK, Crash, thread, shared, history

LEMMA MainType ==
  ASSUME EvThrTypeOK, evthr_pool_start \/ evhttpx_free \/ evthr_stop \/ StopFreed
  PROVE  EvThrTypeOK'
<1>1. CASE evthr_pool_start
  <2>1. main' \in [at: {"start", "serve", "stop", "gone", "crashed"}, next: Threads]
    <3>1. main \in [at: {"start", "serve", "stop", "gone", "crashed"}, next: Threads]
      BY DEF EvThrTypeOK
    <3>2. main.next # NThreads => main.next + 1 \in Threads
      BY <3>1, Constants
    <3> QED
      BY <1>1, <3>1, <3>2, Constants DEF evthr_pool_start
  <2>2. thr' \in [Threads -> {"new", "starting", "loop", "cmd", "accept", "done",
                              "error", "leave", "freed"}]
    BY <1>1 DEF evthr_pool_start, EvThrTypeOK
  <2> QED
    BY <1>1, <2>1, <2>2 DEF evthr_pool_start, EvThrTypeOK, shared, history
<1>2. CASE evhttpx_free
  BY <1>2 DEF evhttpx_free, EvThrTypeOK, thread, shared, history
<1>3. CASE evthr_stop
  <2>1. main' \in [at: {"start", "serve", "stop", "gone", "crashed"}, next: Threads]
    BY <1>3, Constants DEF evthr_stop, NextToStop, EvThrTypeOK
  <2>2. pipe' \in [Threads -> Seq(Cmds)]
    <3>1. main.next \in Threads /\ pipe[main.next] \in Seq(Cmds)
      BY DEF EvThrTypeOK
    <3>2. Append(pipe[main.next], Stop) \in Seq(Cmds)
      BY <3>1, Constants
    <3> QED
      BY <1>3, <3>2 DEF evthr_stop, EvThrTypeOK
  <2> QED
    BY <1>3, <2>1, <2>2 DEF evthr_stop, EvThrTypeOK, thread, history
<1>4. CASE StopFreed
  BY <1>4, CrashType DEF StopFreed
<1> QED
  BY <1>1, <1>2, <1>3, <1>4

CallRecords == [at: {"idle", "scan", "check", "lock", "send"},
                next: Threads, min: Threads, job: Jobs \cup {1}]

LEMMA IdleType == Idle \in CallRecords
BY Constants DEF Idle, CallRecords

LEMMA CallType == EvThrTypeOK => call \in [Callers -> CallRecords]
BY DEF EvThrTypeOK, CallRecords

LEMMA CallAt ==
  ASSUME EvThrTypeOK, NEW c \in Callers,
         NEW place \in {"idle", "scan", "check", "lock", "send"}
  PROVE  [call EXCEPT ![c].at = place] \in [Callers -> CallRecords]
BY CallType DEF CallRecords

LEMMA ReturnType ==
  ASSUME EvThrTypeOK, NEW c \in Callers, NEW res, Return(c, res)
  PROVE  /\ call' \in [Callers -> CallRecords]
         /\ answer' \in [Jobs -> {"none", "ok", "refused"}]
BY IdleType, CallType DEF EvThrTypeOK, Return

LEMMA CallerType ==
  ASSUME EvThrTypeOK, CallInv, NEW c \in Callers, evthr_pool_defer(c) \/ Calling(c)
  PROVE  EvThrTypeOK'
<1>1. CASE evthr_pool_defer(c)
  <2>1. begun + 1 \in Jobs /\ begun' \in 0..MaxJobs
    BY <1>1, EvThrAssumption DEF evthr_pool_defer, EvThrTypeOK, Jobs
  <2>2. call' \in [Callers -> CallRecords]
    BY <1>1, <2>1, IdleType, CallType DEF evthr_pool_defer, CallRecords
  <2> QED
    BY <1>1, <2>1, <2>2 DEF evthr_pool_defer, EvThrTypeOK, CallRecords, thread, shared, history
<1>2. CASE ScanThread(c)
  <2>1. call[c].next \in Threads /\ call[c].min \in Threads
    BY DEF EvThrTypeOK
  <2>2. Better(call[c].next, call[c].min) \in Threads
    BY <2>1 DEF Better
  <2>3. (IF call[c].next < NThreads THEN call[c].next + 1 ELSE 1) \in Threads
    BY <2>1, EvThrAssumption DEF Threads
  <2>4. ASSUME NEW min \in Threads, NEW next \in Threads, NEW place \in {"check", "scan"}
        PROVE  [call EXCEPT ![c].min = min, ![c].next = next, ![c].at = place]
                 \in [Callers -> CallRecords]
    <3>1. DOMAIN call = Callers /\ call[c] \in CallRecords
      BY CallType
    <3>2. [call[c] EXCEPT !.min = min, !.next = next, !.at = place] \in CallRecords
      BY <3>1 DEF CallRecords
    <3> QED
      BY <3>1, <3>2, CallType
  <2>5. call' \in [Callers -> CallRecords]
    BY <1>2, <2>2, <2>3, <2>4 DEF ScanThread
  <2> QED
    BY <1>2, <2>5 DEF ScanThread, EvThrTypeOK, CallRecords, thread, shared, history
<1>3. CASE CheckBacklog(c)
  <2>1. ASSUME NEW res, Return(c, res) PROVE EvThrTypeOK'
    BY <1>3, <2>1, ReturnType DEF CheckBacklog, EvThrTypeOK, CallRecords, thread, shared
  <2>2. ASSUME call' = [call EXCEPT ![c].at = "lock"], UNCHANGED answer PROVE EvThrTypeOK'
    BY <1>3, <2>2, CallAt DEF CheckBacklog, EvThrTypeOK, CallRecords, thread, shared
  <2> QED
    BY <1>3, <2>1, <2>2 DEF CheckBacklog
<1>4. CASE LockAndCount(c)
  <2>1. call' \in [Callers -> CallRecords]
    BY <1>4, CallAt DEF LockAndCount
  <2>2. /\ rlock' \in [Threads -> Callers \cup {Nobody}]
        /\ backlog' \in [Threads -> Int]
    BY <1>4 DEF LockAndCount, EvThrTypeOK
  <2> QED
    BY <1>4, <2>1, <2>2 DEF LockAndCount, EvThrTypeOK, CallRecords, thread, history
<1>5. CASE Send(c)
  <2>1. call[c].job \in Cmds /\ call[c].min \in Threads
    BY <1>5, Constants DEF Send, At, CallInv, EvThrTypeOK
  <2>2. ASSUME Sent(c, call[c].min) PROVE EvThrTypeOK'
    <3>1. pipe' \in [Threads -> Seq(Cmds)]
      <4>1. Append(pipe[call[c].min], call[c].job) \in Seq(Cmds)
        BY <2>1 DEF EvThrTypeOK
      <4> QED
        BY <2>2, <4>1 DEF Sent, EvThrTypeOK
    <3>2. rlock' \in [Threads -> Callers \cup {Nobody}]
      BY <2>2 DEF Sent, EvThrTypeOK
    <3> QED
      BY <1>5, <2>2, <3>1, <3>2, ReturnType DEF Send, Sent, EvThrTypeOK, CallRecords, thread
  <2>3. ASSUME NotSent(c, call[c].min) PROVE EvThrTypeOK'
    <3>1. /\ rlock' \in [Threads -> Callers \cup {Nobody}]
          /\ backlog' \in [Threads -> Int]
      BY <2>3 DEF NotSent, EvThrTypeOK
    <3> QED
      BY <1>5, <2>3, <3>1, ReturnType DEF Send, NotSent, EvThrTypeOK, CallRecords, thread
  <2> QED
    BY <1>5, <2>2, <2>3 DEF Send
<1>6. CASE TouchFreed(c)
  BY <1>6, CrashType DEF TouchFreed
<1> QED
  BY <1>1, <1>2, <1>3, <1>4, <1>5, <1>6 DEF Calling

LEMMA WorkerType ==
  ASSUME EvThrTypeOK, Accepting, NEW t \in Threads,
         \/ Working(t) \/ ReadFails(t) \/ RunWithoutShared(t) \/ evhttpx_connection_free(t)
  PROVE  EvThrTypeOK'
<1>1. CASE EnterLoop(t)
  BY <1>1 DEF EnterLoop, Become, EvThrTypeOK, shared, history
<1>2. CASE ReadCmd(t)
  <2>1. Tail(pipe[t]) \in Seq(Cmds) /\ Head(pipe[t]) \in Cmds
    BY <1>2, TailIn DEF ReadCmd, EvThrTypeOK
  <2>2. /\ pipe' \in [Threads -> Seq(Cmds)]
        /\ hand' \in [Threads -> Cmds]
    BY <1>2, <2>1 DEF ReadCmd, Take, EvThrTypeOK
  <2> QED
    BY <1>2, <2>2 DEF ReadCmd, Become, EvThrTypeOK, history
<1>3. CASE GiveUp(t)
  <2>1. backlog' \in [Threads -> Int] /\ err' \in [Threads -> BOOLEAN]
    BY <1>3 DEF GiveUp, EvThrTypeOK
  <2>2. thr' \in [Threads -> {"new", "starting", "loop", "cmd", "accept", "done",
                              "error", "leave", "freed"}]
    BY <1>3 DEF GiveUp, Become, EvThrTypeOK
  <2> QED
    BY <1>3, <2>1, <2>2 DEF GiveUp, EvThrTypeOK, history
<1>4. CASE run_in_thread(t)
  <2>1. hand[t] \in Jobs
    BY <1>4 DEF run_in_thread, EvThrTypeOK, Cmds
  <2>2. open' \in [Threads -> Nat] /\ backlog' \in [Threads -> Int] /\ ran' \in [Jobs -> Nat]
    <3>1. /\ open \in [Threads -> Nat] /\ backlog \in [Threads -> Int] /\ ran \in [Jobs -> Nat]
          /\ open[t] + 1 \in Nat /\ backlog[t] + 1 \in Int /\ ran[hand[t]] + 1 \in Nat
      BY <2>1 DEF EvThrTypeOK
    <3> QED
      BY <1>4, <2>1, <3>1 DEF run_in_thread, Count
  <2>3. thr' \in [Threads -> {"new", "starting", "loop", "cmd", "accept", "done",
                              "error", "leave", "freed"}]
    BY <1>4 DEF run_in_thread, Become, EvThrTypeOK
  <2> QED
    BY <1>4, <2>2, <2>3 DEF run_in_thread, EvThrTypeOK
<1>5. CASE Accept(t) \/ BreakLoop(t) \/ evthr_free(t) \/ ReadFails(t)
  <2>1. CASE Accept(t)
    BY <2>1 DEF Accept, Become, EvThrTypeOK, shared, history
  <2>2. CASE BreakLoop(t)
    BY <2>2 DEF BreakLoop, Become, EvThrTypeOK, shared, history
  <2>3. CASE evthr_free(t)
    BY <2>3 DEF evthr_free, Become, EvThrTypeOK, shared, history
  <2>4. CASE ReadFails(t)
    BY <2>4 DEF ReadFails, Become, EvThrTypeOK, shared, history
  <2> QED
    BY <1>5, <2>1, <2>2, <2>3, <2>4
<1>6. CASE Done(t)
  <2>1. hand' \in [Threads -> Cmds] /\ backlog' \in [Threads -> Int]
    BY <1>6, Constants, SMTT(30) DEF Done, Count, EvThrTypeOK
  <2>2. thr' \in [Threads -> {"new", "starting", "loop", "cmd", "accept", "done",
                              "error", "leave", "freed"}]
    BY <1>6 DEF Done, After, Become, EvThrTypeOK
  <2> QED
    BY <1>6, <2>1, <2>2 DEF Done, EvThrTypeOK, history
<1>7. CASE RunWithoutShared(t)
  BY <1>7, CrashType DEF RunWithoutShared
<1>8. CASE evhttpx_connection_free(t)
  <2>1. open[t] - 1 \in Nat
    BY <1>8 DEF evhttpx_connection_free, Serves, Works, Accepting, EvThrTypeOK
  <2>2. thr' \in [Threads -> {"new", "starting", "loop", "cmd", "accept", "done",
                              "error", "leave", "freed"}]
    BY <1>8 DEF evhttpx_connection_free, Become, EvThrTypeOK
  <2>3. open' \in [Threads -> Nat] /\ backlog' \in [Threads -> Int]
    BY <1>8, <2>1 DEF evhttpx_connection_free, Count, EvThrTypeOK
  <2> QED
    BY <1>8, <2>2, <2>3 DEF evhttpx_connection_free, EvThrTypeOK, history
<1> QED
  BY <1>1, <1>2, <1>3, <1>4, <1>5, <1>6, <1>7, <1>8 DEF Working

-----------------------------------------------------------------------------
(* The lock of a pipe, and the stop command in it.                         *)

LEMMA CrashKeeps ==
  ASSUME CallInv, StopInv, Accepting, Crash
  PROVE  CallInv' /\ StopInv' /\ Accepting'
<1> USE DEF Crash, thread, shared, history
<1>1. CallInv' /\ Accepting'
  BY DEF CallInv, Accepting
<1>2. main'.at = "crashed" \/ (main' = [main EXCEPT !.at = "crashed"])
  OBVIOUS
<1>3. ASSUME NEW t PROVE (Stopped(t) => Stopped(t)') /\ (Has(t, Stop)' <=> Has(t, Stop))
                         /\ (Heard(t)' <=> Heard(t))
  BY DEF Stopped, Has, Heard
<1> QED
  BY <1>1, <1>3 DEF StopInv

\* What main does reaches the callers only when all of them are back.
LEMMA MainCalls ==
  ASSUME EvThrTypeOK, CallInv, evthr_pool_start \/ evhttpx_free \/ evthr_stop
  PROVE  CallInv' /\ \A c \in Callers : call[c].at = "idle"
<1>1. call' = call /\ rlock' = rlock
  BY DEF evthr_pool_start, evhttpx_free, evthr_stop, thread, shared
<1>2. main.at \notin {"serve", "crashed"} \/ \A c \in Callers : call[c].at = "idle"
  BY DEF evthr_pool_start, evhttpx_free, evthr_stop
<1>3. \A c \in Callers : call[c].at = "idle"
  BY <1>2 DEF CallInv
<1> QED
  BY <1>1, <1>3 DEF CallInv

LEMMA NobodyCalls ==
  ASSUME EvThrTypeOK, CallInv, \A c \in Callers : call[c].at = "idle", NEW t \in Threads
  PROVE  rlock[t] = Nobody
BY DEF EvThrTypeOK, CallInv

\* A thread that leaves on an error clears the way for StopInv; every other
\* thread that can be written to is not yet stopped.
LEMMA MainStops ==
  ASSUME EvThrTypeOK, StopInv, evthr_pool_start \/ evhttpx_free \/ evthr_stop
  PROVE  StopInv'
<1>1. CASE evthr_pool_start
  <2>1. \A t \in Threads : ~Has(t, Stop) /\ ~Heard(t)
    BY <1>1 DEF StopInv, Stopped, evthr_pool_start
  <2>2. \A t \in Threads : ~Has(t, Stop)' /\ (Heard(t)' => Heard(t)) /\ pipe' = pipe
    BY <1>1, <2>1 DEF Has, Heard, evthr_pool_start, shared, EvThrTypeOK
  <2> QED
    BY <2>1, <2>2 DEF StopInv
<1>2. CASE evhttpx_free
  <2>1. \A t \in Threads : ~Has(t, Stop) /\ ~Heard(t)
    BY <1>2 DEF StopInv, Stopped, evhttpx_free
  <2>2. \A t \in Threads : ~Has(t, Stop)' /\ ~Heard(t)' /\ pipe' = pipe
    BY <1>2, <2>1 DEF Has, Heard, evhttpx_free, thread, shared
  <2> QED
    BY <2>2 DEF StopInv
<1>3. CASE evthr_stop
  <2>0. PICK n \in Threads : n = main.next
    BY DEF EvThrTypeOK
  <2>1. n \in Threads /\ n \in Nat /\ main.at = "stop" /\ \A t \in Threads : t \in Nat
    BY <1>3, Constants DEF evthr_stop
  <2>2. main'.at = "gone" \/ (main'.at = "stop" /\ main'.next = n + 1)
    BY <1>3, <2>0 DEF evthr_stop, NextToStop, EvThrTypeOK
  <2>3. /\ ~Stopped(n) /\ Stopped(n)'
        /\ \A t \in Threads : Stopped(t) => Stopped(t)'
    BY <2>0, <2>1, <2>2 DEF Stopped
  <2>4. \A t \in Threads : Heard(t)' <=> Heard(t)
    BY <1>3 DEF evthr_stop, Heard, thread
  <2>5. ~Has(n, Stop) /\ ~Heard(n)
    BY <2>1, <2>3 DEF StopInv
  <2>6. \A t \in Threads \ {n} : pipe'[t] = pipe[t]
    BY <1>3, <2>0 DEF evthr_stop, EvThrTypeOK
  <2>7. \A t \in Threads \ {n} : Has(t, Stop)' <=> Has(t, Stop)
    BY <2>6 DEF Has
  <2>8. ASSUME NEW i \in 1..Len(pipe'[n]), pipe'[n][i] = Stop PROVE i = Len(pipe'[n])
    <3>1. CASE pipe' = pipe
      BY <2>5, <2>8, <3>1 DEF Has
    <3>2. CASE pipe' = [pipe EXCEPT ![n] = Append(@, Stop)]
      <4> DEFINE p == pipe[n]
      <4>1. p \in Seq(Cmds) /\ pipe'[n] = Append(p, Stop)
        BY <2>1, <3>2 DEF EvThrTypeOK
      <4> HIDE DEF p
      <4>2. Len(pipe'[n]) = Len(p) + 1 /\ Len(p) \in Nat
        BY <4>1
      <4>3. \A j \in 1..Len(p) : pipe'[n][j] = p[j]
        BY <4>1
      <4>4. \A j \in 1..Len(p) : p[j] # Stop
        BY <2>5 DEF Has, p
      <4> QED
        BY <2>8, <4>2, <4>3, <4>4
    <3> QED
      BY <1>3, <2>0, <3>1, <3>2 DEF evthr_stop
  <2>9. ASSUME NEW t \in Threads
        PROVE  /\ Has(t, Stop)' \/ Heard(t)' => Stopped(t)'
               /\ \A i \in 1..Len(pipe'[t]) : pipe'[t][i] = Stop => i = Len(pipe'[t])
               /\ Heard(t)' => pipe'[t] = <<>>
    <3>1. CASE t = n
      BY <2>3, <2>4, <2>5, <2>8, <3>1
    <3>2. CASE t # n
      BY <2>3, <2>4, <2>6, <2>7, <3>2 DEF StopInv
    <3> QED
      BY <3>1, <3>2
  <2> QED
    BY <2>9 DEF StopInv
<1> QED
  BY <1>1, <1>2, <1>3

\* A caller is about the pool only while nothing is stopped.
LEMMA ServingStops ==
  ASSUME StopInv, main.at = "serve", NEW t \in Threads
  PROVE  ~Stopped(t) /\ ~Has(t, Stop) /\ ~Heard(t)
BY DEF StopInv, Stopped

LEMMA CallerStops ==
  ASSUME EvThrTypeOK, CallInv, StopInv, Accepting, NEW c \in Callers,
         evthr_pool_defer(c) \/ ScanThread(c) \/ CheckBacklog(c) \/ LockAndCount(c) \/ Send(c)
  PROVE  StopInv' /\ Accepting'
<1>1. main.at = "serve" /\ UNCHANGED <<main, thr, hand, open, err>>
  BY DEF evthr_pool_defer, ScanThread, CheckBacklog, LockAndCount, Send, At, thread
<1>2. Accepting'
  BY <1>1 DEF Accepting
<1>3. ASSUME NEW t \in Threads PROVE ~Has(t, Stop)' /\ ~Heard(t)'
  <2>1. ~Heard(t)'
    BY <1>1, ServingStops DEF Heard
  <2>2. ~Has(t, Stop)
    BY <1>1, ServingStops
  <2>3. CASE pipe' = pipe
    BY <2>1, <2>2, <2>3 DEF Has
  <2>4. CASE Send(c) /\ Sent(c, call[c].min)
    <3>1. call[c].job \in Jobs
      BY <2>4 DEF Send, At, CallInv
    <3>2. pipe'[t] = pipe[t] \/ pipe'[t] = Append(pipe[t], call[c].job)
      BY <2>4 DEF Sent, EvThrTypeOK
    <3>3. pipe[t] \in Seq(Cmds) /\ call[c].job \in Cmds /\ call[c].job # Stop
      BY <3>1, Constants DEF EvThrTypeOK
    <3>4. ~In(pipe[t], Stop)
      BY <2>2, HasIn
    <3>5. ~In(Append(pipe[t], call[c].job), Stop)
      BY <3>3, <3>4, AppendIn
    <3>6. ~In(pipe'[t], Stop)
      BY <3>2, <3>4, <3>5
    <3> QED
      BY <2>1, <3>6 DEF Has, In
  <2> QED
    BY <2>3, <2>4 DEF evthr_pool_defer, ScanThread, CheckBacklog, LockAndCount, Send, NotSent, shared
<1> QED
  BY <1>2, <1>3 DEF StopInv, Has

LEMMA ReturnCalls ==
  ASSUME EvThrTypeOK, NEW c \in Callers, NEW res, Return(c, res)
  PROVE  call'[c].at = "idle" /\ \A e \in Callers \ {c} : call'[e] = call[e]
BY DEF EvThrTypeOK, Return, Idle

LEMMA CallerCalls ==
  ASSUME EvThrTypeOK, CallInv, NEW c \in Callers,
         evthr_pool_defer(c) \/ ScanThread(c) \/ CheckBacklog(c) \/ LockAndCount(c) \/ Send(c)
  PROVE  CallInv'
<1>1. main.at = "serve" /\ main' = main
  BY DEF evthr_pool_defer, ScanThread, CheckBacklog, LockAndCount, Send, At
<1>2. ASSUME \A e \in Callers \ {c} : call'[e] = call[e],
             call'[c].at # "idle" => call'[c].job \in Jobs,
             rlock' = rlock, call[c].at # "send", call'[c].at # "send"
      PROVE  CallInv'
  BY <1>1, <1>2 DEF CallInv
<1>3. CASE evthr_pool_defer(c)
  <2>1. begun + 1 \in Jobs
    <3>1. begun \in Nat /\ begun < MaxJobs
      BY <1>3, Constants DEF evthr_pool_defer, EvThrTypeOK
    <3> QED
      BY <3>1, Constants DEF Jobs
  <2>2. /\ \A e \in Callers \ {c} : call'[e] = call[e]
        /\ call'[c].job = begun + 1 /\ call'[c].at = "scan" /\ call[c].at = "idle" /\ rlock' = rlock
    BY <1>3 DEF evthr_pool_defer, At, EvThrTypeOK, Idle, shared
  <2> QED
    BY <1>2, <2>1, <2>2
<1>4. CASE ScanThread(c)
  <2>1. call[c].job \in Jobs /\ call[c].at = "scan"
    BY <1>4 DEF ScanThread, At, CallInv
  <2>2. /\ \A e \in Callers \ {c} : call'[e] = call[e]
        /\ call'[c].job = call[c].job /\ call'[c].at \in {"scan", "check"} /\ rlock' = rlock
    BY <1>4 DEF ScanThread, EvThrTypeOK, shared
  <2> QED
    BY <1>2, <2>1, <2>2
<1>5. CASE CheckBacklog(c)
  <2>1. call[c].job \in Jobs /\ call[c].at = "check" /\ rlock' = rlock
    BY <1>5 DEF CheckBacklog, At, CallInv, shared
  <2>2. ASSUME NEW res, Return(c, res) PROVE CallInv'
    BY <1>2, <2>1, <2>2, ReturnCalls
  <2>3. ASSUME call' = [call EXCEPT ![c].at = "lock"] PROVE CallInv'
    <3>1. /\ \A e \in Callers \ {c} : call'[e] = call[e]
          /\ call'[c].job = call[c].job /\ call'[c].at = "lock"
      BY <2>3 DEF EvThrTypeOK
    <3> QED
      BY <1>2, <2>1, <3>1
  <2> QED
    BY <1>5, <2>2, <2>3 DEF CheckBacklog
<1>6. CASE LockAndCount(c)
  <2> DEFINE n == call[c].min
  <2>1. /\ call[c].job \in Jobs /\ call[c].at = "lock" /\ n \in Threads
        /\ rlock[n] = Nobody /\ Nobody \notin Callers
    BY <1>6, NobodyAssumption DEF LockAndCount, At, CallInv, EvThrTypeOK
  <2>2. /\ \A e \in Callers \ {c} : call'[e] = call[e]
        /\ call'[c].job = call[c].job /\ call'[c].at = "send" /\ call'[c].min = n
        /\ rlock'[n] = c /\ \A t \in Threads \ {n} : rlock'[t] = rlock[t]
    BY <1>6 DEF LockAndCount, EvThrTypeOK
  <2> QED
    BY <1>1, <2>1, <2>2 DEF CallInv
<1>7. CASE Send(c)
  <2> DEFINE n == call[c].min
  <2>1. /\ call[c].at = "send" /\ n \in Threads /\ rlock[n] = c /\ Nobody \notin Callers
    BY <1>7, NobodyAssumption DEF Send, At, CallInv, EvThrTypeOK
  <2>2. \E res : Return(c, res)
    BY <1>7 DEF Send, Sent, NotSent
  <2>3. call'[c].at = "idle" /\ \A e \in Callers \ {c} : call'[e] = call[e]
    BY <2>2, ReturnCalls
  <2>4. rlock'[n] = Nobody /\ \A t \in Threads \ {n} : rlock'[t] = rlock[t]
    BY <1>7 DEF Send, Sent, NotSent, EvThrTypeOK
  <2> QED
    BY <1>1, <2>1, <2>3, <2>4 DEF CallInv
<1> QED
  BY <1>3, <1>4, <1>5, <1>6, <1>7

Labour(t) ==
  \/ EnterLoop(t) \/ ReadCmd(t) \/ GiveUp(t) \/ run_in_thread(t) \/ Accept(t) \/ BreakLoop(t)
  \/ Done(t) \/ evthr_free(t) \/ ReadFails(t) \/ evhttpx_connection_free(t)

LEMMA LabourFrame ==
  ASSUME EvThrTypeOK, NEW t \in Threads, Labour(t)
  PROVE  /\ ~Crashed /\ UNCHANGED <<main, rlock, call, begun, answer>>
         /\ \A u \in Threads \ {t} : /\ thr'[u] = thr[u] /\ hand'[u] = hand[u]
                                     /\ pipe'[u] = pipe[u] /\ err'[u] = err[u]
                                     /\ open'[u] = open[u] /\ backlog'[u] = backlog[u]
<1> USE DEF EvThrTypeOK, Works, Become
<1>1. CASE EnterLoop(t) \/ Accept(t) \/ BreakLoop(t) \/ evthr_free(t) \/ ReadFails(t)
  BY <1>1 DEF EnterLoop, Accept, BreakLoop, evthr_free, ReadFails, shared, history
<1>2. CASE ReadCmd(t)
  BY <1>2 DEF ReadCmd, Take, history
<1>3. CASE GiveUp(t)
  BY <1>3 DEF GiveUp, history
<1>4. CASE run_in_thread(t)
  BY <1>4 DEF run_in_thread, Count
<1>5. CASE Done(t)
  BY <1>5 DEF Done, Count, history
<1>6. CASE evhttpx_connection_free(t)
  BY <1>6 DEF evhttpx_connection_free, Serves, Count, history
<1> QED
  BY <1>1, <1>2, <1>3, <1>4, <1>5, <1>6 DEF Labour

\* What a step does to the thread itself.
LEMMA OwnCommands ==
  ASSUME EvThrTypeOK, StopInv, Accepting, NEW t \in Threads, Labour(t)
  PROVE  /\ Has(t, Stop)' => Has(t, Stop)
         /\ Heard(t)' => Has(t, Stop) \/ Heard(t)
         /\ \A i \in 1..Len(pipe'[t]) : pipe'[t][i] = Stop => i = Len(pipe'[t])
         /\ Heard(t)' => pipe'[t] = <<>>
         /\ thr'[t] = "accept" => open'[t] > 0 /\ hand'[t] # Stop
<1> USE DEF EvThrTypeOK, Works, Become
<1>1. CASE pipe'[t] = pipe[t] /\ (Heard(t)' => Heard(t))
           /\ (thr'[t] = "accept" => open'[t] > 0 /\ hand'[t] # Stop)
  BY <1>1 DEF StopInv, Has
<1>2. CASE EnterLoop(t) \/ Accept(t) \/ ReadFails(t) \/ GiveUp(t)
  BY <1>1, <1>2 DEF EnterLoop, Accept, ReadFails, GiveUp, Heard, Accepting, shared
<1>3. CASE BreakLoop(t) \/ evthr_free(t)
  BY <1>1, <1>3 DEF BreakLoop, evthr_free, Heard, shared
<1>4. CASE run_in_thread(t)
  <2>1. hand'[t] # Stop /\ thr'[t] = "accept" /\ open'[t] > 0 /\ pipe' = pipe
    BY <1>4 DEF run_in_thread
  <2> QED
    BY <1>1, <2>1 DEF Heard
<1>5. CASE Done(t)
  <2>1. /\ thr[t] = "done" /\ thr'[t] = After(t) /\ err' = err /\ pipe' = pipe
    BY <1>5 DEF Done
  <2>2. Heard(t)' => Heard(t)
    BY <2>1 DEF Heard, After
  <2> QED
    BY <1>1, <2>1, <2>2 DEF After
<1>6. CASE evhttpx_connection_free(t)
  <2>1. /\ thr[t] \in {"accept", "loop"} /\ thr'[t] \in {"done", "loop"}
        /\ thr[t] = "loop" => thr'[t] = "loop"
        /\ hand' = hand /\ err' = err /\ pipe' = pipe
    BY <1>6 DEF evhttpx_connection_free, Serves
  <2>2. ~Heard(t)'
    BY <2>1 DEF Heard, Accepting
  <2> QED
    BY <1>1, <2>1, <2>2
<1>7. CASE ReadCmd(t)
  <2> DEFINE p == pipe[t]
  <2>1. /\ p \in Seq(Cmds) /\ p # <<>> /\ thr[t] = "loop" /\ thr'[t] = "cmd"
        /\ hand'[t] = Head(p) /\ pipe'[t] = Tail(p) /\ err' = err
    BY <1>7 DEF ReadCmd, Take
  <2>2. \A i \in 1..Len(p) : p[i] = Stop => i = Len(p)
    BY DEF StopInv
  <2>3. Has(t, Stop) <=> In(p, Stop)
    BY HasIn
  <2>4. Has(t, Stop)' <=> In(pipe'[t], Stop)
    BY DEF Has, In
  <2>5. Heard(t)' <=> Head(p) = Stop
    BY <2>1 DEF Heard
  <2> HIDE DEF p
  <2>6. In(p, Stop) <=> Head(p) = Stop \/ In(Tail(p), Stop)
    BY <2>1, TailIn
  <2>7. /\ \A i \in 1..Len(Tail(p)) : Tail(p)[i] = Stop => i = Len(Tail(p))
        /\ Head(p) = Stop => Tail(p) = <<>>
    BY <2>1, <2>2, TailLast
  <2> QED
    BY <2>1, <2>3, <2>4, <2>5, <2>6, <2>7
<1> QED
  BY <1>2, <1>3, <1>4, <1>5, <1>6, <1>7 DEF Labour

LEMMA LabourKeeps ==
  ASSUME EvThrTypeOK, CallInv, StopInv, Accepting, NEW t \in Threads, Labour(t)
  PROVE  CallInv' /\ StopInv' /\ Accepting'
<1>1. CallInv'
  BY LabourFrame DEF CallInv
<1>2. ASSUME NEW u \in Threads \ {t}
      PROVE  /\ (Has(u, Stop)' <=> Has(u, Stop)) /\ (Heard(u)' <=> Heard(u))
             /\ pipe'[u] = pipe[u]
             /\ thr'[u] = "accept" => open'[u] > 0 /\ hand'[u] # Stop
  BY <1>2, LabourFrame DEF Has, Heard, Accepting
<1>3. \A u \in Threads : Stopped(u)' <=> Stopped(u)
  BY LabourFrame DEF Stopped
<1>4. Accepting'
  BY <1>2, OwnCommands DEF Accepting
<1>5. StopInv'
  <2>1. ASSUME NEW u \in Threads
        PROVE  /\ Has(u, Stop)' \/ Heard(u)' => Stopped(u)'
               /\ \A i \in 1..Len(pipe'[u]) : pipe'[u][i] = Stop => i = Len(pipe'[u])
               /\ Heard(u)' => pipe'[u] = <<>>
    <3>1. CASE u = t
      BY <1>3, <3>1, OwnCommands DEF StopInv
    <3>2. CASE u # t
      BY <1>2, <1>3, <3>2 DEF StopInv
    <3> QED
      BY <3>1, <3>2
  <2> QED
    BY <2>1 DEF StopInv
<1> QED
  BY <1>1, <1>4, <1>5

-----------------------------------------------------------------------------
(* The invariant.                                                          *)

LEMMA PoolInvInit == Init => PoolInv
<1> SUFFICES ASSUME Init PROVE PoolInv
  OBVIOUS
<1>1. EvThrTypeOK
  BY TypeInit
<1>2. CallInv
  BY NobodyAssumption DEF Init, CallInv, Idle
<1>3. StopInv /\ Accepting /\ Fresh
  BY DEF Init, StopInv, Accepting, Fresh, Has, Heard
<1> QED
  BY <1>1, <1>2, <1>3 DEF PoolInv

LEMMA SameKeeps == PoolInv /\ UNCHANGED vars => PoolInv'
<1> SUFFICES ASSUME PoolInv, UNCHANGED vars PROVE PoolInv'
  OBVIOUS
<1> USE DEF vars, thread, shared, history
<1>1. EvThrTypeOK' /\ CallInv' /\ Accepting' /\ Fresh'
  BY DEF PoolInv, EvThrTypeOK, CallInv, Accepting, Fresh
<1>2. \A t : /\ (Stopped(t)' <=> Stopped(t)) /\ (Heard(t)' <=> Heard(t))
             /\ (Has(t, Stop)' <=> Has(t, Stop))
  BY DEF Stopped, Heard, Has
<1> QED
  BY <1>1, <1>2 DEF PoolInv, StopInv

\* The steps of Next, with the crashes put together.
LEMMA NextCases ==
  ASSUME Next
  PROVE  \/ evthr_pool_start \/ evhttpx_free \/ evthr_stop
         \/ \E c \in Callers : \/ evthr_pool_defer(c) \/ ScanThread(c) \/ CheckBacklog(c)
                               \/ LockAndCount(c) \/ Send(c)
         \/ \E t \in Threads : Labour(t)
         \/ Crash /\ (StopFreed \/ (\E c \in Callers : TouchFreed(c))
                                \/ \E t \in Threads : RunWithoutShared(t))
         \/ UNCHANGED vars
BY DEF Next, Calling, Working, Labour, StopFreed, TouchFreed, RunWithoutShared, Finished

LEMMA MainFresh ==
  ASSUME EvThrTypeOK, Fresh, evthr_pool_start \/ evhttpx_free \/ evthr_stop
  PROVE  Fresh'
<1>1. CASE evthr_pool_start
  <2>1. PICK n \in Threads : n = main.next
    BY DEF EvThrTypeOK
  <2>2. n \in Nat /\ \A t \in Threads : t \in Nat
    BY Constants
  <2>3. main'.at = "start" => main'.next = n + 1 /\ main.at = "start"
    BY <1>1, <2>1 DEF evthr_pool_start, EvThrTypeOK
  <2>4. \A t \in Threads \ {n} : thr'[t] = thr[t]
    BY <1>1, <2>1 DEF evthr_pool_start, EvThrTypeOK
  <2> QED
    BY <2>1, <2>2, <2>3, <2>4 DEF Fresh
<1>2. CASE evhttpx_free \/ evthr_stop
  BY <1>2 DEF evhttpx_free, evthr_stop, NextToStop, Fresh, EvThrTypeOK
<1> QED
  BY <1>1, <1>2

LEMMA WorkFresh ==
  ASSUME EvThrTypeOK, Fresh, NEW t \in Threads, Labour(t)
  PROVE  Fresh' /\ thr[t] # "new"
<1>1. thr[t] # "new"
  BY DEF Labour, EnterLoop, ReadCmd, GiveUp, run_in_thread, Accept, BreakLoop, Done, evthr_free,
         ReadFails, evhttpx_connection_free, Serves, Works
<1>2. main' = main /\ \A u \in Threads \ {t} : thr'[u] = thr[u]
  BY LabourFrame
<1> QED
  BY <1>1, <1>2 DEF Fresh

LEMMA PoolInvStep == PoolInv /\ [Next]_vars => PoolInv'
<1> SUFFICES ASSUME PoolInv, Next PROVE PoolInv'
  BY SameKeeps
<1> USE DEF PoolInv
<1>1. CASE evthr_pool_start \/ evhttpx_free \/ evthr_stop
  <2>1. Accepting'
    BY <1>1 DEF Accepting, evthr_pool_start, evhttpx_free, evthr_stop, thread, EvThrTypeOK
  <2> QED
    BY <1>1, <2>1, MainType, MainCalls, MainStops, MainFresh
<1>2. ASSUME NEW c \in Callers,
             \/ evthr_pool_defer(c) \/ ScanThread(c) \/ CheckBacklog(c)
             \/ LockAndCount(c) \/ Send(c)
      PROVE  PoolInv'
  <2>1. main' = main /\ main.at = "serve"
    BY <1>2 DEF evthr_pool_defer, ScanThread, CheckBacklog, LockAndCount, Send, At
  <2>2. Fresh'
    BY <2>1 DEF Fresh
  <2> QED
    BY <1>2, <2>2, CallerType, CallerCalls, CallerStops DEF Calling
<1>3. ASSUME NEW t \in Threads, Labour(t) PROVE PoolInv'
  BY <1>3, WorkerType, LabourKeeps, WorkFresh DEF Labour, Working
<1>4. CASE Crash
  <2>1. Fresh'
    BY <1>4 DEF Crash, Fresh, EvThrTypeOK
  <2> QED
    BY <1>4, <2>1, CrashType, CrashKeeps
<1> QED
  BY <1>1, <1>2, <1>3, <1>4, SameKeeps, NextCases

LEMMA PoolInvariance == Spec => []PoolInv
BY PoolInvInit, PoolInvStep, PTL DEF Spec

\* The pool's state is well typed: no worker closes a connection it does not have.
THEOREM PoolHasType == Spec => []EvThrTypeOK
<1>1. PoolInv => EvThrTypeOK
  BY DEF PoolInv
<1> QED
  BY <1>1, PoolInvariance, PTL

\* A thread that ends because it was told to has run every job accepted for it.
THEOREM StopDrains == Spec => []Drained
<1>1. PoolInv => Drained
  BY DEF PoolInv, StopInv, Heard, Drained
<1> QED
  BY <1>1, PoolInvariance, PTL

\* Only a thread that failed to read is met after it was freed, and only when
\* main has ended the pool does a worker meet freed settings.
THEOREM CrashesHaveCauses == Spec => CrashesAreKnown
<1> DEFINE Known == ~Crashed /\ Crashed' => main.at = "gone" \/ \E t \in Threads : err[t]
<1>1. PoolInv /\ Next => Known
  <2> SUFFICES ASSUME PoolInv, Next, ~Crashed, Crashed', main.at # "gone"
               PROVE  \E t \in Threads : err[t]
    OBVIOUS
  <2>1. ASSUME NEW t \in Threads, thr[t] = "freed", ~Stopped(t) PROVE err[t]
    BY <2>1 DEF PoolInv, StopInv, Heard, EvThrTypeOK
  <2>2. CASE StopFreed
    <3>1. main.next \in Threads /\ thr[main.next] = "freed" /\ main.at = "stop"
      BY <2>2 DEF StopFreed, PoolInv, EvThrTypeOK
    <3>2. ~Stopped(main.next)
      <4>1. main.next \in Nat
        BY <3>1, Constants
      <4> QED
        BY <3>1, <4>1 DEF Stopped
    <3> QED
      BY <2>1, <3>1, <3>2
  <2>3. ASSUME NEW c \in Callers, TouchFreed(c) PROVE \E t \in Threads : err[t]
    <3>1. \A t \in Threads : ~Stopped(t)
      BY <2>3 DEF TouchFreed, Stopped
    <3>2. \E t \in Threads : thr[t] = "freed"
      BY <2>3 DEF TouchFreed, PoolInv, EvThrTypeOK
    <3> QED
      BY <2>1, <3>1, <3>2
  <2>4. ASSUME NEW t \in Threads, RunWithoutShared(t) PROVE FALSE
    BY <2>4 DEF RunWithoutShared
  <2>5. CASE evthr_pool_start \/ evhttpx_free \/ evthr_stop
    BY <2>5 DEF evthr_pool_start, evhttpx_free, evthr_stop, NextToStop, Crashed, PoolInv, EvThrTypeOK
  <2>6. ASSUME NEW c \in Callers,
               \/ evthr_pool_defer(c) \/ ScanThread(c) \/ CheckBacklog(c)
               \/ LockAndCount(c) \/ Send(c)
        PROVE  FALSE
    BY <2>6 DEF evthr_pool_defer, ScanThread, CheckBacklog, LockAndCount, Send, Crashed
  <2>7. ASSUME NEW t \in Threads, Labour(t) PROVE FALSE
    BY <2>7, LabourFrame DEF Crashed, PoolInv
  <2>8. CASE UNCHANGED vars
    BY <2>8 DEF vars, Crashed
  <2> QED
    BY <2>2, <2>3, <2>4, <2>5, <2>6, <2>7, <2>8, NextCases
<1>2. PoolInv /\ [Next]_vars => [Known]_vars
  BY <1>1
<1> QED
  BY <1>2, PoolInvariance, PTL DEF Spec, CrashesAreKnown

-----------------------------------------------------------------------------
(* The counter and the work.                                               *)

Holding(t) == \E j \in Jobs : Holds(t, j)

LockCount(t) == Flag(rlock[t] # Nobody)
StopCount(t) == Flag(Has(t, Stop))
HandCount(t) == Flag(Holding(t))
LeftCount(t) == Flag(thr[t] \in {"leave", "freed"})

Balanced(t) ==
  ~err[t] =>
    backlog[t] = LockCount(t) + Len(pipe[t]) - StopCount(t) + HandCount(t) + open[t] - LeftCount(t)

LEMMA BalancedAll == BacklogIsWork <=> \A t \in Threads : Balanced(t)
BY DEF BacklogIsWork, Balanced, Holding, LockCount, StopCount, HandCount, LeftCount

LEMMA HoldingIs ==
  ASSUME EvThrTypeOK, NEW t \in Threads
  PROVE  Holding(t) <=> thr[t] \in {"cmd", "accept", "done"} /\ hand[t] # Stop
BY Constants DEF EvThrTypeOK, Holding, Holds, Cmds

LEMMA HoldingNext ==
  ASSUME EvThrTypeOK', NEW t \in Threads
  PROVE  Holding(t)' <=> thr'[t] \in {"cmd", "accept", "done"} /\ hand'[t] # Stop
BY Constants DEF EvThrTypeOK, Holding, Holds, Cmds

LEMMA BalancedNext == (\A t \in Threads : Balanced(t)') => BacklogIsWork'
BY DEF BacklogIsWork, Balanced, Holding, LockCount, StopCount, HandCount, LeftCount

LEMMA Counts ==
  ASSUME NEW t
  PROVE  /\ LockCount(t) \in {0, 1} /\ (LockCount(t) = 1 <=> rlock[t] # Nobody)
         /\ StopCount(t) \in {0, 1} /\ (StopCount(t) = 1 <=> Has(t, Stop))
         /\ HandCount(t) \in {0, 1} /\ (HandCount(t) = 1 <=> Holding(t))
         /\ LeftCount(t) \in {0, 1} /\ (LeftCount(t) = 1 <=> thr[t] \in {"leave", "freed"})
BY DEF LockCount, StopCount, HandCount, LeftCount, Flag

LEMMA CountsNext ==
  ASSUME NEW t
  PROVE  /\ LockCount(t)' \in {0, 1} /\ (LockCount(t)' = 1 <=> rlock'[t] # Nobody)
         /\ StopCount(t)' \in {0, 1} /\ (StopCount(t)' = 1 <=> Has(t, Stop)')
         /\ HandCount(t)' \in {0, 1} /\ (HandCount(t)' = 1 <=> Holding(t)')
         /\ LeftCount(t)' \in {0, 1} /\ (LeftCount(t)' = 1 <=> thr'[t] \in {"leave", "freed"})
BY DEF LockCount, StopCount, HandCount, LeftCount, Flag

\* The counter stays right when it moves as its parts do.
LEMMA Rebalance ==
  ASSUME EvThrTypeOK, NEW t \in Threads, Balanced(t), err'[t] = err[t],
         EvThrTypeOK',
         backlog'[t] - backlog[t] =
             (LockCount(t)' - LockCount(t)) + (Len(pipe'[t]) - Len(pipe[t]))
           - (StopCount(t)' - StopCount(t)) + (HandCount(t)' - HandCount(t))
           + (open'[t] - open[t]) - (LeftCount(t)' - LeftCount(t))
  PROVE  Balanced(t)'
<1>1. LockCount(t) \in Int /\ StopCount(t) \in Int /\ HandCount(t) \in Int /\ LeftCount(t) \in Int
  BY Counts
<1>2. open[t] \in Int /\ backlog[t] \in Int /\ Len(pipe[t]) \in Int
  BY DEF EvThrTypeOK
<1>3. /\ LockCount(t)' \in Int /\ StopCount(t)' \in Int
      /\ HandCount(t)' \in Int /\ LeftCount(t)' \in Int
  BY CountsNext
<1>4. open'[t] \in Int /\ backlog'[t] \in Int /\ Len(pipe'[t]) \in Int
  BY DEF EvThrTypeOK
<1> SUFFICES ASSUME ~err[t]
             PROVE  backlog'[t] = LockCount(t)' + Len(pipe'[t]) - StopCount(t)' + HandCount(t)'
                                  + open'[t] - LeftCount(t)'
  BY DEF Balanced
<1>5. backlog[t] = LockCount(t) + Len(pipe[t]) - StopCount(t) + HandCount(t)
                   + open[t] - LeftCount(t)
  BY DEF Balanced
<1>6. PICK a1 \in Int, c1 \in Int, d1 \in Int, f1 \in Int, b1 \in Int, e1 \in Int, x1 \in Int :
        /\ a1 = LockCount(t) /\ c1 = StopCount(t) /\ d1 = HandCount(t) /\ f1 = LeftCount(t)
        /\ b1 = Len(pipe[t]) /\ e1 = open[t] /\ x1 = backlog[t]
  BY <1>1, <1>2
<1>7. PICK a2 \in Int, c2 \in Int, d2 \in Int, f2 \in Int, b2 \in Int, e2 \in Int, x2 \in Int :
        /\ a2 = LockCount(t)' /\ c2 = StopCount(t)' /\ d2 = HandCount(t)' /\ f2 = LeftCount(t)'
        /\ b2 = Len(pipe'[t]) /\ e2 = open'[t] /\ x2 = backlog'[t]
  BY <1>3, <1>4
<1>8. x1 = a1 + b1 - c1 + d1 + e1 - f1
  BY <1>5, <1>6
<1>9. x2 - x1 = (a2 - a1) + (b2 - b1) - (c2 - c1) + (d2 - d1) + (e2 - e1) - (f2 - f1)
  BY <1>6, <1>7
<1>10. x2 = a2 + b2 - c2 + d2 + e2 - f2
  BY <1>8, <1>9
<1> QED
  BY <1>7, <1>10

LEMMA SameBalance ==
  ASSUME NEW t \in Threads, Balanced(t),
         thr'[t] = thr[t], hand'[t] = hand[t], pipe'[t] = pipe[t], err'[t] = err[t],
         rlock'[t] = rlock[t], open'[t] = open[t], backlog'[t] = backlog[t]
  PROVE  Balanced(t)'
<1>1. (Has(t, Stop)' <=> Has(t, Stop)) /\ (Holding(t)' <=> Holding(t))
  BY DEF Has, Holding, Holds
<1> QED
  BY <1>1 DEF Balanced, LockCount, StopCount, HandCount, LeftCount, Flag

LEMMA MainBalance ==
  ASSUME PoolInv, PoolInv', BacklogIsWork, evthr_pool_start \/ evhttpx_free \/ evthr_stop
  PROVE  BacklogIsWork'
<1> SUFFICES ASSUME NEW t \in Threads PROVE Balanced(t)'
  BY BalancedNext
<1> USE DEF PoolInv
<1>1. Balanced(t)
  BY BalancedAll
<1>2. CASE evhttpx_free
  BY <1>1, <1>2, SameBalance DEF evhttpx_free, thread, shared
<1>3. CASE evthr_pool_start
  <2>1. /\ hand' = hand /\ pipe' = pipe /\ err' = err /\ rlock' = rlock
        /\ open' = open /\ backlog' = backlog
    BY <1>3 DEF evthr_pool_start, shared
  <2>2. thr'[t] = thr[t] \/ thr'[t] = "starting"
    BY <1>3 DEF evthr_pool_start, EvThrTypeOK
  <2>3. CASE thr'[t] = thr[t]
    BY <1>1, <2>1, <2>3, SameBalance
  <2>4. CASE thr'[t] # thr[t]
    <3>1. t = main.next /\ thr'[t] = "starting" /\ main.at = "start" /\ t \in Nat
      <4>1. t \in Nat
        BY Constants
      <4> QED
        BY <1>3, <2>4, <4>1 DEF evthr_pool_start, EvThrTypeOK
    <3>2. thr[t] = "new"
      BY <3>1 DEF Fresh
    <3>3. ~Holding(t) /\ ~Holding(t)' /\ (Has(t, Stop)' <=> Has(t, Stop))
      BY <2>1, <3>1, <3>2 DEF Holding, Holds, Has
    <3> QED
      BY <1>1, <2>1, <3>1, <3>2, <3>3
         DEF Balanced, LockCount, StopCount, HandCount, LeftCount, Flag
  <2> QED
    BY <2>3, <2>4
<1>4. CASE evthr_stop
  <2>1. PICK n \in Threads : n = main.next
    BY DEF EvThrTypeOK
  <2>2. n \in Nat /\ main.at = "stop"
    BY <1>4, Constants DEF evthr_stop
  <2>3. /\ thr' = thr /\ hand' = hand /\ err' = err /\ rlock' = rlock
        /\ open' = open /\ backlog' = backlog
    BY <1>4 DEF evthr_stop, thread
  <2>4. pipe'[t] = pipe[t] \/ (t = n /\ pipe'[t] = Append(pipe[t], Stop))
    <3>1. pipe' = pipe \/ pipe' = [pipe EXCEPT ![n] = Append(@, Stop)]
      BY <1>4, <2>1 DEF evthr_stop
    <3>2. DOMAIN pipe = Threads
      BY DEF EvThrTypeOK
    <3> QED
      BY <3>1, <3>2
  <2>5. CASE pipe'[t] = pipe[t]
    BY <1>1, <2>3, <2>5, SameBalance
  <2>6. CASE t = n /\ pipe'[t] = Append(pipe[t], Stop)
    <3>1. ~Stopped(n)
      BY <2>1, <2>2 DEF Stopped
    <3>2. ~Has(t, Stop)
      BY <2>6, <3>1 DEF StopInv
    <3>3. pipe[t] \in Seq(Cmds) /\ Len(pipe'[t]) = Len(pipe[t]) + 1 /\ Len(pipe[t]) \in Nat
      BY <2>6 DEF EvThrTypeOK
    <3>4. Has(t, Stop)'
      <4>1. In(pipe'[t], Stop)
        BY <2>6, <3>3, AppendIn, Constants
      <4> QED
        BY <4>1 DEF Has, In
    <3>5. Holding(t)' <=> Holding(t)
      BY <2>3 DEF Holding, Holds
    <3>6. /\ LockCount(t)' = LockCount(t) /\ StopCount(t)' = 1 /\ StopCount(t) = 0
          /\ HandCount(t)' = HandCount(t) /\ LeftCount(t)' = LeftCount(t)
          /\ LockCount(t) \in Int /\ HandCount(t) \in Int /\ LeftCount(t) \in Int
      BY <2>3, <3>2, <3>4, <3>5, Counts, CountsNext
    <3>7. open[t] \in Int /\ backlog[t] \in Int
      BY DEF EvThrTypeOK
    <3>8. /\ LockCount(t)' - LockCount(t) = 0 /\ StopCount(t)' - StopCount(t) = 1
          /\ HandCount(t)' - HandCount(t) = 0 /\ LeftCount(t)' - LeftCount(t) = 0
      BY <3>6
    <3>9. /\ Len(pipe'[t]) - Len(pipe[t]) = 1 /\ open'[t] - open[t] = 0
          /\ backlog'[t] - backlog[t] = 0 /\ err'[t] = err[t]
      BY <2>3, <3>3, <3>7
    <3>10. backlog'[t] - backlog[t] =
               (LockCount(t)' - LockCount(t)) + (Len(pipe'[t]) - Len(pipe[t]))
             - (StopCount(t)' - StopCount(t)) + (HandCount(t)' - HandCount(t))
             + (open'[t] - open[t]) - (LeftCount(t)' - LeftCount(t))
      <4>1. 0 = 0 + 1 - 1 + 0 + 0 - 0
        OBVIOUS
      <4> QED
        BY <3>8, <3>9, <4>1, Zenon
    <3> QED
      BY <1>1, <3>9, <3>10, Rebalance
  <2> QED
    BY <2>4, <2>5, <2>6
<1> QED
  BY <1>2, <1>3, <1>4

LEMMA CallerBalance ==
  ASSUME PoolInv, PoolInv', BacklogIsWork, NEW c \in Callers,
         evthr_pool_defer(c) \/ ScanThread(c) \/ CheckBacklog(c) \/ LockAndCount(c) \/ Send(c)
  PROVE  BacklogIsWork'
<1> SUFFICES ASSUME NEW t \in Threads PROVE Balanced(t)'
  BY BalancedNext
<1> USE DEF PoolInv
<1>1. Balanced(t) /\ thr' = thr /\ hand' = hand /\ open' = open /\ err' = err
  BY BalancedAll DEF evthr_pool_defer, ScanThread, CheckBacklog, LockAndCount, Send, thread
<1>2. CASE evthr_pool_defer(c) \/ ScanThread(c) \/ CheckBacklog(c)
  BY <1>1, <1>2, SameBalance DEF evthr_pool_defer, ScanThread, CheckBacklog, shared
<1>3. PICK n \in Threads : n = call[c].min
  BY DEF EvThrTypeOK
<1>4. /\ HandCount(t)' = HandCount(t) /\ LeftCount(t)' = LeftCount(t)
      /\ HandCount(t) \in Int /\ LeftCount(t) \in Int
  <2>1. Holding(t)' <=> Holding(t)
    BY <1>1 DEF Holding, Holds
  <2> QED
    BY <1>1, <2>1, Counts, CountsNext
<1>5. backlog[t] \in Int /\ open[t] \in Nat /\ pipe[t] \in Seq(Cmds) /\ Len(pipe[t]) \in Nat
  BY DEF EvThrTypeOK
<1>8. DOMAIN backlog = Threads /\ DOMAIN rlock = Threads /\ DOMAIN pipe = Threads
  BY DEF EvThrTypeOK
<1>6. CASE LockAndCount(c)
  <2>1. pipe' = pipe /\ (Has(t, Stop)' <=> Has(t, Stop))
    BY <1>6 DEF LockAndCount, Has
  <2>2. CASE t = n
    <3>1. rlock[t] = Nobody /\ rlock'[t] # Nobody /\ backlog'[t] = backlog[t] + 1
      BY <1>3, <1>6, <2>2, NobodyAssumption DEF LockAndCount, EvThrTypeOK
    <3>2. LockCount(t)' = 1 /\ LockCount(t) = 0 /\ StopCount(t)' = StopCount(t) /\ StopCount(t) \in Int
      BY <2>1, <3>1, Counts, CountsNext
    <3> QED
      BY <1>1, <1>4, <1>5, <2>1, <3>1, <3>2, Rebalance
  <2>3. CASE t # n
    <3>1. rlock'[t] = rlock[t] /\ backlog'[t] = backlog[t]
      BY <1>3, <1>6, <1>8, <2>3 DEF LockAndCount
    <3> QED
      BY <1>1, <2>1, <3>1, SameBalance
  <2> QED
    BY <2>2, <2>3
<1>7. CASE Send(c)
  <2>1. /\ rlock[n] = c /\ c # Nobody /\ main.at = "serve" /\ call[c].job \in Jobs
    BY <1>3, <1>7, NobodyAssumption DEF Send, At, CallInv
  <2>2. CASE t # n
    <3>1. pipe'[t] = pipe[t] /\ rlock'[t] = rlock[t] /\ backlog'[t] = backlog[t]
      BY <1>3, <1>7, <1>8, <2>2 DEF Send, Sent, NotSent
    <3> QED
      BY <1>1, <3>1, SameBalance
  <2>3. CASE t = n /\ NotSent(c, n)
    <3>1. rlock'[t] = Nobody /\ backlog'[t] = backlog[t] - 1 /\ pipe' = pipe
      BY <2>3 DEF NotSent, EvThrTypeOK
    <3>2. Has(t, Stop)' <=> Has(t, Stop)
      BY <3>1 DEF Has
    <3>3. LockCount(t)' = 0 /\ LockCount(t) = 1 /\ StopCount(t)' = StopCount(t) /\ StopCount(t) \in Int
      BY <2>1, <2>3, <3>1, <3>2, Counts, CountsNext
    <3> QED
      BY <1>1, <1>4, <1>5, <3>1, <3>3, Rebalance
  <2>4. CASE t = n /\ Sent(c, n)
    <3>1. rlock'[t] = Nobody /\ backlog' = backlog /\ pipe'[t] = Append(pipe[t], call[c].job)
      BY <2>4 DEF Sent, EvThrTypeOK
    <3>2. Len(pipe'[t]) = Len(pipe[t]) + 1
      BY <1>5, <3>1
    <3>3. In(pipe'[t], Stop) <=> In(pipe[t], Stop)
      <4>1. call[c].job \in Cmds /\ call[c].job # Stop
        BY <2>1, Constants
      <4> QED
        BY <1>5, <3>1, <4>1, AppendIn
    <3>4. Has(t, Stop)' <=> Has(t, Stop)
      BY <3>3 DEF Has, In
    <3>5. LockCount(t)' = 0 /\ LockCount(t) = 1 /\ StopCount(t)' = StopCount(t) /\ StopCount(t) \in Int
      BY <2>1, <2>4, <3>1, <3>4, Counts, CountsNext
    <3>6. /\ LockCount(t)' - LockCount(t) = -1 /\ StopCount(t)' - StopCount(t) = 0
          /\ HandCount(t)' - HandCount(t) = 0 /\ LeftCount(t)' - LeftCount(t) = 0
      BY <1>4, <3>5
    <3>7. /\ Len(pipe'[t]) - Len(pipe[t]) = 1 /\ open'[t] - open[t] = 0
          /\ backlog'[t] - backlog[t] = 0 /\ err'[t] = err[t]
      BY <1>1, <1>5, <3>1, <3>2
    <3>8. backlog'[t] - backlog[t] =
               (LockCount(t)' - LockCount(t)) + (Len(pipe'[t]) - Len(pipe[t]))
             - (StopCount(t)' - StopCount(t)) + (HandCount(t)' - HandCount(t))
             + (open'[t] - open[t]) - (LeftCount(t)' - LeftCount(t))
      <4>1. 0 = -1 + 1 - 0 + 0 + 0 - 0
        OBVIOUS
      <4> QED
        BY <3>6, <3>7, <4>1, Zenon
    <3> QED
      BY <1>1, <3>7, <3>8, Rebalance
  <2> QED
    BY <1>3, <1>7, <2>2, <2>3, <2>4 DEF Send
<1> QED
  BY <1>2, <1>6, <1>7

\* By how much the parts of the counter of t move in a step that leaves the
\* lock alone: the pipe, its stop command, the hand, the connections, the exit.
Moves(t, p, s, h, o, l, b) ==
  /\ LockCount(t)' - LockCount(t) = 0
  /\ Len(pipe'[t]) - Len(pipe[t]) = p
  /\ StopCount(t)' - StopCount(t) = s
  /\ HandCount(t)' - HandCount(t) = h
  /\ open'[t] - open[t] = o
  /\ LeftCount(t)' - LeftCount(t) = l
  /\ backlog'[t] - backlog[t] = b

LEMMA MovesBalance ==
  ASSUME PoolInv, PoolInv', NEW t \in Threads, Balanced(t), err'[t] = err[t],
         NEW p \in Int, NEW s \in Int, NEW h \in Int, NEW o \in Int, NEW l \in Int, NEW b \in Int,
         Moves(t, p, s, h, o, l, b), b = 0 + p - s + h + o - l
  PROVE  Balanced(t)'
<1>1. backlog'[t] - backlog[t] =
          (LockCount(t)' - LockCount(t)) + (Len(pipe'[t]) - Len(pipe[t]))
        - (StopCount(t)' - StopCount(t)) + (HandCount(t)' - HandCount(t))
        + (open'[t] - open[t]) - (LeftCount(t)' - LeftCount(t))
  BY Zenon DEF Moves
<1> QED
  BY <1>1, Rebalance DEF PoolInv

\* A step of the worker t, part by part.
LEMMA LabourBalance ==
  ASSUME PoolInv, PoolInv', BacklogIsWork, NEW t \in Threads, Labour(t)
  PROVE  BacklogIsWork'
<1> USE DEF PoolInv
<1>1. ASSUME NEW u \in Threads \ {t} PROVE Balanced(u)'
  BY <1>1, LabourFrame, BalancedAll, SameBalance
<1> SUFFICES Balanced(t)'
  BY <1>1, BalancedNext
<1>2. Balanced(t) /\ rlock'[t] = rlock[t] /\ LockCount(t)' = LockCount(t)
  BY LabourFrame, BalancedAll DEF LockCount
<1>3. /\ LockCount(t) \in Int /\ StopCount(t) \in Int /\ HandCount(t) \in Int /\ LeftCount(t) \in Int
      /\ open[t] \in Nat /\ backlog[t] \in Int /\ pipe[t] \in Seq(Cmds) /\ Len(pipe[t]) \in Nat
  <2>1. open[t] \in Nat /\ backlog[t] \in Int /\ pipe[t] \in Seq(Cmds) /\ Len(pipe[t]) \in Nat
    BY DEF EvThrTypeOK
  <2> QED
    BY <2>1, Counts
<1>4. /\ Holding(t) <=> thr[t] \in {"cmd", "accept", "done"} /\ hand[t] # Stop
      /\ Holding(t)' <=> thr'[t] \in {"cmd", "accept", "done"} /\ hand'[t] # Stop
  BY HoldingIs, HoldingNext
<1>13. \A p, s, h, o, l, b \in Int :
         Moves(t, p, s, h, o, l, b) =>
           (err'[t] = err[t] => (b = 0 + p - s + h + o - l => Balanced(t)'))
  BY <1>2, MovesBalance
<1>14. 0 \in Int /\ 1 \in Int /\ -1 \in Int
  OBVIOUS
<1>5. ASSUME pipe'[t] = pipe[t]
      PROVE  Len(pipe'[t]) - Len(pipe[t]) = 0 /\ StopCount(t)' = StopCount(t)
  <2>1. Has(t, Stop)' <=> Has(t, Stop)
    BY <1>5 DEF Has
  <2> QED
    BY <1>3, <1>5, <2>1, Counts, CountsNext
<1>6. CASE EnterLoop(t) \/ Accept(t) \/ BreakLoop(t) \/ ReadFails(t)
  <2>1. /\ pipe' = pipe /\ backlog' = backlog /\ open' = open /\ err' = err /\ hand' = hand
        /\ <<thr[t], thr'[t]>> \in {<<"starting", "loop">>, <<"accept", "done">>, <<"cmd", "done">>,
                                    <<"loop", "error">>}
    BY <1>6 DEF EnterLoop, Accept, BreakLoop, ReadFails, shared, Works, Become, EvThrTypeOK
  <2>2. HandCount(t)' = HandCount(t) /\ LeftCount(t)' = LeftCount(t)
    BY <1>4, <2>1, Counts, CountsNext
  <2> QED
    <3>1. Moves(t, 0, 0, 0, 0, 0, 0)
      BY <1>2, <1>3, <1>5, <2>1, <2>2 DEF Moves
    <3>2. 0 = 0 + 0 - 0 + 0 + 0 - 0
      OBVIOUS
    <3> QED
      BY <1>13, <1>14, <2>1, <3>1, <3>2, Zenon
<1>7. CASE evthr_free(t)
  <2>1. /\ pipe' = pipe /\ backlog' = backlog /\ open' = open /\ err' = err /\ hand' = hand
        /\ thr[t] = "leave" /\ thr'[t] = "freed"
    BY <1>7 DEF evthr_free, shared, Works, Become, EvThrTypeOK
  <2>2. HandCount(t)' = HandCount(t) /\ LeftCount(t)' = LeftCount(t)
    BY <1>4, <2>1, Counts, CountsNext
  <2> QED
    <3>1. Moves(t, 0, 0, 0, 0, 0, 0)
      BY <1>2, <1>3, <1>5, <2>1, <2>2 DEF Moves
    <3>2. 0 = 0 + 0 - 0 + 0 + 0 - 0
      OBVIOUS
    <3> QED
      BY <1>13, <1>14, <2>1, <3>1, <3>2, Zenon
<1>8. CASE GiveUp(t)
  BY <1>8 DEF GiveUp, Balanced, EvThrTypeOK
<1>9. CASE run_in_thread(t)
  <2>1. /\ pipe' = pipe /\ backlog'[t] = backlog[t] + 1 /\ open'[t] = open[t] + 1 /\ err' = err
        /\ hand' = hand /\ hand[t] # Stop /\ thr[t] = "cmd" /\ thr'[t] = "accept"
    BY <1>9 DEF run_in_thread, Count, Works, Become, EvThrTypeOK
  <2>2. HandCount(t)' = HandCount(t) /\ LeftCount(t)' = LeftCount(t)
    BY <1>4, <2>1, Counts, CountsNext
  <2> QED
    <3>1. Moves(t, 0, 0, 0, 1, 0, 1)
      BY <1>2, <1>3, <1>5, <2>1, <2>2 DEF Moves
    <3>2. 1 = 0 + 0 - 0 + 0 + 1 - 0
      OBVIOUS
    <3> QED
      BY <1>13, <1>14, <2>1, <3>1, <3>2, Zenon
<1>10. CASE evhttpx_connection_free(t)
  <2>1. /\ pipe' = pipe /\ backlog'[t] = backlog[t] - 1 /\ open'[t] = open[t] - 1 /\ err' = err
        /\ hand' = hand
        /\ <<thr[t], thr'[t]>> \in {<<"accept", "done">>, <<"loop", "loop">>}
    BY <1>10 DEF evhttpx_connection_free, Serves, Count, Works, Become, EvThrTypeOK
  <2>2. HandCount(t)' = HandCount(t) /\ LeftCount(t)' = LeftCount(t)
    BY <1>4, <2>1, Counts, CountsNext
  <2> QED
    <3>1. Moves(t, 0, 0, 0, -1, 0, -1)
      BY <1>2, <1>3, <1>5, <2>1, <2>2 DEF Moves
    <3>2. -1 = 0 + 0 - 0 + 0 + -1 - 0
      OBVIOUS
    <3> QED
      BY <1>13, <1>14, <2>1, <3>1, <3>2, Zenon
<1>11. CASE Done(t)
  <2>1. /\ pipe' = pipe /\ backlog'[t] = backlog[t] - 1 /\ open' = open /\ err' = err
        /\ thr[t] = "done" /\ thr'[t] = After(t) /\ hand'[t] = Stop
    BY <1>11 DEF Done, Count, Works, Become, EvThrTypeOK
  <2>2. CASE hand[t] = Stop
    <3>1. HandCount(t)' = 0 /\ HandCount(t) = 0 /\ LeftCount(t)' = 1 /\ LeftCount(t) = 0
      BY <1>4, <2>1, <2>2, Counts, CountsNext DEF After
    <3> QED
      <4>1. Moves(t, 0, 0, 0, 0, 1, -1)
        BY <1>2, <1>3, <1>5, <2>1, <3>1 DEF Moves
      <4>2. -1 = 0 + 0 - 0 + 0 + 0 - 1
        OBVIOUS
      <4> QED
        BY <1>13, <1>14, <2>1, <4>1, <4>2, Zenon
  <2>3. CASE hand[t] # Stop
    <3>1. HandCount(t)' = 0 /\ HandCount(t) = 1 /\ LeftCount(t)' = 0 /\ LeftCount(t) = 0
      BY <1>4, <2>1, <2>3, Counts, CountsNext DEF After
    <3> QED
      <4>1. Moves(t, 0, 0, -1, 0, 0, -1)
        BY <1>2, <1>3, <1>5, <2>1, <3>1 DEF Moves
      <4>2. -1 = 0 + 0 - 0 + -1 + 0 - 0
        OBVIOUS
      <4> QED
        BY <1>13, <1>14, <2>1, <4>1, <4>2, Zenon
  <2> QED
    BY <2>2, <2>3
<1>12. CASE ReadCmd(t)
  <2>1. /\ pipe[t] # <<>> /\ thr[t] = "loop" /\ thr'[t] = "cmd" /\ backlog' = backlog /\ open' = open
        /\ err' = err /\ hand'[t] = Head(pipe[t]) /\ pipe'[t] = Tail(pipe[t])
    BY <1>12 DEF ReadCmd, Take, Works, Become, EvThrTypeOK
  <2>2. /\ Len(pipe'[t]) = Len(pipe[t]) - 1
        /\ In(pipe[t], Stop) <=> Head(pipe[t]) = Stop \/ In(pipe'[t], Stop)
    BY <1>3, <2>1, TailIn
  <2>3. Head(pipe[t]) = Stop => pipe'[t] = <<>>
    BY <1>3, <2>1, TailLast DEF StopInv
  <2>4. (Has(t, Stop) <=> In(pipe[t], Stop)) /\ (Has(t, Stop)' <=> In(pipe'[t], Stop))
    BY DEF Has, In
  <2>5. LeftCount(t)' = LeftCount(t) /\ HandCount(t) = 0
    BY <1>4, <2>1, Counts, CountsNext
  <2>6. CASE Head(pipe[t]) = Stop
    <3>1. Has(t, Stop) /\ ~Has(t, Stop)' /\ ~Holding(t)'
      <4>1. ~In(<<>>, Stop)
        BY DEF In
      <4>2. ~Holding(t)'
        BY <1>4, <2>1, <2>6
      <4> QED
        BY <2>2, <2>3, <2>4, <2>6, <4>1, <4>2
    <3>2. StopCount(t) = 1 /\ StopCount(t)' = 0 /\ HandCount(t)' = 0
      BY <3>1, Counts, CountsNext
    <3> QED
      <4>1. Moves(t, -1, -1, 0, 0, 0, 0)
        BY <1>2, <1>3, <2>1, <2>2, <2>5, <3>2 DEF Moves
      <4>2. 0 = 0 + -1 - -1 + 0 + 0 - 0
        OBVIOUS
      <4> QED
        BY <1>13, <1>14, <2>1, <4>1, <4>2, Zenon
  <2>7. CASE Head(pipe[t]) # Stop
    <3>1. (Has(t, Stop) <=> Has(t, Stop)') /\ Holding(t)'
      BY <1>4, <2>1, <2>2, <2>4, <2>7
    <3>2. StopCount(t)' = StopCount(t) /\ HandCount(t)' = 1
      BY <3>1, Counts, CountsNext
    <3> QED
      <4>1. Moves(t, -1, 0, 1, 0, 0, 0)
        BY <1>2, <1>3, <2>1, <2>2, <2>5, <3>2 DEF Moves
      <4>2. 0 = 0 + -1 - 0 + 1 + 0 - 0
        OBVIOUS
      <4> QED
        BY <1>13, <1>14, <2>1, <4>1, <4>2, Zenon
  <2> QED
    BY <2>6, <2>7
<1> QED
  BY <1>6, <1>7, <1>8, <1>9, <1>10, <1>11, <1>12 DEF Labour

LEMMA BalanceStep == PoolInv /\ PoolInv' /\ BacklogIsWork /\ [Next]_vars => BacklogIsWork'
<1> SUFFICES ASSUME PoolInv, PoolInv', BacklogIsWork, [Next]_vars PROVE BacklogIsWork'
  OBVIOUS
<1>1. ASSUME shared' = shared, thread' = thread PROVE BacklogIsWork'
  <2>1. ASSUME NEW t \in Threads PROVE Balanced(t)'
    BY <1>1, BalancedAll, SameBalance DEF shared, thread
  <2> QED
    BY <2>1, BalancedNext
<1>2. CASE Crash
  BY <1>1, <1>2 DEF Crash
<1>3. CASE UNCHANGED vars
  BY <1>1, <1>3 DEF vars
<1>4. ASSUME Next PROVE BacklogIsWork'
  BY <1>2, <1>3, <1>4, NextCases, MainBalance, CallerBalance, LabourBalance
<1> QED
  BY <1>3, <1>4

LEMMA BalanceInit == Init => BacklogIsWork
BY DEF Init, BacklogIsWork, Flag, Has, Holds

\* The counter that decides where a job goes, and whether it is refused, is
\* the work its thread still has.
THEOREM CountersAreWork == Spec => []BacklogIsWork
<1>1. (PoolInv /\ BacklogIsWork) /\ [Next]_vars /\ PoolInv' => (PoolInv /\ BacklogIsWork)'
  BY BalanceStep
<1>2. Init => BacklogIsWork
  BY BalanceInit
<1> QED
  BY <1>1, <1>2, PoolInvariance, PTL DEF Spec


-----------------------------------------------------------------------------
(* The bound.  Every caller that has passed the test of max_backlog and has *)
(* not yet counted its job takes a place, and so does a job in the callback, *)
(* which its connection counts a second time.                              *)

Admitted(t) == {c \in Callers : call[c].at = "lock" /\ call[c].min = t}

Twice(t) == Flag(thr[t] \in {"accept", "done"} /\ hand[t] # Stop)

Bounded(t) ==
  backlog[t] + Cardinality(Admitted(t)) <= MaxBacklog - 1 + Cardinality(Callers) + Twice(t)

BoundInv == MaxBacklog # 0 => \A t \in Threads : Bounded(t)

LEMMA BoundParts ==
  ASSUME EvThrTypeOK, NEW t \in Threads
  PROVE  /\ backlog[t] \in Int /\ Twice(t) \in {0, 1} /\ Cardinality(Callers) \in Nat
         /\ IsFiniteSet(Admitted(t)) /\ Cardinality(Admitted(t)) \in Nat
         /\ Cardinality(Admitted(t)) <= Cardinality(Callers)
<1>1. Admitted(t) \in SUBSET Callers
  BY DEF Admitted
<1> QED
  BY <1>1, FS_Subset, FS_CardinalityType, EvThrAssumption DEF EvThrTypeOK, Twice, Flag

LEMMA BoundPartsNext ==
  ASSUME EvThrTypeOK', NEW t \in Threads
  PROVE  /\ backlog'[t] \in Int /\ Twice(t)' \in {0, 1}
         /\ IsFiniteSet(Admitted(t)') /\ Cardinality(Admitted(t)') \in Nat
         /\ Cardinality(Admitted(t)') <= Cardinality(Callers)
<1>1. Admitted(t)' \in SUBSET Callers
  BY DEF Admitted
<1> QED
  BY <1>1, FS_Subset, FS_CardinalityType, EvThrAssumption DEF EvThrTypeOK, Twice, Flag

\* What comes to the counter and to the callers before it is not more than
\* what comes to the job counted twice.
LEMMA BoundMoves ==
  ASSUME EvThrTypeOK, EvThrTypeOK', NEW t \in Threads, Bounded(t),
         (backlog'[t] - backlog[t]) + (Cardinality(Admitted(t)') - Cardinality(Admitted(t)))
             <= Twice(t)' - Twice(t)
  PROVE  Bounded(t)'
<1>1. PICK b1 \in Int, b2 \in Int, a1 \in Int, a2 \in Int, w1 \in Int, w2 \in Int, n \in Int :
        /\ b1 = backlog[t] /\ a1 = Cardinality(Admitted(t)) /\ w1 = Twice(t)
        /\ b2 = backlog'[t] /\ a2 = Cardinality(Admitted(t)') /\ w2 = Twice(t)'
        /\ n = MaxBacklog - 1 + Cardinality(Callers)
  BY BoundParts, BoundPartsNext, EvThrAssumption
<1>2. b1 + a1 <= n + w1
  BY <1>1 DEF Bounded
<1>3. (b2 - b1) + (a2 - a1) <= w2 - w1
  BY <1>1
<1>4. b2 + a2 <= n + w2
  BY <1>2, <1>3
<1> QED
  BY <1>1, <1>4 DEF Bounded

\* A step that admits no further caller and adds nothing to the counter.
LEMMA BoundKept ==
  ASSUME EvThrTypeOK, EvThrTypeOK', NEW t \in Threads, Bounded(t),
         Admitted(t)' = Admitted(t), backlog'[t] = backlog[t], Twice(t)' = Twice(t)
  PROVE  Bounded(t)'
BY DEF Bounded

LEMMA MainBound ==
  ASSUME PoolInv, PoolInv', BoundInv, evthr_pool_start \/ evhttpx_free \/ evthr_stop
  PROVE  BoundInv'
<1> SUFFICES ASSUME MaxBacklog # 0, NEW t \in Threads PROVE Bounded(t)'
  BY DEF BoundInv
<1>1. Bounded(t) /\ Admitted(t)' = Admitted(t)
  BY DEF BoundInv, Admitted, evthr_pool_start, evhttpx_free, evthr_stop
<1>2. hand' = hand /\ backlog' = backlog
  BY DEF evthr_pool_start, evhttpx_free, evthr_stop, thread, shared
<1>3. thr'[t] = thr[t] \/ (thr'[t] = "starting" /\ evthr_pool_start)
  BY DEF PoolInv, EvThrTypeOK, evthr_pool_start, evhttpx_free, evthr_stop, thread
<1>4. CASE thr'[t] = "starting" /\ evthr_pool_start /\ thr'[t] # thr[t]
  <2>1. t = main.next /\ main.at = "start" /\ t \in Nat
    <3>1. DOMAIN thr = Threads /\ t \in Nat
      BY Constants DEF PoolInv, EvThrTypeOK
    <3> QED
      BY <1>4, <3>1 DEF evthr_pool_start
  <2>2. thr[t] = "new"
    <3>1. Fresh /\ main.next <= t
      BY <2>1 DEF PoolInv
    <3> QED
      BY <2>1, <3>1 DEF Fresh
  <2>3. Twice(t)' = Twice(t)
    BY <1>4, <2>2 DEF Twice
  <2> QED
    BY <1>1, <1>2, <2>3, BoundKept DEF PoolInv
<1>5. CASE thr'[t] = thr[t]
  BY <1>1, <1>2, <1>5, BoundKept DEF PoolInv, Twice
<1> QED
  BY <1>3, <1>4, <1>5

LEMMA CallerBound ==
  ASSUME PoolInv, PoolInv', BoundInv, NEW c \in Callers,
         evthr_pool_defer(c) \/ ScanThread(c) \/ CheckBacklog(c) \/ LockAndCount(c) \/ Send(c)
  PROVE  BoundInv'
<1> SUFFICES ASSUME MaxBacklog # 0, NEW t \in Threads PROVE Bounded(t)'
  BY DEF BoundInv
<1>1. Bounded(t) /\ EvThrTypeOK /\ EvThrTypeOK'
  BY DEF BoundInv, PoolInv
<1>2. thr' = thr /\ hand' = hand /\ Twice(t)' = Twice(t)
  BY DEF evthr_pool_defer, ScanThread, CheckBacklog, LockAndCount, Send, thread, Twice
<1>3. ASSUME \A e \in Callers \ {c} : call'[e] = call[e],
             call[c].at # "lock", call'[c].at # "lock"
      PROVE  Admitted(t)' = Admitted(t)
  BY <1>3 DEF Admitted
<1>4. \A e \in Callers \ {c} : call'[e] = call[e]
  <2>1. ASSUME NEW res, Return(c, res) PROVE \A e \in Callers \ {c} : call'[e] = call[e]
    BY <1>1, <2>1, ReturnCalls
  <2>2. CASE ~\E res : Return(c, res)
    <3>1. DOMAIN call = Callers
      BY <1>1 DEF EvThrTypeOK
    <3> QED
      BY <2>2, <3>1
         DEF evthr_pool_defer, ScanThread, CheckBacklog, LockAndCount, Send, Sent, NotSent
  <2> QED
    BY <2>1, <2>2
<1>9. PICK n \in Threads : n = call[c].min
  BY <1>1 DEF EvThrTypeOK
<1>5. CASE evthr_pool_defer(c) \/ ScanThread(c)
  <2>1. backlog' = backlog /\ call[c].at \in {"idle", "scan"}
    BY <1>5 DEF evthr_pool_defer, ScanThread, At, shared
  <2>2. ASSUME evthr_pool_defer(c) PROVE call'[c].at = "scan"
    BY <1>1, <2>2 DEF evthr_pool_defer, EvThrTypeOK, Idle
  <2>3. ASSUME ScanThread(c) PROVE call'[c].at \in {"scan", "check"}
    BY <1>1, <2>3 DEF ScanThread, EvThrTypeOK
  <2> QED
    BY <1>1, <1>2, <1>3, <1>4, <1>5, <2>1, <2>2, <2>3, BoundKept
<1>6. CASE CheckBacklog(c)
  <2>1. backlog' = backlog /\ call[c].at = "check"
    BY <1>6 DEF CheckBacklog, At, shared
  <2>2. CASE call'[c].at # "lock"
    BY <1>1, <1>2, <1>3, <1>4, <2>1, <2>2, BoundKept
  <2>3. CASE call'[c].at = "lock"
    <3>1. call'[c].min = call[c].min /\ ~Full(backlog[call[c].min])
      <4>1. ASSUME NEW res, Return(c, res) PROVE FALSE
        BY <1>1, <2>3, <4>1, ReturnCalls
      <4>2. ~Full(backlog[call[c].min]) /\ call' = [call EXCEPT ![c].at = "lock"]
        BY <1>6, <4>1 DEF CheckBacklog
      <4> QED
        BY <1>1, <4>2 DEF EvThrTypeOK
    <3>2. CASE call[c].min = t
      <4>1. backlog[t] + 1 <= MaxBacklog
        BY <1>1, <3>1, <3>2, BoundParts, EvThrAssumption DEF Full
      <4> QED
        BY <1>1, <2>1, <4>1, BoundParts, BoundPartsNext, EvThrAssumption DEF Bounded
    <3>3. CASE call[c].min # t
      <4>1. Admitted(t)' = Admitted(t)
        BY <1>4, <2>1, <3>1, <3>3 DEF Admitted
      <4> QED
        BY <1>1, <1>2, <2>1, <4>1, BoundKept
    <3> QED
      BY <3>2, <3>3
  <2> QED
    BY <2>2, <2>3
<1>7. CASE LockAndCount(c)
  <2>1. call[c].at = "lock" /\ call'[c].at = "send"
    BY <1>1, <1>7 DEF LockAndCount, At, EvThrTypeOK
  <2>2. CASE call[c].min = t
    <3>1. Admitted(t)' = Admitted(t) \ {c} /\ c \in Admitted(t)
      BY <1>4, <2>1, <2>2 DEF Admitted
    <3>2. Cardinality(Admitted(t)') = Cardinality(Admitted(t)) - 1
      BY <1>1, <3>1, BoundParts, FS_RemoveElement
    <3>3. backlog'[t] = backlog[t] + 1
      BY <1>1, <1>7, <2>2 DEF LockAndCount, EvThrTypeOK
    <3> QED
      BY <1>1, <1>2, <3>2, <3>3, BoundParts, BoundMoves
  <2>3. CASE call[c].min # t
    <3>1. Admitted(t)' = Admitted(t)
      BY <1>4, <2>1, <2>3 DEF Admitted
    <3>2. backlog'[t] = backlog[t]
      BY <1>1, <1>9, <1>7, <2>3 DEF LockAndCount, EvThrTypeOK
    <3> QED
      BY <1>1, <1>2, <3>1, <3>2, BoundKept
  <2> QED
    BY <2>2, <2>3
<1>8. CASE Send(c)
  <2>1. call[c].at = "send" /\ call'[c].at = "idle"
    BY <1>1, <1>8, ReturnCalls DEF Send, Sent, NotSent, At
  <2>2. Admitted(t)' = Admitted(t)
    BY <1>3, <1>4, <2>1
  <2>3. backlog'[t] = backlog[t] \/ backlog'[t] = backlog[t] - 1
    <3>1. backlog' = backlog \/ backlog' = [backlog EXCEPT ![n] = @ - 1]
      BY <1>8, <1>9, Zenon DEF Send, Sent, NotSent
    <3>2. backlog \in [Threads -> Int]
      BY <1>1 DEF EvThrTypeOK
    <3>3. CASE backlog' = [backlog EXCEPT ![n] = @ - 1]
      BY <3>2, <3>3
    <3> QED
      BY <3>1, <3>3
  <2> QED
    BY <1>1, <1>2, <2>2, <2>3, BoundParts, BoundMoves
<1> QED
  BY <1>5, <1>6, <1>7, <1>8

LEMMA LabourBound ==
  ASSUME PoolInv, PoolInv', BoundInv, NEW t \in Threads, Labour(t)
  PROVE  BoundInv'
<1> SUFFICES ASSUME MaxBacklog # 0, NEW u \in Threads PROVE Bounded(u)'
  BY DEF BoundInv
<1>1. Bounded(u) /\ EvThrTypeOK /\ EvThrTypeOK'
  BY DEF BoundInv, PoolInv
<1>2. Admitted(u)' = Admitted(u)
  BY <1>1, LabourFrame DEF Admitted
<1>3. CASE u # t
  BY <1>1, <1>2, <1>3, LabourFrame, BoundKept DEF Twice
<1>4. CASE u = t
  <2>1. ASSUME NEW b \in Int, backlog'[u] = backlog[u] + b, b <= Twice(u)' - Twice(u)
        PROVE  Bounded(u)'
    BY <1>1, <1>2, <2>1, BoundParts, BoundMoves
  <2>2. ASSUME backlog'[u] = backlog[u], Twice(u)' = Twice(u) PROVE Bounded(u)'
    BY <1>1, <1>2, <2>2, BoundKept
  <2>3. CASE EnterLoop(t) \/ BreakLoop(t) \/ ReadFails(t) \/ evthr_free(t) \/ Accept(t)
    BY <1>1, <1>4, <2>2, <2>3
       DEF EnterLoop, BreakLoop, ReadFails, evthr_free, Accept, Twice, shared, Works, Become, EvThrTypeOK
  <2>4. CASE ReadCmd(t)
    BY <1>1, <1>4, <2>2, <2>4 DEF ReadCmd, Twice, Works, Become, EvThrTypeOK
  <2>5. CASE GiveUp(t)
    <3>1. backlog'[t] = -1 /\ Twice(t)' = 0
      BY <1>1, <2>5 DEF GiveUp, Twice, Flag, Become, EvThrTypeOK
    <3> QED
      BY <1>1, <1>4, <3>1, BoundPartsNext, BoundParts, EvThrAssumption DEF Bounded
  <2>6. CASE run_in_thread(t)
    <3>1. backlog'[t] = backlog[t] + 1 /\ Twice(t)' = 1 /\ Twice(t) = 0
      BY <1>1, <2>6 DEF run_in_thread, Count, Twice, Flag, Works, Become, EvThrTypeOK
    <3> QED
      BY <1>4, <2>1, <3>1
  <2>7. CASE Done(t)
    <3>1. backlog'[t] = backlog[t] + (-1)
      BY <1>1, <2>7 DEF Done, Count, EvThrTypeOK
    <3>2. -1 <= Twice(t)' - Twice(t)
      BY <1>1, <1>4, BoundParts, BoundPartsNext
    <3> QED
      BY <1>4, <2>1, <3>1, <3>2
  <2>8. CASE evhttpx_connection_free(t)
    <3>1. backlog'[t] = backlog[t] + (-1)
      BY <1>1, <2>8 DEF evhttpx_connection_free, Count, EvThrTypeOK
    <3>2. -1 <= Twice(t)' - Twice(t)
      BY <1>1, <1>4, BoundParts, BoundPartsNext
    <3> QED
      BY <1>4, <2>1, <3>1, <3>2
  <2> QED
    BY <2>3, <2>4, <2>5, <2>6, <2>7, <2>8 DEF Labour
<1> QED
  BY <1>3, <1>4

LEMMA BoundInit == Init => BoundInv
<1> SUFFICES ASSUME Init, MaxBacklog # 0, NEW t \in Threads PROVE Bounded(t)
  BY DEF BoundInv
<1>1. Admitted(t) = {}
  BY DEF Init, Admitted, Idle
<1>2. backlog[t] = 0 /\ Twice(t) = 0
  BY DEF Init, Twice, Flag
<1>3. Cardinality(Callers) \in Nat /\ Cardinality({}) = 0
  BY EvThrAssumption, FS_CardinalityType, FS_EmptySet
<1> QED
  BY <1>1, <1>2, <1>3, EvThrAssumption DEF Bounded

LEMMA BoundStep == PoolInv /\ PoolInv' /\ BoundInv /\ [Next]_vars => BoundInv'
<1> SUFFICES ASSUME PoolInv, PoolInv', BoundInv, [Next]_vars PROVE BoundInv'
  OBVIOUS
<1>1. ASSUME thr' = thr, hand' = hand, backlog' = backlog, call' = call PROVE BoundInv'
  BY <1>1 DEF BoundInv, Bounded, Admitted, Twice
<1>2. CASE Crash
  BY <1>1, <1>2 DEF Crash, thread, shared
<1>3. CASE UNCHANGED vars
  BY <1>1, <1>3 DEF vars, thread, shared
<1>4. ASSUME Next PROVE BoundInv'
  BY <1>2, <1>3, <1>4, NextCases, MainBound, CallerBound, LabourBound
<1> QED
  BY <1>3, <1>4

\* Callers that test and count in two steps overshoot max_backlog by at most
\* one each.
THEOREM OvershootIsBounded == Spec => []BacklogBounded
<1>1. (PoolInv /\ BoundInv) /\ [Next]_vars /\ PoolInv' => (PoolInv /\ BoundInv)'
  BY BoundStep
<1>2. PoolInv /\ BoundInv => BacklogBounded
  <2> SUFFICES ASSUME PoolInv, BoundInv, MaxBacklog # 0, NEW t \in Threads
               PROVE  backlog[t] <= MaxBacklog + Cardinality(Callers)
    BY DEF BacklogBounded
  <2>1. EvThrTypeOK /\ Bounded(t)
    BY DEF PoolInv, BoundInv
  <2> QED
    BY <2>1, BoundParts, EvThrAssumption DEF Bounded
<1> QED
  BY <1>1, <1>2, BoundInit, PoolInvariance, PTL DEF Spec

-----------------------------------------------------------------------------
(* The thread pool implements JobService, for any number of threads,       *)
(* callers and jobs: a job that is accepted runs at most once, a job that  *)
(* is refused never runs.                                                  *)
(*                                                                         *)
(* The invariant JobInv says where a job can be: with its caller, in one   *)
(* place of one pipe, or in one worker's hand, and how often it has run.   *)

Carries(t, j) == Has(t, j) \/ Holds(t, j)

Calls(c, j) == call[c].at # "idle" /\ call[c].job = j

Distinct(p) == \A a, b \in 1..Len(p) : p[a] = p[b] => a = b

\* A job that was not accepted has gone nowhere, and only begun calls are answered.
Answered ==
  \A j \in Jobs :
    /\ answer[j] # "ok" => ran[j] = 0 /\ \A t \in Threads : ~Carries(t, j)
    /\ begun < j => answer[j] = "none"

\* A job under way has one caller and no answer.
OneCaller ==
  \A c \in Callers, j \in Jobs :
    Calls(c, j) => /\ j <= begun /\ answer[j] = "none"
                   /\ \A e \in Callers : Calls(e, j) => e = c

\* A job is in one place, and has run when its callback was entered.
OnePlace ==
  /\ \A t \in Threads, j \in Jobs :
       Carries(t, j) => /\ \A u \in Threads : Carries(u, j) => u = t
                        /\ ~(Has(t, j) /\ Holds(t, j))
                        /\ ran[j] = 0 <=> Has(t, j) \/ thr[t] = "cmd"
  /\ \A t \in Threads : Distinct(pipe[t])

JobInv == Answered /\ OneCaller /\ OnePlace

-----------------------------------------------------------------------------
(* Pipes.                                                                  *)

LEMMA AppendDistinct ==
  ASSUME NEW p \in Seq(Cmds), NEW x \in Cmds, Distinct(p), ~In(p, x)
  PROVE  Distinct(Append(p, x))
<1>1. Len(p) \in Nat /\ Len(Append(p, x)) = Len(p) + 1 /\ Append(p, x)[Len(p) + 1] = x
  OBVIOUS
<1>2. \A i \in 1..Len(p) : Append(p, x)[i] = p[i] /\ p[i] # x
  BY DEF In
<1>3. 1..(Len(p) + 1) = (1..Len(p)) \cup {Len(p) + 1}
  BY <1>1
<1> QED
  BY <1>1, <1>2, <1>3 DEF Distinct

LEMMA TailDistinct ==
  ASSUME NEW p \in Seq(Cmds), p # <<>>, Distinct(p)
  PROVE  Distinct(Tail(p)) /\ ~In(Tail(p), Head(p))
<1>1. PICK n \in Nat \ {0} : n = Len(p)
  OBVIOUS
<1>2. PICK q \in Seq(Cmds) : q = Tail(p)
  BY TailIn
<1>3. /\ Len(q) = n - 1 /\ Head(p) = p[1] /\ \A i \in 1..(n - 1) : q[i] = p[i + 1]
  BY <1>1, <1>2, TailIn
<1>4. \A a, b \in 1..n : p[a] = p[b] => a = b
  BY <1>1 DEF Distinct
<1>5. ASSUME NEW a \in 1..(n - 1), NEW b \in 1..(n - 1), q[a] = q[b] PROVE a = b
  BY <1>3, <1>4, <1>5
<1>6. ASSUME NEW a \in 1..(n - 1), q[a] = p[1] PROVE FALSE
  BY <1>3, <1>4, <1>6
<1> QED
  BY <1>2, <1>3, <1>5, <1>6 DEF Distinct, In

LEMMA HasInNext == \A t, cmd : Has(t, cmd)' <=> In(pipe'[t], cmd)
BY DEF Has, In

LEMMA CarriesIs ==
  ASSUME NEW t, NEW j
  PROVE  Carries(t, j) <=> In(pipe[t], j) \/ (thr[t] \in {"cmd", "accept", "done"} /\ hand[t] = j)
BY HasIn DEF Carries, Holds

LEMMA CarriesNext ==
  ASSUME NEW t, NEW j
  PROVE  Carries(t, j)' <=> In(pipe'[t], j) \/ (thr'[t] \in {"cmd", "accept", "done"} /\ hand'[t] = j)
BY HasInNext DEF Carries, Holds, Has

-----------------------------------------------------------------------------
(* Steps that move no job.                                                 *)

\* No job comes to a new place and none is entered or answered.
Quiet ==
  /\ answer' = answer /\ ran' = ran /\ pipe' = pipe
  /\ \A t \in Threads, j \in Jobs :
       /\ Holds(t, j)' => Holds(t, j) /\ (thr'[t] = "cmd" <=> thr[t] = "cmd")
       /\ Holds(t, j) /\ ~Holds(t, j)' => thr[t] # "cmd"

\* The calls keep their jobs.
SameCalls == begun' = begun /\ \A c \in Callers, j \in Jobs : Calls(c, j)' => Calls(c, j)

LEMMA QuietPlaces ==
  ASSUME EvThrTypeOK, JobInv, Quiet
  PROVE  OnePlace' /\ JobStatus' = JobStatus /\ UNCHANGED <<answer, ran>>
         /\ \A t \in Threads, j \in Jobs : Carries(t, j)' => Carries(t, j)
<1>1. \A t \in Threads, j \in Jobs : Has(t, j)' <=> Has(t, j)
  BY DEF Quiet, Has
<1>2. \A t \in Threads, j \in Jobs : Carries(t, j)' => Carries(t, j)
  BY <1>1 DEF Quiet, Carries
<1>3. OnePlace'
  <2>1. \A t \in Threads : Distinct(pipe[t])'
    BY DEF Quiet, JobInv, OnePlace, Distinct
  <2>2. ASSUME NEW t \in Threads, NEW j \in Jobs, Carries(t, j)'
        PROVE  /\ \A u \in Threads : Carries(u, j)' => u = t
               /\ ~(Has(t, j)' /\ Holds(t, j)')
               /\ ran'[j] = 0 <=> Has(t, j)' \/ thr'[t] = "cmd"
    <3>1. Carries(t, j) /\ (Has(t, j)' <=> Has(t, j)) /\ ran'[j] = ran[j]
      BY <1>1, <1>2, <2>2 DEF Quiet
    <3>2. CASE Has(t, j)'
      <4>1. Has(t, j) /\ ~Holds(t, j) /\ ran[j] = 0
        BY <3>1, <3>2 DEF JobInv, OnePlace
      <4> QED
        BY <1>2, <3>1, <3>2, <4>1 DEF JobInv, OnePlace, Quiet
    <3>3. CASE ~Has(t, j)'
      <4>1. Holds(t, j)' /\ (thr'[t] = "cmd" <=> thr[t] = "cmd")
        BY <2>2, <3>3 DEF Carries, Quiet
      <4> QED
        BY <1>2, <3>1, <3>3, <4>1 DEF JobInv, OnePlace
    <3> QED
      BY <3>2, <3>3
  <2> QED
    BY <2>1, <2>2 DEF OnePlace
<1>4. ASSUME NEW j \in Jobs, ran[j] = 0, NEW t \in Threads, Carries(t, j) PROVE Carries(t, j)'
  BY <1>1, <1>4 DEF JobInv, OnePlace, Quiet, Carries
<1>5. JobStatus' = JobStatus
  <2>1. ASSUME NEW j \in Jobs
        PROVE  /\ ran'[j] = ran[j] /\ answer'[j] = answer[j]
               /\ ran[j] > 0 \/ (Queued(j)' <=> Queued(j))
    <3>1. ran[j] = 0 \/ ran[j] > 0
      BY DEF EvThrTypeOK
    <3>2. ran[j] = 0 => (Queued(j)' <=> Queued(j))
      BY <1>2, <1>4 DEF Queued, Carries
    <3> QED
      BY <3>1, <3>2 DEF Quiet
  <2> QED
    BY <2>1 DEF JobStatus
<1> QED
  BY <1>2, <1>3, <1>5 DEF Quiet

LEMMA QuietAnswers ==
  ASSUME EvThrTypeOK, JobInv, Quiet, SameCalls
  PROVE  JobInv' /\ JobStatus' = JobStatus /\ ran' = ran
<1>1. Answered'
  BY QuietPlaces DEF JobInv, Answered, SameCalls
<1>2. OneCaller'
  BY QuietPlaces DEF JobInv, OneCaller, SameCalls
<1> QED
  BY <1>1, <1>2, QuietPlaces DEF JobInv

LEMMA MainJobs ==
  ASSUME PoolInv, JobInv, evthr_pool_start \/ evhttpx_free
  PROVE  JobInv' /\ JobStatus' = JobStatus /\ ran' = ran
<1>1. /\ answer' = answer /\ ran' = ran /\ pipe' = pipe /\ call' = call /\ begun' = begun
      /\ hand' = hand
  BY DEF evthr_pool_start, evhttpx_free, shared, history, thread
<1>2. ASSUME NEW t \in Threads, thr'[t] # thr[t] PROVE thr[t] = "new" /\ thr'[t] = "starting"
  <2>1. evthr_pool_start /\ main.at = "start" /\ main.next \in Threads
    BY <1>2 DEF evthr_pool_start, evhttpx_free, thread, PoolInv, EvThrTypeOK
  <2>2. t = main.next /\ thr'[t] = "starting"
    BY <1>2, <2>1 DEF evthr_pool_start, PoolInv, EvThrTypeOK
  <2>3. t \in Nat
    BY Constants
  <2> QED
    BY <2>1, <2>2, <2>3 DEF PoolInv, Fresh
<1>3. Quiet
  BY <1>1, <1>2 DEF Quiet, Holds
<1>4. SameCalls
  BY <1>1 DEF SameCalls, Calls
<1> QED
  BY <1>3, <1>4, QuietAnswers DEF PoolInv

\* Workers that move no command.
LEMMA QuietLabour ==
  ASSUME PoolInv, JobInv, NEW t \in Threads,
         \/ EnterLoop(t) \/ GiveUp(t) \/ Accept(t) \/ BreakLoop(t) \/ Done(t) \/ evthr_free(t)
         \/ ReadFails(t) \/ evhttpx_connection_free(t)
  PROVE  JobInv' /\ JobStatus' = JobStatus /\ ran' = ran
<1>1. answer' = answer /\ ran' = ran /\ pipe' = pipe /\ call' = call /\ begun' = begun
  BY DEF EnterLoop, GiveUp, Accept, BreakLoop, Done, evthr_free, ReadFails, evhttpx_connection_free,
         shared, history, Count
<1>2. \A u \in Threads \ {t} : thr'[u] = thr[u] /\ hand'[u] = hand[u]
  BY LabourFrame DEF Labour, PoolInv
<1>3. /\ hand'[t] = hand[t] \/ hand'[t] = Stop
      /\ \/ hand'[t] = hand[t] /\ thr'[t] = thr[t]
         \/ thr'[t] \notin {"cmd", "accept", "done"} /\ thr[t] # "cmd"
         \/ hand'[t] = hand[t] /\ <<thr[t], thr'[t]>> = <<"accept", "done">>
         \/ hand'[t] = Stop /\ hand[t] = Stop
  <2> USE DEF PoolInv, EvThrTypeOK, Works, Become
  <2>1. CASE EnterLoop(t) \/ GiveUp(t) \/ evthr_free(t) \/ ReadFails(t)
    BY <2>1 DEF EnterLoop, GiveUp, evthr_free, ReadFails
  <2>2. CASE Accept(t) \/ evhttpx_connection_free(t)
    BY <2>2 DEF Accept, evhttpx_connection_free, Serves
  <2>3. CASE BreakLoop(t)
    BY <2>3 DEF BreakLoop
  <2>4. CASE Done(t)
    BY <2>4 DEF Done, After
  <2> QED
    BY <2>1, <2>2, <2>3, <2>4
<1>4. Stop \notin Jobs
  BY Constants
<1>5. Quiet
  BY <1>1, <1>2, <1>3, <1>4 DEF Quiet, Holds
<1>6. SameCalls
  BY <1>1 DEF SameCalls, Calls
<1> QED
  BY <1>5, <1>6, QuietAnswers DEF PoolInv

-----------------------------------------------------------------------------
(* Steps that move a job.                                                  *)

\* The places of the jobs are the same, though a stop command is written, or a
\* command read.
SamePlaces ==
  /\ answer' = answer /\ ran' = ran /\ call' = call /\ begun' = begun
  /\ \A t \in Threads, j \in Jobs :
       /\ Carries(t, j)' <=> Carries(t, j)
       /\ Carries(t, j) => ((Has(t, j)' \/ thr'[t] = "cmd") <=> (Has(t, j) \/ thr[t] = "cmd"))
       /\ ~(Has(t, j)' /\ Holds(t, j)')
  /\ \A t \in Threads : Distinct(pipe'[t])

LEMMA SamePlacesKeep ==
  ASSUME JobInv, SamePlaces
  PROVE  JobInv' /\ JobStatus' = JobStatus /\ ran' = ran
<1>1. Answered'
  BY DEF JobInv, Answered, SamePlaces
<1>2. OneCaller'
  BY DEF JobInv, OneCaller, SamePlaces, Calls
<1>3. OnePlace'
  <2>1. \A t \in Threads : Distinct(pipe[t])'
    BY DEF SamePlaces, Distinct
  <2> QED
    BY <2>1 DEF JobInv, OnePlace, SamePlaces
<1>4. \A j \in Jobs : Queued(j)' <=> Queued(j)
  BY DEF SamePlaces, Queued, Carries
<1>5. JobStatus' = JobStatus
  BY <1>4 DEF JobStatus, SamePlaces
<1> QED
  BY <1>1, <1>2, <1>3, <1>5 DEF JobInv, SamePlaces

LEMMA StopJobs ==
  ASSUME PoolInv, JobInv, evthr_stop
  PROVE  JobInv' /\ JobStatus' = JobStatus /\ ran' = ran
<1> USE DEF PoolInv
<1>1. PICK n \in Threads : n = main.next
  BY DEF EvThrTypeOK
<1>2. n \in Nat /\ main.at = "stop"
  BY <1>1, Constants DEF evthr_stop
<1>3. /\ answer' = answer /\ ran' = ran /\ call' = call /\ begun' = begun
      /\ thr' = thr /\ hand' = hand
  BY DEF evthr_stop, history, thread
<1>4. ASSUME NEW t \in Threads
      PROVE  /\ \A j \in Jobs : Has(t, j)' <=> Has(t, j)
             /\ Distinct(pipe'[t])
  <2>1. Distinct(pipe[t]) /\ pipe[t] \in Seq(Cmds)
    BY DEF JobInv, OnePlace, EvThrTypeOK
  <2>2. CASE pipe'[t] = pipe[t]
    BY <2>1, <2>2 DEF Has
  <2>3. CASE pipe'[t] # pipe[t]
    <3>1. t = n /\ pipe'[t] = Append(pipe[t], Stop)
      BY <1>1, <2>3 DEF evthr_stop, EvThrTypeOK
    <3>2. ~In(pipe[t], Stop)
      <4>1. ~Stopped(n)
        BY <1>1, <1>2 DEF Stopped
      <4> QED
        BY <3>1, <4>1, HasIn DEF StopInv
    <3>3. Distinct(pipe'[t])
      BY <2>1, <3>1, <3>2, AppendDistinct, Constants
    <3>4. ASSUME NEW j \in Jobs PROVE In(pipe'[t], j) <=> In(pipe[t], j)
      BY <2>1, <3>1, AppendIn, Constants
    <3> QED
      BY <3>3, <3>4, HasIn, HasInNext
  <2> QED
    BY <2>2, <2>3
<1>5. \A t \in Threads, j \in Jobs : Holds(t, j)' <=> Holds(t, j)
  BY <1>3 DEF Holds
<1>6. SamePlaces
  BY <1>3, <1>4, <1>5 DEF SamePlaces, Carries, JobInv, OnePlace
<1> QED
  BY <1>6, SamePlacesKeep

LEMMA ReadJobs ==
  ASSUME PoolInv, JobInv, NEW t \in Threads, ReadCmd(t)
  PROVE  JobInv' /\ JobStatus' = JobStatus /\ ran' = ran
<1> USE DEF PoolInv
<1>1. answer' = answer /\ ran' = ran /\ call' = call /\ begun' = begun
  BY DEF ReadCmd, history
<1>2. /\ pipe[t] # <<>> /\ thr[t] = "loop" /\ thr'[t] = "cmd"
      /\ hand'[t] = Head(pipe[t]) /\ pipe'[t] = Tail(pipe[t]) /\ pipe[t] \in Seq(Cmds)
  BY DEF ReadCmd, Take, Works, Become, EvThrTypeOK
<1>3. \A u \in Threads \ {t} : thr'[u] = thr[u] /\ hand'[u] = hand[u] /\ pipe'[u] = pipe[u]
  BY LabourFrame DEF Labour
<1>4. \A u \in Threads : Distinct(pipe[u])
  BY DEF JobInv, OnePlace
<1>5. Distinct(pipe'[t]) /\ ~In(pipe'[t], hand'[t])
  BY <1>2, <1>4, TailDistinct
<1>6. ASSUME NEW j \in Jobs
      PROVE  /\ In(pipe[t], j) <=> hand'[t] = j \/ In(pipe'[t], j)
             /\ ~Holds(t, j) /\ (Holds(t, j)' <=> hand'[t] = j)
  BY <1>2, TailIn DEF Holds
<1>7. ASSUME NEW u \in Threads, NEW j \in Jobs
      PROVE  /\ Carries(u, j)' <=> Carries(u, j)
             /\ Carries(u, j) => ((Has(u, j)' \/ thr'[u] = "cmd") <=> (Has(u, j) \/ thr[u] = "cmd"))
             /\ ~(Has(u, j)' /\ Holds(u, j)')
  <2>1. CASE u = t
    <3>1. (Has(u, j)' <=> In(pipe'[t], j)) /\ (Has(u, j) <=> In(pipe[t], j))
      BY <2>1, HasIn, HasInNext
    <3> QED
      BY <1>2, <1>5, <1>6, <2>1, <3>1 DEF Carries
  <2>2. CASE u # t
    <3>1. (Has(u, j)' <=> Has(u, j)) /\ (Holds(u, j)' <=> Holds(u, j)) /\ thr'[u] = thr[u]
      BY <1>3, <2>2 DEF Has, Holds
    <3> QED
      BY <3>1 DEF Carries, JobInv, OnePlace
  <2> QED
    BY <2>1, <2>2
<1>8. \A u \in Threads : Distinct(pipe'[u])
  BY <1>3, <1>4, <1>5
<1>9. SamePlaces
  BY <1>1, <1>7, <1>8 DEF SamePlaces
<1> QED
  BY <1>9, SamePlacesKeep

LEMMA RunJobs ==
  ASSUME PoolInv, JobInv, NEW t \in Threads, run_in_thread(t)
  PROVE  JobInv' /\ JS!JobNext
<1> USE DEF PoolInv
<1>1. /\ answer' = answer /\ call' = call /\ begun' = begun /\ pipe' = pipe /\ hand' = hand
      /\ thr[t] = "cmd" /\ hand[t] # Stop /\ thr' = [thr EXCEPT ![t] = "accept"]
      /\ ran' = [ran EXCEPT ![hand[t]] = @ + 1]
  BY DEF run_in_thread, Works, Become
<1>2. PICK k \in Jobs : k = hand[t]
  BY <1>1, Constants DEF EvThrTypeOK, Cmds
<1>3. Holds(t, k) /\ ran[k] = 0 /\ ran \in [Jobs -> Nat] /\ thr'[t] = "accept"
  BY <1>1, <1>2 DEF Holds, Carries, JobInv, OnePlace, EvThrTypeOK
<1>4. ran'[k] = 1 /\ \A j \in Jobs \ {k} : ran'[j] = ran[j]
  BY <1>1, <1>2, <1>3
<1>5. /\ answer[k] = "ok" /\ ~Has(t, k)
      /\ \A u \in Threads \ {t} : ~Carries(u, k)
  BY <1>3 DEF JobInv, Answered, OnePlace, Carries
<1>6. \A u \in Threads, j \in Jobs : /\ Has(u, j)' <=> Has(u, j)
                                     /\ Holds(u, j)' <=> Holds(u, j)
                                     /\ Carries(u, j)' <=> Carries(u, j)
  BY <1>1 DEF Has, Holds, Carries, EvThrTypeOK
<1>7. Answered'
  BY <1>1, <1>4, <1>5, <1>6 DEF JobInv, Answered
<1>8. OneCaller'
  BY <1>1 DEF JobInv, OneCaller, Calls
<1>9. OnePlace'
  <2>1. \A u \in Threads : Distinct(pipe[u])'
    BY <1>1 DEF JobInv, OnePlace, Distinct
  <2>2. ASSUME NEW u \in Threads, NEW j \in Jobs, Carries(u, j)'
        PROVE  /\ \A v \in Threads : Carries(v, j)' => v = u
               /\ ~(Has(u, j)' /\ Holds(u, j)')
               /\ ran'[j] = 0 <=> Has(u, j)' \/ thr'[u] = "cmd"
    <3>1. Carries(u, j)
      BY <1>6, <2>2
    <3>2. /\ \A v \in Threads : Carries(v, j) => v = u
          /\ ~(Has(u, j) /\ Holds(u, j))
          /\ ran[j] = 0 <=> Has(u, j) \/ thr[u] = "cmd"
      BY <3>1 DEF JobInv, OnePlace
    <3>3. CASE j = k
      BY <1>3, <1>4, <1>5, <1>6, <3>1, <3>2, <3>3
    <3>4. CASE j # k
      <4>1. CASE u = t
        <5>1. ~Holds(u, j)
          BY <1>2, <3>4, <4>1 DEF Holds
        <5> QED
          BY <1>1, <1>3, <1>4, <1>6, <3>1, <3>2, <3>4, <4>1, <5>1 DEF Carries
      <4>2. CASE u # t
        <5>1. thr'[u] = thr[u]
          BY <1>1, <4>2 DEF EvThrTypeOK
        <5> QED
          BY <1>4, <1>6, <3>1, <3>2, <3>4, <5>1
      <4> QED
        BY <4>1, <4>2
    <3> QED
      BY <3>3, <3>4
  <2> QED
    BY <2>1, <2>2 DEF OnePlace
<1>10. \A j \in Jobs : Queued(j)' <=> Queued(j)
  BY <1>6 DEF Queued
<1>11. JS!Run(k)
  <2>1. Queued(k)
    BY <1>3 DEF Queued
  <2>2. JobStatus[k] = "queued" /\ JobStatus'[k] = "run"
    BY <1>3, <1>4, <2>1 DEF JobStatus
  <2>3. \A j \in Jobs \ {k} : JobStatus'[j] = JobStatus[j]
    BY <1>1, <1>4, <1>10 DEF JobStatus
  <2>4. JobStatus' = [JobStatus EXCEPT ![k] = "run"]
    BY <2>2, <2>3 DEF JobStatus
  <2> QED
    BY <1>1, <1>2, <2>2, <2>4 DEF JS!Run
<1>12. k \in JS!Jobs
  BY DEF JS!Jobs, Jobs
<1> QED
  BY <1>7, <1>8, <1>9, <1>11, <1>12 DEF JobInv, JS!JobNext

-----------------------------------------------------------------------------
(* The callers.                                                            *)

LEMMA CallMoves ==
  ASSUME PoolInv, JobInv, NEW c \in Callers,
         ScanThread(c) \/ LockAndCount(c) \/ (CheckBacklog(c) /\ answer' = answer
                                              /\ call' = [call EXCEPT ![c].at = "lock"])
  PROVE  JobInv' /\ JobStatus' = JobStatus /\ ran' = ran
<1>1. /\ answer' = answer /\ ran' = ran /\ pipe' = pipe /\ begun' = begun
      /\ thr' = thr /\ hand' = hand
  BY DEF ScanThread, LockAndCount, CheckBacklog, shared, history, thread
<1>2. call[c].at # "idle" /\ call'[c].job = call[c].job
  BY DEF ScanThread, LockAndCount, CheckBacklog, At, PoolInv, EvThrTypeOK
<1>3. \A e \in Callers \ {c} : call'[e] = call[e]
  BY DEF ScanThread, LockAndCount, CheckBacklog, PoolInv, EvThrTypeOK
<1>4. Quiet
  BY <1>1 DEF Quiet, Holds
<1>5. SameCalls
  BY <1>1, <1>2, <1>3 DEF SameCalls, Calls
<1> QED
  BY <1>4, <1>5, QuietAnswers DEF PoolInv

LEMMA BeginJobs ==
  ASSUME PoolInv, JobInv, NEW c \in Callers, evthr_pool_defer(c)
  PROVE  JobInv' /\ JobStatus' = JobStatus /\ ran' = ran
<1>1. /\ answer' = answer /\ ran' = ran /\ pipe' = pipe /\ begun' = begun + 1
      /\ thr' = thr /\ hand' = hand
  BY DEF evthr_pool_defer, shared, history, thread
<1>2. begun \in Nat /\ begun + 1 \in Jobs
  BY EvThrAssumption DEF evthr_pool_defer, PoolInv, EvThrTypeOK, Jobs
<1>3. call'[c].job = begun + 1 /\ \A e \in Callers \ {c} : call'[e] = call[e]
  BY DEF evthr_pool_defer, PoolInv, EvThrTypeOK, Idle
<1>4. Quiet
  BY <1>1 DEF Quiet, Holds
<1>5. /\ OnePlace' /\ JobStatus' = JobStatus
      /\ \A t \in Threads, j \in Jobs : Carries(t, j)' => Carries(t, j)
  BY <1>4, QuietPlaces DEF PoolInv
<1>6. Answered'
  <2>1. \A j \in Jobs : begun + 1 < j => begun < j
    BY <1>2 DEF Jobs
  <2> QED
    BY <1>1, <1>5, <2>1 DEF JobInv, Answered
<1>7. OneCaller'
  <2>1. \A j \in Jobs : j <= begun => j <= begun + 1 /\ j # begun + 1
    BY <1>2 DEF Jobs
  <2>2. answer[begun + 1] = "none"
    BY <1>2 DEF JobInv, Answered
  <2>3. ASSUME NEW e \in Callers, NEW j \in Jobs, Calls(e, j)'
        PROVE  \/ e = c /\ j = begun + 1
               \/ e # c /\ Calls(e, j) /\ j <= begun
    BY <1>3, <2>3 DEF Calls, JobInv, OneCaller
  <2>4. ASSUME NEW e \in Callers, NEW j \in Jobs, Calls(e, j)',
               NEW f \in Callers, Calls(f, j)'
        PROVE  f = e
    BY <2>1, <2>3, <2>4 DEF JobInv, OneCaller
  <2>5. ASSUME NEW e \in Callers, NEW j \in Jobs, Calls(e, j)'
        PROVE  j <= begun' /\ answer'[j] = "none"
    <3>1. CASE e = c /\ j = begun + 1
      BY <1>1, <1>2, <2>2, <3>1
    <3>2. CASE e # c /\ Calls(e, j) /\ j <= begun
      BY <1>1, <2>1, <3>2 DEF JobInv, OneCaller
    <3> QED
      BY <2>3, <2>5, <3>1, <3>2
  <2> QED
    BY <2>4, <2>5 DEF OneCaller
<1> QED
  BY <1>1, <1>5, <1>6, <1>7 DEF JobInv

\* What a caller's job is before it is answered.
LEMMA CallersJob ==
  ASSUME PoolInv, JobInv, NEW c \in Callers, call[c].at # "idle"
  PROVE  /\ call[c].job \in Jobs /\ call[c].job <= begun
         /\ answer[call[c].job] = "none" /\ ran[call[c].job] = 0
         /\ \A t \in Threads : ~Carries(t, call[c].job)
         /\ \A e \in Callers \ {c} : ~Calls(e, call[c].job)
<1>1. call[c].job \in Jobs /\ Calls(c, call[c].job)
  BY DEF PoolInv, CallInv, Calls
<1>2. answer[call[c].job] = "none" /\ call[c].job <= begun
  BY <1>1 DEF JobInv, OneCaller
<1> QED
  BY <1>1, <1>2 DEF JobInv, OneCaller, Answered

LEMMA ReturnJobs ==
  ASSUME PoolInv, JobInv, NEW c \in Callers, call[c].at # "idle", begun' = begun, ran' = ran,
         NEW res, Return(c, res)
  PROVE  /\ OneCaller' /\ answer' \in [Jobs -> {"none", "ok", "refused"}]
         /\ answer'[call[c].job] = IF res = "OK" THEN "ok" ELSE "refused"
         /\ \A j \in Jobs \ {call[c].job} : answer'[j] = answer[j]
<1> DEFINE k == call[c].job
<1>1. k \in Jobs /\ \A e \in Callers \ {c} : ~Calls(e, k)
  BY CallersJob
<1>2. answer' \in [Jobs -> {"none", "ok", "refused"}]
  BY ReturnType DEF PoolInv
<1>3. answer'[k] = IF res = "OK" THEN "ok" ELSE "refused"
  BY <1>1 DEF Return, PoolInv, EvThrTypeOK
<1>4. \A j \in Jobs \ {k} : answer'[j] = answer[j]
  BY <1>1 DEF Return, PoolInv, EvThrTypeOK
<1>5. call'[c].at = "idle" /\ \A e \in Callers \ {c} : call'[e] = call[e]
  BY ReturnCalls DEF PoolInv
<1>6. ASSUME NEW e \in Callers, NEW j \in Jobs, Calls(e, j)' PROVE Calls(e, j) /\ j # k
  BY <1>1, <1>5, <1>6 DEF Calls
<1>7. OneCaller'
  BY <1>4, <1>6 DEF JobInv, OneCaller
<1> QED
  BY <1>2, <1>3, <1>4, <1>7

LEMMA RefuseJobs ==
  ASSUME PoolInv, JobInv, NEW c \in Callers, call[c].at # "idle",
         begun' = begun, ran' = ran, pipe' = pipe, thr' = thr, hand' = hand,
         NEW res, res # "OK", Return(c, res)
  PROVE  JobInv' /\ JS!JobNext
<1>1. PICK k \in Jobs : k = call[c].job
  BY CallersJob
<1>2. /\ OneCaller' /\ answer'[k] = "refused"
      /\ \A j \in Jobs \ {k} : answer'[j] = answer[j]
  BY <1>1, ReturnJobs
<1>3. answer[k] = "none" /\ k <= begun /\ ran[k] = 0 /\ \A t \in Threads : ~Carries(t, k)
  BY <1>1, CallersJob
<1>4. \A t \in Threads, j \in Jobs : /\ Has(t, j)' <=> Has(t, j)
                                     /\ Holds(t, j)' <=> Holds(t, j)
                                     /\ Carries(t, j)' <=> Carries(t, j)
  BY DEF Has, Holds, Carries
<1>5. Answered'
  <2>1. begun \in Nat /\ k \in Nat
    BY Constants DEF PoolInv, EvThrTypeOK
  <2>2. ~(begun < k)
    BY <1>3, <2>1
  <2> QED
    BY <1>2, <1>3, <1>4, <2>2 DEF JobInv, Answered
<1>6. OnePlace'
  BY <1>4 DEF JobInv, OnePlace, Distinct
<1>7. \A j \in Jobs : Queued(j)' <=> Queued(j)
  BY <1>4 DEF Queued
<1>8. JS!Answer(k, "refused")
  <2>1. ~Queued(k) /\ ~(ran[k] > 0)
    BY <1>3 DEF Queued, Carries
  <2>2. JobStatus[k] = "new" /\ JobStatus'[k] = "refused"
    BY <1>2, <1>3, <1>7, <2>1 DEF JobStatus
  <2>3. \A j \in Jobs \ {k} : JobStatus'[j] = JobStatus[j]
    BY <1>2, <1>7 DEF JobStatus
  <2>4. JobStatus' = [JobStatus EXCEPT ![k] = "refused"]
    BY <2>2, <2>3 DEF JobStatus
  <2> QED
    BY <2>2, <2>4 DEF JS!Answer
<1>9. k \in JS!Jobs
  BY DEF JS!Jobs, Jobs
<1> QED
  BY <1>2, <1>5, <1>6, <1>8, <1>9 DEF JobInv, JS!JobNext

LEMMA SendJobs ==
  ASSUME PoolInv, JobInv, NEW c \in Callers, call[c].at = "send", Send(c), Sent(c, call[c].min)
  PROVE  JobInv' /\ JS!JobNext
<1> USE DEF PoolInv
<1>1. PICK k \in Jobs : k = call[c].job
  BY CallersJob
<1>2. PICK n \in Threads : n = call[c].min
  BY DEF EvThrTypeOK
<1>3. begun' = begun /\ ran' = ran /\ thr' = thr /\ hand' = hand /\ Return(c, "OK")
  BY DEF Send, Sent, thread
<1>4. /\ OneCaller' /\ answer'[k] = "ok"
      /\ \A j \in Jobs \ {k} : answer'[j] = answer[j]
  BY <1>1, <1>3, ReturnJobs
<1>5. answer[k] = "none" /\ k <= begun /\ ran[k] = 0 /\ \A t \in Threads : ~Carries(t, k)
  BY <1>1, CallersJob
<1>6. /\ pipe[n] \in Seq(Cmds) /\ pipe'[n] = Append(pipe[n], k)
      /\ \A t \in Threads \ {n} : pipe'[t] = pipe[t]
  BY <1>1, <1>2 DEF Sent, EvThrTypeOK
<1>7. \A j \in Jobs : In(pipe'[n], j) <=> In(pipe[n], j) \/ j = k
  BY <1>1, <1>6, AppendIn, Constants
<1>8. \A t \in Threads, j \in Jobs :
        /\ Has(t, j)' <=> Has(t, j) \/ (t = n /\ j = k)
        /\ Holds(t, j)' <=> Holds(t, j)
        /\ Carries(t, j)' <=> Carries(t, j) \/ (t = n /\ j = k)
  <2>1. \A t \in Threads, j \in Jobs : Has(t, j)' <=> Has(t, j) \/ (t = n /\ j = k)
    BY <1>6, <1>7, HasIn, HasInNext
  <2> QED
    BY <1>3, <2>1 DEF Holds, Carries
<1>9. Answered'
  <2>1. begun \in Nat /\ k \in Nat
    BY Constants DEF EvThrTypeOK
  <2>2. ~(begun < k)
    BY <1>5, <2>1
  <2> QED
    BY <1>3, <1>4, <1>8, <2>2 DEF JobInv, Answered
<1>10. OnePlace'
  <2>1. ASSUME NEW t \in Threads PROVE Distinct(pipe[t])'
    <3>1. CASE t = n
      <4>1. ~In(pipe[n], k) /\ Distinct(pipe[n])
        BY <1>5, HasIn DEF Carries, JobInv, OnePlace
      <4>2. k \in Cmds
        BY DEF Cmds
      <4>3. Distinct(Append(pipe[n], k))
        BY <1>6, <4>1, <4>2, AppendDistinct
      <4>4. pipe'[t] = Append(pipe[n], k)
        BY <1>6, <3>1
      <4> QED
        BY <4>3, <4>4 DEF Distinct
    <3>2. CASE t # n
      BY <1>6, <3>2 DEF JobInv, OnePlace, Distinct
    <3> QED
      BY <3>1, <3>2
  <2>2. ASSUME NEW t \in Threads, NEW j \in Jobs, Carries(t, j)'
        PROVE  /\ \A u \in Threads : Carries(u, j)' => u = t
               /\ ~(Has(t, j)' /\ Holds(t, j)')
               /\ ran'[j] = 0 <=> Has(t, j)' \/ thr'[t] = "cmd"
    <3>1. CASE j = k
      BY <1>3, <1>5, <1>8, <2>2, <3>1 DEF Carries
    <3>2. CASE j # k
      BY <1>3, <1>8, <2>2, <3>2 DEF JobInv, OnePlace
    <3> QED
      BY <3>1, <3>2
  <2> QED
    BY <2>1, <2>2 DEF OnePlace
<1>11. JS!Answer(k, "queued")
  <2>1. ~Queued(k) /\ ~(ran[k] > 0) /\ Queued(k)'
    BY <1>5, <1>8 DEF Queued, Carries
  <2>2. \A j \in Jobs \ {k} : Queued(j)' <=> Queued(j)
    BY <1>8 DEF Queued
  <2>3. JobStatus[k] = "new" /\ JobStatus'[k] = "queued"
    BY <1>3, <1>5, <2>1 DEF JobStatus
  <2>4. \A j \in Jobs \ {k} : JobStatus'[j] = JobStatus[j]
    BY <1>3, <1>4, <2>2 DEF JobStatus
  <2>5. JobStatus' = [JobStatus EXCEPT ![k] = "queued"]
    BY <2>3, <2>4 DEF JobStatus
  <2> QED
    BY <1>3, <2>3, <2>5 DEF JS!Answer
<1>12. k \in JS!Jobs
  BY DEF JS!Jobs, Jobs
<1> QED
  BY <1>4, <1>9, <1>10, <1>11, <1>12 DEF JobInv, JS!JobNext

-----------------------------------------------------------------------------
(* The refinement.                                                         *)

LEMMA JobInit == Init => JobInv /\ JS!JobInit
<1> SUFFICES ASSUME Init PROVE JobInv /\ JS!JobInit
  OBVIOUS
<1>1. \A t \in Threads, j \in Jobs : ~Carries(t, j)
  BY DEF Init, Carries, Has, Holds
<1>2. \A j \in Jobs : answer[j] = "none" /\ ran[j] = 0
  BY DEF Init
<1>3. Answered
  BY <1>1, <1>2 DEF Answered
<1>4. OneCaller
  BY DEF Init, OneCaller, Calls, Idle
<1>5. OnePlace
  BY <1>1 DEF Init, OnePlace, Distinct
<1>6. \A j \in Jobs : JobStatus[j] = "new"
  BY <1>1, <1>2 DEF JobStatus, Queued, Carries
<1>7. JobStatus = [j \in Jobs |-> "new"]
  BY <1>6 DEF JobStatus
<1>8. JS!JobInit
  BY <1>7 DEF Init, JS!JobInit, JS!Jobs, Jobs
<1> QED
  BY <1>3, <1>4, <1>5, <1>8 DEF JobInv

\* A step that touches no thread, pipe, call or answer: a crash, or none.
LEMMA RestJobs ==
  ASSUME PoolInv, JobInv, UNCHANGED <<thread, shared, call, begun, history>>
  PROVE  JobInv' /\ JobStatus' = JobStatus /\ ran' = ran
<1>1. /\ answer' = answer /\ ran' = ran /\ pipe' = pipe /\ call' = call /\ begun' = begun
      /\ thr' = thr /\ hand' = hand
  BY DEF thread, shared, history
<1>2. Quiet /\ SameCalls
  BY <1>1 DEF Quiet, SameCalls, Holds, Calls
<1> QED
  BY <1>2, QuietAnswers DEF PoolInv

LEMMA CallerJobs ==
  ASSUME PoolInv, JobInv, NEW c \in Callers,
         \/ evthr_pool_defer(c) \/ ScanThread(c) \/ CheckBacklog(c) \/ LockAndCount(c) \/ Send(c)
  PROVE  JobInv' /\ (JS!JobNext \/ (JobStatus' = JobStatus /\ ran' = ran))
<1>1. CASE evthr_pool_defer(c)
  BY <1>1, BeginJobs
<1>2. CASE ScanThread(c) \/ LockAndCount(c)
  BY <1>2, CallMoves
<1>3. CASE CheckBacklog(c)
  <2>1. /\ call[c].at # "idle"
        /\ begun' = begun /\ ran' = ran /\ pipe' = pipe /\ thr' = thr /\ hand' = hand
    BY <1>3 DEF CheckBacklog, At, shared, thread
  <2>2. \/ Return(c, "BACKLOG") \/ Return(c, "FATAL")
        \/ answer' = answer /\ call' = [call EXCEPT ![c].at = "lock"]
    BY <1>3 DEF CheckBacklog
  <2>3. CASE Return(c, "BACKLOG")
    <3>1. "BACKLOG" # "OK"
      OBVIOUS
    <3> QED
      BY <2>1, <2>3, <3>1, RefuseJobs
  <2>4. CASE Return(c, "FATAL")
    <3>1. "FATAL" # "OK"
      OBVIOUS
    <3> QED
      BY <2>1, <2>4, <3>1, RefuseJobs
  <2>5. CASE answer' = answer /\ call' = [call EXCEPT ![c].at = "lock"]
    BY <1>3, <2>5, CallMoves
  <2> QED
    BY <2>2, <2>3, <2>4, <2>5
<1>4. CASE Send(c)
  <2>1. /\ call[c].at = "send" /\ begun' = begun /\ ran' = ran /\ thr' = thr /\ hand' = hand
        /\ Sent(c, call[c].min) \/ NotSent(c, call[c].min)
    BY <1>4 DEF Send, At, thread
  <2>2. CASE Sent(c, call[c].min)
    BY <1>4, <2>1, <2>2, SendJobs
  <2>3. CASE NotSent(c, call[c].min)
    <3>1. pipe' = pipe /\ Return(c, "RETRY") /\ "RETRY" # "OK" /\ call[c].at # "idle"
      BY <2>1, <2>3 DEF NotSent
    <3> QED
      BY <2>1, <3>1, RefuseJobs
  <2> QED
    BY <2>1, <2>2, <2>3
<1> QED
  BY <1>1, <1>2, <1>3, <1>4

LEMMA JobStep == PoolInv /\ JobInv /\ [Next]_vars => JobInv' /\ [JS!JobNext]_(JS!jobVars)
<1> SUFFICES ASSUME PoolInv, JobInv, [Next]_vars
             PROVE  JobInv' /\ (JS!JobNext \/ (JobStatus' = JobStatus /\ ran' = ran))
  BY DEF JS!jobVars
<1>1. CASE evthr_pool_start \/ evhttpx_free \/ evthr_stop
  BY <1>1, MainJobs, StopJobs
<1>2. CASE \E c \in Callers : \/ evthr_pool_defer(c) \/ ScanThread(c) \/ CheckBacklog(c)
                              \/ LockAndCount(c) \/ Send(c)
  BY <1>2, CallerJobs
<1>3. CASE \E t \in Threads : Labour(t)
  <2>1. PICK t \in Threads : Labour(t)
    BY <1>3
  <2>2. CASE ReadCmd(t)
    BY <2>2, ReadJobs
  <2>3. CASE run_in_thread(t)
    BY <2>3, RunJobs
  <2>4. CASE ~ReadCmd(t) /\ ~run_in_thread(t)
    BY <2>1, <2>4, QuietLabour DEF Labour
  <2> QED
    BY <2>2, <2>3, <2>4
<1>4. CASE Crash \/ UNCHANGED vars
  <2>1. UNCHANGED <<thread, shared, call, begun, history>>
    BY <1>4 DEF Crash, vars
  <2> QED
    BY <2>1, RestJobs
<1> QED
  BY <1>1, <1>2, <1>3, <1>4, NextCases

\* The pool implements JobService: whatever the threads do, a job that is
\* refused never runs, and none runs twice or without having been queued.
THEOREM JobsAreServed == Spec => JobsImplemented
<1>1. Spec => []JobInv
  BY JobInit, JobStep, PoolInvariance, PTL DEF Spec
<1> QED
  BY <1>1, JobInit, JobStep, PoolInvariance, PTL DEF Spec, JobsImplemented, JS!JobSpec
=============================================================================
