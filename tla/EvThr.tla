------------------------------- MODULE EvThr --------------------------------
(***************************************************************************)
(* The thread pool of src/evhttpx/evthr/evthr.c as src/evhttpx/evhttpx.c   *)
(* uses it.  Callers hand jobs (a connection to serve) to worker threads   *)
(* through one pipe per thread; main starts and stops the pool.            *)
(*                                                                         *)
(* A step is a stretch of code with one access to what other threads can   *)
(* see: a backlog counter, a pipe, the lock rlock.  The mutex lock is only *)
(* taken by the thread it belongs to, so trylock succeeds and is left out. *)
(***************************************************************************)
EXTENDS Integers, Sequences, FiniteSets

CONSTANTS NThreads,    \* length of pool->threads
          Callers,     \* threads that call evthr_pool_defer
          MaxBacklog,  \* max_backlog, 0 for none
          PipeCap,     \* commands that fit into the socket pair
          MaxJobs,     \* bound on the calls
          Faults       \* may pthread_create and recv fail?

ASSUME EvThrAssumption ==
    /\ NThreads \in Nat \ {0}
    /\ IsFiniteSet(Callers)
    /\ MaxBacklog \in Nat
    /\ PipeCap \in Nat \ {0}
    /\ MaxJobs \in Nat
    /\ Faults \in BOOLEAN

Threads == 1..NThreads
Jobs    == 1..MaxJobs
Stop    == 0                       \* the command of evthr_stop
Cmds    == Jobs \cup {Stop}
Nobody  == "nobody"

ASSUME NobodyAssumption == Nobody \notin Callers

VARIABLES main,        \* where main is, and the next thread it turns to
          thr,         \* where a worker is
          hand,        \* the command a worker is at
          pipe,        \* commands written and not read
          rlock,       \* who holds the lock of a pipe
          backlog,     \* cur_backlog
          open,        \* connections a worker serves
          err,         \* the error flag of a thread
          call,        \* where a caller is in evthr_pool_defer
          begun,       \* number of calls so far
          answer,      \* history: was the call for a job answered OK?
          ran          \* history: how often the callback of a job was entered

thread  == <<thr, hand, open, err>>
shared  == <<pipe, rlock, backlog>>
history == <<answer, ran>>
vars    == <<main, thread, shared, call, begun, history>>

Idle == [at |-> "idle", next |-> 1, min |-> 1, job |-> 1]

Crashed == main.at = "crashed"

Init ==
    /\ main = [at |-> "start", next |-> 1]
    /\ thr = [t \in Threads |-> "new"]
    /\ hand = [t \in Threads |-> Stop]
    /\ pipe = [t \in Threads |-> <<>>]
    /\ rlock = [t \in Threads |-> Nobody]
    /\ backlog = [t \in Threads |-> 0]
    /\ open = [t \in Threads |-> 0]
    /\ err = [t \in Threads |-> FALSE]
    /\ call = [c \in Callers |-> Idle]
    /\ begun = 0
    /\ answer = [j \in Jobs |-> "none"]
    /\ ran = [j \in Jobs |-> 0]

Crash == /\ main' = [main EXCEPT !.at = "crashed"]
         /\ UNCHANGED <<thread, shared, call, begun, history>>

-----------------------------------------------------------------------------
(* main: evhttpx_use_threads, the event loop that accepts, evhttpx_free    *)

\* pool_start gives up at the first thread that cannot be created, and
\* evhttpx_use_threads does not look at its result.
evthr_pool_start ==
    /\ main.at = "start"
    /\ \/ /\ thr' = [thr EXCEPT ![main.next] = "starting"]
          /\ main' = IF main.next = NThreads THEN [at |-> "serve", next |-> 1]
                     ELSE [main EXCEPT !.next = @ + 1]
       \/ /\ Faults
          /\ main' = [at |-> "serve", next |-> 1]
          /\ UNCHANGED thr
    /\ UNCHANGED <<hand, open, err, shared, call, begun, history>>

\* The loop has ended: no call is under way and none will follow.
evhttpx_free ==
    /\ main.at = "serve"
    /\ \A c \in Callers : call[c].at = "idle"
    /\ main' = [main EXCEPT !.at = "stop"]
    /\ UNCHANGED <<thread, shared, call, begun, history>>

\* Mutant: the list is kept, and gone through again to free its threads.
NextToStop_Again == [main EXCEPT !.next = IF @ = NThreads THEN 1 ELSE @ + 1]

NextToStop == IF main.next = NThreads THEN [main EXCEPT !.at = "gone"]
              ELSE [main EXCEPT !.next = @ + 1]

\* One round of the loop in evthr_pool_stop, which ignores what evthr_stop
\* returns.  After the last round the list is cleared, so evthr_pool_free
\* frees no thread, and evhttpx_free goes on to free what the threads share.
evthr_stop ==
    /\ main.at = "stop"
    /\ thr[main.next] # "freed"
    /\ rlock[main.next] = Nobody
    /\ IF Len(pipe[main.next]) < PipeCap
       THEN pipe' = [pipe EXCEPT ![main.next] = Append(@, Stop)]
       ELSE UNCHANGED pipe
    /\ main' = NextToStop
    /\ UNCHANGED <<thread, rlock, backlog, call, begun, history>>

StopFreed == /\ main.at = "stop"
             /\ thr[main.next] = "freed"
             /\ Crash
-----------------------------------------------------------------------------
(* The callers: evthr_pool_defer, then evthr_defer on the thread it chose  *)

At(c, place) == /\ call[c].at = place
                /\ main.at = "serve"

Return(c, res) ==
    /\ call' = [call EXCEPT ![c] = Idle]
    /\ answer' = [answer EXCEPT ![call[c].job] = IF res = "OK" THEN "ok" ELSE "refused"]

evthr_pool_defer(c) ==
    /\ At(c, "idle")
    /\ begun < MaxJobs
    /\ begun' = begun + 1
    /\ call' = [call EXCEPT ![c] = [Idle EXCEPT !.at = "scan", !.job = begun + 1]]
    /\ UNCHANGED <<main, thread, shared, history>>

\* min_thr after the round for thread t; the first round takes the first thread.
Better(t, min) == IF t = 1 \/ backlog[t] = 0 \/ backlog[t] < backlog[min] THEN t ELSE min

\* Mutant: the search goes on until a thread is idle.
Found_Idle(t, min) == backlog[min] = 0

Found(t, min) == backlog[min] = 0 \/ t = NThreads

ScanThread(c) ==
    LET t   == call[c].next
        min == Better(t, call[c].min)
    IN  /\ At(c, "scan")
        /\ "freed" \notin {thr[t], thr[call[c].min]}
        /\ call' = [call EXCEPT
                      ![c].min = min,
                      ![c].next = IF t < NThreads THEN t + 1 ELSE 1,
                      ![c].at = IF Found(t, min) THEN "check" ELSE "scan"]
        /\ UNCHANGED <<main, thread, shared, begun, history>>

Full(cur) == MaxBacklog # 0 /\ cur + 1 > MaxBacklog

CheckBacklog(c) ==
    LET cur == backlog[call[c].min]
    IN  /\ At(c, "check")
        /\ thr[call[c].min] # "freed"
        /\ \/ /\ Full(cur)
              /\ Return(c, "BACKLOG")
           \/ /\ ~Full(cur)
              /\ cur = -1
              /\ Return(c, "FATAL")
           \/ /\ ~Full(cur)
              /\ cur # -1
              /\ call' = [call EXCEPT ![c].at = "lock"]
              /\ UNCHANGED answer
        /\ UNCHANGED <<main, thread, shared, begun, ran>>

LockAndCount(c) ==
    LET t == call[c].min
    IN  /\ At(c, "lock")
        /\ thr[t] # "freed"
        /\ rlock[t] = Nobody
        /\ rlock' = [rlock EXCEPT ![t] = c]
        /\ backlog' = [backlog EXCEPT ![t] = @ + 1]
        /\ call' = [call EXCEPT ![c].at = "send"]
        /\ UNCHANGED <<main, thread, pipe, begun, history>>

Sent(c, t) == /\ Len(pipe[t]) < PipeCap
              /\ pipe' = [pipe EXCEPT ![t] = Append(@, call[c].job)]
              /\ rlock' = [rlock EXCEPT ![t] = Nobody]
              /\ Return(c, "OK")
              /\ UNCHANGED backlog

\* Mutants: a job that is not sent stays counted; it leaves the lock held.
NotSent_Counted(c, t) == /\ Len(pipe[t]) = PipeCap
                         /\ rlock' = [rlock EXCEPT ![t] = Nobody]
                         /\ Return(c, "RETRY")
                         /\ UNCHANGED <<backlog, pipe>>

NotSent_Locked(c, t) == /\ Len(pipe[t]) = PipeCap
                        /\ backlog' = [backlog EXCEPT ![t] = @ - 1]
                        /\ Return(c, "RETRY")
                        /\ UNCHANGED <<rlock, pipe>>

NotSent(c, t) == /\ Len(pipe[t]) = PipeCap
                 /\ backlog' = [backlog EXCEPT ![t] = @ - 1]
                 /\ rlock' = [rlock EXCEPT ![t] = Nobody]
                 /\ Return(c, "RETRY")
                 /\ UNCHANGED pipe

Send(c) == /\ At(c, "send")
           /\ thr[call[c].min] # "freed"
           /\ Sent(c, call[c].min) \/ NotSent(c, call[c].min)
           /\ UNCHANGED <<main, thread, begun, ran>>

\* The pool still lists a thread that has freed itself after an error.
TouchFreed(c) ==
    /\ main.at = "serve"
    /\ \/ call[c].at = "scan" /\ "freed" \in {thr[call[c].next], thr[call[c].min]}
       \/ call[c].at \in {"check", "lock", "send"} /\ thr[call[c].min] = "freed"
    /\ Crash

Calling(c) == ScanThread(c) \/ CheckBacklog(c) \/ LockAndCount(c) \/ Send(c) \/ TouchFreed(c)
-----------------------------------------------------------------------------
(* A worker: _evthr_loop, _evthr_read_cmd and the callback of the job      *)

Works(t, place) == thr[t] = place /\ ~Crashed

Become(t, place) == thr' = [thr EXCEPT ![t] = place]

\* Mutant: the counter only grows.
Count_Up(t, n) == backlog' = [backlog EXCEPT ![t] = IF n > 0 THEN @ + n ELSE @]

Count(t, n) == backlog' = [backlog EXCEPT ![t] = @ + n]

EnterLoop(t) ==
    /\ Works(t, "starting")
    /\ Become(t, "loop")
    /\ UNCHANGED <<main, hand, open, err, shared, call, begun, history>>

\* Mutant: the command is looked at and stays in the pipe.
Take_Peek(t) == /\ hand' = [hand EXCEPT ![t] = Head(pipe[t])]
                /\ UNCHANGED pipe

Take(t) == /\ hand' = [hand EXCEPT ![t] = Head(pipe[t])]
           /\ pipe' = [pipe EXCEPT ![t] = Tail(@)]

ReadCmd(t) ==
    /\ Works(t, "loop")
    /\ pipe[t] # <<>>
    /\ rlock[t] = Nobody
    /\ Take(t)
    /\ Become(t, "cmd")
    /\ UNCHANGED <<main, open, err, rlock, backlog, call, begun, history>>

ReadFails(t) ==
    /\ Faults
    /\ Works(t, "loop")
    /\ pipe[t] # <<>>
    /\ rlock[t] = Nobody
    /\ Become(t, "error")
    /\ UNCHANGED <<main, hand, open, err, shared, call, begun, history>>

GiveUp(t) ==
    /\ Works(t, "error")
    /\ backlog' = [backlog EXCEPT ![t] = -1]
    /\ err' = [err EXCEPT ![t] = TRUE]
    /\ Become(t, "leave")
    /\ UNCHANGED <<main, hand, open, pipe, rlock, call, begun, history>>

\* The callback counts its connection, on top of the job that brought it.
run_in_thread(t) ==
    /\ Works(t, "cmd")
    /\ hand[t] # Stop
    /\ Count(t, 1)
    /\ open' = [open EXCEPT ![t] = @ + 1]
    /\ ran' = [ran EXCEPT ![hand[t]] = @ + 1]
    /\ Become(t, "accept")
    /\ UNCHANGED <<main, hand, err, pipe, rlock, call, begun, answer>>

\* Main has freed the structure that callbacks and connections read.
RunWithoutShared(t) ==
    /\ main.at = "gone"
    /\ Works(t, "accept") \/ (Works(t, "loop") /\ open[t] > 0)
    /\ Crash

Accept(t) ==
    /\ Works(t, "accept")
    /\ Become(t, "done")
    /\ UNCHANGED <<main, hand, open, err, shared, call, begun, history>>

\* Mutant: a connection is freed again.
Serves_Freed(t) == Works(t, "loop")

Serves(t) == Works(t, "loop") /\ open[t] > 0

\* evhttpx_connection_free, after a refused accept and from the loop.
evhttpx_connection_free(t) ==
    /\ \/ Works(t, "accept") /\ Become(t, "done")
       \/ Serves(t) /\ UNCHANGED thr
    /\ open' = [open EXCEPT ![t] = @ - 1]
    /\ Count(t, -1)
    /\ UNCHANGED <<main, hand, err, pipe, rlock, call, begun, history>>

BreakLoop(t) ==
    /\ Works(t, "cmd")
    /\ hand[t] = Stop
    /\ Become(t, "done")
    /\ UNCHANGED <<main, hand, open, err, shared, call, begun, history>>

\* Mutants: the loop is left after every command; it is never left.
After_Leave(t) == "leave"
After_Stay(t) == "loop"

After(t) == IF hand[t] = Stop THEN "leave" ELSE "loop"

\* Every command takes one off the backlog, the stop command too.
Done(t) ==
    /\ Works(t, "done")
    /\ Count(t, -1)
    /\ Become(t, After(t))
    /\ hand' = [hand EXCEPT ![t] = Stop]
    /\ UNCHANGED <<main, open, err, pipe, rlock, call, begun, history>>

evthr_free(t) ==
    /\ Works(t, "leave")
    /\ Become(t, "freed")
    /\ UNCHANGED <<main, hand, open, err, shared, call, begun, history>>

Working(t) == \/ EnterLoop(t) \/ ReadCmd(t) \/ GiveUp(t) \/ run_in_thread(t)
              \/ Accept(t) \/ BreakLoop(t) \/ Done(t) \/ evthr_free(t)
-----------------------------------------------------------------------------
\* Nothing is left to do: the process has crashed, or all calls are made,
\* the pool is gone and no worker has anything to read.
Finished ==
    /\ \/ Crashed
       \/ /\ main.at = "gone"
          /\ \A t \in Threads : thr[t] \in {"new", "freed"} \/ (thr[t] = "loop" /\ pipe[t] = <<>>)
    /\ UNCHANGED vars

Next == \/ evthr_pool_start \/ evhttpx_free \/ evthr_stop \/ StopFreed
        \/ \E c \in Callers : evthr_pool_defer(c) \/ Calling(c)
        \/ \E t \in Threads : Working(t) \/ ReadFails(t) \/ RunWithoutShared(t)
                              \/ evhttpx_connection_free(t)
        \/ Finished

Spec == Init /\ [][Next]_vars

\* The scheduler runs every thread that can run.  A call need not be made,
\* the server need not be stopped, and a connection need not be closed.
Fairness == /\ WF_vars(evthr_pool_start) /\ WF_vars(evthr_stop)
            /\ \A c \in Callers : WF_vars(Calling(c))
            /\ \A t \in Threads : WF_vars(Working(t))

FairSpec == Spec /\ Fairness
-----------------------------------------------------------------------------
(* Properties *)

EvThrTypeOK ==
    /\ main \in [at: {"start", "serve", "stop", "gone", "crashed"}, next: Threads]
    /\ thr \in [Threads -> {"new", "starting", "loop", "cmd", "accept", "done",
                            "error", "leave", "freed"}]
    /\ hand \in [Threads -> Cmds]
    /\ pipe \in [Threads -> Seq(Cmds)]
    /\ rlock \in [Threads -> Callers \cup {Nobody}]
    /\ backlog \in [Threads -> Int]
    /\ open \in [Threads -> Nat]
    /\ err \in [Threads -> BOOLEAN]
    /\ call \in [Callers -> [at: {"idle", "scan", "check", "lock", "send"},
                             next: Threads, min: Threads, job: Jobs \cup {1}]]
    /\ begun \in 0..MaxJobs
    /\ answer \in [Jobs -> {"none", "ok", "refused"}]
    /\ ran \in [Jobs -> Nat]

Flag(P) == IF P THEN 1 ELSE 0

Has(t, cmd) == \E i \in 1..Len(pipe[t]) : pipe[t][i] = cmd

Holds(t, cmd) == thr[t] \in {"cmd", "accept", "done"} /\ hand[t] = cmd

\* The counter that decides where a job goes and which job is refused is, at
\* every moment, the work the thread still has: a job being sent, the jobs
\* in the pipe and in hand, and the connections it serves.  The stop command
\* takes one too many off (evthr.c:142), but only as the thread leaves.
BacklogIsWork ==
    \A t \in Threads :
        ~err[t] =>
            backlog[t] = Flag(rlock[t] # Nobody) + Len(pipe[t]) - Flag(Has(t, Stop))
                         + Flag(\E j \in Jobs : Holds(t, j))
                         + open[t] - Flag(thr[t] \in {"leave", "freed"})

\* The test of max_backlog and the increment are two steps under different
\* locks (evthr.c:195-214), so concurrent callers overshoot the bound, by at
\* most one each; a job being accepted counts twice for a moment.
BacklogBounded ==
    MaxBacklog # 0 =>
        \A t \in Threads : backlog[t] <= MaxBacklog + Cardinality(Callers)

\* Stop travels behind the jobs: a thread that ends because it was told to
\* has run every job that was accepted for it.
Drained == \A t \in Threads : thr[t] = "freed" /\ ~err[t] => pipe[t] = <<>>

\* A job is queued while its command is in a pipe or in a worker's hand.
Queued(j) == \E t \in Threads : Has(t, j) \/ Holds(t, j)

JobStatus == [j \in Jobs |-> IF ran[j] > 0 THEN "run"
                             ELSE IF Queued(j) THEN "queued"
                             ELSE IF answer[j] = "refused" THEN "refused" ELSE "new"]

JS == INSTANCE JobService WITH status <- JobStatus, times <- ran

\* Whatever the threads do, a job that is refused never runs and no job is
\* run twice or without having been queued.
JobsImplemented == JS!JobSpec

\* A caller, or main, meets a thread that was freed only after a failed read;
\* a worker meets freed settings only after main has ended the pool
\* (evhttpx.c:3627 does not wait for the workers).
CrashesAreKnown ==
    [][~Crashed /\ Crashed' => main.at = "gone" \/ \E t \in Threads : err[t]]_vars

\* A job accepted for a thread that was started is run, unless the thread
\* fails to read or the process dies.
AcceptedJobsRun ==
    \A t \in Threads, j \in Jobs :
        Has(t, j) /\ thr[t] # "new" ~> ran[j] > 0 \/ err[t] \/ Crashed

\* No caller waits for ever.
CallsReturn ==
    \A c \in Callers : call[c].at # "idle" ~> call[c].at = "idle" \/ Crashed

\* A started thread whose pipe takes the stop command ends.
StopEnds ==
    \A t \in Threads :
        Has(t, Stop) /\ thr[t] # "new" ~> thr[t] = "freed" \/ Crashed
=============================================================================
