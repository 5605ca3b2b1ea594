----------------------------- MODULE JobService -----------------------------
(***************************************************************************)
(* What a caller of the thread pool relies on: a job that is accepted is   *)
(* run once, a job that is refused is never run.                           *)
(***************************************************************************)
EXTENDS Naturals

CONSTANT MaxJobs       \* jobs are numbered in the order of the calls

Jobs == 1..MaxJobs

VARIABLES status,      \* new, queued, refused or run
          times        \* how often the callback of a job was entered

jobVars == <<status, times>>

JobInit == /\ status = [j \in Jobs |-> "new"]
           /\ times = [j \in Jobs |-> 0]

Answer(j, s) == /\ status[j] = "new"
                /\ status' = [status EXCEPT ![j] = s]
                /\ UNCHANGED times

Run(j) == /\ status[j] = "queued"
          /\ status' = [status EXCEPT ![j] = "run"]
          /\ times' = [times EXCEPT ![j] = @ + 1]

JobNext == \E j \in Jobs : Answer(j, "queued") \/ Answer(j, "refused") \/ Run(j)

JobSpec == JobInit /\ [][JobNext]_jobVars
=============================================================================
