----------------------------- MODULE WorkerPool -----------------------------
(***************************************************************************)
(* The part of Worker_Task (worker_task.h) that Bagging_Generator::generate *)
(* and Perceptron::accuracy use, as those call sites use it:               *)
(*  - get_group(NO_JOB, ...) opens a group, locked so that it cannot count *)
(*    as finished while jobs are still being added;                        *)
(*  - add(job, ..., group) queues a job;                                   *)
(*  - unlock_group(group), run by a Call_Guard when the adding scope ends; *)
(*  - run_until_finished(group): the calling thread runs queued jobs       *)
(*    itself until the group is unlocked and every job in it has finished. *)
(* The pool's threads (Workers, num_threads() - 1 of them) take queued     *)
(* jobs.  A job runs through the stages its component defines, from "run" *)
(* to "done"; owner[t] is the job thread t is running.                     *)
(***************************************************************************)
EXTENDS Integers, FiniteSets

CONSTANTS Workers,   \* the pool's threads
          Caller,    \* the thread that calls generate / accuracy
          MaxJobs    \* job ids are 0 .. MaxJobs - 1

ASSUME PoolAssumption ==
  /\ Caller \notin Workers
  /\ IsFiniteSet(Workers)
  /\ MaxJobs \in Nat

Threads == Workers \cup {Caller}
JobIds  == 0 .. (MaxJobs - 1)
NoJob   == -1

VARIABLES locked, queue, jpc, owner

poolVars == <<locked, queue, jpc, owner>>

PoolInit ==
  /\ locked = FALSE
  /\ queue = {}
  /\ jpc = [j \in JobIds |-> "new"]
  /\ owner = [t \in Threads |-> NoJob]

(* Worker_Task::get_group: a new group, locked.                            *)
GetGroup ==
  /\ locked' = TRUE
  /\ UNCHANGED <<queue, jpc, owner>>

(* Worker_Task::add: job j joins the group's queue.                        *)
AddJob(j) ==
  /\ jpc[j] = "new"
  /\ jpc' = [jpc EXCEPT ![j] = "queued"]
  /\ queue' = queue \cup {j}
  /\ UNCHANGED <<locked, owner>>

(* Worker_Task::unlock_group.                                              *)
UnlockGroup ==
  /\ locked' = FALSE
  /\ UNCHANGED <<queue, jpc, owner>>

(* A free thread takes a queued job and starts running it.                 *)
Start(t, j) ==
  /\ owner[t] = NoJob
  /\ j \in queue
  /\ queue' = queue \ {j}
  /\ owner' = [owner EXCEPT ![t] = j]
  /\ jpc' = [jpc EXCEPT ![j] = "run"]
  /\ UNCHANGED locked

(* The group is finished: unlocked, and every job added to it has run to  *)
(* its end.                                                                *)
GroupFinished ==
  /\ ~locked
  /\ \A j \in JobIds : jpc[j] \in {"new", "done"}

(* The job thread t runs moves from stage s to stage s2; its last stage   *)
(* ("done") frees the thread.                                              *)
JobMoves(t, s, s2) ==
  /\ owner[t] # NoJob
  /\ jpc[owner[t]] = s
  /\ jpc' = [jpc EXCEPT ![owner[t]] = s2]
  /\ owner' = IF s2 = "done" THEN [owner EXCEPT ![t] = NoJob] ELSE owner
  /\ UNCHANGED <<locked, queue>>

PoolTypeOK ==
  /\ locked \in BOOLEAN
  /\ queue \subseteq JobIds
  /\ owner \in [Threads -> JobIds \cup {NoJob}]
=============================================================================
