--------------------------- MODULE BaggingGenerate ---------------------------
(***************************************************************************)
(* Bagging_Generator::generate (boosting/bagging_generator.cc) and its     *)
(* Bag_Job, over the worker pool.  The caller draws one seed per bag,      *)
(* opens a locked group, adds one Bag_Job per bag, unlocks the group when  *)
(* the adding scope ends (Call_Guard), runs jobs until the group has       *)
(* finished, and builds the Committee from results.  Bag_Job bag_num       *)
(* seeds its engine from random_seeds[bag_num], trains a classifier and    *)
(* stores it in results[bag_num] without a lock.                           *)
(*                                                                         *)
(* Data is abstracted to identities: the classifier bag j trains is j.     *)
(* random_seeds, results and info live in generate's stack frame; the      *)
(* frame is gone once the caller has returned or thrown.                   *)
(***************************************************************************)
EXTENDS WorkerPool

CONSTANTS NumBags,     \* num_bags
          AddMayFail   \* whether worker.add may throw (allocation failure)

ASSUME BaggingAssumption ==
  /\ NumBags \in 1 .. MaxJobs
  /\ AddMayFail \in BOOLEAN

Bags   == 0 .. (NumBags - 1)
NoBag  == -1

VARIABLES cpc,        \* the caller's place in generate
          added,      \* the add loop's i
          seeds,      \* random_seeds[i] drawn
          results,    \* results[i]: the classifier stored, or NoBag
          committee   \* the classifiers the Committee was built from

vars == <<locked, queue, jpc, owner, cpc, added, seeds, results, committee>>

TypeOK ==
  /\ PoolTypeOK
  /\ cpc \in {"seed", "group", "add", "wait", "collect", "done", "thrown"}
  /\ added \in 0 .. NumBags
  /\ seeds \in [Bags -> BOOLEAN]
  /\ results \in [Bags -> Bags \cup {NoBag}]
  /\ committee \in [Bags -> Bags \cup {NoBag}]

Init ==
  /\ PoolInit
  /\ cpc = "seed"
  /\ added = 0
  /\ seeds = [i \in Bags |-> FALSE]
  /\ results = [i \in Bags |-> NoBag]
  /\ committee = [i \in Bags |-> NoBag]

(* random_seeds[i] = context.random() for every bag, before any job.      *)
DrawSeeds ==
  /\ cpc = "seed"
  /\ seeds' = [i \in Bags |-> TRUE]
  /\ cpc' = "group"
  /\ UNCHANGED <<locked, queue, jpc, owner, added, results, committee>>

(* group = worker.get_group(NO_JOB, ..., context.group()).                *)
OpenGroup ==
  /\ cpc = "group"
  /\ GetGroup
  /\ cpc' = "add"
  /\ UNCHANGED <<added, seeds, results, committee>>

(* worker.add(Bag_Job(info, i, ...), ..., group) for i = added.           *)
AddBag ==
  /\ cpc = "add"
  /\ added < NumBags
  /\ AddJob(added)
  /\ added' = added + 1
  /\ UNCHANGED <<cpc, seeds, results, committee>>

(* worker.add throws: the Call_Guard unlocks the group and the exception  *)
(* leaves generate, with the jobs already added still queued.             *)
AddThrows ==
  /\ AddMayFail
  /\ cpc = "add"
  /\ added < NumBags
  /\ UnlockGroup
  /\ cpc' = "thrown"
  /\ UNCHANGED <<added, seeds, results, committee>>

(* Mutant: the adding scope ends without the Call_Guard's unlock.         *)
EndAddingNoUnlock ==
  /\ cpc = "add"
  /\ added = NumBags
  /\ cpc' = "wait"
  /\ UNCHANGED <<poolVars, added, seeds, results, committee>>

(* The adding scope ends: the Call_Guard runs unlock_group.                *)
EndAdding ==
  /\ cpc = "add"
  /\ added = NumBags
  /\ UnlockGroup
  /\ cpc' = "wait"
  /\ UNCHANGED <<added, seeds, results, committee>>

(* Mutant: run_until_finished only waits; the caller runs no job.          *)
CallerRunsJobWaitsOnly(j) ==
  /\ cpc = "wait"
  /\ FALSE
  /\ UNCHANGED <<poolVars, cpc, added, seeds, results, committee>>

(* Mutant: the wait ends once the queue is empty, running jobs or not.     *)
WaitReturnsQueueEmpty ==
  /\ cpc = "wait"
  /\ queue = {}
  /\ cpc' = "collect"
  /\ UNCHANGED <<poolVars, added, seeds, results, committee>>

(* worker.run_until_finished(group): the caller runs a queued job ...     *)
CallerRunsJob(j) ==
  /\ cpc = "wait"
  /\ Start(Caller, j)
  /\ UNCHANGED <<cpc, added, seeds, results, committee>>

(* ... and returns once the group has finished.                           *)
WaitReturns ==
  /\ cpc = "wait"
  /\ owner[Caller] = NoJob
  /\ GroupFinished
  /\ cpc' = "collect"
  /\ UNCHANGED <<poolVars, added, seeds, results, committee>>

(* result.add(results[i], 1.0 / num_bags) for every bag, then return.     *)
BuildCommittee ==
  /\ cpc = "collect"
  /\ committee' = results
  /\ cpc' = "done"
  /\ UNCHANGED <<poolVars, added, seeds, results>>

(* A pool thread takes a queued Bag_Job.                                   *)
WorkerRunsJob(t, j) ==
  /\ t \in Workers
  /\ Start(t, j)
  /\ UNCHANGED <<cpc, added, seeds, results, committee>>

(* Bag_Job::operator(): engine(info.random_seeds[bag_num]), the partition *)
(* and weights, and weak_learner->generate.                                *)
TrainBag(t) ==
  /\ JobMoves(t, "run", "store")
  /\ seeds[owner[t]]
  /\ UNCHANGED <<cpc, added, seeds, results, committee>>

(* info.results[bag_num] = bag; the job ends.                              *)
StoreBag(t) ==
  /\ JobMoves(t, "store", "done")
  /\ results' = [results EXCEPT ![owner[t]] = owner[t]]
  /\ UNCHANGED <<cpc, added, seeds, committee>>

(* What thread t does: its job's steps, and the caller's own steps.       *)
ThreadStep(t) ==
  \/ \E j \in JobIds : WorkerRunsJob(t, j)
  \/ TrainBag(t)
  \/ StoreBag(t)
  \/ /\ t = Caller
     /\ \/ DrawSeeds \/ OpenGroup \/ AddBag \/ AddThrows \/ EndAdding
        \/ \E j \in JobIds : CallerRunsJob(j)
        \/ WaitReturns \/ BuildCommittee

Next == \E t \in Threads : ThreadStep(t)

(* Every thread is an OS thread that, while it can run, eventually does.  *)
Fairness == \A t \in Threads : WF_vars(ThreadStep(t))

Spec == Init /\ [][Next]_vars /\ Fairness

-----------------------------------------------------------------------------
(* The Committee is built from every bag: when generate returns, each      *)
(* results[i] holds the classifier Bag_Job i trained, so no bag was read  *)
(* before its job stored it (the group barrier of run_until_finished and  *)
(* the unlocked, per-slot writes of results).                              *)
CommitteeComplete == cpc = "done" => committee = [i \in Bags |-> i]

(* No job touches generate's frame (random_seeds, results, info) after    *)
(* generate has returned or thrown.                                        *)
NoJobOutlivesFrame ==
  cpc \in {"done", "thrown"} => \A j \in JobIds : jpc[j] \in {"new", "done"}

(* generate ends, by returning or by an exception out of worker.add: no   *)
(* interleaving of the pool's threads with the caller leaves it blocked.   *)
GenerateEnds == <>(cpc \in {"done", "thrown"})
=============================================================================
