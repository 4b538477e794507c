-------------------------- MODULE PerceptronAccuracy --------------------------
(***************************************************************************)
(* Perceptron::accuracy (boosting/perceptron.cc) and its Accuracy_Jobs,    *)
(* over the worker pool.  The caller opens a locked group, adds one job    *)
(* per chunk [x, min(x + 2048, nx)) of the examples, unlocks the group     *)
(* (Call_Guard), runs jobs until the group has finished and returns        *)
(* correct / total.  A job (Accuracy_Job_Info::calc) sums its chunk into   *)
(* sub_correct and sub_total, then adds them to the shared correct and     *)
(* total under info.lock (Guard).  Each += is a load and a store.          *)
(*                                                                         *)
(* The forward pass through the layers and correctness() are abstracted to *)
(* score[x] = <<w * possible * correct, w * possible>> of example x (an    *)
(* example with w = 0 is skipped and adds nothing, the same sum).          *)
(***************************************************************************)
EXTENDS WorkerPool

CONSTANTS MaxNX,      \* largest decorrelated.shape()[0]
          Scores,     \* the contributions an example can make
          ChunkSize,  \* 2048 examples per job
          NoThread    \* no thread holds info.lock

ASSUME AccuracyAssumption ==
  /\ MaxNX \in Nat
  /\ ChunkSize \in Nat \ {0}
  /\ Scores \subseteq Nat \X Nat
  /\ (MaxNX + ChunkSize - 1) \div ChunkSize <= MaxJobs
  /\ NoThread \notin Threads

VARIABLES nx, score,     \* the examples: fixed for the call
          cpc,           \* the caller's place in accuracy
          x,             \* the add loop's x
          range,         \* range[j]: [lo, hi) of job j
          sub,           \* sub[j]: job j's <<sub_correct, sub_total>>
          tmp,           \* tmp[j]: the values job j loaded for its +=
          correct, total,
          holder         \* the thread holding info.lock, or NoThread

vars == <<locked, queue, jpc, owner, nx, score, cpc, x, range, sub, tmp,
          correct, total, holder>>

Pair == Nat \X Nat

TypeOK ==
  /\ PoolTypeOK
  /\ cpc \in {"group", "add", "wait", "done"}
  /\ x \in Nat
  /\ range \in [JobIds -> Nat \X Nat]
  /\ sub \in [JobIds -> Pair]
  /\ tmp \in [JobIds -> Pair]
  /\ correct \in Nat /\ total \in Nat
  /\ holder \in Threads \cup {NoThread}

(* The sum of component k of score over lo .. hi - 1.                      *)
ChunkSum(lo, hi, k) ==
  LET s[n \in 0 .. (hi - lo)] ==
        IF n = 0 THEN 0 ELSE s[n - 1] + score[lo + n - 1][k]
  IN  IF hi <= lo THEN 0 ELSE s[hi - lo]

Init ==
  /\ PoolInit
  /\ nx \in 0 .. MaxNX
  /\ score \in [0 .. (MaxNX - 1) -> Scores]
  /\ cpc = "group"
  /\ x = 0
  /\ range = [j \in JobIds |-> <<0, 0>>]
  /\ sub = [j \in JobIds |-> <<0, 0>>]
  /\ tmp = [j \in JobIds |-> <<0, 0>>]
  /\ correct = 0 /\ total = 0
  /\ holder = NoThread

dataVars == <<nx, score>>
jobVars  == <<range, sub, tmp, correct, total, holder>>

(* group = worker.get_group(NO_JOB, ..., -1).                             *)
OpenGroup ==
  /\ cpc = "group"
  /\ GetGroup
  /\ cpc' = "add"
  /\ UNCHANGED <<dataVars, x, jobVars>>

(* The end of a chunk: int end = std::min(x + 2048, nx).                  *)
ChunkEnd(lo) == IF lo + ChunkSize < nx THEN lo + ChunkSize ELSE nx

(* for (x = 0; x < nx; x += 2048) worker.add(Accuracy_Job(info, x, end)). *)
AddChunk ==
  /\ cpc = "add"
  /\ x < nx
  /\ LET j == x \div ChunkSize
     IN  /\ AddJob(j)
         /\ range' = [range EXCEPT ![j] = <<x, ChunkEnd(x)>>]
  /\ x' = x + ChunkSize
  /\ UNCHANGED <<dataVars, cpc, sub, tmp, correct, total, holder>>

(* The loop ends and the Call_Guard unlocks the group.                     *)
EndAdding ==
  /\ cpc = "add"
  /\ x >= nx
  /\ UnlockGroup
  /\ cpc' = "wait"
  /\ UNCHANGED <<dataVars, x, jobVars>>

(* run_until_finished(group): the caller runs a queued job ...            *)
CallerRunsJob(j) ==
  /\ cpc = "wait"
  /\ Start(Caller, j)
  /\ UNCHANGED <<dataVars, cpc, x, jobVars>>

(* ... and, once the group has finished, returns correct / total.        *)
WaitReturns ==
  /\ cpc = "wait"
  /\ owner[Caller] = NoJob
  /\ GroupFinished
  /\ cpc' = "done"
  /\ UNCHANGED <<poolVars, dataVars, x, jobVars>>

WorkerRunsJob(t, j) ==
  /\ t \in Workers
  /\ Start(t, j)
  /\ UNCHANGED <<dataVars, cpc, x, jobVars>>

(* calc: the loop over x_start .. x_end - 1 into sub_correct, sub_total.  *)
Calc(t) ==
  /\ JobMoves(t, "run", "lock")
  /\ LET j == owner[t]
     IN  sub' = [sub EXCEPT ![j] = <<ChunkSum(range[j][1], range[j][2], 1),
                                     ChunkSum(range[j][1], range[j][2], 2)>>]
  /\ UNCHANGED <<dataVars, cpc, x, range, tmp, correct, total, holder>>

(* Mutant: the += without the Guard.                                       *)
AcquireUnguarded(t) ==
  /\ JobMoves(t, "lock", "load")
  /\ UNCHANGED <<dataVars, cpc, x, range, sub, tmp, correct, total, holder>>

(* Guard guard(lock).                                                      *)
Acquire(t) ==
  /\ holder = NoThread
  /\ JobMoves(t, "lock", "load")
  /\ holder' = t
  /\ UNCHANGED <<dataVars, cpc, x, range, sub, tmp, correct, total>>

(* correct += sub_correct; total += sub_total: the loads ...              *)
LoadTotals(t) ==
  /\ JobMoves(t, "load", "store")
  /\ tmp' = [tmp EXCEPT ![owner[t]] = <<correct, total>>]
  /\ UNCHANGED <<dataVars, cpc, x, range, sub, correct, total, holder>>

(* ... and the stores.                                                     *)
StoreTotals(t) ==
  /\ JobMoves(t, "store", "unlock")
  /\ LET j == owner[t]
     IN  /\ correct' = tmp[j][1] + sub[j][1]
         /\ total' = tmp[j][2] + sub[j][2]
  /\ UNCHANGED <<dataVars, cpc, x, range, sub, tmp, holder>>

(* Mutant: the lock is not released when the job ends.                    *)
ReleaseKeepsLock(t) ==
  /\ JobMoves(t, "unlock", "done")
  /\ UNCHANGED <<dataVars, cpc, x, range, sub, tmp, correct, total, holder>>

(* The Guard goes out of scope at the end of calc, and the job ends.       *)
Release(t) ==
  /\ JobMoves(t, "unlock", "done")
  /\ holder' = NoThread
  /\ UNCHANGED <<dataVars, cpc, x, range, sub, tmp, correct, total>>

ThreadStep(t) ==
  \/ \E j \in JobIds : WorkerRunsJob(t, j)
  \/ Calc(t) \/ Acquire(t) \/ LoadTotals(t) \/ StoreTotals(t) \/ Release(t)
  \/ /\ t = Caller
     /\ \/ OpenGroup \/ AddChunk \/ EndAdding
        \/ \E j \in JobIds : CallerRunsJob(j)
        \/ WaitReturns

Next == \E t \in Threads : ThreadStep(t)

(* Every thread, while it can run, eventually does.  The lock is only     *)
(* intermittently free, but each job takes it once, so once the others    *)
(* are through it stays free for a waiting thread: weak fairness per      *)
(* thread suffices.                                                        *)
Fairness == \A t \in Threads : WF_vars(ThreadStep(t))

Spec == Init /\ [][Next]_vars /\ Fairness

-----------------------------------------------------------------------------
(* accuracy returns, with the pool's threads or none.                     *)
AccuracyReturns == <>(cpc = "done")

(* No += of the totals is lost: a job that has loaded correct and total   *)
(* for its "correct += sub_correct; total += sub_total" stores onto the    *)
(* values that are still there, so no other job's addition has come in    *)
(* between its load and its store (the Guard on info.lock).                *)
NoLostUpdate == \A j \in JobIds : jpc[j] = "store" => tmp[j] = <<correct, total>>

(* accuracy implements AccuracySum: the value it returns is the sum over  *)
(* every example, counted once, whatever the chunking and whichever       *)
(* threads ran which jobs in which order (the chunk bounds of the add     *)
(* loop, and the Guard around the two +=).                                 *)
RetMap == IF cpc = "done" THEN [correct |-> correct, total |-> total]
          ELSE [correct |-> -1, total |-> -1]

Abstract == INSTANCE AccuracySum WITH ret <- RetMap

AccuracyImplementsSum == Abstract!Spec
=============================================================================
