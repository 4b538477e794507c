--------------------------- MODULE AccuracyProofs ---------------------------
(***************************************************************************)
(* Proofs about Perceptron::accuracy and its Accuracy_Jobs               *)
(* (PerceptronAccuracy), for every number of threads, examples, job ids   *)
(* and every chunk size:                                                   *)
(* the Guard on info.lock keeps every job's += of the shared totals whole *)
(* (NoLostUpdate).  With the chunk ranges of the add loop (ChunkRanges,    *)
(* part of the inductive invariant) this is what AccuracyImplementsSum    *)
(* rests on; the sum itself is a recursive function and stays with TLC.    *)
(***************************************************************************)
EXTENDS PerceptronAccuracy, TLAPS

Stages  == {"new", "queued", "run", "lock", "load", "store", "unlock", "done"}
Running == {"run", "lock", "load", "store", "unlock"}
Guarded == {"load", "store", "unlock"}

(* The pool's bookkeeping: a queued job is queued, a running job is the   *)
(* job of exactly one thread, and a thread's job is running.               *)
PoolInv ==
  /\ jpc \in [JobIds -> Stages]
  /\ \A j \in queue : jpc[j] = "queued"
  /\ \A t \in Threads : owner[t] # NoJob => jpc[owner[t]] \in Running
  /\ \A j \in JobIds : jpc[j] \in Running => \E t \in Threads : owner[t] = j
  /\ \A t1, t2 \in Threads : owner[t1] = owner[t2] /\ owner[t1] # NoJob => t1 = t2

(* The Guard: a thread between Guard guard(lock) and the end of calc      *)
(* holds info.lock.                                                        *)
LockInv ==
  \A t \in Threads : owner[t] # NoJob /\ jpc[owner[t]] \in Guarded => holder = t

(* The add loop: x is a multiple of the chunk size, the jobs added are    *)
(* those whose chunk starts below x, and x overshoots nx by less than a   *)
(* chunk.                                                                  *)
LoopInv ==
  /\ nx \in 0 .. MaxNX
  /\ \E k \in 0 .. x : x = k * ChunkSize
  /\ \A j \in JobIds : jpc[j] # "new" <=> j * ChunkSize < x
  /\ x > 0 => x - ChunkSize < nx
  /\ cpc = "group" => x = 0
  /\ cpc \in {"wait", "done"} => x >= nx

(* The types the proof needs: the pool's, and the domains of the per-job *)
(* variables.  (The sums a job computes need not be typed: no step here    *)
(* does arithmetic on them.)                                               *)
AccType ==
  /\ PoolTypeOK
  /\ cpc \in {"group", "add", "wait", "done"}
  /\ x \in Nat
  /\ DOMAIN range = JobIds
  /\ DOMAIN tmp = JobIds
  /\ holder \in Threads \cup {NoThread}

(* The chunks the add loop has handed out: job j covers [j * C,          *)
(* min((j + 1) * C, nx)), and once the loop has ended the jobs added are  *)
(* exactly those whose chunk starts below nx.                              *)
ChunkRanges ==
  /\ \A j \in JobIds : jpc[j] # "new" =>
        range[j] = <<j * ChunkSize, IF (j + 1) * ChunkSize <= nx THEN (j + 1) * ChunkSize ELSE nx>>
  /\ cpc \in {"wait", "done"} => \A j \in JobIds : jpc[j] # "new" <=> j * ChunkSize < nx

(* The inductive invariant behind NoLostUpdate.                           *)
AccInv ==
  /\ AccType
  /\ PoolInv
  /\ LockInv
  /\ LoopInv
  /\ NoLostUpdate
  /\ ChunkRanges

-----------------------------------------------------------------------------
(* The arithmetic of the add loop, for a chunk size C > 0.                 *)

(* Multiplying by C keeps the order.                                      *)
LEMMA MulLess ==
  ASSUME NEW i \in Int, NEW k \in Int, NEW C \in Nat \ {0}
  PROVE  i * C < k * C <=> i < k
<1>1. i < k => i * C < k * C
  <2>. SUFFICES ASSUME i < k PROVE i * C < k * C
    OBVIOUS
  <2>1. (k - i) * C >= C
    BY SMT
  <2>. QED  BY <2>1, SMT
<1>2. i * C < k * C => i < k
  <2>. SUFFICES ASSUME i * C < k * C, ~(i < k) PROVE FALSE
    OBVIOUS
  <2>1. (i - k) * C >= 0
    BY SMT
  <2>. QED  BY <2>1, SMT
<1>. QED  BY <1>1, <1>2

(* x = k * C: its job id x / C is k.                                      *)
LEMMA DivOfMul ==
  ASSUME NEW k \in Nat, NEW C \in Nat \ {0}
  PROVE  (k * C) \div C = k
BY SMT

(* The job id of a chunk starting below MaxNX is a job id: the job ids    *)
(* are enough for (MaxNX + C - 1) / C chunks.                             *)
LEMMA ChunkIdFits ==
  ASSUME NEW k \in Nat, NEW C \in Nat \ {0}, NEW M \in Nat, NEW J \in Int,
         k * C < M, (M + C - 1) \div C <= J
  PROVE  k < J
<1>1. (k + 1) * C <= M + C - 1
  BY SMT
<1>2. ((k + 1) * C) \div C <= (M + C - 1) \div C
  BY <1>1, SMT
<1>3. ((k + 1) * C) \div C = k + 1
  BY DivOfMul
<1>. QED  BY <1>2, <1>3, SMT

-----------------------------------------------------------------------------
USE AccuracyAssumption, PoolAssumption

(* accuracy starts with no group, no job added, nothing loaded.           *)
LEMMA InitAcc == Init => AccInv
<1>. SUFFICES ASSUME Init PROVE AccInv
  OBVIOUS
<1>1. AccType
  BY DEF Init, PoolInit, AccType, PoolTypeOK, Threads
<1>2. PoolInv /\ LockInv
  BY DEF Init, PoolInit, PoolInv, LockInv, Stages, Running, NoJob
<1>3. LoopInv
  <2>1. \E k \in 0 .. x : x = k * ChunkSize
    BY DEF Init
  <2>. QED  BY <2>1 DEF Init, PoolInit, LoopInv, JobIds
<1>4. NoLostUpdate /\ ChunkRanges
  BY DEF Init, PoolInit, NoLostUpdate, ChunkRanges
<1>. QED  BY <1>1, <1>2, <1>3, <1>4 DEF AccInv

(* A job moving from one of its running stages to the next (JobMoves)     *)
(* keeps the pool's bookkeeping, and moves no job into or out of "new".   *)
LEMMA MovePool ==
  ASSUME PoolInv, PoolTypeOK, NEW t \in Threads, NEW s \in Running,
         NEW s2 \in Running \cup {"done"}, JobMoves(t, s, s2)
  PROVE  /\ PoolInv' /\ PoolTypeOK'
         /\ owner[t] \in JobIds /\ jpc[owner[t]] = s /\ jpc'[owner[t]] = s2
         /\ \A j \in JobIds : j # owner[t] => jpc'[j] = jpc[j]
         /\ \A j \in JobIds : jpc'[j] # "new" <=> jpc[j] # "new"
         /\ \A u \in Threads : u # t => owner'[u] = owner[u]
         /\ s2 # "done" => owner'[t] = owner[t]
         /\ s2 = "done" => owner'[t] = NoJob
<1>1. owner[t] \in JobIds /\ jpc[owner[t]] = s
  BY DEF JobMoves, PoolTypeOK, NoJob, JobIds
<1>2. /\ jpc' = [jpc EXCEPT ![owner[t]] = s2]
      /\ owner' = IF s2 = "done" THEN [owner EXCEPT ![t] = NoJob] ELSE owner
      /\ UNCHANGED <<locked, queue>>
  BY DEF JobMoves
<1>3. jpc' \in [JobIds -> Stages] /\ jpc'[owner[t]] = s2
      /\ \A j \in JobIds : j # owner[t] => jpc'[j] = jpc[j]
  BY <1>1, <1>2 DEF PoolInv, Stages, Running
<1>4. /\ \A u \in Threads : u # t => owner'[u] = owner[u]
      /\ s2 # "done" => owner'[t] = owner[t]
      /\ s2 = "done" => owner'[t] = NoJob
      /\ owner' \in [Threads -> JobIds \cup {NoJob}]
  BY <1>2 DEF PoolTypeOK
<1>5. \A u \in Threads : owner[u] = owner[t] => u = t
  BY <1>1 DEF PoolInv, NoJob, JobIds
<1>6. PoolInv'
  <2>1. \A j \in queue' : jpc'[j] = "queued"
    BY <1>1, <1>2, <1>3 DEF PoolInv, PoolTypeOK, Running
  <2>2. \A u \in Threads : owner'[u] # NoJob => jpc'[owner'[u]] \in Running
    BY <1>1, <1>3, <1>4, <1>5 DEF PoolInv, PoolTypeOK
  <2>3. \A j \in JobIds : jpc'[j] \in Running => \E u \in Threads : owner'[u] = j
    BY <1>1, <1>3, <1>4, <1>5 DEF PoolInv, Running
  <2>4. \A t1, t2 \in Threads : owner'[t1] = owner'[t2] /\ owner'[t1] # NoJob => t1 = t2
    BY <1>4, <1>5 DEF PoolInv
  <2>. QED  BY <1>3, <2>1, <2>2, <2>3, <2>4 DEF PoolInv
<1>7. PoolTypeOK'
  BY <1>2, <1>4 DEF PoolTypeOK
<1>8. \A j \in JobIds : jpc'[j] # "new" <=> jpc[j] # "new"
  BY <1>1, <1>3 DEF Running
<1>. QED  BY <1>1, <1>3, <1>4, <1>6, <1>7, <1>8

(* A step that moves no job into or out of "new" and leaves the add loop  *)
(* alone keeps the loop's invariant and the tiling.                        *)
LEMMA NewnessKeepsLoop ==
  ASSUME LoopInv, ChunkRanges,
         \A j \in JobIds : jpc'[j] # "new" <=> jpc[j] # "new",
         UNCHANGED <<nx, x, range, cpc>>
  PROVE  LoopInv' /\ ChunkRanges'
BY DEF LoopInv, ChunkRanges

(* A step of job t that leaves info.lock alone keeps the Guard's          *)
(* invariant when the job neither enters nor leaves the guarded stages     *)
(* without holding the lock: the others' jobs keep their stages.          *)
LEMMA OthersKeepStages ==
  ASSUME PoolInv, PoolTypeOK, NEW t \in Threads, owner[t] \in JobIds,
         \A j \in JobIds : j # owner[t] => jpc'[j] = jpc[j],
         \A u \in Threads : u # t => owner'[u] = owner[u],
         NEW u \in Threads, u # t, owner[u] # NoJob
  PROVE  owner'[u] = owner[u] /\ jpc'[owner[u]] = jpc[owner[u]]
BY DEF PoolInv, PoolTypeOK, NoJob, JobIds

(* calc's loop over its chunk: run -> lock.  Only sub changes.            *)
LEMMA CalcAcc ==
  ASSUME AccInv, NEW t \in Threads, Calc(t)
  PROVE  AccInv'
<1>1. JobMoves(t, "run", "lock")
  BY DEF Calc
<1>2. /\ PoolInv' /\ PoolTypeOK'
      /\ owner[t] \in JobIds /\ jpc[owner[t]] = "run" /\ jpc'[owner[t]] = "lock"
      /\ \A j \in JobIds : j # owner[t] => jpc'[j] = jpc[j]
      /\ \A j \in JobIds : jpc'[j] # "new" <=> jpc[j] # "new"
      /\ \A u \in Threads : u # t => owner'[u] = owner[u]
      /\ owner'[t] = owner[t]
  BY <1>1, MovePool DEF AccInv, AccType, Running
<1>3. UNCHANGED <<nx, x, cpc, range, tmp, correct, total, holder>>
  BY DEF Calc, dataVars
<1>4. AccType'
  BY <1>2, <1>3 DEF AccInv, AccType
<1>5. LockInv'
  <2>. SUFFICES ASSUME NEW u \in Threads, owner'[u] # NoJob, jpc'[owner'[u]] \in Guarded
                PROVE  holder' = u
    BY DEF LockInv
  <2>1. CASE u = t
    BY <2>1, <1>2 DEF Guarded
  <2>2. CASE u # t
    <3>1. owner[u] # NoJob
      BY <2>2, <1>2
    <3>2. owner'[u] = owner[u] /\ jpc'[owner[u]] = jpc[owner[u]]
      BY <2>2, <3>1, <1>2, OthersKeepStages DEF AccInv, AccType
    <3>. QED  BY <3>1, <3>2, <1>3 DEF AccInv, LockInv
  <2>. QED  BY <2>1, <2>2
<1>6. NoLostUpdate'
  BY <1>2, <1>3 DEF AccInv, NoLostUpdate
<1>7. LoopInv' /\ ChunkRanges'
  BY <1>2, <1>3, NewnessKeepsLoop DEF AccInv
<1>. QED  BY <1>2, <1>4, <1>5, <1>6, <1>7 DEF AccInv

(* At most one job is inside the Guard: the one of the thread holding     *)
(* info.lock.                                                              *)
LEMMA OneGuarded ==
  ASSUME PoolInv, PoolTypeOK, LockInv, NEW t \in Threads, owner[t] \in JobIds,
         jpc[owner[t]] \in Guarded, NEW j \in JobIds, j # owner[t], jpc[j] \in Guarded
  PROVE  FALSE
<1>1. PICK u \in Threads : owner[u] = j
  BY DEF PoolInv, Guarded, Running
<1>2. u # t /\ owner[u] # NoJob
  BY <1>1 DEF NoJob, JobIds
<1>3. holder = u /\ holder = t
  BY <1>1, <1>2 DEF LockInv, NoJob, JobIds
<1>. QED  BY <1>2, <1>3

(* The facts of MovePool for a step of job t from s to s2 < "done".       *)
MoveFacts(t, s, s2) ==
  /\ PoolInv' /\ PoolTypeOK'
  /\ owner[t] \in JobIds /\ jpc[owner[t]] = s /\ jpc'[owner[t]] = s2
  /\ \A j \in JobIds : j # owner[t] => jpc'[j] = jpc[j]
  /\ \A j \in JobIds : jpc'[j] # "new" <=> jpc[j] # "new"
  /\ \A u \in Threads : u # t => owner'[u] = owner[u]

(* Guard guard(lock): lock -> load, and t holds info.lock.                *)
LEMMA AcquireAcc ==
  ASSUME AccInv, NEW t \in Threads, Acquire(t)
  PROVE  AccInv'
<1>1. MoveFacts(t, "lock", "load") /\ owner'[t] = owner[t]
  <2>1. JobMoves(t, "lock", "load")
    BY DEF Acquire
  <2>. QED  BY <2>1, MovePool DEF AccInv, AccType, Running, MoveFacts
<1>2. UNCHANGED <<nx, x, cpc, range, tmp, correct, total>> /\ holder' = t /\ holder = NoThread
  BY DEF Acquire, dataVars
<1>3. AccType'
  BY <1>1, <1>2 DEF AccInv, AccType, MoveFacts
<1>4. LockInv'
  <2>. SUFFICES ASSUME NEW u \in Threads, u # t, owner'[u] # NoJob, jpc'[owner'[u]] \in Guarded
                PROVE  FALSE
    BY <1>2 DEF LockInv
  <2>1. owner[u] # NoJob
    BY <1>1 DEF MoveFacts
  <2>2. owner'[u] = owner[u] /\ jpc'[owner[u]] = jpc[owner[u]]
    BY <2>1, <1>1, OthersKeepStages DEF AccInv, AccType, MoveFacts
  <2>3. holder = u
    BY <2>1, <2>2 DEF AccInv, LockInv
  <2>. QED  BY <2>3, <1>2, AccuracyAssumption
<1>5. NoLostUpdate'
  BY <1>1, <1>2 DEF AccInv, NoLostUpdate, MoveFacts
<1>6. LoopInv' /\ ChunkRanges'
  BY <1>1, <1>2, NewnessKeepsLoop DEF AccInv, MoveFacts
<1>. QED  BY <1>1, <1>3, <1>4, <1>5, <1>6 DEF AccInv, MoveFacts

(* The loads of the two +=: load -> store, tmp[j] takes correct, total.   *)
LEMMA LoadAcc ==
  ASSUME AccInv, NEW t \in Threads, LoadTotals(t)
  PROVE  AccInv'
<1>1. MoveFacts(t, "load", "store") /\ owner'[t] = owner[t]
  <2>1. JobMoves(t, "load", "store")
    BY DEF LoadTotals
  <2>. QED  BY <2>1, MovePool DEF AccInv, AccType, Running, MoveFacts
<1>2. /\ UNCHANGED <<nx, x, cpc, range, correct, total, holder>>
      /\ tmp' = [tmp EXCEPT ![owner[t]] = <<correct, total>>]
  BY DEF LoadTotals, dataVars
<1>3. AccType'
  BY <1>1, <1>2 DEF AccInv, AccType, MoveFacts
<1>4. holder = t
  BY <1>1 DEF AccInv, LockInv, MoveFacts, Guarded, NoJob, JobIds
<1>5. LockInv'
  <2>. SUFFICES ASSUME NEW u \in Threads, u # t, owner'[u] # NoJob, jpc'[owner'[u]] \in Guarded
                PROVE  holder' = u
    BY <1>1, <1>2, <1>4 DEF LockInv
  <2>1. owner[u] # NoJob
    BY <1>1 DEF MoveFacts
  <2>2. owner'[u] = owner[u] /\ jpc'[owner[u]] = jpc[owner[u]]
    BY <2>1, <1>1, OthersKeepStages DEF AccInv, AccType, MoveFacts
  <2>. QED  BY <2>1, <2>2, <1>2 DEF AccInv, LockInv
<1>6. NoLostUpdate'
  <2>. SUFFICES ASSUME NEW j \in JobIds, jpc'[j] = "store" PROVE tmp'[j] = <<correct, total>>'
    BY DEF NoLostUpdate
  <2>1. CASE j = owner[t]
    BY <2>1, <1>1, <1>2 DEF AccInv, AccType, MoveFacts
  <2>2. CASE j # owner[t]
    <3>1. jpc[j] = "store"
      BY <2>2, <1>1 DEF MoveFacts
    <3>. QED  BY <2>2, <3>1, <1>1, OneGuarded DEF AccInv, AccType, MoveFacts, Guarded
  <2>. QED  BY <2>1, <2>2
<1>7. LoopInv' /\ ChunkRanges'
  BY <1>1, <1>2, NewnessKeepsLoop DEF AccInv, MoveFacts
<1>. QED  BY <1>1, <1>3, <1>5, <1>6, <1>7 DEF AccInv, MoveFacts

(* The stores of the two +=: store -> unlock; correct and total change.   *)
LEMMA StoreAcc ==
  ASSUME AccInv, NEW t \in Threads, StoreTotals(t)
  PROVE  AccInv'
<1>1. MoveFacts(t, "store", "unlock") /\ owner'[t] = owner[t]
  <2>1. JobMoves(t, "store", "unlock")
    BY DEF StoreTotals
  <2>. QED  BY <2>1, MovePool DEF AccInv, AccType, Running, MoveFacts
<1>2. UNCHANGED <<nx, x, cpc, range, tmp, holder>>
  BY DEF StoreTotals, dataVars
<1>3. AccType'
  BY <1>1, <1>2 DEF AccInv, AccType, MoveFacts
<1>4. holder = t
  BY <1>1 DEF AccInv, LockInv, MoveFacts, Guarded, NoJob, JobIds
<1>5. LockInv'
  <2>. SUFFICES ASSUME NEW u \in Threads, u # t, owner'[u] # NoJob, jpc'[owner'[u]] \in Guarded
                PROVE  holder' = u
    BY <1>1, <1>2, <1>4 DEF LockInv
  <2>1. owner[u] # NoJob
    BY <1>1 DEF MoveFacts
  <2>2. owner'[u] = owner[u] /\ jpc'[owner[u]] = jpc[owner[u]]
    BY <2>1, <1>1, OthersKeepStages DEF AccInv, AccType, MoveFacts
  <2>. QED  BY <2>1, <2>2, <1>2 DEF AccInv, LockInv
<1>6. NoLostUpdate'
  <2>. SUFFICES ASSUME NEW j \in JobIds, jpc'[j] = "store" PROVE FALSE
    BY DEF NoLostUpdate
  <2>1. j # owner[t]
    BY <1>1 DEF MoveFacts
  <2>2. jpc[j] = "store"
    BY <2>1, <1>1 DEF MoveFacts
  <2>. QED  BY <2>1, <2>2, <1>1, OneGuarded DEF AccInv, AccType, MoveFacts, Guarded
<1>7. LoopInv' /\ ChunkRanges'
  BY <1>1, <1>2, NewnessKeepsLoop DEF AccInv, MoveFacts
<1>. QED  BY <1>1, <1>3, <1>5, <1>6, <1>7 DEF AccInv, MoveFacts

(* The Guard goes out of scope and the job ends: unlock -> done, the      *)
(* thread is free and info.lock is free.                                   *)
LEMMA ReleaseAcc ==
  ASSUME AccInv, NEW t \in Threads, Release(t)
  PROVE  AccInv'
<1>1. MoveFacts(t, "unlock", "done") /\ owner'[t] = NoJob
  <2>1. JobMoves(t, "unlock", "done")
    BY DEF Release
  <2>. QED  BY <2>1, MovePool DEF AccInv, AccType, Running, MoveFacts
<1>2. UNCHANGED <<nx, x, cpc, range, tmp, correct, total>> /\ holder' = NoThread
  BY DEF Release, dataVars
<1>3. AccType'
  BY <1>1, <1>2 DEF AccInv, AccType, MoveFacts
<1>4. holder = t
  BY <1>1 DEF AccInv, LockInv, MoveFacts, Guarded, NoJob, JobIds
<1>5. LockInv'
  <2>. SUFFICES ASSUME NEW u \in Threads, u # t, owner'[u] # NoJob, jpc'[owner'[u]] \in Guarded
                PROVE  FALSE
    BY <1>1 DEF LockInv
  <2>1. owner[u] # NoJob
    BY <1>1 DEF MoveFacts
  <2>2. owner'[u] = owner[u] /\ jpc'[owner[u]] = jpc[owner[u]]
    BY <2>1, <1>1, OthersKeepStages DEF AccInv, AccType, MoveFacts
  <2>3. holder = u
    BY <2>1, <2>2 DEF AccInv, LockInv
  <2>. QED  BY <2>3, <1>4
<1>6. NoLostUpdate'
  BY <1>1, <1>2 DEF AccInv, NoLostUpdate, MoveFacts
<1>7. LoopInv' /\ ChunkRanges'
  BY <1>1, <1>2, NewnessKeepsLoop DEF AccInv, MoveFacts
<1>. QED  BY <1>1, <1>3, <1>5, <1>6, <1>7 DEF AccInv, MoveFacts

(* A free thread takes queued job j (a pool thread, or the caller in      *)
(* run_until_finished): queued -> run.                                     *)
LEMMA StartAcc ==
  ASSUME AccInv, NEW t \in Threads, NEW j \in JobIds, Start(t, j),
         UNCHANGED <<nx, x, cpc, range, tmp, correct, total, holder>>
  PROVE  AccInv'
<1>1. /\ owner[t] = NoJob /\ j \in queue /\ jpc[j] = "queued"
      /\ queue' = queue \ {j}
      /\ owner' = [owner EXCEPT ![t] = j]
      /\ jpc' = [jpc EXCEPT ![j] = "run"]
      /\ locked' = locked
  BY DEF Start, AccInv, PoolInv
<1>2. \A u \in Threads : owner[u] # j
  BY <1>1 DEF AccInv, PoolInv, Running, NoJob, JobIds
<1>3. PoolTypeOK' /\ jpc' \in [JobIds -> Stages]
  BY <1>1 DEF AccInv, AccType, PoolTypeOK, PoolInv, Stages
<1>4. PoolInv'
  <2>1. \A k \in queue' : jpc'[k] = "queued"
    BY <1>1 DEF AccInv, PoolInv, AccType, PoolTypeOK
  <2>2. \A u \in Threads : owner'[u] # NoJob => jpc'[owner'[u]] \in Running
    BY <1>1, <1>2 DEF AccInv, PoolInv, AccType, PoolTypeOK, Running
  <2>3. \A k \in JobIds : jpc'[k] \in Running => \E u \in Threads : owner'[u] = k
    <3>. SUFFICES ASSUME NEW k \in JobIds, jpc'[k] \in Running
                  PROVE  \E u \in Threads : owner'[u] = k
      OBVIOUS
    <3>1. CASE k = j
      <4>1. owner'[t] = j
        BY <1>1 DEF AccInv, AccType, PoolTypeOK
      <4>. QED  BY <3>1, <4>1
    <3>2. CASE k # j
      <4>1. jpc[k] \in Running
        BY <3>2, <1>1
      <4>2. PICK u \in Threads : owner[u] = k
        BY <4>1 DEF AccInv, PoolInv
      <4>3. u # t
        BY <4>2, <1>1 DEF NoJob, JobIds
      <4>4. owner'[u] = k
        BY <4>2, <4>3, <1>1 DEF AccInv, AccType, PoolTypeOK
      <4>. QED  BY <4>4
    <3>. QED  BY <3>1, <3>2
  <2>4. \A t1, t2 \in Threads : owner'[t1] = owner'[t2] /\ owner'[t1] # NoJob => t1 = t2
    BY <1>1, <1>2 DEF AccInv, PoolInv
  <2>. QED  BY <1>3, <2>1, <2>2, <2>3, <2>4 DEF PoolInv
<1>5. LockInv'
  BY <1>1, <1>2 DEF AccInv, LockInv, AccType, PoolTypeOK, Guarded
<1>6. \A k \in JobIds : jpc'[k] # "new" <=> jpc[k] # "new"
  BY <1>1
<1>7. NoLostUpdate'
  BY <1>1 DEF AccInv, NoLostUpdate
<1>8. LoopInv' /\ ChunkRanges'
  BY <1>6, NewnessKeepsLoop DEF AccInv
<1>. QED  BY <1>3, <1>4, <1>5, <1>7, <1>8 DEF AccInv, AccType

(* get_group, the end of the add loop (Call_Guard's unlock_group) and the *)
(* return: no job changes stage.                                           *)
LEMMA OpenGroupAcc ==
  ASSUME AccInv, OpenGroup
  PROVE  AccInv'
<1>1. UNCHANGED <<nx, x, range, tmp, correct, total, holder, jpc, queue, owner>>
      /\ cpc = "group" /\ cpc' = "add" /\ locked' = TRUE
  BY DEF OpenGroup, GetGroup, dataVars, jobVars
<1>. QED  BY <1>1 DEF AccInv, AccType, PoolTypeOK, PoolInv, LockInv, LoopInv,
                    NoLostUpdate, ChunkRanges

(* Once the loop has ended, a chunk starts below x exactly when it starts *)
(* below nx: x is the first multiple of C at or past nx.                   *)
LEMMA LoopEnd ==
  ASSUME NEW C \in Nat \ {0}, NEW k \in Nat, NEW n \in Nat, NEW j \in Nat,
         k * C >= n, k * C > 0 => k * C - C < n
  PROVE  j * C < k * C <=> j * C < n
<1>1. CASE j < k
  <2>1. j * C <= k * C - C
    <3>1. (k - j) * C >= C
      BY <1>1, SMT
    <3>. QED  BY <3>1, SMT
  <2>2. j * C < k * C
    BY <1>1, MulLess
  <2>. QED  BY <1>1, <2>1, <2>2, SMT
<1>2. CASE ~(j < k)
  <2>1. ~(j * C < k * C)
    BY <1>2, MulLess
  <2>. QED  BY <2>1, SMT
<1>. QED  BY <1>1, <1>2

LEMMA EndAddingAcc ==
  ASSUME AccInv, EndAdding
  PROVE  AccInv'
<1>1. UNCHANGED <<nx, x, range, tmp, correct, total, holder, jpc, queue, owner>>
      /\ cpc = "add" /\ cpc' = "wait" /\ x >= nx /\ locked' = FALSE
  BY DEF EndAdding, UnlockGroup, dataVars, jobVars
<1>2. \A j \in JobIds : jpc[j] # "new" <=> j * ChunkSize < nx
  <2>. SUFFICES ASSUME NEW j \in JobIds PROVE jpc[j] # "new" <=> j * ChunkSize < nx
    OBVIOUS
  <2>1. PICK k \in 0 .. x : x = k * ChunkSize
    BY DEF AccInv, LoopInv
  <2>2. j * ChunkSize < x <=> j * ChunkSize < nx
    BY <1>1, <2>1, LoopEnd DEF AccInv, LoopInv, AccType, JobIds
  <2>. QED  BY <2>2 DEF AccInv, LoopInv
<1>. QED  BY <1>1, <1>2 DEF AccInv, AccType, PoolTypeOK, PoolInv, LockInv, LoopInv,
                          NoLostUpdate, ChunkRanges

LEMMA WaitReturnsAcc ==
  ASSUME AccInv, WaitReturns
  PROVE  AccInv'
<1>1. UNCHANGED <<nx, x, range, tmp, correct, total, holder, jpc, queue, owner, locked>>
      /\ cpc = "wait" /\ cpc' = "done"
  BY DEF WaitReturns, poolVars, dataVars, jobVars
<1>. QED  BY <1>1 DEF AccInv, AccType, PoolTypeOK, PoolInv, LockInv, LoopInv,
                    NoLostUpdate, ChunkRanges

(* One turn of "for (x = 0; x < nx; x += 2048)": job x / 2048 is added    *)
(* with the chunk [x, min(x + 2048, nx)).                                  *)
LEMMA AddChunkAcc ==
  ASSUME AccInv, AddChunk
  PROVE  AccInv'
<1> DEFINE C == ChunkSize
<1>1. PICK k \in 0 .. x : x = k * C
  BY DEF AccInv, LoopInv
<1>2. /\ cpc = "add" /\ x < nx
      /\ AddJob(x \div C)
      /\ range' = [range EXCEPT ![x \div C] = <<x, ChunkEnd(x)>>]
      /\ x' = x + C
      /\ UNCHANGED <<nx, cpc, tmp, correct, total, holder>>
  BY DEF AddChunk, dataVars
<1>3. x \div C = k /\ k \in Nat /\ x \in Nat /\ nx \in 0 .. MaxNX
  BY <1>1, DivOfMul, AccuracyAssumption DEF AccInv, AccType, LoopInv
<1>4. k \in JobIds
  <2>1. k * C < MaxNX
    BY <1>1, <1>2, <1>3
  <2>2. k < MaxJobs
    BY <2>1, <1>3, ChunkIdFits, AccuracyAssumption
  <2>. QED  BY <2>2, <1>3 DEF JobIds
<1>5. /\ jpc[k] = "new"
      /\ jpc' = [jpc EXCEPT ![k] = "queued"]
      /\ queue' = queue \cup {k}
      /\ UNCHANGED <<locked, owner>>
  BY <1>2, <1>3 DEF AddJob
<1>6. \A u \in Threads : owner[u] # k
  BY <1>5 DEF AccInv, PoolInv, Running, NoJob, JobIds
<1>7. AccType'
  BY <1>2, <1>4, <1>5 DEF AccInv, AccType, PoolTypeOK
<1>8. PoolInv'
  BY <1>4, <1>5, <1>6 DEF AccInv, PoolInv, Stages, Running
<1>9. LockInv'
  BY <1>2, <1>4, <1>5, <1>6 DEF AccInv, LockInv, AccType, PoolTypeOK, Guarded
<1>10. NoLostUpdate'
  BY <1>2, <1>4, <1>5 DEF AccInv, NoLostUpdate
<1>11. \A i \in JobIds : jpc'[i] # "new" <=> i * C < x'
  <2>. SUFFICES ASSUME NEW i \in JobIds PROVE jpc'[i] # "new" <=> i * C < x + C
    BY <1>2
  <2>1. CASE i = k
    <3>1. jpc'[k] = "queued"
      BY <1>4, <1>5 DEF AccInv, PoolInv
    <3>2. k * C < x + C
      BY <1>1, <1>3, AccuracyAssumption
    <3>. QED  BY <2>1, <3>1, <3>2
  <2>2. CASE i # k
    <3>1. jpc'[i] = jpc[i]
      BY <2>2, <1>5
    <3>2. i * C < x <=> i * C < x + C
      <4>1. i * C < (k + 1) * C <=> i < k + 1
        BY MulLess, AccuracyAssumption DEF JobIds
      <4>2. i * C < k * C <=> i < k
        BY MulLess, AccuracyAssumption DEF JobIds
      <4>3. (k + 1) * C = x + C
        BY <1>1, <1>3, AccuracyAssumption
      <4>. QED  BY <2>2, <4>1, <4>2, <4>3, <1>1, <1>3 DEF JobIds
    <3>. QED  BY <3>1, <3>2 DEF AccInv, LoopInv
  <2>. QED  BY <2>1, <2>2
<1>12. LoopInv'
  <2>1. \E m \in 0 .. x' : x' = m * C
    <3>1. x + C = (k + 1) * C /\ k + 1 \in 0 .. x + C
      BY <1>1, <1>3, AccuracyAssumption
    <3>. QED  BY <3>1, <1>2
  <2>2. x' > 0 => x' - C < nx'
    BY <1>2, <1>3, AccuracyAssumption
  <2>. QED  BY <1>2, <1>3, <1>11, <2>1, <2>2 DEF LoopInv
<1>13. ChunkRanges'
  <2>1. range'[k] = <<k * C, IF (k + 1) * C <= nx THEN (k + 1) * C ELSE nx>>
    <3>1. range'[k] = <<x, ChunkEnd(x)>>
      BY <1>2, <1>3, <1>4 DEF AccInv, AccType
    <3>2. (k + 1) * C = x + C
      BY <1>1, <1>3, AccuracyAssumption
    <3>3. ChunkEnd(x) = IF x + C <= nx THEN x + C ELSE nx
      BY <1>3, AccuracyAssumption DEF ChunkEnd
    <3>. QED  BY <1>1, <3>1, <3>2, <3>3
  <2>2. \A i \in JobIds : i # k => range'[i] = range[i] /\ jpc'[i] = jpc[i]
    BY <1>2, <1>3, <1>5
  <2>. QED  BY <2>1, <2>2, <1>2, <1>5 DEF AccInv, ChunkRanges
<1>. QED  BY <1>7, <1>8, <1>9, <1>10, <1>12, <1>13 DEF AccInv

(* Every step of every thread keeps AccInv.                                *)
LEMMA NextAcc == AccInv /\ [Next]_vars => AccInv'
<1>. SUFFICES ASSUME AccInv, [Next]_vars PROVE AccInv'
  OBVIOUS
<1>1. CASE UNCHANGED vars
  BY <1>1 DEF vars, AccInv, AccType, PoolTypeOK, PoolInv, LockInv, LoopInv,
              NoLostUpdate, ChunkRanges
<1>2. CASE Next
  <2>1. PICK t \in Threads : ThreadStep(t)
    BY <1>2 DEF Next
  <2>2. CASE \E j \in JobIds : WorkerRunsJob(t, j)
    <3>1. PICK j \in JobIds : WorkerRunsJob(t, j)
      BY <2>2
    <3>. QED  BY <3>1, StartAcc DEF WorkerRunsJob, dataVars, jobVars
  <2>3. CASE t = Caller /\ \E j \in JobIds : CallerRunsJob(j)
    <3>1. PICK j \in JobIds : CallerRunsJob(j)
      BY <2>3
    <3>2. Caller \in Threads
      BY DEF Threads
    <3>. QED  BY <3>1, <3>2, StartAcc DEF CallerRunsJob, dataVars, jobVars
  <2>4. CASE Calc(t)
    BY <2>4, CalcAcc
  <2>5. CASE Acquire(t)
    BY <2>5, AcquireAcc
  <2>6. CASE LoadTotals(t)
    BY <2>6, LoadAcc
  <2>7. CASE StoreTotals(t)
    BY <2>7, StoreAcc
  <2>8. CASE Release(t)
    BY <2>8, ReleaseAcc
  <2>9. CASE t = Caller /\ (OpenGroup \/ AddChunk \/ EndAdding \/ WaitReturns)
    BY <2>9, OpenGroupAcc, AddChunkAcc, EndAddingAcc, WaitReturnsAcc
  <2>. QED  BY <2>1, <2>2, <2>3, <2>4, <2>5, <2>6, <2>7, <2>8, <2>9 DEF ThreadStep
<1>. QED  BY <1>1, <1>2

LEMMA AlwaysAcc == Spec => []AccInv
BY InitAcc, NextAcc, PTL DEF Spec

(* No update of the shared totals is lost: whenever an Accuracy_Job is    *)
(* between the load and the store of "correct += sub_correct; total +=     *)
(* sub_total", correct and total still hold the values it loaded, for any  *)
(* number of pool threads and jobs, in every interleaving.  It rests on    *)
(* the Guard on info.lock: the job inside it is the lock holder's, and     *)
(* there is one holder.                                                    *)
THEOREM NoUpdateLost == Spec => []NoLostUpdate
BY AlwaysAcc, PTL DEF AccInv

=============================================================================
