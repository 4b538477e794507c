------------------------ MODULE BaggingGenerateProofs ------------------------
(***************************************************************************)
(* Proofs, for every number of pool threads, job ids and bags, of the     *)
(* safety of Bagging_Generator::generate (boosting/bagging_generator.cc)  *)
(* over Worker_Task: the Committee is built from every bag's classifier,  *)
(* and when generate returns no Bag_Job is still queued or running.       *)
(*                                                                         *)
(* CommitteeComplete is not inductive: it speaks only of the caller.  The *)
(* strengthening BagInv ties the caller to the jobs: a job id is in use   *)
(* exactly when the add loop has passed it, a queued id has a queued job, *)
(* a finished job has stored its classifier, and once the caller waits    *)
(* every bag was added, so the group barrier of run_until_finished         *)
(* (unlocked, every job new or done) means every bag is done.              *)
(***************************************************************************)
EXTENDS BaggingGenerate, TLAPS

Stages == {"new", "queued", "run", "store", "done"}

BagInv ==
  /\ TypeOK
  /\ jpc \in [JobIds -> Stages]
  \* worker.add queued exactly the ids the add loop has passed
  /\ \A j \in JobIds : jpc[j] # "new" <=> j < added
  /\ \A j \in queue : jpc[j] = "queued"
  \* Bag_Job::operator() stores results[bag_num] before it ends
  /\ \A j \in Bags : jpc[j] = "done" => results[j] = j
  /\ cpc \in {"wait", "collect", "done"} => added = NumBags
  /\ cpc \in {"collect", "done"} => \A j \in Bags : jpc[j] = "done"
  /\ CommitteeComplete

(* A job id the add loop has passed is a bag.                              *)
LEMMA PassedIsBag ==
  ASSUME NEW j \in JobIds, NEW a \in 0 .. NumBags, j < a
  PROVE  j \in Bags
  BY BaggingAssumption, PoolAssumption DEF JobIds, Bags

(* Every bag has a job id: num_bags is at most the number of job ids.      *)
LEMMA BagsAreJobs == Bags \subseteq JobIds
  BY BaggingAssumption, PoolAssumption DEF JobIds, Bags

LEMMA InitBagInv == Init => BagInv
  <1> SUFFICES ASSUME Init PROVE BagInv
    OBVIOUS
  <1>1. NumBags \in Nat /\ MaxJobs \in Nat
    BY BaggingAssumption, PoolAssumption
  <1>2. PoolTypeOK
    BY <1>1 DEF Init, PoolInit, PoolTypeOK, NoJob
  <1>3. TypeOK
    BY <1>1, <1>2 DEF Init, TypeOK, Bags, NoBag
  <1>4. \A j \in JobIds : jpc[j] # "new" <=> j < added
    BY <1>1 DEF Init, PoolInit, JobIds
  <1>5. jpc \in [JobIds -> Stages]
    BY DEF Init, PoolInit, Stages
  <1>6. QED
    BY <1>3, <1>4, <1>5, BagsAreJobs DEF Init, PoolInit, BagInv, CommitteeComplete

(* The steps of a job: each moves only the job its thread owns, and only   *)
(* out of a running stage, so it leaves every queued and new id alone.     *)
LEMMA JobStepInv ==
  ASSUME BagInv, NEW t \in Threads, TrainBag(t) \/ StoreBag(t)
  PROVE  BagInv'
  <1> DEFINE j == owner[t]
  <1>1. j \in JobIds /\ jpc[j] \in {"run", "store"}
    BY DEF TrainBag, StoreBag, JobMoves, BagInv, TypeOK, PoolTypeOK, NoJob
  <1>2. j < added
    BY <1>1 DEF BagInv
  <1>3. j \in Bags
    BY <1>1, <1>2, PassedIsBag DEF BagInv, TypeOK
  <1>4. j \notin queue
    BY <1>1 DEF BagInv
  <1>5. cpc \notin {"collect", "done"}
    BY <1>1, <1>3 DEF BagInv
  <1>6. CASE TrainBag(t)
    <2>1. jpc' = [jpc EXCEPT ![j] = "store"] /\ owner' = owner
      BY <1>6 DEF TrainBag, JobMoves
    <2>2. TypeOK'
      BY <1>6, <2>1 DEF TrainBag, JobMoves, BagInv, TypeOK, PoolTypeOK
    <2>3. QED
      BY <1>1, <1>4, <1>5, <1>6, <2>1, <2>2
         DEF TrainBag, JobMoves, BagInv, Stages, CommitteeComplete
  <1>7. CASE StoreBag(t)
    <2>1. jpc' = [jpc EXCEPT ![j] = "done"]
          /\ owner' = [owner EXCEPT ![t] = NoJob]
          /\ results' = [results EXCEPT ![j] = j]
      BY <1>7 DEF StoreBag, JobMoves
    <2>2. TypeOK'
      BY <1>3, <1>7, <2>1 DEF StoreBag, JobMoves, BagInv, TypeOK, PoolTypeOK
    <2>3. \A i \in Bags : jpc'[i] = "done" => results'[i] = i
      BY <1>1, <1>3, <2>1 DEF BagInv, TypeOK
    <2>4. QED
      BY <1>1, <1>4, <1>5, <1>7, <2>1, <2>2, <2>3
         DEF StoreBag, JobMoves, BagInv, Stages, CommitteeComplete
  <1>8. QED
    BY <1>6, <1>7
(* A thread takes a queued job: the id leaves the queue and runs.          *)
LEMMA StartInv ==
  ASSUME BagInv, NEW t \in Threads, NEW j \in JobIds, Start(t, j),
         UNCHANGED <<cpc, added, seeds, results, committee>>
  PROVE  BagInv'
  <1>1. jpc[j] = "queued" /\ j < added
    BY DEF Start, BagInv
  <1>2. jpc' = [jpc EXCEPT ![j] = "run"]
    BY DEF Start
  <1>3. TypeOK'
    BY DEF Start, BagInv, TypeOK, PoolTypeOK
  <1>4. cpc \notin {"collect", "done"}
    BY <1>1, PassedIsBag DEF BagInv, TypeOK
  <1>5. QED
    BY <1>1, <1>2, <1>3, <1>4 DEF Start, BagInv, Stages, CommitteeComplete

(* worker.add(Bag_Job(info, i, ...)): id i, new until now, is queued and    *)
(* the loop passes it.                                                      *)
LEMMA AddBagInv ==
  ASSUME BagInv, AddBag PROVE BagInv'
  <1>1. added \in JobIds /\ added \in Bags
    BY BagsAreJobs, BaggingAssumption DEF AddBag, BagInv, TypeOK, Bags
  <1>2. jpc' = [jpc EXCEPT ![added] = "queued"] /\ added' = added + 1
    BY DEF AddBag, AddJob
  <1>3. TypeOK'
    BY <1>1, BaggingAssumption DEF AddBag, AddJob, BagInv, TypeOK, PoolTypeOK
  <1>4. \A j \in JobIds : jpc'[j] # "new" <=> j < added'
    BY <1>1, <1>2 DEF BagInv, TypeOK, JobIds
  <1>5. QED
    BY <1>1, <1>2, <1>3, <1>4 DEF AddBag, AddJob, BagInv, Stages, CommitteeComplete

(* run_until_finished returns: the group is unlocked and every job new or  *)
(* done, and every bag was added, so every bag is done.                     *)
LEMMA WaitReturnsInv ==
  ASSUME BagInv, WaitReturns PROVE BagInv'
  <1>1. \A j \in Bags : jpc[j] = "done"
    <2> SUFFICES ASSUME NEW j \in Bags PROVE jpc[j] = "done"
      OBVIOUS
    <2>1. j \in JobIds /\ j < added
      BY BagsAreJobs, BaggingAssumption DEF WaitReturns, BagInv, Bags
    <2>2. jpc[j] # "new"
      BY <2>1 DEF BagInv
    <2>3. QED
      BY <2>1, <2>2 DEF WaitReturns, GroupFinished
  <1>2. QED
    BY <1>1 DEF WaitReturns, poolVars, BagInv, TypeOK, PoolTypeOK, CommitteeComplete

(* Bagging_Generator::generate builds its Committee from results.           *)
LEMMA BuildCommitteeInv ==
  ASSUME BagInv, BuildCommittee PROVE BagInv'
  <1>1. results = [i \in Bags |-> i]
    BY DEF BuildCommittee, BagInv, TypeOK
  <1>2. QED
    BY <1>1 DEF BuildCommittee, poolVars, BagInv, TypeOK, PoolTypeOK, CommitteeComplete

LEMMA NextBagInv == BagInv /\ [Next]_vars => BagInv'
  <1> SUFFICES ASSUME BagInv, [Next]_vars PROVE BagInv'
    OBVIOUS
  <1>1. CASE DrawSeeds
    BY <1>1 DEF DrawSeeds, BagInv, TypeOK, PoolTypeOK, CommitteeComplete
  <1>2. CASE OpenGroup
    BY <1>2 DEF OpenGroup, GetGroup, BagInv, TypeOK, PoolTypeOK, CommitteeComplete
  <1>3. CASE AddBag
    BY <1>3, AddBagInv
  <1>4. CASE AddThrows
    BY <1>4 DEF AddThrows, UnlockGroup, BagInv, TypeOK, PoolTypeOK, CommitteeComplete
  <1>5. CASE EndAdding
    BY <1>5 DEF EndAdding, UnlockGroup, BagInv, TypeOK, PoolTypeOK, CommitteeComplete
  <1>6. ASSUME NEW j \in JobIds, CallerRunsJob(j) PROVE BagInv'
    BY <1>6, StartInv DEF CallerRunsJob, Threads
  <1>7. CASE WaitReturns
    BY <1>7, WaitReturnsInv
  <1>8. CASE BuildCommittee
    BY <1>8, BuildCommitteeInv
  <1>9. ASSUME NEW t \in Threads, NEW j \in JobIds, WorkerRunsJob(t, j) PROVE BagInv'
    BY <1>9, StartInv DEF WorkerRunsJob
  <1>10. ASSUME NEW t \in Threads, TrainBag(t) \/ StoreBag(t) PROVE BagInv'
    BY <1>10, JobStepInv
  <1>11. CASE UNCHANGED vars
    BY <1>11 DEF vars, BagInv, TypeOK, PoolTypeOK, CommitteeComplete
  <1>12. QED
    BY <1>1, <1>2, <1>3, <1>4, <1>5, <1>6, <1>7, <1>8, <1>9, <1>10, <1>11
       DEF Next, ThreadStep

(* Whatever the interleaving of the pool's threads with the caller, and    *)
(* for every number of threads, job ids and bags, the Committee generate    *)
(* returns holds the classifier of every bag.                               *)
THEOREM CommitteeAlwaysComplete == Spec => []CommitteeComplete
  <1>1. Init /\ [][Next]_vars => []BagInv
    BY InitBagInv, NextBagInv, PTL
  <1>2. BagInv => CommitteeComplete
    BY DEF BagInv
  <1>3. QED
    BY <1>1, <1>2, PTL DEF Spec

(* When generate returns normally, no Bag_Job is queued or running: none   *)
(* can touch its stack frame afterwards.  (On the throw path out of        *)
(* worker.add this fails; see the run bagging_addfail.)                    *)
THEOREM ReturnOutlivesNoJob ==
  Spec => [](cpc = "done" => \A j \in JobIds : jpc[j] \in {"new", "done"})
  <1>1. Init /\ [][Next]_vars => []BagInv
    BY InitBagInv, NextBagInv, PTL
  <1>2. BagInv => (cpc = "done" => \A j \in JobIds : jpc[j] \in {"new", "done"})
    <2> SUFFICES ASSUME BagInv, cpc = "done", NEW j \in JobIds
                 PROVE  jpc[j] \in {"new", "done"}
      OBVIOUS
    <2>1. CASE j < added
      BY <2>1, PassedIsBag DEF BagInv, TypeOK
    <2>2. CASE ~(j < added)
      BY <2>2 DEF BagInv
    <2>3. QED
      BY <2>1, <2>2
  <1>3. QED
    BY <1>1, <1>2, PTL DEF Spec
=============================================================================
