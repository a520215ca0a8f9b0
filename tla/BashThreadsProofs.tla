-------------------------- MODULE BashThreadsProofs --------------------------
(***************************************************************************)
(* Proofs about the job runner for every number of workers and lines,      *)
(* every list, any lock files left over and any workers killed.            *)
(***************************************************************************)
EXTENDS BashThreads, FiniteSetTheorems, TLAPS

USE WorkersAssumption, JobsAssumption, UnterminatedAssumption, KillsAssumption,
    TimelyAssumption, ContentAssumption

(***************************************************************************)
(* A set of worker numbers has a smallest one.  Intervals that start at 0  *)
(* are ordered by inclusion as their ends are, and inclusion of finite     *)
(* sets is well-founded.                                                   *)
(***************************************************************************)
LEMMA HasSmallest ==
  ASSUME NEW n \in Nat, NEW T, T \subseteq 0..n, T # {}
  PROVE  \E x \in T : \A y \in T : x <= y
<1> DEFINE R == StrictSubsetOrdering(0..n)
           below == {0..x : x \in T}
<1>1. IsWellFoundedOn(R, FiniteSubsetsOf(0..n))
  BY FS_StrictSubsetOrderingWellFounded
<1>2. below \subseteq FiniteSubsetsOf(0..n) /\ below # {}
  <2>1. ASSUME NEW x \in T PROVE 0..x \subseteq 0..n /\ IsFiniteSet(0..x)
    BY FS_Interval
  <2> QED
    BY <2>1 DEF FiniteSubsetsOf
<1>3. PICK b \in below : \A c \in below : <<c, b>> \notin R
  <2> HIDE DEF R, below
  <2> QED
    BY <1>1, <1>2, WFMin
<1>4. PICK x \in T : b = 0..x
  BY <1>3
<1>5. ASSUME NEW y \in T, y < x PROVE FALSE
  <2>1. 0..y \in below /\ b \in below
    OBVIOUS
  <2>2. 0..y \subseteq 0..x /\ 0..y # 0..x
    BY <1>5
  <2>3. <<0..y, b>> \in R
    BY <1>2, <1>4, <2>1, <2>2 DEF StrictSubsetOrdering, FiniteSubsetsOf
  <2> QED
    BY <1>3, <2>1, <2>3
<1> QED
  BY <1>5

(***************************************************************************)
(* The part of the picture a scan has drawn: its size is between nothing   *)
(* and all slots, and grows by one when the next slot is found busy.       *)
(***************************************************************************)
LEMMA CountingSlots ==
  ASSUME NEW P, NEW n \in 0..(Workers + 1)
  PROVE  /\ IsFiniteSet(P \cap 0..(n - 1))
         /\ Cardinality(P \cap 0..(n - 1)) \in 0..n
         /\ Cardinality((P \cup {n}) \cap 0..n) = Cardinality(P \cap 0..(n - 1)) + 1
         /\ (P \ {n}) \cap 0..n = P \cap 0..(n - 1)
<1> DEFINE I == 0..(n - 1)
<1>1. IsFiniteSet(I) /\ Cardinality(I) = n
  BY FS_Interval
<1>2. /\ IsFiniteSet(P \cap I)
      /\ Cardinality(P \cap I) <= n
  BY <1>1, FS_Subset
<1>3. Cardinality(P \cap I) \in Nat
  BY <1>2, FS_CardinalityType
<1>4. (P \cup {n}) \cap 0..n = (P \cap I) \cup {n} /\ n \notin P \cap I
  OBVIOUS
<1>5. Cardinality((P \cap I) \cup {n}) = Cardinality(P \cap I) + 1
  BY <1>2, <1>4, FS_AddElement
<1>6. (P \ {n}) \cap 0..n = P \cap I
  OBVIOUS
<1>7. Cardinality(P \cap I) \in 0..n
  BY <1>2, <1>3
<1> HIDE DEF I
<1>8. Cardinality((P \cup {n}) \cap 0..n) = Cardinality(P \cap I) + 1
  BY <1>4, <1>5
<1> QED
  BY <1>2, <1>6, <1>7, <1>8 DEF I

(***************************************************************************)
(* get_first_id_of_unoccupied_worker finds a slot whenever launch_workers  *)
(* calls it: the count is below Workers, so one of the slots 0..Workers-1  *)
(* is not in the picture, whether or not slot Workers is.                  *)
(***************************************************************************)
LEMMA SlotIsFree ==
  ASSUME IInv, ScanDone("launch"), counter < Workers
  PROVE  FirstUnoccupied \in Worker /\ FirstUnoccupied \notin workers_running
<1> DEFINE free == Worker \ workers_running
<1>1. at = Workers + 1
  BY DEF IInv, TypeOK, ScanDone
<1>2. free # {}
  <2> SUFFICES ASSUME Worker \subseteq workers_running PROVE FALSE
    OBVIOUS
  <2>1. Worker \in SUBSET (workers_running \cap 0..Workers)
    BY DEF Worker
  <2>2. IsFiniteSet(workers_running \cap 0..Workers)
    <3>1. workers_running \cap 0..Workers \in SUBSET (0..Workers)
      OBVIOUS
    <3>2. IsFiniteSet(0..Workers)
      BY FS_Interval
    <3> QED
      BY <3>1, <3>2, FS_Subset
  <2>3. Cardinality(Worker) <= Cardinality(workers_running \cap 0..Workers)
    BY <2>1, <2>2, FS_Subset
  <2>4. Cardinality(Worker) = Workers
    BY FS_Interval DEF Worker
  <2>5. counter = Cardinality(workers_running \cap 0..Workers)
    BY <1>1 DEF IInv, CountInv
  <2>6. counter \in Nat
    BY DEF IInv, TypeOK
  <2> QED
    BY <2>3, <2>4, <2>5, <2>6
<1>3. free \subseteq 0..Workers
  BY DEF Worker
<1>4. \E x \in free : \A y \in free : x <= y
  BY <1>2, <1>3, HasSmallest
<1>5. \E s \in Worker : /\ s \notin workers_running
                        /\ \A t \in Worker : t \notin workers_running => s <= t
  BY <1>4
<1> QED
  BY <1>5 DEF FirstUnoccupied

(***************************************************************************)
(* The invariant holds before the manager's first scan.                    *)
(***************************************************************************)
LEMMA InitEstablishes == Init => IInv
<1> SUFFICES ASSUME Init PROVE IInv
  OBVIOUS
<1>1. TypeOK
  BY DEF Init, TypeOK, Scanned, Pid, Job, Worker, Phase, Sizes
<1>2. CountInv
  <2>1. workers_running \cap 0..(at - 1) = {}
    BY DEF Init
  <2> QED
    BY <2>1, FS_EmptySet DEF Init, CountInv
<1>3. LinesInv
  BY DEF Init, LinesInv, Job
<1>4. TimelyInv
  BY DEF Init, TimelyInv, ForkedInv, HoldsInv, PictureInv, SlotExclusive,
         DoneMeansFinished, Live, Holding, Scanned
<1> QED
  BY <1>1, <1>2, <1>3, <1>4 DEF IInv

(***************************************************************************)
(* The manager looks at one lock file.                                     *)
(***************************************************************************)
LEMMA LookAtPreserves == IInv /\ LookAt => IInv'
<1> SUFFICES ASSUME IInv, LookAt PROVE IInv'
  OBVIOUS
<1>1. /\ at \in 0..Workers /\ at' = at + 1 /\ TypeOK
      /\ pc \in {"launch", "full", "drain"}
      /\ UNCHANGED <<size, lock, pc, line_id, last_bg, phase, worker_id, bg_pid, errors, kills>>
  BY DEF IInv, LookAt, Scanning, Scanned, workers
<1>2. CountInv'
  <2>1. counter = Cardinality(workers_running \cap 0..(at - 1))
    BY DEF IInv, CountInv
  <2>2. /\ Cardinality((workers_running \cup {at}) \cap 0..at)
             = Cardinality(workers_running \cap 0..(at - 1)) + 1
        /\ (workers_running \ {at}) \cap 0..at = workers_running \cap 0..(at - 1)
    <3>1. at \in 0..(Workers + 1)
      BY <1>1
    <3> QED
      BY ONLY <3>1, CountingSlots
  <2>3. at' - 1 = at
    BY <1>1
  <2>4. CASE Exists(at)
    <3>1. workers_running' = workers_running \cup {at} /\ counter' = counter + 1
      BY <2>4 DEF LookAt
    <3> QED
      BY <3>1, <2>1, <2>2, <2>3 DEF CountInv
  <2>5. CASE ~Exists(at)
    <3>1. workers_running' = workers_running \ {at} /\ counter' = counter
      BY <2>5 DEF LookAt
    <3> QED
      BY <3>1, <2>1, <2>2, <2>3 DEF CountInv
  <2> QED
    BY <2>4, <2>5
<1>3. TypeOK'
  <2>1. at' \in 0..(Workers + 1)
    BY <1>1
  <2>2. counter' \in 0..(Workers + 1)
    <3>1. Cardinality(workers_running' \cap 0..(at' - 1)) \in 0..at'
      BY <2>1, CountingSlots
    <3> QED
      BY <1>2, <2>1, <3>1 DEF CountInv
  <2>3. workers_running' \subseteq Scanned
    BY <1>1 DEF LookAt, TypeOK, Scanned
  <2> QED
    BY <1>1, <2>1, <2>2, <2>3 DEF TypeOK
<1>4. LinesInv'
  BY <1>1 DEF IInv, LinesInv
<1>5. ASSUME Timely PROVE TimelyInv'
  <2>1. TimelyInv
    BY <1>5 DEF IInv
  <2>2. ForkedInv' /\ HoldsInv' /\ SlotExclusive' /\ DoneMeansFinished'
    BY <1>1, <2>1 DEF TimelyInv, ForkedInv, HoldsInv, SlotExclusive, DoneMeansFinished,
                      Live, Holding, Over
  <2>3. PictureInv'
    <3> SUFFICES ASSUME NEW s \in Scanned, s < at', lock[s] # NoFile
                 PROVE  s \in workers_running'
      BY <1>1 DEF PictureInv
    <3>1. CASE s = at
      BY <3>1 DEF LookAt, Exists
    <3>2. CASE s < at
      BY <1>1, <2>1, <3>2 DEF LookAt, TimelyInv, PictureInv, Scanned
    <3> QED
      BY <1>1, <3>1, <3>2 DEF Scanned
  <2> QED
    BY <2>2, <2>3 DEF TimelyInv
<1> QED
  BY <1>2, <1>3, <1>4, <1>5 DEF IInv

(***************************************************************************)
(* A new scan starts with an empty picture, and when no worker has still   *)
(* to create its file.                                                     *)
(***************************************************************************)
LEMMA ScanForPreserves ==
  ASSUME IInv, NEW f \in {"launch", "full", "drain"}, ScanFor(f),
         f = "drain" => pc \in {"last_sleep", "drain"},
         Timely => \A j \in Job : phase[j] # "forked",
         UNCHANGED <<size, lock, workers_running, line_id, last_bg, workers>>
  PROVE  IInv'
<1>1. /\ TypeOK /\ pc' = f /\ at' = 0 /\ counter' = 0
      /\ UNCHANGED <<size, lock, workers_running, line_id, last_bg,
                     phase, worker_id, bg_pid, errors, kills>>
  BY DEF IInv, ScanFor, FreshCounter, workers
<1>2. TypeOK'
  BY <1>1 DEF TypeOK
<1>3. CountInv'
  <2>1. workers_running' \cap 0..(at' - 1) = {}
    BY <1>1
  <2> QED
    BY <1>1, <2>1, FS_EmptySet DEF CountInv
<1>4. LinesInv'
  BY <1>1 DEF IInv, LinesInv
<1>5. ASSUME Timely PROVE TimelyInv'
  BY <1>1, <1>5 DEF IInv, TimelyInv, ForkedInv, HoldsInv, PictureInv, SlotExclusive,
                    DoneMeansFinished, Live, Holding, Over, Scanned
<1> QED
  BY <1>2, <1>3, <1>4, <1>5 DEF IInv

(***************************************************************************)
(* While the manager scans, and unless it is in a sleep, there is no new   *)
(* worker: the sleeps end when there is none.                              *)
(***************************************************************************)
LEMMA NoneForked ==
  ASSUME IInv, Timely, pc \in {"launch", "full", "drain"} \/ LocksCreated
  PROVE  \A j \in Job : phase[j] # "forked"
BY DEF IInv, TimelyInv, ForkedInv, LocksCreated

(***************************************************************************)
(* The steps after which the manager scans again.                          *)
(***************************************************************************)
LEMMA RescanPreserves ==
  ASSUME IInv, AllBusy \/ Sleep \/ StillFull \/ StillBusy
  PROVE  IInv'
<1>1. CASE AllBusy
  BY <1>1, NoneForked, ScanForPreserves DEF AllBusy, ScanDone
<1>2. CASE Sleep
  <2>1. CASE pc = "sleep"
    BY <1>2, <2>1, NoneForked, ScanForPreserves DEF Sleep
  <2>2. CASE pc = "last_sleep"
    BY <1>2, <2>2, NoneForked, ScanForPreserves DEF Sleep
  <2> QED
    BY <1>2, <2>1, <2>2 DEF Sleep
<1>3. CASE StillFull
  <2>1. CASE counter = Workers
    BY <1>3, <2>1, NoneForked, ScanForPreserves DEF StillFull, ScanDone
  <2>2. CASE counter # Workers
    BY <1>3, <2>2, NoneForked, ScanForPreserves DEF StillFull, ScanDone
  <2> QED
    BY <2>1, <2>2
<1>4. CASE StillBusy
  BY <1>4, NoneForked, ScanForPreserves DEF StillBusy, ScanDone
<1> QED
  BY <1>1, <1>2, <1>3, <1>4

(***************************************************************************)
(* The manager forks a worker: its slot was not in the picture, so no live *)
(* worker has it.                                                          *)
(***************************************************************************)
LEMMA LaunchPreserves == IInv /\ Launch => IInv'
<1> SUFFICES ASSUME IInv, Launch PROVE IInv'
  OBVIOUS
<1> DEFINE slot == FirstUnoccupied
<1>1. slot \in Worker /\ slot \notin workers_running
  BY SlotIsFree DEF Launch
<1>2. /\ TypeOK /\ pc = "launch" /\ at = Workers + 1
      /\ size \in 0..Jobs /\ line_id \in Job /\ line_id <= size
      /\ pc' \in {"sleep", "last_sleep"}
      /\ pc' = "last_sleep" => line_id + 1 > size
      /\ line_id' = line_id + 1 /\ last_bg' = line_id
      /\ phase' = [phase EXCEPT ![line_id] = "forked"]
      /\ worker_id' = [worker_id EXCEPT ![line_id] = slot]
      /\ bg_pid' = [bg_pid EXCEPT ![line_id] = last_bg]
      /\ UNCHANGED <<size, lock, at, counter, workers_running, errors, kills>>
  BY DEF IInv, TypeOK, Launch, ScanDone, AllRead, Sizes, Job
<1> HIDE DEF slot
<1>3. TypeOK'
  BY <1>1, <1>2 DEF TypeOK, Job, Pid, Phase
<1>4. CountInv'
  BY <1>2 DEF IInv, CountInv
<1>5. LinesInv'
  <2>1. ASSUME NEW j \in Job PROVE j < line_id' <=> phase'[j] # "unread"
    BY <1>2 DEF IInv, LinesInv, TypeOK, Job
  <2> QED
    BY <1>2, <2>1 DEF LinesInv
<1>6. ASSUME Timely PROVE TimelyInv'
  <2>1. TimelyInv
    BY <1>6 DEF IInv
  <2>2. ASSUME NEW j \in Job, Live(j)
        PROVE  worker_id[j] # slot
    <3>1. Holding(j)
      BY <1>2, <2>1, <2>2 DEF TimelyInv, ForkedInv, Live
    <3>2. worker_id[j] \in Worker /\ lock[worker_id[j]] # NoFile
      BY <1>2, <2>1, <3>1 DEF TimelyInv, HoldsInv, TypeOK
    <3>3. worker_id[j] \in workers_running
      BY <1>2, <2>1, <3>2 DEF TimelyInv, PictureInv, Worker, Scanned
    <3> QED
      BY <1>1, <3>3
  <2>3. ASSUME NEW j \in Job, j # line_id
        PROVE  phase'[j] = phase[j] /\ worker_id'[j] = worker_id[j]
    BY <1>2, <2>3 DEF TypeOK
  <2>4. phase'[line_id] = "forked" /\ worker_id'[line_id] = slot
    BY <1>2 DEF TypeOK
  <2>5. ForkedInv' /\ PictureInv' /\ DoneMeansFinished'
    BY <1>2 DEF ForkedInv, PictureInv, DoneMeansFinished
  <2>6. HoldsInv'
    BY <1>2, <2>1, <2>3, <2>4 DEF TimelyInv, HoldsInv, Holding
  <2>7. SlotExclusive'
    <3> SUFFICES ASSUME NEW i \in Job, NEW j \in Job, Live(i)', Live(j)',
                        worker_id'[i] = worker_id'[j], i # j
                 PROVE  FALSE
      BY DEF SlotExclusive
    <3>1. CASE i = line_id
      BY <2>2, <2>3, <2>4, <3>1 DEF Live, Holding
    <3>2. CASE j = line_id
      BY <2>2, <2>3, <2>4, <3>2 DEF Live, Holding
    <3>3. CASE i # line_id /\ j # line_id
      BY <2>1, <2>3, <3>3 DEF TimelyInv, SlotExclusive, Live, Holding
    <3> QED
      BY <3>1, <3>2, <3>3
  <2> QED
    BY <2>5, <2>6, <2>7 DEF TimelyInv
<1> QED
  BY <1>3, <1>4, <1>5, <1>6 DEF IInv

(***************************************************************************)
(* The manager finds the list empty.                                       *)
(***************************************************************************)
LEMMA NothingToReadPreserves == IInv /\ NothingToRead => IInv'
<1> SUFFICES ASSUME IInv, NothingToRead PROVE IInv'
  OBVIOUS
<1>1. /\ TypeOK /\ pc = "launch" /\ pc' = "last_sleep" /\ line_id > size
      /\ UNCHANGED <<size, lock, at, counter, workers_running, line_id, last_bg,
                     phase, worker_id, bg_pid, errors, kills>>
  BY DEF IInv, NothingToRead, ScanDone, workers
<1>2. TypeOK' /\ CountInv' /\ LinesInv'
  BY <1>1 DEF IInv, TypeOK, CountInv, LinesInv
<1>3. ASSUME Timely PROVE TimelyInv'
  BY <1>1, <1>3 DEF IInv, TimelyInv, ForkedInv, HoldsInv, PictureInv, SlotExclusive,
                    DoneMeansFinished, Live, Holding
<1> QED
  BY <1>2, <1>3 DEF IInv

(***************************************************************************)
(* The manager ends: it has looked at every slot and found none busy, and  *)
(* every line has a worker.                                                *)
(***************************************************************************)
LEMMA AllFinishedPreserves == IInv /\ AllFinished => IInv'
<1> SUFFICES ASSUME IInv, AllFinished PROVE IInv'
  OBVIOUS
<1>1. /\ TypeOK /\ pc = "drain" /\ pc' = "done" /\ at = Workers + 1 /\ counter = 0
      /\ UNCHANGED <<size, lock, at, counter, workers_running, line_id, last_bg,
                     phase, worker_id, bg_pid, errors, kills>>
  BY DEF IInv, TypeOK, AllFinished, ScanDone, Drained, workers
<1>2. TypeOK' /\ CountInv' /\ LinesInv'
  BY <1>1 DEF IInv, TypeOK, CountInv, LinesInv
<1>3. workers_running \cap 0..Workers = {}
  <2>1. IsFiniteSet(workers_running \cap 0..(at - 1))
    <3>1. at \in 0..(Workers + 1)
      BY <1>1
    <3> QED
      BY ONLY <3>1, CountingSlots
  <2>2. Cardinality(workers_running \cap 0..(at - 1)) = 0
    BY <1>1 DEF IInv, CountInv
  <2>3. workers_running \cap 0..(at - 1) = {}
    BY <2>1, <2>2, FS_EmptySet
  <2> QED
    BY <1>1, <2>3
<1>4. ASSUME Timely PROVE TimelyInv'
  <2>1. TimelyInv
    BY <1>4 DEF IInv
  <2>2. ASSUME NEW j \in Job PROVE ~Live(j)
    <3>1. phase[j] # "forked"
      BY <1>1, <2>1 DEF TimelyInv, ForkedInv
    <3>2. ASSUME Holding(j) PROVE FALSE
      <4>1. worker_id[j] \in Worker /\ lock[worker_id[j]] # NoFile
        BY <1>1, <2>1, <3>2 DEF TimelyInv, HoldsInv, TypeOK
      <4> QED
        BY <1>1, <1>3, <2>1, <4>1 DEF TimelyInv, PictureInv, Worker, Scanned
    <3> QED
      BY <3>1, <3>2 DEF Live
  <2>3. DoneMeansFinished'
    <3> SUFFICES ASSUME NEW j \in 1..size PROVE Over(j)
      BY <1>1 DEF DoneMeansFinished, Over
    <3>1. j \in Job /\ j < line_id
      BY <1>1 DEF IInv, LinesInv, TypeOK, Sizes, Job
    <3>2. phase[j] # "unread" /\ phase[j] \in Phase
      BY <1>1, <3>1 DEF IInv, LinesInv, TypeOK
    <3> QED
      BY <2>2, <3>1, <3>2 DEF Over, Live, Holding, Phase
  <2> QED
    BY <1>1, <2>1, <2>3 DEF TimelyInv, ForkedInv, HoldsInv, PictureInv, SlotExclusive,
                            Live, Holding
<1> QED
  BY <1>2, <1>4 DEF IInv

(***************************************************************************)
(* What all steps of a worker have in common: they leave the manager       *)
(* alone, and every other worker.                                          *)
(***************************************************************************)
LEMMA WorkerFrame ==
  ASSUME IInv, NEW j \in Job, NEW p \in {"running", "succeeded", "failed", "ended", "killed"},
         Live(j), Goto(j, p), UNCHANGED <<size, manager, worker_id, bg_pid>>,
         lock' \in [Scanned -> Pid \cup {NoFile, Leftover}],
         errors' \subseteq Job, kills' \in 0..MaxKills
  PROVE  /\ TypeOK' /\ CountInv' /\ LinesInv'
         /\ phase'[j] = p
         /\ \A i \in Job : i # j => phase'[i] = phase[i]
         /\ Timely => /\ ForkedInv'
                       /\ DoneMeansFinished'
                       /\ SlotExclusive'
<1>1. /\ TypeOK /\ phase' = [phase EXCEPT ![j] = p]
      /\ UNCHANGED <<size, pc, at, counter, workers_running, line_id, last_bg,
                     worker_id, bg_pid>>
  BY DEF IInv, Goto, manager
<1>2. phase'[j] = p /\ \A i \in Job : i # j => phase'[i] = phase[i]
  BY <1>1 DEF TypeOK
<1>3. phase[j] \in {"forked", "running", "succeeded", "failed"}
  BY DEF Live, Holding
<1>4. TypeOK'
  BY <1>1 DEF TypeOK, Phase
<1>5. CountInv'
  BY <1>1 DEF IInv, CountInv
<1>6. LinesInv'
  BY <1>1, <1>2, <1>3 DEF IInv, LinesInv
<1>7. ASSUME Timely PROVE ForkedInv' /\ DoneMeansFinished' /\ SlotExclusive'
  <2>1. ForkedInv /\ DoneMeansFinished /\ SlotExclusive
    BY <1>7 DEF IInv, TimelyInv
  <2>2. ForkedInv'
    BY <1>1, <1>2, <2>1 DEF ForkedInv
  <2>3. DoneMeansFinished'
    <3> SUFFICES ASSUME pc = "done", NEW i \in 1..size PROVE Over(i)'
      BY <1>1 DEF DoneMeansFinished
    <3>1. i \in Job /\ Over(i)
      BY <1>1, <2>1 DEF DoneMeansFinished, TypeOK, Sizes, Job
    <3> QED
      BY <1>2, <1>3, <3>1 DEF Over
  <2>4. SlotExclusive'
    <3>1. ASSUME NEW i \in Job, Live(i)' PROVE Live(i)
      BY <1>2, <1>3, <3>1 DEF Live, Holding
    <3> QED
      BY <1>1, <2>1, <3>1 DEF SlotExclusive
  <2> QED
    BY <2>2, <2>3, <2>4
<1> QED
  BY <1>2, <1>4, <1>5, <1>6, <1>7

(***************************************************************************)
(* A worker creates its lock file: the manager is not looking.             *)
(***************************************************************************)
LEMMA CreateLockPreserves ==
  ASSUME IInv, NEW j \in Job, CreateLock(j) PROVE IInv'
<1>1. /\ TypeOK /\ worker_id[j] \in Worker /\ bg_pid[j] \in Pid
      /\ phase[j] = "forked" /\ Goto(j, "running")
      /\ lock' = [lock EXCEPT ![worker_id[j]] = bg_pid[j]]
      /\ UNCHANGED <<size, manager, worker_id, bg_pid, errors, kills>>
      /\ UNCHANGED <<pc, worker_id>>
  BY DEF IInv, TypeOK, CreateLock, manager
<1>2. /\ lock' \in [Scanned -> Pid \cup {NoFile, Leftover}]
      /\ lock'[worker_id[j]] # NoFile
      /\ \A s \in Scanned : lock[s] # NoFile => lock'[s] # NoFile
  BY <1>1 DEF TypeOK, Scanned, Worker, Pid
<1>3. Live(j) /\ errors' \subseteq Job /\ kills' \in 0..MaxKills
  BY <1>1 DEF Live, TypeOK
<1>4. /\ TypeOK' /\ CountInv' /\ LinesInv'
      /\ \A i \in Job : i # j => phase'[i] = phase[i]
      /\ Timely => ForkedInv' /\ DoneMeansFinished' /\ SlotExclusive'
  BY <1>1, <1>2, <1>3, WorkerFrame
<1>5. ASSUME Timely PROVE HoldsInv' /\ PictureInv'
  <2>1. TimelyInv
    BY <1>5 DEF IInv
  <2>2. HoldsInv'
    <3> SUFFICES ASSUME NEW i \in Job, Holding(i)', i # j
                 PROVE  lock'[worker_id[i]] # NoFile
      BY <1>1, <1>2 DEF HoldsInv
    <3>1. lock[worker_id[i]] # NoFile /\ worker_id[i] \in Scanned
      BY <1>1, <1>4, <2>1 DEF TimelyInv, HoldsInv, Holding, TypeOK, Worker, Scanned
    <3> QED
      BY <1>2, <3>1
  <2>3. PictureInv'
    BY <1>1, <2>1 DEF TimelyInv, ForkedInv, PictureInv
  <2> QED
    BY <2>2, <2>3
<1> QED
  BY <1>4, <1>5 DEF IInv, TimelyInv

(***************************************************************************)
(* A command ends, or a worker is killed: no lock file changes.            *)
(***************************************************************************)
LEMMA NoFileTouchedPreserves ==
  ASSUME IInv, NEW j \in Job, Succeed(j) \/ Fail(j) \/ Kill(j) PROVE IInv'
<1>1. PICK p \in {"succeeded", "failed", "killed"} :
        Goto(j, p) /\ (p # "killed" => phase[j] = "running")
  BY DEF Succeed, Fail, Kill
<1>2. /\ TypeOK /\ Live(j)
      /\ errors' \subseteq Job /\ kills' \in 0..MaxKills
      /\ UNCHANGED <<size, manager, worker_id, bg_pid>>
      /\ UNCHANGED <<lock, pc, at, workers_running>>
  BY DEF IInv, TypeOK, Succeed, Fail, Kill, Live, Holding, manager
<1>3. /\ TypeOK' /\ CountInv' /\ LinesInv'
      /\ phase'[j] = p
      /\ \A i \in Job : i # j => phase'[i] = phase[i]
      /\ Timely => ForkedInv' /\ DoneMeansFinished' /\ SlotExclusive'
  <2>1. lock' \in [Scanned -> Pid \cup {NoFile, Leftover}]
    BY <1>2 DEF TypeOK
  <2> QED
    BY <1>1, <1>2, <2>1, WorkerFrame
<1>4. ASSUME Timely PROVE HoldsInv' /\ PictureInv'
  <2>1. HoldsInv /\ PictureInv
    BY <1>4 DEF IInv, TimelyInv
  <2>2. ASSUME NEW i \in Job, Holding(i)' PROVE Holding(i)
    BY <1>1, <1>3, <2>2 DEF Holding
  <2> QED
    BY <1>2, <2>1, <2>2 DEF HoldsInv, PictureInv
<1> QED
  BY <1>3, <1>4 DEF IInv, TimelyInv

(***************************************************************************)
(* A worker removes its lock file: no other worker has the slot.           *)
(***************************************************************************)
LEMMA ReleasePreserves ==
  ASSUME IInv, NEW j \in Job, Release(j) PROVE IInv'
<1>1. /\ TypeOK /\ worker_id[j] \in Worker
      /\ Live(j) /\ Holding(j) /\ Goto(j, "ended")
      /\ lock' = [lock EXCEPT ![worker_id[j]] = NoFile]
      /\ UNCHANGED <<size, manager, worker_id, bg_pid, errors, kills>>
      /\ UNCHANGED <<pc, at, worker_id, workers_running>>
  BY DEF IInv, TypeOK, Release, Released, Live, Holding, manager
<1>2. /\ lock' \in [Scanned -> Pid \cup {NoFile, Leftover}]
      /\ \A s \in Scanned : s # worker_id[j] => lock'[s] = lock[s]
      /\ \A s \in Scanned : lock'[s] # NoFile => lock[s] # NoFile
  BY <1>1 DEF TypeOK, Scanned, Worker
<1>3. errors' \subseteq Job /\ kills' \in 0..MaxKills
  BY <1>1 DEF TypeOK
<1>4. /\ TypeOK' /\ CountInv' /\ LinesInv'
      /\ phase'[j] = "ended"
      /\ \A i \in Job : i # j => phase'[i] = phase[i]
      /\ Timely => ForkedInv' /\ DoneMeansFinished' /\ SlotExclusive'
  BY <1>1, <1>2, <1>3, WorkerFrame
<1>5. ASSUME Timely PROVE HoldsInv' /\ PictureInv'
  <2>1. TimelyInv
    BY <1>5 DEF IInv
  <2>2. ASSUME NEW i \in Job, Holding(i)' PROVE lock'[worker_id[i]] # NoFile
    <3>1. i # j /\ Holding(i)
      BY <1>4, <2>2 DEF Holding
    <3>2. worker_id[i] # worker_id[j]
      BY <1>1, <2>1, <3>1 DEF TimelyInv, SlotExclusive, Live
    <3>3. worker_id[i] \in Scanned /\ lock[worker_id[i]] # NoFile
      BY <1>1, <2>1, <3>1 DEF TimelyInv, HoldsInv, TypeOK, Worker, Scanned
    <3> QED
      BY <1>2, <3>2, <3>3
  <2>3. HoldsInv'
    BY <1>1, <2>2 DEF HoldsInv
  <2>4. PictureInv'
    BY <1>1, <1>2, <2>1 DEF TimelyInv, PictureInv
  <2> QED
    BY <2>3, <2>4
<1> QED
  BY <1>4, <1>5 DEF IInv, TimelyInv

(***************************************************************************)
(* Nothing happens.                                                        *)
(***************************************************************************)
LEMMA StutterPreserves == IInv /\ UNCHANGED vars => IInv'
BY DEF vars, manager, workers, IInv, TypeOK, CountInv, LinesInv, TimelyInv, ForkedInv,
       HoldsInv, PictureInv, SlotExclusive, DoneMeansFinished, Live, Holding, Over

(***************************************************************************)
(* Every step of the manager, of a worker and of the operating system      *)
(* preserves the invariant.                                                *)
(***************************************************************************)
LEMMA NextPreserves == IInv /\ [Next]_vars => IInv'
<1> SUFFICES ASSUME IInv, [Next]_vars PROVE IInv'
  OBVIOUS
<1>1. CASE Manage
  BY <1>1, LookAtPreserves, LaunchPreserves, NothingToReadPreserves, RescanPreserves,
     AllFinishedPreserves DEF Manage
<1>2. ASSUME NEW j \in Job, Work(j) \/ Kill(j) PROVE IInv'
  BY <1>2, CreateLockPreserves, NoFileTouchedPreserves, ReleasePreserves DEF Work
<1>3. CASE UNCHANGED vars
  BY <1>3, StutterPreserves
<1> QED
  BY <1>1, <1>2, <1>3 DEF Next

(***************************************************************************)
(* The inductive invariant holds in every reachable state.                 *)
(***************************************************************************)
THEOREM InductiveInvariant == Spec => []IInv
<1> QED
  BY InitEstablishes, NextPreserves, PTL DEF Spec

(***************************************************************************)
(* Type correctness: among other things, each worker is given a slot of    *)
(* its own range, whatever the sleeps.                                     *)
(***************************************************************************)
THEOREM TypeCorrect == Spec => []TypeOK
<1>1. IInv => TypeOK
  BY DEF IInv
<1> QED
  BY <1>1, InductiveInvariant, PTL

(***************************************************************************)
(* No two live workers have the same slot, if a worker creates its lock    *)
(* file before the manager looks again.                                    *)
(***************************************************************************)
THEOREM SlotsAreExclusive == ASSUME Timely PROVE Spec => []SlotExclusive
<1>1. IInv => SlotExclusive
  BY DEF IInv, TimelyInv
<1> QED
  BY <1>1, InductiveInvariant, PTL

(***************************************************************************)
(* Under the same condition the manager does not say Done before every     *)
(* line has been run.                                                      *)
(***************************************************************************)
THEOREM DoneIsFinished == ASSUME Timely PROVE Spec => []DoneMeansFinished
<1>1. IInv => DoneMeansFinished
  BY DEF IInv, TimelyInv
<1> QED
  BY <1>1, InductiveInvariant, PTL

(***************************************************************************)
(* Under the same condition no worker is given a slot whose lock file      *)
(* nobody will remove.                                                     *)
(***************************************************************************)
THEOREM OrphansAreAvoided == ASSUME Timely PROVE Spec => StaleSlotsAvoided
<1> DEFINE A == \A j \in Job : Launch /\ phase[j] # phase'[j] => worker_id'[j] \notin Orphans
<1>1. IInv /\ [Next]_vars => [A]_vars
  <2> SUFFICES ASSUME IInv, Launch, NEW j \in Job, phase[j] # phase'[j]
               PROVE  worker_id'[j] \notin Orphans
    OBVIOUS
  <2>1. FirstUnoccupied \in Worker /\ FirstUnoccupied \notin workers_running
    BY SlotIsFree DEF Launch
  <2>2. /\ pc = "launch" /\ at > Workers
        /\ phase' = [phase EXCEPT ![line_id] = "forked"]
        /\ worker_id' = [worker_id EXCEPT ![line_id] = FirstUnoccupied]
    BY DEF Launch, ScanDone
  <2>3. TypeOK /\ PictureInv
    BY DEF IInv, TimelyInv
  <2>4. j = line_id /\ worker_id'[j] = FirstUnoccupied
    BY <2>2, <2>3 DEF TypeOK
  <2>5. ASSUME FirstUnoccupied \in Orphans PROVE FALSE
    BY <2>1, <2>2, <2>3, <2>5 DEF Orphans, PictureInv, Worker, Scanned, TypeOK
  <2> QED
    BY <2>4, <2>5
<1>2. Spec => [][A]_vars
  BY <1>1, InductiveInvariant, PTL DEF Spec
<1> QED
  BY <1>2 DEF StaleSlotsAvoided
=============================================================================
