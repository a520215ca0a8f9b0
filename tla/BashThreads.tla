----------------------------- MODULE BashThreads -----------------------------
(***************************************************************************)
(* The job runner of src/misc-tools/bash_threads (threads.sh, the manager, *)
(* with libmanager.sh): it reads a list of commands and keeps up to        *)
(* Workers of them running in background subshells.                        *)
(*                                                                         *)
(* Manager and workers share nothing but lock files.  A worker marks its   *)
(* slot as busy by creating a file; the manager scans the files one after  *)
(* the other and hands the first slot it saw free to the next worker.      *)
(* Between fork and the creation of the file the slot still looks free:    *)
(* the manager sleeps 'to give time for creating locking files'.  Timely   *)
(* says whether that sleep is long enough.                                 *)
(*                                                                         *)
(* An operator whose name ends in Fault is no part of the model: it is the *)
(* operator below it with a plausible mistake.                             *)
(***************************************************************************)
EXTENDS Integers, FiniteSets

CONSTANTS
  Workers,    \* WORKERS_NUMBER of _config.sh
  Jobs,       \* bound on the lines of the list of commands
  Unterminated,   \* the last line of the list has no newline
  MaxKills,   \* bound: workers that die without running their last lines
  Timely,     \* a new worker creates its lock file within the sleeps
  NoFile, Leftover   \* contents of a lock file: none, or from an earlier run

ASSUME WorkersAssumption == Workers \in Nat \ {0}
ASSUME JobsAssumption == Jobs \in Nat \ {0}
ASSUME UnterminatedAssumption == Unterminated \in BOOLEAN
ASSUME KillsAssumption == MaxKills \in Nat
ASSUME TimelyAssumption == Timely \in BOOLEAN
ASSUME ContentAssumption == NoFile # Leftover /\ {NoFile, Leftover} \cap Nat = {}

Job    == 1..Jobs
Worker == 0..(Workers - 1)

(* update_workers_status runs over 'seq 0 N': one file more than workers. *)
Scanned == 0..Workers

(* Pids: the manager is 0, the process of job j is j. *)
Pid == 0..Jobs

(* wc -l counts newlines, and read fails on a line without one. *)
Sizes == IF Unterminated THEN 0..(Jobs - 1) ELSE 0..Jobs

VARIABLES
  size,      \* complete lines, as counted by wc -l; never changed
  lock,      \* content of each lock file
  pc,        \* the function the manager is in
  at,        \* next lock file of its scan
  counter,   \* lock files the scan has found
  workers_running,   \* slots the manager takes for busy
  line_id,   \* next line
  last_bg,   \* the manager's $!
  phase,     \* where the worker of each job is
  worker_id, bg_pid, \* what each worker has copied from the manager
  errors,    \* jobs in the error file
  kills      \* workers that died

manager == <<pc, at, counter, workers_running, line_id, last_bg>>
workers == <<phase, worker_id, bg_pid, errors, kills>>
vars == <<size, lock, manager, workers>>

Init ==
  /\ size \in Sizes
  /\ lock \in [Scanned -> {NoFile, Leftover}]
  /\ pc = "launch"
  /\ at = 0
  /\ counter = 0
  /\ workers_running = {}
  /\ line_id = 1
  /\ last_bg = 0
  /\ phase = [j \in Job |-> "unread"]
  /\ worker_id = [j \in Job |-> 0]
  /\ bg_pid = [j \in Job |-> 0]
  /\ errors = {}
  /\ kills = 0

-----------------------------------------------------------------------------
(***************************************************************************)
(* The manager: update_workers_status, one file per step, then what the    *)
(* calling function does with its result.                                  *)
(***************************************************************************)
Scanning == pc \in {"launch", "full", "drain"} /\ at \in Scanned
ScanDone(f) == pc = f /\ at > Workers

ExistsFault(s) == lock[s] \notin {NoFile, Leftover}
Exists(s) == lock[s] # NoFile

LookAt ==
  /\ Scanning
  /\ IF Exists(at)
     THEN /\ workers_running' = workers_running \cup {at}
          /\ counter' = counter + 1
     ELSE /\ workers_running' = workers_running \ {at}
          /\ UNCHANGED counter
  /\ at' = at + 1
  /\ UNCHANGED <<size, lock, pc, line_id, last_bg, workers>>

FreshCounter == 0

(* A new scan, for function f. *)
ScanFor(f) ==
  /\ pc' = f
  /\ at' = 0
  /\ counter' = FreshCounter

FirstUnoccupied ==
  CHOOSE s \in Worker : /\ s \notin workers_running
                        /\ \A t \in Worker : t \notin workers_running => s <= t

AllReadFault == line_id + 1 >= size
AllRead == line_id + 1 > size

(* launch_workers: fork start_worker, which copies the manager's variables. *)
Launch ==
  /\ ScanDone("launch")
  /\ counter < Workers
  /\ line_id <= size
  /\ phase' = [phase EXCEPT ![line_id] = "forked"]
  /\ worker_id' = [worker_id EXCEPT ![line_id] = FirstUnoccupied]
  /\ bg_pid' = [bg_pid EXCEPT ![line_id] = last_bg]
  /\ last_bg' = line_id
  /\ line_id' = line_id + 1
  /\ pc' = IF AllRead THEN "last_sleep" ELSE "sleep"
  /\ UNCHANGED <<size, lock, at, counter, workers_running, errors, kills>>

(* The read fails on the first call only: the list has no complete line. *)
NothingToRead ==
  /\ ScanDone("launch")
  /\ counter < Workers
  /\ line_id > size
  /\ pc' = "last_sleep"
  /\ UNCHANGED <<size, lock, at, counter, workers_running, line_id, last_bg, workers>>

AllBusy ==
  /\ ScanDone("launch")
  /\ counter >= Workers
  /\ ScanFor("full")
  /\ UNCHANGED <<size, lock, workers_running, line_id, last_bg, workers>>

LocksCreatedFault == TRUE
LocksCreated == Timely => \A j \in Job : phase[j] # "forked"

(* sleep 2 in launch_workers, sleep 1 before wait_till_all_finish. *)
Sleep ==
  /\ pc \in {"sleep", "last_sleep"}
  /\ LocksCreated
  /\ ScanFor(IF pc = "sleep" THEN "launch" ELSE "drain")
  /\ UNCHANGED <<size, lock, workers_running, line_id, last_bg, workers>>

(* wait_till_some_unoccupied *)
StillFull ==
  /\ ScanDone("full")
  /\ ScanFor(IF counter = Workers THEN "full" ELSE "launch")
  /\ UNCHANGED <<size, lock, workers_running, line_id, last_bg, workers>>

DrainedFault == counter <= 1
Drained == counter = 0

(* wait_till_all_finish *)
StillBusy ==
  /\ ScanDone("drain")
  /\ ~Drained
  /\ ScanFor("drain")
  /\ UNCHANGED <<size, lock, workers_running, line_id, last_bg, workers>>

AllFinished ==
  /\ ScanDone("drain")
  /\ Drained
  /\ pc' = "done"
  /\ UNCHANGED <<size, lock, at, counter, workers_running, line_id, last_bg, workers>>

Manage == \/ LookAt \/ Launch \/ NothingToRead \/ AllBusy \/ Sleep
          \/ StillFull \/ StillBusy \/ AllFinished

-----------------------------------------------------------------------------
(***************************************************************************)
(* A worker: start_worker and run_task.                                    *)
(***************************************************************************)
(* The worker has created its lock file, and has not removed it. *)
Holding(j) == phase[j] \in {"running", "succeeded", "failed"}
Live(j)    == phase[j] = "forked" \/ Holding(j)

Goto(j, p) == phase' = [phase EXCEPT ![j] = p]

CreateLock(j) ==
  /\ phase[j] = "forked"
  /\ lock' = [lock EXCEPT ![worker_id[j]] = bg_pid[j]]
  /\ Goto(j, "running")
  /\ UNCHANGED <<size, manager, worker_id, bg_pid, errors, kills>>

Succeed(j) ==
  /\ phase[j] = "running"
  /\ Goto(j, "succeeded")
  /\ UNCHANGED <<size, lock, manager, worker_id, bg_pid, errors, kills>>

Fail(j) ==
  /\ phase[j] = "running"
  /\ Goto(j, "failed")
  /\ errors' = errors \cup {j}
  /\ UNCHANGED <<size, lock, manager, worker_id, bg_pid, kills>>

ReleasedFault(j) ==
  IF phase[j] = "failed" THEN lock ELSE [lock EXCEPT ![worker_id[j]] = NoFile]
Released(j) == [lock EXCEPT ![worker_id[j]] = NoFile]

(* rm -f: no error if the file is gone. *)
Release(j) ==
  /\ phase[j] \in {"succeeded", "failed"}
  /\ lock' = Released(j)
  /\ Goto(j, "ended")
  /\ UNCHANGED <<size, manager, worker_id, bg_pid, errors, kills>>

(* The environment: the subshell of a worker is killed, its file stays. *)
Kill(j) ==
  /\ kills < MaxKills
  /\ Live(j)
  /\ Goto(j, "killed")
  /\ kills' = kills + 1
  /\ UNCHANGED <<size, lock, manager, worker_id, bg_pid, errors>>

Work(j) == CreateLock(j) \/ Succeed(j) \/ Fail(j) \/ Release(j)

Quiet == pc = "done" /\ \A j \in Job : ~Live(j)

Next ==
  \/ Manage
  \/ \E j \in Job : Work(j) \/ Kill(j)
  \/ Quiet /\ UNCHANGED vars

Spec == Init /\ [][Next]_vars

(* The operating system runs every process, and every command ends. *)
FairSpec ==
  /\ Spec
  /\ WF_vars(Manage)
  /\ \A j \in Job : WF_vars(Work(j))

-----------------------------------------------------------------------------
(***************************************************************************)
(* Type invariant.  Every worker has got a slot of its own range, so that  *)
(* get_first_id_of_unoccupied_worker never falls through to its return -1, *)
(* although the scan counts one slot more than there are workers.          *)
(***************************************************************************)
Phase == {"unread", "forked", "running", "succeeded", "failed", "ended", "killed"}

TypeOK ==
  /\ size \in Sizes
  /\ lock \in [Scanned -> Pid \cup {NoFile, Leftover}]
  /\ pc \in {"launch", "full", "drain", "sleep", "last_sleep", "done"}
  /\ at \in 0..(Workers + 1)
  /\ counter \in 0..(Workers + 1)
  /\ workers_running \subseteq Scanned
  /\ line_id \in 1..(Jobs + 1)
  /\ last_bg \in Pid
  /\ phase \in [Job -> Phase]
  /\ worker_id \in [Job -> Worker]
  /\ bg_pid \in [Job -> Pid]
  /\ errors \subseteq Job
  /\ kills \in 0..MaxKills

(***************************************************************************)
(* A slot belongs to one worker at a time: two live workers never have the *)
(* same slot, so that no worker removes the lock file of another and no    *)
(* two write to the same log file.  There are thus never more than Workers *)
(* of them.  It needs Timely: the manager's picture of the slots is old    *)
(* when it is used, but wrong only about workers that have ended.          *)
(***************************************************************************)
SlotExclusive ==
  \A i, j \in Job : Live(i) /\ Live(j) /\ worker_id[i] = worker_id[j] => i = j

(***************************************************************************)
(* A slot whose lock file nobody will remove (left by an earlier run, or   *)
(* by a worker that was killed) is never handed out.                       *)
(***************************************************************************)
Orphans ==
  {s \in Scanned : /\ lock[s] # NoFile
                   /\ \A j \in Job : Holding(j) => worker_id[j] # s}

StaleSlotsAvoided == [][\A j \in Job : Launch /\ phase[j] # phase'[j]
                                         => worker_id'[j] \notin Orphans]_vars

(***************************************************************************)
(* threads.sh:97 says 'Waiting till all workers will finish their work':   *)
(* when the manager ends, the worker of every complete line has been       *)
(* started and is over.                                                    *)
(***************************************************************************)
Over(j) == phase[j] \in {"ended", "killed"}

DoneMeansFinished == pc = "done" => \A j \in 1..size : Over(j)

(***************************************************************************)
(* Every complete line of the list is executed, as long as the slots lost  *)
(* to an earlier run or to a killed worker leave one to use.               *)
(***************************************************************************)
Lost == Cardinality({s \in Scanned : lock[s] = Leftover}) + kills

EveryLineRuns ==
  [](Lost < Workers) => \A j \in Job : <>(j <= size => Over(j))

(***************************************************************************)
(* The manager ends, whatever commands fail, if no slot is lost; a single  *)
(* one can make it wait for ever.                                          *)
(***************************************************************************)
ManagerEnds == [](Lost = 0) => <>(pc = "done")

(***************************************************************************)
(* The comment at threads.sh:7 says of start_worker that it 'Creates file  *)
(* with pid of that process'.  $! is inherited from the manager: it is the *)
(* pid of the worker started before, or of the manager.                    *)
(***************************************************************************)
LockHoldsOwnPid ==
  \A j \in Job : Holding(j) => lock[worker_id[j]] = j

(***************************************************************************)
(* README.txt:4 says 'Each job is taken and is executed with worker'.  A   *)
(* last line without newline is counted by nobody and never executed.      *)
(***************************************************************************)
Listed == IF Unterminated THEN 1..(size + 1) ELSE 1..size

EachJobIsExecuted ==
  [](Lost = 0) => \A j \in Job : <>(j \in Listed => Over(j))

-----------------------------------------------------------------------------
(***************************************************************************)
(* The inductive invariant behind TypeOK, SlotExclusive, StaleSlotsAvoided *)
(* and DoneMeansFinished; the last three need Timely.                      *)
(***************************************************************************)

(* The counter of a scan and its picture of the slots agree. *)
CountInv == counter = Cardinality(workers_running \cap 0..(at - 1))

(* The lines before line_id, and no others, have a worker. *)
LinesInv ==
  /\ \A j \in Job : j < line_id <=> phase[j] # "unread"
  /\ pc \in {"last_sleep", "drain", "done"} => line_id > size

(* The manager does not look while a worker has still to create its file. *)
ForkedInv == \A j \in Job : phase[j] = "forked" => pc \in {"sleep", "last_sleep"}

HoldsInv == \A j \in Job : Holding(j) => lock[worker_id[j]] # NoFile

(* Of the slots looked at, the manager misses no busy one. *)
PictureInv ==
  pc \in {"launch", "full", "drain"} =>
    \A s \in Scanned : s < at /\ lock[s] # NoFile => s \in workers_running

TimelyInv ==
  /\ ForkedInv
  /\ HoldsInv
  /\ PictureInv
  /\ SlotExclusive
  /\ DoneMeansFinished

IInv ==
  /\ TypeOK
  /\ CountInv
  /\ LinesInv
  /\ Timely => TimelyInv
=============================================================================
