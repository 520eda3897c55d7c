----------------------------- MODULE JobServer -----------------------------
(***************************************************************************)
(* The job server of a cluster (jobs/jobs.go, jobs_watcher.go,             *)
(* base_workers.go, jobs/migrations): nodes that poll the Jobs table for   *)
(* pending jobs and run them, requests to cancel, and the scheduler that   *)
(* keeps making migration jobs until the migration is complete.  A node    *)
(* has one worker per type of job: "simple" (SimpleWorker) and             *)
(* "migrations" (the migrations Worker, which works in batches, records    *)
(* its progress and watches for a cancellation).                           *)
(*                                                                         *)
(* Every statement sent to the database is a step.  Statements that write  *)
(* go to the master, those that read to a replica, which may lag.          *)
(***************************************************************************)
EXTENDS Integers, FiniteSets

CONSTANTS Nodes,
          Leaders,        \* nodes whose schedulers are the leader's
          SimpleJobs,     \* jobs that the API makes
          MigrationJobs,  \* bound: jobs that the migrations scheduler makes
          NoJob,
          Batches,        \* batches of the migration
          MaxFaults,      \* bound: crashes, stops and failing statements
          MaxCancels,     \* bound: requests to cancel a job
          HasReplica,     \* whether reads go to a replica that lags
          SlowWorkers     \* whether a job may be without activity for an hour
                          \* although it waits for a worker or has one

Jobs == SimpleJobs \cup MigrationJobs

JobServerAssumption ==
  /\ Leaders \subseteq Nodes
  /\ NoJob \notin Jobs /\ SimpleJobs \cap MigrationJobs = {}
  /\ IsFiniteSet(Jobs)
  /\ Batches \in Nat /\ MaxFaults \in Nat /\ MaxCancels \in Nat
  /\ HasReplica \in BOOLEAN /\ SlowWorkers \in BOOLEAN

Workers == Nodes \X {"simple", "migrations"}

TypeOf(j) == IF j \in SimpleJobs THEN "simple" ELSE "migrations"

VARIABLES db,       \* the tables: jobs, and whether the migration's System
                    \* row says it is complete
          replica,  \* what reads see, if HasReplica
          node,     \* node[n]: whether n is up
          watcher,  \* watcher[n]: pending jobs that PollAndNotify still has
                    \* to offer
          worker,   \* worker[w]: where worker w is, with which job
          sched,    \* sched[n]: the migrations scheduler of n
          cancel,   \* the job of a RequestCancellation between its statements
          applied,  \* the batches that have been applied to the data
          faults, cancels  \* used parts of the bounds

vars == <<db, replica, node, watcher, worker, sched, cancel, applied, faults,
          cancels>>

Status == {"none", "pending", "in_progress", "cancel_requested", "success",
           "error", "canceled"}

(* data is job.Data's last_done: how many batches are done.  idle says that *)
(* CreateAt and LastActivityAt are more than an hour ago.                   *)
Job == [status : Status, createAt : Nat, data : 0 .. Batches, idle : BOOLEAN]

Tables == [jobs : [Jobs -> Job], completed : BOOLEAN]

WorkerState == [pc : {"idle", "candidate", "running", "update", "success",
                      "error", "error2", "canceling"},
                job : Jobs \cup {NoJob}, data : 0 .. Batches,
                canceled : BOOLEAN]

SchedState == [pc : {"wait", "wedged", "create", "finished"},
               job : Jobs \cup {NoJob}, data : 0 .. Batches]

TypeOK == /\ db \in Tables /\ replica \in Tables
          /\ node \in [Nodes -> {"up", "stopping", "down"}]
          /\ watcher \in [Nodes -> SUBSET Jobs]
          /\ worker \in [Workers -> WorkerState]
          /\ sched \in [Nodes -> SchedState]
          /\ cancel \in Jobs \cup {NoJob}
          /\ applied \subseteq 1 .. Batches
          /\ faults \in 0 .. MaxFaults /\ cancels \in 0 .. MaxCancels

Idle == [pc |-> "idle", job |-> NoJob, data |-> 0, canceled |-> FALSE]

Waiting == [pc |-> "wait", job |-> NoJob, data |-> 0]

Init == /\ db = [jobs |-> [j \in Jobs |-> [status |-> "none", createAt |-> 0,
                                           data |-> 0, idle |-> FALSE]],
                 completed |-> FALSE]
        /\ replica = db
        /\ node = [n \in Nodes |-> "up"]
        /\ watcher = [n \in Nodes |-> {}]
        /\ worker = [w \in Workers |-> Idle]
        /\ sched = [n \in Nodes |-> Waiting]
        /\ cancel = NoJob
        /\ applied = {}
        /\ faults = 0 /\ cancels = 0

-----------------------------------------------------------------------------

(* The job store. *)

Seen == IF HasReplica THEN replica ELSE db

Replicate == /\ HasReplica /\ replica # db
             /\ replica' = db
             /\ UNCHANGED <<db, node, watcher, worker, sched, cancel, applied,
                            faults, cancels>>

StatusOf(j) == db.jobs[j].status

(* Save, with a CreateAt later than all others. *)
Save(j, d) ==
  db' = [db EXCEPT !.jobs[j] =
           [status |-> "pending",
            createAt |-> 1 + Cardinality({k \in Jobs : StatusOf(k) # "none"}),
            data |-> d, idle |-> FALSE]]

(* UpdateStatus: whatever the status is. *)
UpdateStatus(j, s) ==
  db' = [db EXCEPT !.jobs[j].status = s, !.jobs[j].idle = FALSE]

(* UpdateStatusOptimistically, and UpdateOptimistically, which also writes  *)
(* the data of the job in hand: nothing happens unless the status is the    *)
(* one expected.                                                            *)
UpdateStatusOptimistically(j, from, to) ==
  db' = IF StatusOf(j) = from
          THEN [db EXCEPT !.jobs[j].status = to, !.jobs[j].idle = FALSE]
          ELSE db

UpdateOptimistically(j, d, from, to) ==
  db' = IF StatusOf(j) = from
          THEN [db EXCEPT !.jobs[j].status = to, !.jobs[j].data = d,
                          !.jobs[j].idle = FALSE]
          ELSE db

(* A fault, within the bound. *)
Fault == faults < MaxFaults /\ faults' = faults + 1

-----------------------------------------------------------------------------

(* Creating and cancelling jobs through the API. *)

CreateJob(j) ==
  /\ j \in SimpleJobs /\ StatusOf(j) = "none"
  /\ Save(j, 0)
  /\ UNCHANGED <<replica, node, watcher, worker, sched, cancel, applied,
                 faults, cancels>>

RequestCancellation(j) ==
  /\ cancel = NoJob /\ cancels < MaxCancels
  /\ StatusOf(j) # "none"
  /\ cancels' = cancels + 1
  /\ UpdateStatusOptimistically(j, "pending", "canceled")
  /\ cancel' = IF StatusOf(j) = "pending" THEN NoJob ELSE j
  /\ UNCHANGED <<replica, node, watcher, worker, sched, applied, faults>>

(* Mutant of CancelRunning: the status is written without being tested. *)
CancelRunningBlind ==
  /\ cancel # NoJob
  /\ UpdateStatus(cancel, "cancel_requested")
  /\ cancel' = NoJob
  /\ UNCHANGED <<replica, node, watcher, worker, sched, applied, faults,
                 cancels>>

(* The second statement of RequestCancellation. *)
CancelRunning ==
  /\ cancel # NoJob
  /\ UpdateStatusOptimistically(cancel, "in_progress", "cancel_requested")
  /\ cancel' = NoJob
  /\ UNCHANGED <<replica, node, watcher, worker, sched, applied, faults,
                 cancels>>

-----------------------------------------------------------------------------

(* PollAndNotify. *)

(* Mutant of Poll: only the leader polls. *)
PollLeader(n) ==
  /\ n \in Leaders /\ node[n] = "up" /\ watcher[n] = {}
  /\ watcher' = [watcher EXCEPT ![n] =
                   {j \in Jobs : Seen.jobs[j].status = "pending"}]
  /\ watcher' # watcher
  /\ UNCHANGED <<db, replica, node, worker, sched, cancel, applied, faults,
                 cancels>>

Poll(n) ==
  /\ node[n] = "up" /\ watcher[n] = {}
  /\ watcher' = [watcher EXCEPT ![n] =
                   {j \in Jobs : Seen.jobs[j].status = "pending"}]
  /\ watcher' # watcher
  /\ UNCHANGED <<db, replica, node, worker, sched, cancel, applied, faults,
                 cancels>>

(* The worker's channel has no buffer: the job is dropped unless the worker *)
(* is waiting for one.  (Its data is read here at the claim: it does not    *)
(* change while the job is pending.)                                        *)
Notify(n) ==
  \E j \in watcher[n] :
    LET w == <<n, TypeOf(j)>>
    IN  /\ \A k \in watcher[n] : db.jobs[j].createAt <= db.jobs[k].createAt
        /\ watcher' = [watcher EXCEPT ![n] = @ \ {j}]
        /\ worker' = IF worker[w].pc = "idle"
                       THEN [worker EXCEPT ![w].pc = "candidate", ![w].job = j]
                       ELSE worker
        /\ UNCHANGED <<db, replica, node, sched, cancel, applied, faults,
                       cancels>>

-----------------------------------------------------------------------------

(* The workers' DoJob. *)

Goes(w, pc) == worker' = [worker EXCEPT ![w].pc = pc]

Leaves(w) == worker' = [worker EXCEPT ![w] = Idle]

Claim(w) ==
  LET j == worker[w].job
  IN  /\ worker[w].pc = "candidate"
      /\ \/ /\ UpdateStatusOptimistically(j, "pending", "in_progress")
            /\ worker' = IF StatusOf(j) = "pending"
                           THEN [worker EXCEPT ![w].pc = "running",
                                               ![w].data = db.jobs[j].data]
                           ELSE [worker EXCEPT ![w] = Idle]
            /\ UNCHANGED faults
         \/ Fault /\ Leaves(w) /\ UNCHANGED db
      /\ UNCHANGED <<replica, node, watcher, sched, cancel, applied, cancels>>

(* SimpleWorker: the job is executed in one go. *)
Execute(w) ==
  /\ w[2] = "simple" /\ worker[w].pc = "running"
  /\ \/ Goes(w, "success") /\ UNCHANGED faults
     \/ Goes(w, "error") /\ Fault
  /\ UNCHANGED <<db, replica, node, watcher, sched, cancel, applied, cancels>>

(* Mutant of Batch: the progress counts a batch that failed. *)
BatchCountsFailure(w) ==
  LET d == worker[w].data
  IN  /\ w[2] = "migrations" /\ worker[w].pc = "running"
      /\ \/ /\ d < Batches
            /\ worker' = [worker EXCEPT ![w].pc = "update", ![w].data = d + 1]
            /\ applied' = applied \cup {d + 1}
            /\ UNCHANGED <<db, faults>>
         \/ /\ d = Batches
            /\ Goes(w, IF db.completed THEN "error" ELSE "success")
            /\ db' = [db EXCEPT !.completed = TRUE]
            /\ UNCHANGED <<applied, faults>>
         \/ /\ Fault /\ d < Batches
            /\ worker' = [worker EXCEPT ![w].pc = "error", ![w].data = d + 1]
            /\ UNCHANGED <<db, applied>>
      /\ UNCHANGED <<replica, node, watcher, sched, cancel, cancels>>

(* Mutant of Batch: one batch too many. *)
BatchOffByOne(w) ==
  LET d == worker[w].data
  IN  /\ w[2] = "migrations" /\ worker[w].pc = "running"
      /\ d <= Batches
      /\ worker' = [worker EXCEPT ![w].pc = "update", ![w].data = d + 1]
      /\ applied' = applied \cup {d + 1}
      /\ UNCHANGED <<db, faults, replica, node, watcher, sched, cancel,
                     cancels>>

(* runMigration: the next batch, or, when none is left, the System row that *)
(* says so, whose insertion fails if it is there already.                   *)
Batch(w) ==
  LET d == worker[w].data
  IN  /\ w[2] = "migrations" /\ worker[w].pc = "running"
      /\ \/ /\ d < Batches
            /\ worker' = [worker EXCEPT ![w].pc = "update", ![w].data = d + 1]
            /\ applied' = applied \cup {d + 1}
            /\ UNCHANGED <<db, faults>>
         \/ /\ d = Batches
            /\ Goes(w, IF db.completed THEN "error" ELSE "success")
            /\ db' = [db EXCEPT !.completed = TRUE]
            /\ UNCHANGED <<applied, faults>>
         \/ Fault /\ Goes(w, "error") /\ UNCHANGED <<db, applied>>
      /\ UNCHANGED <<replica, node, watcher, sched, cancel, cancels>>

(* Whether a row was updated is not looked at. *)
UpdateInProgressJobData(w) ==
  /\ worker[w].pc = "update"
  /\ \/ /\ UpdateOptimistically(worker[w].job, worker[w].data, "in_progress",
                                "in_progress")
        /\ Goes(w, "running") /\ UNCHANGED faults
     \/ Fault /\ Goes(w, "error") /\ UNCHANGED db
  /\ UNCHANGED <<replica, node, watcher, sched, cancel, applied, cancels>>

Busy(w) == worker[w].pc \notin {"idle", "candidate"}

(* The cancellation watcher of a migration job closes cancelChan. *)
CancellationWatcher(w) ==
  /\ w[2] = "migrations" /\ Busy(w) /\ ~worker[w].canceled
  /\ Seen.jobs[worker[w].job].status = "cancel_requested"
  /\ worker' = [worker EXCEPT ![w].canceled = TRUE]
  /\ UNCHANGED <<db, replica, node, watcher, sched, cancel, applied, faults,
                 cancels>>

(* Between two batches the worker sees the cancellation, or the stop of the *)
(* workers.                                                                 *)
SeesCancel(w) ==
  /\ w[2] = "migrations" /\ worker[w].pc = "running"
  /\ worker[w].canceled \/ node[w[1]] = "stopping"
  /\ Goes(w, "canceling")
  /\ UNCHANGED <<db, replica, node, watcher, sched, cancel, applied, faults,
                 cancels>>

SetJobCanceled(w) ==
  /\ worker[w].pc = "canceling"
  /\ \/ UpdateStatus(worker[w].job, "canceled") /\ UNCHANGED faults
     \/ Fault /\ UNCHANGED db
  /\ Leaves(w)
  /\ UNCHANGED <<replica, node, watcher, sched, cancel, applied, cancels>>

SetJobSuccess(w) ==
  /\ worker[w].pc = "success"
  /\ \/ /\ UpdateStatus(worker[w].job, "success")
        /\ Leaves(w) /\ UNCHANGED faults
     \/ Fault /\ Goes(w, "error") /\ UNCHANGED db
  /\ UNCHANGED <<replica, node, watcher, sched, cancel, applied, cancels>>

(* SetJobError, its first statement and, if that updated nothing, its       *)
(* second.                                                                  *)
SetJobError(w) ==
  LET j == worker[w].job
  IN  /\ worker[w].pc \in {"error", "error2"}
      /\ \/ /\ worker[w].pc = "error"
            /\ UpdateOptimistically(j, worker[w].data, "in_progress", "error")
            /\ IF StatusOf(j) = "in_progress" THEN Leaves(w)
                                              ELSE Goes(w, "error2")
            /\ UNCHANGED faults
         \/ /\ worker[w].pc = "error2"
            /\ UpdateOptimistically(j, worker[w].data, "cancel_requested",
                                    "error")
            /\ Leaves(w) /\ UNCHANGED faults
         \/ Fault /\ Leaves(w) /\ UNCHANGED db
      /\ UNCHANGED <<replica, node, watcher, sched, cancel, applied, cancels>>

-----------------------------------------------------------------------------

(* The migrations scheduler, on the leader. *)

Newest(j) ==
  /\ j \in MigrationJobs /\ Seen.jobs[j].status # "none"
  /\ \A k \in MigrationJobs : Seen.jobs[k].status # "none" =>
       Seen.jobs[k].createAt <= Seen.jobs[j].createAt

Decides(n, pc, j, d) ==
  sched' = [sched EXCEPT ![n] = [pc |-> pc, job |-> j, data |-> d]]

(* Mutant of ScheduleJob: a job to be cancelled counts as in progress. *)
ScheduleJobWaits(n) ==
  /\ n \in Leaders /\ node[n] = "up" /\ sched[n].pc = "wait"
  /\ \/ Seen.completed /\ Decides(n, "finished", NoJob, 0)
     \/ /\ ~Seen.completed
        /\ ~\E j \in MigrationJobs : Newest(j)
        /\ Decides(n, "create", NoJob, 0)
     \/ /\ ~Seen.completed
        /\ \E j \in MigrationJobs :
             /\ Newest(j)
             /\ IF Seen.jobs[j].status
                     \in {"in_progress", "pending", "cancel_requested"}
                  THEN /\ Seen.jobs[j].idle
                       /\ Decides(n, "wedged", j, Seen.jobs[j].data)
                  ELSE Decides(n, "create", j, Seen.jobs[j].data)
  /\ UNCHANGED <<db, replica, node, watcher, worker, cancel, applied, faults,
                 cancels>>

(* ScheduleJob reads the state of the migration: complete, never scheduled, *)
(* in progress (then only a wedged job is replaced), or ended.              *)
ScheduleJob(n) ==
  /\ n \in Leaders /\ node[n] = "up" /\ sched[n].pc = "wait"
  /\ \/ Seen.completed /\ Decides(n, "finished", NoJob, 0)
     \/ /\ ~Seen.completed
        /\ ~\E j \in MigrationJobs : Newest(j)
        /\ Decides(n, "create", NoJob, 0)
     \/ /\ ~Seen.completed
        /\ \E j \in MigrationJobs :
             /\ Newest(j)
             /\ IF Seen.jobs[j].status \in {"in_progress", "pending"}
                  THEN /\ Seen.jobs[j].idle
                       /\ Decides(n, "wedged", j, Seen.jobs[j].data)
                  ELSE Decides(n, "create", j, Seen.jobs[j].data)
  /\ UNCHANGED <<db, replica, node, watcher, worker, cancel, applied, faults,
                 cancels>>

(* SetJobError(job, nil) of a wedged job. *)
GiveUpWedged(n) ==
  /\ sched[n].pc = "wedged"
  /\ \/ UpdateStatus(sched[n].job, "error") /\ UNCHANGED faults
     \/ Fault /\ UNCHANGED db
  /\ sched' = [sched EXCEPT ![n].pc = "create"]
  /\ UNCHANGED <<replica, node, watcher, worker, cancel, applied, cancels>>

CreateMigrationJob(n) ==
  /\ sched[n].pc = "create"
  /\ \/ /\ \E j \in MigrationJobs : StatusOf(j) = "none" /\ Save(j, sched[n].data)
        /\ UNCHANGED faults
     \/ Fault /\ UNCHANGED db
  /\ sched' = [sched EXCEPT ![n] = Waiting]
  /\ UNCHANGED <<replica, node, watcher, worker, cancel, applied, cancels>>

(* An hour passes without activity on job j. *)
HourPasses(j) ==
  /\ StatusOf(j) \in {"pending", "in_progress"} /\ ~db.jobs[j].idle
  /\ \/ SlowWorkers
     \/ /\ StatusOf(j) = "in_progress"
        /\ ~\E w \in Workers : Busy(w) /\ worker[w].job = j
  /\ db' = [db EXCEPT !.jobs[j].idle = TRUE]
  /\ UNCHANGED <<replica, node, watcher, worker, sched, cancel, applied,
                 faults, cancels>>

-----------------------------------------------------------------------------

(* Nodes. *)

Gone(n, s) ==
  /\ node' = [node EXCEPT ![n] = s]
  /\ watcher' = [watcher EXCEPT ![n] = {}]
  /\ worker' = [w \in Workers |-> IF w[1] = n THEN Idle ELSE worker[w]]
  /\ sched' = [sched EXCEPT ![n] = Waiting]

Crash(n) == /\ node[n] # "down" /\ Fault
            /\ Gone(n, "down")
            /\ UNCHANGED <<db, replica, cancel, applied, cancels>>

Restart(n) == /\ node[n] = "down"
              /\ Gone(n, "up")
              /\ UNCHANGED <<db, replica, cancel, applied, faults, cancels>>

(* Workers.Stop: the watcher first, then the workers, each at the end of    *)
(* its job or, if it can, between two batches.                              *)
StopWorkers(n) ==
  /\ node[n] = "up" /\ watcher[n] = {} /\ Fault
  /\ node' = [node EXCEPT ![n] = "stopping"]
  /\ UNCHANGED <<db, replica, watcher, worker, sched, cancel, applied,
                 cancels>>

Stopped(n) ==
  /\ node[n] = "stopping"
  /\ \A w \in Workers : w[1] = n => worker[w].pc = "idle"
  /\ sched[n].pc \in {"wait", "finished"}
  /\ Gone(n, "down")
  /\ UNCHANGED <<db, replica, cancel, applied, faults, cancels>>

-----------------------------------------------------------------------------

WorkerStep(w) ==
  \/ Claim(w) \/ Execute(w) \/ Batch(w) \/ UpdateInProgressJobData(w)
  \/ SeesCancel(w) \/ SetJobCanceled(w) \/ SetJobSuccess(w) \/ SetJobError(w)

SchedulerStep(n) == ScheduleJob(n) \/ GiveUpWedged(n) \/ CreateMigrationJob(n)

Next == \/ Replicate \/ CancelRunning
        \/ \E j \in Jobs : CreateJob(j) \/ RequestCancellation(j)
                           \/ HourPasses(j)
        \/ \E w \in Workers : WorkerStep(w) \/ CancellationWatcher(w)
        \/ \E n \in Nodes : \/ Poll(n) \/ Notify(n) \/ SchedulerStep(n)
                            \/ Crash(n) \/ Restart(n)
                            \/ StopWorkers(n) \/ Stopped(n)

Spec == Init /\ [][Next]_vars

(***************************************************************************)
(* The goroutines of a node that is up go on, a ticker drives the watcher, *)
(* the schedulers and the cancellation watcher, and time passes.  A node   *)
(* that is down is started again.  Nothing forces a job, a request to      *)
(* cancel or a fault.                                                      *)
(***************************************************************************)
Fairness ==
  /\ \A w \in Workers : WF_vars(WorkerStep(w)) /\ WF_vars(CancellationWatcher(w))
  /\ \A n \in Nodes : /\ WF_vars(Poll(n)) /\ WF_vars(Notify(n))
                      /\ WF_vars(SchedulerStep(n))
                      /\ WF_vars(Restart(n)) /\ WF_vars(Stopped(n))
  /\ \A j \in Jobs : WF_vars(HourPasses(j))
  /\ WF_vars(Replicate)

FairSpec == Spec /\ Fairness

-----------------------------------------------------------------------------

(* However many nodes poll the same pending job, one of them runs it, and   *)
(* it is run once (jobs.go:61).                                             *)
RunsAlone == \A v, w \in Workers :
               Busy(v) /\ Busy(w) /\ worker[v].job = worker[w].job => v = w

(* No batch of the migration is skipped, whatever was cancelled, failed or  *)
(* started again in between: what a job records as done has been applied,   *)
(* and the migration is called complete (worker.go:172) only when every     *)
(* batch has been.                                                          *)
NeverSkips == /\ \A j \in Jobs : 1 .. db.jobs[j].data \subseteq applied
              /\ db.completed => applied = 1 .. Batches

(* A pending job does not wait for ever: the poll that finds its worker     *)
(* busy drops it (jobs_watcher.go:78), and a later one finds it again.      *)
PendingTaken == \A j \in Jobs : StatusOf(j) = "pending" ~> StatusOf(j) # "pending"

(* The migration gets done in spite of crashes, stops, errors and           *)
(* cancellations, as long as they end (migrations/scheduler.go:42-78).      *)
MigrationCompletes == <>db.completed

(* What JobLifecycle knows of the jobs: their statuses, and who runs them. *)
Lifecycle ==
  INSTANCE JobLifecycle WITH
    None <- NoJob,
    status <- [j \in Jobs |-> StatusOf(j)],
    runner <- [j \in Jobs |->
                 IF \E w \in Workers : Busy(w) /\ worker[w].job = j
                   THEN CHOOSE w \in Workers : Busy(w) /\ worker[w].job = j
                   ELSE NoJob]

(* The jobs live as JobLifecycle promises, as long as only a job that has   *)
(* lost its worker can look wedged: whatever nodes do at the same time, a   *)
(* job is run at most once, by one worker, and an end is final (jobs.go,    *)
(* ClaimJob, SetJobSuccess, RequestCancellation and the others).            *)
LifecycleSpec == Lifecycle!Spec
=============================================================================
