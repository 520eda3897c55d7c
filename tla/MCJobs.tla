------------------------------- MODULE MCJobs -------------------------------
(* Small instances for TLC of the jobs' goroutines: a job that the API     *)
(* makes and two nodes claim, a migration that is scheduled until it is     *)
(* complete, and the schedulers of a node, once with configurations that    *)
(* are saved and once, as Schedulers itself, with more changes of the       *)
(* leader at a time. In a behaviour one of them runs and the others rest,   *)
(* so that their state spaces are not multiplied.                           *)
EXTENDS Schedulers, TLC

CONSTANTS n1, n2,      \* nodes
          s1,          \* a job made by the API
          m1, m2, m3,  \* migration jobs
          NoJob,
          c1, c2,      \* changes of the leader
          v1           \* a configuration that is saved

VARIABLES service,
          c_db, c_replica, c_node, c_watcher, c_worker, c_sched, c_cancel,
          c_applied, c_faults, c_cancels,
          m_db, m_replica, m_node, m_watcher, m_worker, m_sched, m_cancel,
          m_applied, m_faults, m_cancels,
          d_leader, d_enabled, d_change, d_save, d_mut, d_queue, d_isLeader,
          d_nextRun, d_running, d_loop, d_starts, d_closed, d_listening,
          d_faults

claimVars == <<c_db, c_replica, c_node, c_watcher, c_worker, c_sched,
               c_cancel, c_applied, c_faults, c_cancels>>
migrationVars == <<m_db, m_replica, m_node, m_watcher, m_worker, m_sched,
                   m_cancel, m_applied, m_faults, m_cancels>>
schedulerVars == <<d_leader, d_enabled, d_change, d_save, d_mut, d_queue,
                   d_isLeader, d_nextRun, d_running, d_loop, d_starts,
                   d_closed, d_listening, d_faults>>

jobVars == <<service, claimVars, migrationVars, schedulerVars, vars>>

(* Two nodes that read a replica, and no scheduler. *)
Claims == INSTANCE JobServer WITH
  Nodes <- {n1, n2}, Leaders <- {}, SimpleJobs <- {s1},
  MigrationJobs <- {}, Batches <- 0, MaxFaults <- 1, MaxCancels <- 1,
  HasReplica <- TRUE, SlowWorkers <- FALSE,
  db <- c_db, replica <- c_replica, node <- c_node, watcher <- c_watcher,
  worker <- c_worker, sched <- c_sched, cancel <- c_cancel,
  applied <- c_applied, faults <- c_faults, cancels <- c_cancels

(* One node that schedules the migration up to three times. *)
Migrations == INSTANCE JobServer WITH
  Nodes <- {n1}, Leaders <- {n1}, SimpleJobs <- {},
  MigrationJobs <- {m1, m2, m3}, Batches <- 1, MaxFaults <- 1,
  MaxCancels <- 1, HasReplica <- FALSE, SlowWorkers <- FALSE,
  db <- m_db, replica <- m_replica, node <- m_node, watcher <- m_watcher,
  worker <- m_worker, sched <- m_sched, cancel <- m_cancel,
  applied <- m_applied, faults <- m_faults, cancels <- m_cancels

Sched == INSTANCE Schedulers WITH
  Changes <- {c1, c2}, Saves <- {v1}, MaxStarts <- 2, MaxFaults <- 1,
  leader <- d_leader, enabled <- d_enabled, change <- d_change,
  save <- d_save, mut <- d_mut, queue <- d_queue, isLeader <- d_isLeader,
  nextRun <- d_nextRun, running <- d_running, loop <- d_loop,
  starts <- d_starts, closed <- d_closed, listening <- d_listening,
  faults <- d_faults

ASSUME InstancesAssumption ==
  /\ Claims!JobServerAssumption /\ Migrations!JobServerAssumption
  /\ Sched!SchedulersAssumption /\ SchedulersAssumption

-----------------------------------------------------------------------------

(* Nothing of the migration goes on by itself: it is complete, and the node *)
(* is neither up nor to be restarted. The others rest where they begin.     *)
MigrationsRest ==
  /\ m_db = [jobs |-> [j \in {m1, m2, m3} |->
                       [status |-> "none", createAt |-> 0, data |-> 0,
                        idle |-> FALSE]],
             completed |-> TRUE]
  /\ m_replica = m_db
  /\ m_node = [n \in {n1} |-> "rests"]
  /\ m_watcher = [n \in {n1} |-> {}]
  /\ m_worker = [w \in Migrations!Workers |-> Migrations!Idle]
  /\ m_sched = [n \in {n1} |-> Migrations!Waiting]
  /\ m_cancel = NoJob
  /\ m_applied = {1} /\ m_faults = 0 /\ m_cancels = 0

JobsInit == /\ service \in {"claims", "migrations", "schedulers", "leaders"}
            /\ IF service = "migrations" THEN Migrations!Init ELSE MigrationsRest
            /\ Claims!Init /\ Sched!Init /\ Init
            /\ service # "schedulers" => d_enabled
            /\ service # "leaders" => enabled

JobsNext ==
  /\ UNCHANGED service
  /\ \/ /\ service = "claims" /\ Claims!Next
        /\ UNCHANGED <<migrationVars, schedulerVars, vars>>
     \/ /\ service = "migrations" /\ Migrations!Next
        /\ UNCHANGED <<claimVars, schedulerVars, vars>>
     \/ /\ service = "schedulers" /\ Sched!Next
        /\ UNCHANGED <<claimVars, migrationVars, vars>>
     \/ /\ service = "leaders" /\ Next
        /\ UNCHANGED <<claimVars, migrationVars, schedulerVars>>

JobsSpec == /\ JobsInit /\ [][JobsNext]_jobVars
            /\ Claims!Fairness /\ Migrations!Fairness /\ Sched!Fairness

-----------------------------------------------------------------------------

(* A pending job does not wait for ever, although the poll that finds its   *)
(* worker busy drops it, and one of the nodes that poll it runs it, although*)
(* they read a replica that lags (jobs_watcher.go, PollAndNotify, and       *)
(* jobs.go, ClaimJob).                                                      *)
TakenByOne == []Claims!RunsAlone /\ Claims!PendingTaken

(* The migration gets done in spite of crashes, stops, errors and           *)
(* cancellations (migrations/scheduler.go).                                 *)
MigrationCompletes == Migrations!MigrationCompletes

(* Saving a configuration is not held up by schedulers that stop, have      *)
(* stopped or are started again (schedulers.go, handleConfigChange).        *)
SavesReturn == Sched!SaveReturns

(* Once changes end, running schedulers act as the leader exactly if this   *)
(* node leads the cluster, and a scheduler that is enabled on the leader    *)
(* has a next time to run (schedulers.go, Start).                           *)
SchedulersFollow == Sched!LeadershipSettles /\ Sched!KeepsScheduling
=============================================================================
