-------------------------- MODULE JobServerProofs ---------------------------
(***************************************************************************)
(* Proofs about JobServer, for any number of nodes, jobs and batches, with *)
(* and without a replica.                                                  *)
(***************************************************************************)
EXTENDS JobServer, FiniteSetTheorems, TLAPS

(* A job in hand is a job, one that is run has been claimed, and by one     *)
(* worker only.                                                             *)
Claimed ==
  /\ \A w \in Workers : worker[w].pc # "idle" => worker[w].job \in Jobs
  /\ \A w \in Workers :
       Busy(w) => StatusOf(worker[w].job) \notin {"none", "pending"}
  /\ \A n \in Nodes : sched[n].pc = "wedged" => sched[n].job \in Jobs
  /\ RunsAlone

(* Wherever a number of batches done is kept, these have been applied: in   *)
(* the rows, in what a replica has of them, and in the hands of a worker or *)
(* of a scheduler.                                                          *)
Recorded ==
  /\ \A j \in Jobs : 1 .. db.jobs[j].data \subseteq applied
  /\ \A j \in Jobs : 1 .. replica.jobs[j].data \subseteq applied
  /\ \A w \in Workers : 1 .. worker[w].data \subseteq applied
  /\ \A n \in Nodes : 1 .. sched[n].data \subseteq applied
  /\ db.completed => applied = 1 .. Batches

(* The inductive invariant. *)
Inv == TypeOK /\ Claimed /\ Recorded

(* A statement that writes the row of j. *)
RowStep(j, status, data) ==
  /\ db' \in Tables /\ db'.completed = db.completed
  /\ \A k \in Jobs \ {j} : db'.jobs[k] = db.jobs[k]
  /\ db'.jobs[j].status = status /\ db'.jobs[j].data = data
  /\ ~db'.jobs[j].idle

-----------------------------------------------------------------------------

(* What the statements do to the table. *)

LEMMA RowFacts ==
  ASSUME NEW j \in Jobs, NEW r \in Job, db \in Tables, ~r.idle,
         db' = [db EXCEPT !.jobs = [db.jobs EXCEPT ![j] = r]]
  PROVE  RowStep(j, r.status, r.data)
<1>1. db.jobs \in [Jobs -> Job] /\ db.completed \in BOOLEAN
  BY Zenon DEF Tables
<1> DEFINE t == [db.jobs EXCEPT ![j] = r]
<1>2. t \in [Jobs -> Job] /\ t[j] = r /\ \A k \in Jobs \ {j} : t[k] = db.jobs[k]
  BY <1>1
<1>3. db' = [db EXCEPT !.jobs = t]
  OBVIOUS
<1> HIDE DEF t
<1>4. db' \in Tables /\ db'.completed = db.completed /\ db'.jobs = t
  BY <1>2, <1>3, Zenon DEF Tables
<1> QED  BY <1>2, <1>4 DEF RowStep

LEMMA SaveRow ==
  ASSUME JobServerAssumption, TypeOK, NEW j \in Jobs, NEW d \in 0 .. Batches, Save(j, d)
  PROVE  RowStep(j, "pending", d)
<1> DEFINE C == {k \in Jobs : StatusOf(k) # "none"}
           c == 1 + Cardinality(C)
           r == [status |-> "pending", createAt |-> c, data |-> d, idle |-> FALSE]
<1>1. IsFiniteSet(C) /\ Cardinality(C) \in Nat
  BY FS_Subset, FS_CardinalityType DEF JobServerAssumption
<1>2. c \in Nat
  BY <1>1
<1>3. db \in Tables /\ db' = [db EXCEPT !.jobs = [db.jobs EXCEPT ![j] = r]]
  BY DEF Save, TypeOK
<1> HIDE DEF c
<1>4. r \in Job /\ r.status = "pending" /\ r.data = d /\ ~r.idle
  BY <1>2, Zenon DEF Job, Status
<1> HIDE DEF r
<1> QED  BY <1>3, <1>4, RowFacts

LEMMA UpdateStatusRow ==
  ASSUME TypeOK, NEW j \in Jobs, NEW s \in Status, UpdateStatus(j, s)
  PROVE  RowStep(j, s, db.jobs[j].data)
<1> DEFINE r == [db.jobs[j] EXCEPT !.status = s, !.idle = FALSE]
<1>1. db \in Tables /\ db.jobs \in [Jobs -> Job] /\ db.jobs[j] \in Job
  BY Zenon DEF TypeOK, Tables
<1>2. db' = [db EXCEPT !.jobs = [db.jobs EXCEPT ![j] = r]]
  BY <1>1 DEF UpdateStatus
<1>3. r \in Job /\ r.status = s /\ r.data = db.jobs[j].data /\ ~r.idle
  BY <1>1, Zenon DEF Job
<1> HIDE DEF r
<1> QED  BY <1>1, <1>2, <1>3, RowFacts

LEMMA UpdateStatusOptimisticallyRow ==
  ASSUME TypeOK, NEW j \in Jobs, NEW from, NEW to \in Status,
         UpdateStatusOptimistically(j, from, to)
  PROVE  IF StatusOf(j) = from THEN RowStep(j, to, db.jobs[j].data) ELSE db' = db
<1>1. CASE StatusOf(j) = from
  BY <1>1, UpdateStatusRow DEF UpdateStatusOptimistically, UpdateStatus
<1>2. CASE StatusOf(j) # from
  BY <1>2 DEF UpdateStatusOptimistically
<1> QED  BY <1>1, <1>2

LEMMA UpdateOptimisticallyRow ==
  ASSUME TypeOK, NEW j \in Jobs, NEW d \in 0 .. Batches, NEW from, NEW to \in Status,
         UpdateOptimistically(j, d, from, to)
  PROVE  IF StatusOf(j) = from THEN RowStep(j, to, d) ELSE db' = db
<1>1. CASE StatusOf(j) = from
  <2> DEFINE r == [db.jobs[j] EXCEPT !.status = to, !.data = d, !.idle = FALSE]
  <2>1. db \in Tables /\ db.jobs \in [Jobs -> Job] /\ db.jobs[j] \in Job
    BY Zenon DEF TypeOK, Tables
  <2>2. db' = [db EXCEPT !.jobs = [db.jobs EXCEPT ![j] = r]]
    BY <1>1, <2>1 DEF UpdateOptimistically
  <2>3. r \in Job /\ r.status = to /\ r.data = d /\ ~r.idle
    BY <2>1, Zenon DEF Job
  <2> HIDE DEF r
  <2> QED  BY <1>1, <2>1, <2>2, <2>3, RowFacts
<1>2. CASE StatusOf(j) # from
  BY <1>2 DEF UpdateOptimistically
<1> QED  BY <1>1, <1>2

(* What a step does to a worker. *)

LEMMA WorkerFacts ==
  ASSUME TypeOK, NEW w \in Workers, NEW s \in WorkerState,
         worker' = [worker EXCEPT ![w] = s]
  PROVE  /\ worker' \in [Workers -> WorkerState] /\ worker'[w] = s
         /\ \A v \in Workers \ {w} : worker'[v] = worker[v]
  BY DEF TypeOK

LEMMA IdleType ==
  ASSUME JobServerAssumption
  PROVE  Idle \in WorkerState /\ Idle.pc = "idle" /\ Idle.data = 0
         /\ Waiting \in SchedState /\ Waiting.pc = "wait" /\ Waiting.data = 0
<1>1. 0 \in 0 .. Batches
  BY DEF JobServerAssumption
<1> QED  BY <1>1, Zenon DEF Idle, WorkerState, Waiting, SchedState

LEMMA LeavesFacts ==
  ASSUME JobServerAssumption, TypeOK, NEW w \in Workers, Leaves(w)
  PROVE  /\ worker' \in [Workers -> WorkerState]
         /\ worker'[w].pc = "idle" /\ worker'[w].data = 0
         /\ \A v \in Workers \ {w} : worker'[v] = worker[v]
  BY IdleType, WorkerFacts DEF Leaves

Pcs == {"idle", "candidate", "running", "update", "success", "error", "error2",
        "canceling"}

LEMMA GoesFacts ==
  ASSUME TypeOK, NEW w \in Workers, NEW pc \in Pcs, Goes(w, pc)
  PROVE  /\ worker' \in [Workers -> WorkerState]
         /\ worker'[w].pc = pc /\ worker'[w].job = worker[w].job
         /\ worker'[w].data = worker[w].data
         /\ \A v \in Workers \ {w} : worker'[v] = worker[v]
<1> DEFINE s == [worker[w] EXCEPT !.pc = pc]
<1>1. worker \in [Workers -> WorkerState] /\ worker[w] \in WorkerState
  BY DEF TypeOK
<1>2. worker' = [worker EXCEPT ![w] = s]
  BY <1>1 DEF Goes
<1>3. s \in WorkerState /\ s.pc = pc /\ s.job = worker[w].job /\ s.data = worker[w].data
  BY <1>1, Zenon DEF WorkerState, Pcs
<1> HIDE DEF s
<1> QED  BY <1>2, <1>3, WorkerFacts

LEMMA FaultType ==
  ASSUME JobServerAssumption, TypeOK, Fault
  PROVE  faults' \in 0 .. MaxFaults
  BY DEF JobServerAssumption, TypeOK, Fault

(* The fields of what is in hand. *)
LEMMA Fields ==
  ASSUME TypeOK
  PROVE  /\ \A w \in Workers : /\ worker[w] \in WorkerState
                               /\ worker[w].job \in Jobs \cup {NoJob}
                               /\ worker[w].data \in 0 .. Batches
                               /\ worker[w].pc \in Pcs
         /\ \A n \in Nodes : /\ sched[n] \in SchedState
                             /\ sched[n].job \in Jobs \cup {NoJob}
                             /\ sched[n].data \in 0 .. Batches
         /\ \A j \in Jobs : /\ db.jobs[j] \in Job /\ replica.jobs[j] \in Job
                            /\ db.jobs[j].data \in 0 .. Batches
                            /\ replica.jobs[j].data \in 0 .. Batches
                            /\ StatusOf(j) \in Status
<1>1. worker \in [Workers -> WorkerState] /\ sched \in [Nodes -> SchedState]
  BY DEF TypeOK
<1>2. \A s \in WorkerState : /\ s.job \in Jobs \cup {NoJob} /\ s.data \in 0 .. Batches
                             /\ s.pc \in Pcs
  BY Zenon DEF WorkerState, Pcs
<1>3. \A s \in SchedState : s.job \in Jobs \cup {NoJob} /\ s.data \in 0 .. Batches
  BY Zenon DEF SchedState
<1>4. \A t \in Tables : \A j \in Jobs : t.jobs[j] \in Job
  BY Zenon DEF Tables
<1>5. \A r \in Job : r.data \in 0 .. Batches /\ r.status \in Status
  BY Zenon DEF Job
<1>6. db \in Tables /\ replica \in Tables
  BY DEF TypeOK
<1> QED  BY <1>1, <1>2, <1>3, <1>4, <1>5, <1>6 DEF StatusOf

(* Steps other than a claim: no job becomes pending, and no worker takes a  *)
(* job except as a candidate.                                               *)
LEMMA ClaimedStep ==
  ASSUME Inv, TypeOK',
         \A j \in Jobs : StatusOf(j) \notin {"none", "pending"}
                           => (StatusOf(j) \notin {"none", "pending"})',
         \A w \in Workers :
           \/ worker'[w].pc = "idle"
           \/ worker'[w].pc = "candidate" /\ worker'[w].job \in Jobs
           \/ Busy(w) /\ worker'[w].job = worker[w].job
           \/ worker'[w] = worker[w],
         \A n \in Nodes : sched'[n].pc = "wedged" => sched'[n].job \in Jobs
  PROVE  Claimed'
<1>1. \A w \in Workers : Busy(w)' => Busy(w) /\ worker'[w].job = worker[w].job
  BY DEF Busy
<1>2. \A w \in Workers : Busy(w) => worker[w].job \in Jobs
  BY DEF Inv, Claimed, Busy
<1>3. \A w \in Workers : (Busy(w) => StatusOf(worker[w].job) \notin {"none", "pending"})'
  BY <1>1, <1>2 DEF Inv, Claimed, StatusOf
<1>4. \A w \in Workers : (worker[w].pc # "idle" => worker[w].job \in Jobs)'
  BY <1>2 DEF Inv, Claimed
<1>5. RunsAlone'
  BY <1>1 DEF Inv, Claimed, RunsAlone
<1> QED  BY <1>3, <1>4, <1>5 DEF Claimed

-----------------------------------------------------------------------------

(* The steps. *)

LEMMA ReplicateInv ==
  ASSUME Inv, Replicate
  PROVE  Inv'
<1>1. /\ replica' = db
      /\ UNCHANGED <<db, node, watcher, worker, sched, cancel, applied, faults, cancels>>
  BY DEF Replicate
<1>2. TypeOK'
  BY <1>1 DEF Inv, TypeOK
<1>3. Recorded'
  BY <1>1 DEF Inv, Recorded
<1>4. Claimed'
  BY <1>1, <1>2, ClaimedStep DEF Inv, Claimed, StatusOf
<1> QED  BY <1>2, <1>3, <1>4 DEF Inv

(* A row is written by a step that leaves the workers alone. *)
LEMMA RowInv ==
  ASSUME Inv, NEW j \in Jobs, NEW s \in Status, NEW d \in 0 .. Batches,
         RowStep(j, s, d), 1 .. d \subseteq applied,
         StatusOf(j) \notin {"none", "pending"} => s \notin {"none", "pending"},
         UNCHANGED <<replica, worker, applied>>,
         \A n \in Nodes : sched'[n].pc = "wedged" => sched'[n].job \in Jobs,
         \A n \in Nodes : 1 .. sched'[n].data \subseteq applied,
         TypeOK'
  PROVE  Inv'
<1>1. \A k \in Jobs : 1 .. db'.jobs[k].data \subseteq applied
  BY DEF RowStep, Inv, Recorded
<1>2. db'.completed <=> db.completed
  BY DEF RowStep
<1>3. Recorded'
  BY <1>1, <1>2 DEF Inv, Recorded
<1>4. \A k \in Jobs : StatusOf(k) \notin {"none", "pending"}
                        => (StatusOf(k) \notin {"none", "pending"})'
  BY DEF RowStep, StatusOf
<1>5. Claimed'
  BY <1>4, ClaimedStep
<1> QED  BY <1>3, <1>5 DEF Inv

LEMMA CreateJobInv ==
  ASSUME JobServerAssumption, Inv, NEW j \in Jobs, CreateJob(j)
  PROVE  Inv'
<1>1. UNCHANGED <<replica, node, watcher, worker, sched, cancel, applied, faults, cancels>>
  BY DEF CreateJob
<1>2. 0 \in 0 .. Batches /\ 1 .. 0 \subseteq applied
  BY DEF JobServerAssumption
<1>3. RowStep(j, "pending", 0)
  BY <1>2, SaveRow DEF CreateJob, Inv
<1>4. StatusOf(j) = "none"
  BY DEF CreateJob
<1>5. TypeOK'
  BY <1>1, <1>3 DEF Inv, TypeOK, RowStep
<1> QED  BY <1>1, <1>2, <1>3, <1>4, <1>5, RowInv DEF Inv, Claimed, Recorded, Status

LEMMA RequestCancellationInv ==
  ASSUME JobServerAssumption, Inv, NEW j \in Jobs, RequestCancellation(j)
  PROVE  Inv'
<1>1. /\ UNCHANGED <<replica, node, watcher, worker, sched, applied, faults>>
      /\ cancel' \in Jobs \cup {NoJob}
  BY DEF RequestCancellation
<1>2. cancels' \in 0 .. MaxCancels
  BY DEF RequestCancellation, Inv, TypeOK, JobServerAssumption
<1>3. IF StatusOf(j) = "pending" THEN RowStep(j, "canceled", db.jobs[j].data) ELSE db' = db
  BY UpdateStatusOptimisticallyRow DEF RequestCancellation, Inv, Status
<1>4. TypeOK'
  BY <1>1, <1>2, <1>3 DEF Inv, TypeOK, RowStep
<1>5. CASE StatusOf(j) = "pending"
  BY <1>1, <1>3, <1>4, <1>5, RowInv, Fields DEF Inv, Claimed, Recorded, Status
<1>6. CASE db' = db
  <2>1. Claimed'
    BY <1>1, <1>4, <1>6, ClaimedStep DEF Inv, Claimed, StatusOf
  <2>2. Recorded'
    BY <1>1, <1>6 DEF Inv, Recorded
  <2> QED  BY <1>4, <2>1, <2>2 DEF Inv
<1> QED  BY <1>3, <1>5, <1>6

LEMMA CancelRunningInv ==
  ASSUME JobServerAssumption, Inv, CancelRunning
  PROVE  Inv'
<1>1. /\ UNCHANGED <<replica, node, watcher, worker, sched, applied, faults, cancels>>
      /\ cancel' = NoJob /\ cancel \in Jobs
  BY DEF CancelRunning, Inv, TypeOK
<1>2. IF StatusOf(cancel) = "in_progress"
        THEN RowStep(cancel, "cancel_requested", db.jobs[cancel].data) ELSE db' = db
  BY <1>1, UpdateStatusOptimisticallyRow DEF CancelRunning, Inv, Status
<1>3. TypeOK'
  BY <1>1, <1>2 DEF Inv, TypeOK, RowStep
<1>4. CASE StatusOf(cancel) = "in_progress"
  BY <1>1, <1>2, <1>3, <1>4, RowInv, Fields DEF Inv, Claimed, Recorded, Status
<1>5. CASE db' = db
  <2>1. Claimed'
    BY <1>1, <1>3, <1>5, ClaimedStep DEF Inv, Claimed, StatusOf
  <2>2. Recorded'
    BY <1>1, <1>5 DEF Inv, Recorded
  <2> QED  BY <1>3, <2>1, <2>2 DEF Inv
<1> QED  BY <1>2, <1>4, <1>5

LEMMA PollInv ==
  ASSUME Inv, NEW n \in Nodes, Poll(n)
  PROVE  Inv'
<1>1. UNCHANGED <<db, replica, node, worker, sched, cancel, applied, faults, cancels>>
  BY DEF Poll
<1>2. watcher' \in [Nodes -> SUBSET Jobs]
  BY DEF Poll, Inv, TypeOK
<1>3. TypeOK'
  BY <1>1, <1>2 DEF Inv, TypeOK
<1>4. Claimed'
  BY <1>1, <1>3, ClaimedStep DEF Inv, Claimed, StatusOf
<1>5. Recorded'
  BY <1>1 DEF Inv, Recorded
<1> QED  BY <1>3, <1>4, <1>5 DEF Inv

(* A step of worker w that writes no row: what it has in hand is known. *)
LEMMA HandInv ==
  ASSUME Inv, NEW w \in Workers, TypeOK',
         UNCHANGED <<db, replica, sched, applied>>,
         \A v \in Workers \ {w} : worker'[v] = worker[v],
         1 .. worker'[w].data \subseteq applied,
         \/ worker'[w].pc = "idle"
         \/ worker'[w].pc = "candidate" /\ worker'[w].job \in Jobs
         \/ (Busy(w) /\ worker'[w].job = worker[w].job)
  PROVE  Inv'
<1>1. Claimed'
  BY ClaimedStep DEF Inv, Claimed, StatusOf
<1>2. Recorded'
  BY DEF Inv, Recorded
<1> QED  BY <1>1, <1>2 DEF Inv

LEMMA NotifyInv ==
  ASSUME JobServerAssumption, Inv, NEW n \in Nodes, Notify(n)
  PROVE  Inv'
<1>1. PICK j \in watcher[n] :
        /\ watcher' = [watcher EXCEPT ![n] = @ \ {j}]
        /\ worker' = IF worker[<<n, TypeOf(j)>>].pc = "idle"
                       THEN [worker EXCEPT ![<<n, TypeOf(j)>>].pc = "candidate",
                                           ![<<n, TypeOf(j)>>].job = j]
                       ELSE worker
        /\ UNCHANGED <<db, replica, node, sched, cancel, applied, faults, cancels>>
  BY Zenon DEF Notify
<1> DEFINE w == <<n, TypeOf(j)>>
<1>2. j \in Jobs /\ watcher' \in [Nodes -> SUBSET Jobs] /\ w \in Workers
  BY <1>1 DEF Inv, TypeOK, Workers, TypeOf
<1> HIDE DEF w
<1>3. CASE worker[w].pc = "idle"
  <2> DEFINE s == [worker[w] EXCEPT !.pc = "candidate", !.job = j]
  <2>1. worker \in [Workers -> WorkerState] /\ worker[w] \in WorkerState
    BY <1>2, Fields DEF Inv, TypeOK
  <2>2. worker' = [worker EXCEPT ![w] = s]
    BY <1>1, <1>2, <1>3, <2>1 DEF w
  <2>3. s \in WorkerState /\ s.pc = "candidate" /\ s.job = j /\ s.data = worker[w].data
    BY <1>2, <2>1, Zenon DEF WorkerState
  <2> HIDE DEF s
  <2>4. /\ worker' \in [Workers -> WorkerState] /\ worker'[w] = s
        /\ \A v \in Workers \ {w} : worker'[v] = worker[v]
    BY <1>2, <2>2, <2>3, WorkerFacts DEF Inv
  <2>5. TypeOK'
    BY <1>1, <1>2, <2>4 DEF Inv, TypeOK
  <2>6. 1 .. worker'[w].data \subseteq applied
    BY <1>2, <2>3, <2>4 DEF Inv, Recorded
  <2> QED  BY <1>1, <1>2, <2>3, <2>4, <2>5, <2>6, HandInv
<1>4. CASE worker' = worker
  <2>1. TypeOK'
    BY <1>1, <1>2, <1>4 DEF Inv, TypeOK
  <2>2. Claimed'
    BY <1>1, <1>4, <2>1, ClaimedStep DEF Inv, Claimed, StatusOf
  <2>3. Recorded'
    BY <1>1, <1>4 DEF Inv, Recorded
  <2> QED  BY <2>1, <2>2, <2>3 DEF Inv
<1> QED  BY <1>1, <1>3, <1>4 DEF w

(* A worker claims the job it was offered: the row is the only place where  *)
(* it can be pending, and nobody runs a pending job.                        *)
LEMMA ClaimInv ==
  ASSUME JobServerAssumption, Inv, NEW w \in Workers, Claim(w)
  PROVE  Inv'
<1> DEFINE j == worker[w].job
<1>1. /\ j \in Jobs /\ worker[w].pc = "candidate"
      /\ UNCHANGED <<replica, node, watcher, sched, cancel, applied, cancels>>
  BY DEF Claim, Inv, Claimed
<1>2. CASE Fault /\ Leaves(w) /\ UNCHANGED db
  <2>1. TypeOK'
    BY <1>1, <1>2, LeavesFacts, FaultType DEF Inv, TypeOK
  <2> QED  BY <1>1, <1>2, <2>1, LeavesFacts, HandInv DEF Inv
<1>3. CASE /\ UpdateStatusOptimistically(j, "pending", "in_progress")
           /\ worker' = IF StatusOf(j) = "pending"
                          THEN [worker EXCEPT ![w].pc = "running",
                                              ![w].data = db.jobs[j].data]
                          ELSE [worker EXCEPT ![w] = Idle]
           /\ UNCHANGED faults
  <2>1. IF StatusOf(j) = "pending" THEN RowStep(j, "in_progress", db.jobs[j].data)
                                   ELSE db' = db
    BY <1>1, <1>3, UpdateStatusOptimisticallyRow DEF Inv, Status
  <2>2. CASE StatusOf(j) # "pending"
    <3>1. Leaves(w) /\ UNCHANGED db
      BY <1>3, <2>1, <2>2 DEF Leaves
    <3>2. TypeOK'
      BY <1>1, <1>3, <3>1, LeavesFacts DEF Inv, TypeOK
    <3> QED  BY <1>1, <3>1, <3>2, LeavesFacts, HandInv DEF Inv
  <2>3. CASE StatusOf(j) = "pending"
    <3> DEFINE d == db.jobs[j].data
               s == [worker[w] EXCEPT !.pc = "running", !.data = d]
    <3>1. worker \in [Workers -> WorkerState] /\ worker[w] \in WorkerState /\ d \in 0 .. Batches
      BY <1>1, Fields DEF Inv, TypeOK
    <3>2. worker' = [worker EXCEPT ![w] = s]
      BY <1>3, <2>3, <3>1
    <3>3. s \in WorkerState /\ s.pc = "running" /\ s.job = j /\ s.data = d
      BY <3>1, Zenon DEF WorkerState
    <3> HIDE DEF s
    <3>4. /\ worker' \in [Workers -> WorkerState] /\ worker'[w] = s
          /\ \A v \in Workers \ {w} : worker'[v] = worker[v]
      BY <3>2, <3>3, WorkerFacts DEF Inv
    <3>5. RowStep(j, "in_progress", d)
      BY <2>1, <2>3
    <3>6. TypeOK'
      BY <1>1, <1>3, <3>4, <3>5 DEF Inv, TypeOK, RowStep
    <3>7. Recorded'
      <4>1. \A k \in Jobs : 1 .. db'.jobs[k].data \subseteq applied
        BY <1>1, <3>5 DEF RowStep, Inv, Recorded
      <4>2. \A v \in Workers : 1 .. worker'[v].data \subseteq applied
        BY <1>1, <3>3, <3>4 DEF Inv, Recorded
      <4>3. db'.completed <=> db.completed
        BY <3>5 DEF RowStep
      <4> QED  BY <1>1, <4>1, <4>2, <4>3 DEF Inv, Recorded
    <3>8. \A v \in Workers : Busy(v) => worker[v].job # j /\ worker[v].job \in Jobs /\ v # w
      BY <1>1, <2>3 DEF Inv, Claimed, Busy
    <3>9. \A v \in Workers \ {w} : Busy(v)' <=> Busy(v)
      BY <3>4 DEF Busy
    <3>10. RunsAlone'
      BY <3>3, <3>4, <3>8, <3>9 DEF Inv, Claimed, RunsAlone
    <3>11. \A v \in Workers : (Busy(v) => StatusOf(worker[v].job) \notin {"none", "pending"})'
      <4>1. db'.jobs[j].status = "in_progress"
        BY <3>5 DEF RowStep
      <4>2. \A k \in Jobs \ {j} : db'.jobs[k] = db.jobs[k]
        BY <3>5 DEF RowStep
      <4> QED  BY <3>3, <3>4, <3>8, <3>9, <4>1, <4>2 DEF Inv, Claimed, StatusOf
    <3>12. Claimed'
      BY <1>1, <3>3, <3>4, <3>10, <3>11 DEF Inv, Claimed
    <3> QED  BY <3>6, <3>7, <3>12 DEF Inv
  <2> QED  BY <2>2, <2>3
<1> QED  BY <1>2, <1>3 DEF Claim

(* A step of a worker that runs a job and writes its row, or leaves it. *)
LEMMA RowHandInv ==
  ASSUME Inv, NEW w \in Workers, Busy(w), TypeOK',
         NEW s \in Status \ {"none", "pending"}, NEW d \in 0 .. Batches,
         RowStep(worker[w].job, s, d), 1 .. d \subseteq applied,
         UNCHANGED <<replica, sched, applied>>,
         \A v \in Workers \ {w} : worker'[v] = worker[v],
         1 .. worker'[w].data \subseteq applied,
         worker'[w].pc = "idle" \/ worker'[w].job = worker[w].job
  PROVE  Inv'
<1>1. worker[w].job \in Jobs
  BY DEF Inv, Claimed, Busy
<1>2. \A k \in Jobs : StatusOf(k) \notin {"none", "pending"}
                        => (StatusOf(k) \notin {"none", "pending"})'
  BY <1>1 DEF RowStep, StatusOf
<1>3. Claimed'
  BY <1>2, ClaimedStep DEF Inv, Claimed
<1>4. \A k \in Jobs : 1 .. db'.jobs[k].data \subseteq applied
  BY <1>1 DEF RowStep, Inv, Recorded
<1>5. db'.completed <=> db.completed
  BY DEF RowStep
<1>6. Recorded'
  BY <1>4, <1>5 DEF Inv, Recorded
<1> QED  BY <1>3, <1>6 DEF Inv

(* The job of a worker that runs one, and what the worker knows. *)
LEMMA BusyFacts ==
  ASSUME Inv, NEW w \in Workers, Busy(w)
  PROVE  /\ worker[w].job \in Jobs /\ worker[w].data \in 0 .. Batches
         /\ 1 .. worker[w].data \subseteq applied
         /\ db.jobs[worker[w].job].data \in 0 .. Batches
         /\ 1 .. db.jobs[worker[w].job].data \subseteq applied
  BY Fields DEF Inv, Claimed, Recorded, Busy

(* The worker goes on to pc and leaves the database alone. *)
LEMMA GoesInv ==
  ASSUME JobServerAssumption, Inv, NEW w \in Workers, Busy(w), NEW pc \in Pcs,
         Goes(w, pc), Fault \/ UNCHANGED faults,
         UNCHANGED <<db, replica, node, watcher, sched, cancel, applied, cancels>>
  PROVE  Inv'
<1>1. /\ worker' \in [Workers -> WorkerState]
      /\ worker'[w].job = worker[w].job /\ worker'[w].data = worker[w].data
      /\ \A v \in Workers \ {w} : worker'[v] = worker[v]
  BY GoesFacts DEF Inv
<1>2. faults' \in 0 .. MaxFaults
  BY FaultType DEF Inv, TypeOK
<1>3. TypeOK'
  BY <1>1, <1>2 DEF Inv, TypeOK
<1> QED  BY <1>1, <1>3, BusyFacts, HandInv

(* The worker gives up its job without a word. *)
LEMMA LeavesInv ==
  ASSUME JobServerAssumption, Inv, NEW w \in Workers, Leaves(w), Fault \/ UNCHANGED faults,
         UNCHANGED <<db, replica, node, watcher, sched, cancel, applied, cancels>>
  PROVE  Inv'
<1>1. /\ worker' \in [Workers -> WorkerState]
      /\ worker'[w].pc = "idle" /\ worker'[w].data = 0
      /\ \A v \in Workers \ {w} : worker'[v] = worker[v]
  BY LeavesFacts DEF Inv
<1>2. faults' \in 0 .. MaxFaults
  BY FaultType DEF Inv, TypeOK
<1>3. TypeOK'
  BY <1>1, <1>2 DEF Inv, TypeOK
<1> QED  BY <1>1, <1>3, HandInv

LEMMA ExecuteInv ==
  ASSUME JobServerAssumption, Inv, NEW w \in Workers, Execute(w)
  PROVE  Inv'
<1>1. /\ Busy(w)
      /\ UNCHANGED <<db, replica, node, watcher, sched, cancel, applied, cancels>>
      /\ \/ Goes(w, "success") /\ UNCHANGED faults
         \/ Goes(w, "error") /\ Fault
  BY DEF Execute, Busy
<1> QED  BY <1>1, GoesInv DEF Pcs

(* A batch is applied before it is counted; the migration is complete when  *)
(* all that are counted are all there are.                                  *)
LEMMA BatchInv ==
  ASSUME JobServerAssumption, Inv, NEW w \in Workers, Batch(w)
  PROVE  Inv'
<1> DEFINE d == worker[w].data
<1>1. /\ Busy(w) /\ UNCHANGED <<replica, node, watcher, sched, cancel, cancels>>
      /\ \/ /\ d < Batches
            /\ worker' = [worker EXCEPT ![w].pc = "update", ![w].data = d + 1]
            /\ applied' = applied \cup {d + 1} /\ UNCHANGED <<db, faults>>
         \/ /\ d = Batches /\ Goes(w, IF db.completed THEN "error" ELSE "success")
            /\ db' = [db EXCEPT !.completed = TRUE] /\ UNCHANGED <<applied, faults>>
         \/ Fault /\ Goes(w, "error") /\ UNCHANGED <<db, applied>>
  BY Zenon DEF Batch, Busy
<1>2. /\ worker \in [Workers -> WorkerState] /\ worker[w] \in WorkerState
      /\ d \in 0 .. Batches /\ 1 .. d \subseteq applied
      /\ worker[w].job \in Jobs
  BY <1>1, Fields, BusyFacts DEF Inv, TypeOK
<1>3. CASE /\ d < Batches
           /\ worker' = [worker EXCEPT ![w].pc = "update", ![w].data = d + 1]
           /\ applied' = applied \cup {d + 1} /\ UNCHANGED <<db, faults>>
  <2> DEFINE s == [worker[w] EXCEPT !.pc = "update", !.data = d + 1]
  <2>1. worker' = [worker EXCEPT ![w] = s]
    BY <1>2, <1>3
  <2>2. d + 1 \in 0 .. Batches /\ d + 1 \in 1 .. Batches
    BY <1>2, <1>3 DEF JobServerAssumption
  <2>3. s \in WorkerState /\ s.pc = "update" /\ s.job = worker[w].job /\ s.data = d + 1
    BY <1>2, <2>2, Zenon DEF WorkerState
  <2> HIDE DEF s
  <2>4. /\ worker' \in [Workers -> WorkerState] /\ worker'[w] = s
        /\ \A v \in Workers \ {w} : worker'[v] = worker[v]
    BY <2>1, <2>3, WorkerFacts DEF Inv
  <2>5. applied' \subseteq 1 .. Batches
    BY <1>3, <2>2 DEF Inv, TypeOK
  <2>6. TypeOK'
    BY <1>1, <1>3, <2>4, <2>5 DEF Inv, TypeOK
  <2>7. Claimed'
    BY <1>1, <1>3, <2>3, <2>4, <2>6, ClaimedStep DEF Inv, Claimed, StatusOf
  <2>8. Recorded'
    <3>1. 1 .. d + 1 \subseteq applied'
      BY <1>2, <1>3
    <3>2. \A v \in Workers : 1 .. worker'[v].data \subseteq applied'
      BY <1>3, <2>3, <2>4, <3>1 DEF Inv, Recorded
    <3>3. applied = 1 .. Batches => applied' = 1 .. Batches
      BY <1>3, <2>2
    <3> QED  BY <1>1, <1>3, <3>2, <3>3 DEF Inv, Recorded
  <2> QED  BY <2>6, <2>7, <2>8 DEF Inv
<1>4. CASE /\ d = Batches /\ Goes(w, IF db.completed THEN "error" ELSE "success")
           /\ db' = [db EXCEPT !.completed = TRUE] /\ UNCHANGED <<applied, faults>>
  <2>1. PICK pc \in {"error", "success"} : Goes(w, pc)
    BY <1>4
  <2>2. /\ worker' \in [Workers -> WorkerState]
        /\ worker'[w].job = worker[w].job /\ worker'[w].data = worker[w].data
        /\ \A v \in Workers \ {w} : worker'[v] = worker[v]
    BY <2>1, GoesFacts DEF Inv, Pcs
  <2>3. db \in Tables
    BY DEF Inv, TypeOK
  <2>4. db' \in Tables /\ db'.jobs = db.jobs
    BY <1>4, <2>3, Zenon DEF Tables
  <2>5. TypeOK'
    BY <1>1, <1>4, <2>2, <2>4 DEF Inv, TypeOK
  <2>6. Claimed'
    BY <1>1, <2>2, <2>4, <2>5, ClaimedStep DEF Inv, Claimed, StatusOf
  <2>7. applied = 1 .. Batches
    BY <1>2, <1>4 DEF Inv, TypeOK
  <2>8. Recorded'
    BY <1>1, <1>4, <2>2, <2>4, <2>7 DEF Inv, Recorded
  <2> QED  BY <2>5, <2>6, <2>8 DEF Inv
<1>5. CASE Fault /\ Goes(w, "error") /\ UNCHANGED <<db, applied>>
  BY <1>1, <1>5, GoesInv DEF Pcs
<1> QED  BY <1>1, <1>3, <1>4, <1>5

LEMMA UpdateInProgressJobDataInv ==
  ASSUME JobServerAssumption, Inv, NEW w \in Workers, UpdateInProgressJobData(w)
  PROVE  Inv'
<1> DEFINE j == worker[w].job
           d == worker[w].data
<1>1. /\ Busy(w) /\ UNCHANGED <<replica, node, watcher, sched, cancel, applied, cancels>>
      /\ j \in Jobs /\ d \in 0 .. Batches /\ 1 .. d \subseteq applied
  BY BusyFacts DEF UpdateInProgressJobData, Busy
<1>2. CASE Fault /\ Goes(w, "error") /\ UNCHANGED db
  BY <1>1, <1>2, GoesInv DEF Pcs
<1>3. CASE /\ UpdateOptimistically(j, d, "in_progress", "in_progress")
           /\ Goes(w, "running") /\ UNCHANGED faults
  <2>1. IF StatusOf(j) = "in_progress" THEN RowStep(j, "in_progress", d) ELSE db' = db
    BY <1>1, <1>3, UpdateOptimisticallyRow DEF Inv, Status
  <2>2. /\ worker' \in [Workers -> WorkerState]
        /\ worker'[w].job = j /\ worker'[w].data = d
        /\ \A v \in Workers \ {w} : worker'[v] = worker[v]
    BY <1>3, GoesFacts DEF Inv, Pcs
  <2>3. CASE RowStep(j, "in_progress", d)
    <3>1. TypeOK'
      BY <1>1, <1>3, <2>2, <2>3 DEF Inv, TypeOK, RowStep
    <3> QED  BY <1>1, <2>2, <2>3, <3>1, RowHandInv DEF Status
  <2>4. CASE db' = db
    BY <1>1, <1>3, <2>4, GoesInv DEF Pcs
  <2> QED  BY <2>1, <2>3, <2>4
<1> QED  BY <1>2, <1>3 DEF UpdateInProgressJobData

LEMMA CancellationWatcherInv ==
  ASSUME JobServerAssumption, Inv, NEW w \in Workers, CancellationWatcher(w)
  PROVE  Inv'
<1> DEFINE s == [worker[w] EXCEPT !.canceled = TRUE]
<1>1. /\ Busy(w) /\ worker \in [Workers -> WorkerState] /\ worker[w] \in WorkerState
      /\ UNCHANGED <<db, replica, node, watcher, sched, cancel, applied, faults, cancels>>
  BY Fields DEF CancellationWatcher, Inv, TypeOK
<1>2. worker' = [worker EXCEPT ![w] = s]
  BY <1>1 DEF CancellationWatcher
<1>3. s \in WorkerState /\ s.job = worker[w].job /\ s.data = worker[w].data
  BY <1>1, Zenon DEF WorkerState
<1> HIDE DEF s
<1>4. /\ worker' \in [Workers -> WorkerState] /\ worker'[w] = s
      /\ \A v \in Workers \ {w} : worker'[v] = worker[v]
  BY <1>2, <1>3, WorkerFacts DEF Inv
<1>5. TypeOK'
  BY <1>1, <1>4 DEF Inv, TypeOK
<1> QED  BY <1>1, <1>3, <1>4, <1>5, BusyFacts, HandInv

LEMMA SeesCancelInv ==
  ASSUME JobServerAssumption, Inv, NEW w \in Workers, SeesCancel(w)
  PROVE  Inv'
<1>1. /\ Busy(w) /\ Goes(w, "canceling")
      /\ UNCHANGED <<db, replica, node, watcher, sched, cancel, applied, faults, cancels>>
  BY DEF SeesCancel, Busy
<1> QED  BY <1>1, GoesInv DEF Pcs

(* A worker writes how its job ended and leaves it. *)
LEMMA EndsInv ==
  ASSUME JobServerAssumption, Inv, NEW w \in Workers, Busy(w), Leaves(w),
         NEW s \in Status \ {"none", "pending"}, NEW d \in 0 .. Batches,
         RowStep(worker[w].job, s, d), 1 .. d \subseteq applied,
         UNCHANGED <<replica, node, watcher, sched, cancel, applied, faults, cancels>>
  PROVE  Inv'
<1>1. /\ worker' \in [Workers -> WorkerState]
      /\ worker'[w].pc = "idle" /\ worker'[w].data = 0
      /\ \A v \in Workers \ {w} : worker'[v] = worker[v]
  BY LeavesFacts DEF Inv
<1>2. TypeOK'
  BY <1>1 DEF Inv, TypeOK, RowStep
<1> QED  BY <1>1, <1>2, RowHandInv

LEMMA SetJobCanceledInv ==
  ASSUME JobServerAssumption, Inv, NEW w \in Workers, SetJobCanceled(w)
  PROVE  Inv'
<1>1. /\ Busy(w) /\ Leaves(w)
      /\ UNCHANGED <<replica, node, watcher, sched, cancel, applied, cancels>>
  BY DEF SetJobCanceled, Busy
<1>2. CASE UpdateStatus(worker[w].job, "canceled") /\ UNCHANGED faults
  <2>1. RowStep(worker[w].job, "canceled", db.jobs[worker[w].job].data)
    BY <1>1, <1>2, BusyFacts, UpdateStatusRow DEF Inv, Status
  <2> QED  BY <1>1, <1>2, <2>1, BusyFacts, EndsInv DEF Status
<1>3. CASE Fault /\ UNCHANGED db
  BY <1>1, <1>3, LeavesInv
<1> QED  BY <1>2, <1>3 DEF SetJobCanceled

LEMMA SetJobSuccessInv ==
  ASSUME JobServerAssumption, Inv, NEW w \in Workers, SetJobSuccess(w)
  PROVE  Inv'
<1>1. Busy(w) /\ UNCHANGED <<replica, node, watcher, sched, cancel, applied, cancels>>
  BY DEF SetJobSuccess, Busy
<1>2. CASE UpdateStatus(worker[w].job, "success") /\ Leaves(w) /\ UNCHANGED faults
  <2>1. RowStep(worker[w].job, "success", db.jobs[worker[w].job].data)
    BY <1>1, <1>2, BusyFacts, UpdateStatusRow DEF Inv, Status
  <2> QED  BY <1>1, <1>2, <2>1, BusyFacts, EndsInv DEF Status
<1>3. CASE Fault /\ Goes(w, "error") /\ UNCHANGED db
  BY <1>1, <1>3, GoesInv DEF Pcs
<1> QED  BY <1>2, <1>3 DEF SetJobSuccess

LEMMA SetJobErrorInv ==
  ASSUME JobServerAssumption, Inv, NEW w \in Workers, SetJobError(w)
  PROVE  Inv'
<1> DEFINE j == worker[w].job
           d == worker[w].data
<1>1. /\ Busy(w) /\ UNCHANGED <<replica, node, watcher, sched, cancel, applied, cancels>>
      /\ j \in Jobs /\ d \in 0 .. Batches /\ 1 .. d \subseteq applied
  BY BusyFacts DEF SetJobError, Busy
<1>2. ASSUME NEW from \in Status, UpdateOptimistically(j, d, from, "error"), Leaves(w),
             UNCHANGED faults
      PROVE  Inv'
  <2>1. IF StatusOf(j) = from THEN RowStep(j, "error", d) ELSE db' = db
    BY <1>1, <1>2, UpdateOptimisticallyRow DEF Inv, Status
  <2>2. CASE RowStep(j, "error", d)
    BY <1>1, <1>2, <2>2, EndsInv DEF Status
  <2>3. CASE db' = db
    BY <1>1, <1>2, <2>3, LeavesInv
  <2> QED  BY <2>1, <2>2, <2>3
<1>3. CASE /\ UpdateOptimistically(j, d, "in_progress", "error")
           /\ StatusOf(j) # "in_progress" /\ Goes(w, "error2") /\ UNCHANGED faults
  <2>1. db' = db
    BY <1>3 DEF UpdateOptimistically
  <2> QED  BY <1>1, <1>3, <2>1, GoesInv DEF Pcs
<1>4. CASE Fault /\ Leaves(w) /\ UNCHANGED db
  BY <1>1, <1>4, LeavesInv
<1> QED  BY <1>2, <1>3, <1>4 DEF SetJobError, Status

(* What a scheduler has read is known, from the table or from a replica. *)
LEMMA SeenFacts ==
  ASSUME Inv, NEW j \in Jobs
  PROVE  Seen.jobs[j].data \in 0 .. Batches /\ 1 .. Seen.jobs[j].data \subseteq applied
  BY Fields DEF Seen, Inv, Recorded

(* A step of a scheduler that writes no row. *)
LEMMA DecidesInv ==
  ASSUME Inv, NEW n \in Nodes, NEW s \in SchedState, sched' = [sched EXCEPT ![n] = s],
         s.pc = "wedged" => s.job \in Jobs, 1 .. s.data \subseteq applied,
         UNCHANGED <<db, replica, node, watcher, worker, cancel, applied, cancels>>,
         faults' \in 0 .. MaxFaults
  PROVE  Inv'
<1>1. /\ sched' \in [Nodes -> SchedState] /\ sched'[n] = s
      /\ \A m \in Nodes \ {n} : sched'[m] = sched[m]
  BY DEF Inv, TypeOK
<1>2. TypeOK'
  BY <1>1 DEF Inv, TypeOK
<1>3. Claimed'
  BY <1>1, <1>2, ClaimedStep DEF Inv, Claimed, StatusOf
<1>4. Recorded'
  BY <1>1 DEF Inv, Recorded
<1> QED  BY <1>2, <1>3, <1>4 DEF Inv

LEMMA ScheduleJobInv ==
  ASSUME JobServerAssumption, Inv, NEW n \in Nodes, ScheduleJob(n)
  PROVE  Inv'
<1>1. /\ UNCHANGED <<db, replica, node, watcher, worker, cancel, applied, faults, cancels>>
      /\ faults' \in 0 .. MaxFaults
  BY DEF ScheduleJob, Inv, TypeOK
<1>2. PICK pc \in {"finished", "create", "wedged"}, j \in Jobs \cup {NoJob}, d \in 0 .. Batches :
        /\ Decides(n, pc, j, d) /\ 1 .. d \subseteq applied
        /\ pc = "wedged" => j \in Jobs
  <2>1. 0 \in 0 .. Batches /\ 1 .. 0 \subseteq applied
    BY DEF JobServerAssumption
  <2>2. CASE Decides(n, "finished", NoJob, 0)
    BY <2>1, <2>2
  <2>3. CASE Decides(n, "create", NoJob, 0)
    BY <2>1, <2>3
  <2>4. CASE \E j \in MigrationJobs : Decides(n, "wedged", j, Seen.jobs[j].data)
    BY <2>4, SeenFacts DEF Jobs
  <2>5. CASE \E j \in MigrationJobs : Decides(n, "create", j, Seen.jobs[j].data)
    BY <2>5, SeenFacts DEF Jobs
  <2> QED  BY <2>2, <2>3, <2>4, <2>5 DEF ScheduleJob
<1> DEFINE s == [pc |-> pc, job |-> j, data |-> d]
<1>3. sched' = [sched EXCEPT ![n] = s]
  BY <1>2 DEF Decides
<1>4. s \in SchedState /\ s.pc = pc /\ s.job = j /\ s.data = d
  BY DEF SchedState
<1> HIDE DEF s
<1> QED  BY <1>1, <1>2, <1>3, <1>4, DecidesInv

LEMMA GiveUpWedgedInv ==
  ASSUME JobServerAssumption, Inv, NEW n \in Nodes, GiveUpWedged(n)
  PROVE  Inv'
<1> DEFINE j == sched[n].job
           s == [sched[n] EXCEPT !.pc = "create"]
<1>1. /\ j \in Jobs /\ sched \in [Nodes -> SchedState] /\ sched[n] \in SchedState
      /\ UNCHANGED <<replica, node, watcher, worker, cancel, applied, cancels>>
  BY DEF GiveUpWedged, Inv, Claimed, TypeOK
<1>2. sched' = [sched EXCEPT ![n] = s]
  BY <1>1 DEF GiveUpWedged
<1>3. s \in SchedState /\ s.pc = "create" /\ s.data = sched[n].data
  BY <1>1 DEF SchedState
<1>4. 1 .. sched[n].data \subseteq applied
  BY DEF Inv, Recorded
<1> HIDE DEF s
<1>5. CASE UpdateStatus(j, "error") /\ UNCHANGED faults
  <2>1. RowStep(j, "error", db.jobs[j].data)
    BY <1>1, <1>5, UpdateStatusRow DEF Inv, Status
  <2>2. /\ sched' \in [Nodes -> SchedState] /\ sched'[n] = s
        /\ \A m \in Nodes \ {n} : sched'[m] = sched[m]
    BY <1>1, <1>2, <1>3
  <2>3. TypeOK'
    BY <1>1, <1>5, <2>1, <2>2 DEF Inv, TypeOK, RowStep
  <2>4. \A m \in Nodes : sched'[m].pc = "wedged" => sched'[m].job \in Jobs
    BY <1>3, <2>2 DEF Inv, Claimed
  <2>5. \A m \in Nodes : 1 .. sched'[m].data \subseteq applied
    BY <1>3, <1>4, <2>2 DEF Inv, Recorded
  <2>6. db.jobs[j].data \in 0 .. Batches /\ 1 .. db.jobs[j].data \subseteq applied
    BY <1>1, Fields DEF Inv, Recorded
  <2> QED  BY <1>1, <2>1, <2>3, <2>4, <2>5, <2>6, RowInv DEF Status
<1>6. CASE Fault /\ UNCHANGED db
  <2>1. faults' \in 0 .. MaxFaults
    BY <1>6, FaultType DEF Inv
  <2> QED  BY <1>1, <1>2, <1>3, <1>4, <1>6, <2>1, DecidesInv
<1> QED  BY <1>5, <1>6 DEF GiveUpWedged

LEMMA CreateMigrationJobInv ==
  ASSUME JobServerAssumption, Inv, NEW n \in Nodes, CreateMigrationJob(n)
  PROVE  Inv'
<1>1. /\ sched \in [Nodes -> SchedState] /\ sched' = [sched EXCEPT ![n] = Waiting]
      /\ UNCHANGED <<replica, node, watcher, worker, cancel, applied, cancels>>
      /\ sched[n].data \in 0 .. Batches /\ 1 .. sched[n].data \subseteq applied
  BY Fields DEF CreateMigrationJob, Inv, TypeOK, Recorded
<1>2. Waiting \in SchedState /\ Waiting.pc = "wait" /\ Waiting.data = 0 /\ 1 .. 0 \subseteq applied
  BY IdleType
<1>3. CASE /\ \E j \in MigrationJobs : StatusOf(j) = "none" /\ Save(j, sched[n].data)
           /\ UNCHANGED faults
  <2>1. PICK j \in Jobs : StatusOf(j) = "none" /\ Save(j, sched[n].data)
    BY <1>3 DEF Jobs
  <2>2. RowStep(j, "pending", sched[n].data)
    BY <1>1, <2>1, SaveRow DEF Inv
  <2>3. /\ sched' \in [Nodes -> SchedState] /\ sched'[n] = Waiting
        /\ \A m \in Nodes \ {n} : sched'[m] = sched[m]
    BY <1>1, <1>2
  <2>4. TypeOK'
    BY <1>1, <1>3, <2>2, <2>3 DEF Inv, TypeOK, RowStep
  <2>5. \A m \in Nodes : sched'[m].pc = "wedged" => sched'[m].job \in Jobs
    BY <1>2, <2>3 DEF Inv, Claimed
  <2>6. \A m \in Nodes : 1 .. sched'[m].data \subseteq applied
    BY <1>2, <2>3 DEF Inv, Recorded
  <2> QED  BY <1>1, <2>1, <2>2, <2>4, <2>5, <2>6, RowInv DEF Status
<1>4. CASE Fault /\ UNCHANGED db
  <2>1. faults' \in 0 .. MaxFaults
    BY <1>4, FaultType DEF Inv
  <2> QED  BY <1>1, <1>2, <1>4, <2>1, DecidesInv
<1> QED  BY <1>3, <1>4 DEF CreateMigrationJob

(* The hour without activity is in the row, which stays as it is. *)
LEMMA HourRow ==
  ASSUME TypeOK, NEW j \in Jobs, HourPasses(j)
  PROVE  /\ db' \in Tables /\ db'.completed = db.completed
         /\ \A k \in Jobs \ {j} : db'.jobs[k] = db.jobs[k]
         /\ db'.jobs[j].status = db.jobs[j].status /\ db'.jobs[j].data = db.jobs[j].data
<1> DEFINE r == [db.jobs[j] EXCEPT !.idle = TRUE]
           t == [db.jobs EXCEPT ![j] = r]
<1>1. db \in Tables /\ db.jobs \in [Jobs -> Job] /\ db.jobs[j] \in Job
  BY Zenon DEF TypeOK, Tables
<1>2. r \in Job /\ r.status = db.jobs[j].status /\ r.data = db.jobs[j].data
  BY <1>1, Zenon DEF Job
<1>3. db' = [db EXCEPT !.jobs = t]
  BY <1>1 DEF HourPasses
<1> HIDE DEF r
<1>4. t \in [Jobs -> Job] /\ t[j] = r /\ \A k \in Jobs \ {j} : t[k] = db.jobs[k]
  BY <1>1, <1>2
<1> HIDE DEF t
<1>5. db' \in Tables /\ db'.completed = db.completed /\ db'.jobs = t
  BY <1>1, <1>3, <1>4, Zenon DEF Tables
<1> QED  BY <1>2, <1>4, <1>5

LEMMA HourPassesInv ==
  ASSUME Inv, NEW j \in Jobs, HourPasses(j)
  PROVE  Inv'
<1>1. UNCHANGED <<replica, node, watcher, worker, sched, cancel, applied, faults, cancels>>
  BY DEF HourPasses
<1>2. /\ db' \in Tables /\ (db'.completed <=> db.completed)
      /\ \A k \in Jobs : db'.jobs[k].status = db.jobs[k].status /\ db'.jobs[k].data = db.jobs[k].data
  BY HourRow DEF Inv
<1>3. TypeOK'
  BY <1>1, <1>2 DEF Inv, TypeOK
<1>4. Claimed'
  BY <1>1, <1>2, <1>3, ClaimedStep DEF Inv, Claimed, StatusOf
<1>5. Recorded'
  BY <1>1, <1>2 DEF Inv, Recorded
<1> QED  BY <1>3, <1>4, <1>5 DEF Inv

(* The workers of a node that goes are idle, the others stay. *)
LEMMA GoneFacts ==
  ASSUME JobServerAssumption, TypeOK, NEW n \in Nodes, NEW s \in {"up", "down"}, Gone(n, s)
  PROVE  /\ node' \in [Nodes -> {"up", "stopping", "down"}]
         /\ watcher' \in [Nodes -> SUBSET Jobs]
         /\ worker' \in [Workers -> WorkerState] /\ sched' \in [Nodes -> SchedState]
         /\ \A w \in Workers : worker'[w] = IF w[1] = n THEN Idle ELSE worker[w]
         /\ \A m \in Nodes : sched'[m] = IF m = n THEN Waiting ELSE sched[m]
<1>1. \A w \in Workers : worker'[w] = IF w[1] = n THEN Idle ELSE worker[w]
  BY DEF Gone
<1>2. worker' \in [Workers -> WorkerState]
  BY IdleType DEF Gone, TypeOK
<1>3. node' \in [Nodes -> {"up", "stopping", "down"}] /\ watcher' \in [Nodes -> SUBSET Jobs]
  BY DEF Gone, TypeOK
<1>4. /\ sched' \in [Nodes -> SchedState]
      /\ \A m \in Nodes : sched'[m] = IF m = n THEN Waiting ELSE sched[m]
  BY IdleType DEF Gone, TypeOK
<1> QED  BY <1>1, <1>2, <1>3, <1>4

LEMMA GoneInv ==
  ASSUME JobServerAssumption, Inv, NEW n \in Nodes, Crash(n) \/ Restart(n) \/ Stopped(n)
  PROVE  Inv'
<1>1. PICK s \in {"up", "down"} :
        /\ Gone(n, s) /\ UNCHANGED <<db, replica, cancel, applied, cancels>>
        /\ faults' \in 0 .. MaxFaults
  BY FaultType DEF Crash, Restart, Stopped, Inv, TypeOK
<1>2. TypeOK'
  BY <1>1, GoneFacts DEF Inv, TypeOK
<1>3. Claimed'
  <2>1. \A w \in Workers : worker'[w].pc = "idle" \/ worker'[w] = worker[w]
    BY <1>1, GoneFacts, IdleType DEF Inv
  <2>2. \A m \in Nodes : sched'[m].pc = "wedged" => sched'[m].job \in Jobs
    BY <1>1, GoneFacts, IdleType DEF Inv, Claimed
  <2> QED  BY <1>1, <1>2, <2>1, <2>2, ClaimedStep DEF StatusOf
<1>4. Recorded'
  <2>1. 1 .. 0 \subseteq applied
    OBVIOUS
  <2>2. \A w \in Workers : 1 .. worker'[w].data \subseteq applied
    BY <1>1, <2>1, GoneFacts, IdleType DEF Inv, Recorded
  <2>3. \A m \in Nodes : 1 .. sched'[m].data \subseteq applied
    BY <1>1, <2>1, GoneFacts, IdleType DEF Inv, Recorded
  <2> QED  BY <1>1, <2>2, <2>3 DEF Inv, Recorded
<1> QED  BY <1>2, <1>3, <1>4 DEF Inv

LEMMA StopWorkersInv ==
  ASSUME JobServerAssumption, Inv, NEW n \in Nodes, StopWorkers(n)
  PROVE  Inv'
<1>1. UNCHANGED <<db, replica, watcher, worker, sched, cancel, applied, cancels>>
  BY DEF StopWorkers
<1>2. /\ faults' \in 0 .. MaxFaults
      /\ node' \in [Nodes -> {"up", "stopping", "down"}]
  BY FaultType DEF StopWorkers, Inv, TypeOK
<1>3. TypeOK'
  BY <1>1, <1>2 DEF Inv, TypeOK
<1>4. Claimed'
  BY <1>1, <1>3, ClaimedStep DEF Inv, Claimed, StatusOf
<1>5. Recorded'
  BY <1>1 DEF Inv, Recorded
<1> QED  BY <1>3, <1>4, <1>5 DEF Inv

LEMMA NextInv ==
  ASSUME JobServerAssumption, Inv, [Next]_vars
  PROVE  Inv'
<1>1. CASE UNCHANGED vars
  <2>1. TypeOK'
    BY <1>1 DEF vars, Inv, TypeOK
  <2>2. Claimed'
    BY <1>1, <2>1, ClaimedStep DEF vars, Inv, Claimed, StatusOf
  <2>3. Recorded'
    BY <1>1 DEF vars, Inv, Recorded
  <2> QED  BY <2>1, <2>2, <2>3 DEF Inv
<1>2. ASSUME NEW w \in Workers, WorkerStep(w) \/ CancellationWatcher(w) PROVE Inv'
  BY <1>2, ClaimInv, ExecuteInv, BatchInv, UpdateInProgressJobDataInv,
     SeesCancelInv, SetJobCanceledInv, SetJobSuccessInv, SetJobErrorInv,
     CancellationWatcherInv DEF WorkerStep
<1>3. ASSUME NEW n \in Nodes,
             \/ Poll(n) \/ Notify(n) \/ SchedulerStep(n) \/ Crash(n) \/ Restart(n)
             \/ StopWorkers(n) \/ Stopped(n)
      PROVE Inv'
  BY <1>3, PollInv, NotifyInv, ScheduleJobInv, GiveUpWedgedInv,
     CreateMigrationJobInv, GoneInv, StopWorkersInv DEF SchedulerStep
<1>4. ASSUME NEW j \in Jobs, CreateJob(j) \/ RequestCancellation(j) \/ HourPasses(j)
      PROVE Inv'
  BY <1>4, CreateJobInv, RequestCancellationInv, HourPassesInv
<1> QED  BY <1>1, <1>2, <1>3, <1>4, ReplicateInv, CancelRunningInv DEF Next

LEMMA InitInv ==
  ASSUME JobServerAssumption, Init
  PROVE  Inv
<1> DEFINE r == [status |-> "none", createAt |-> 0, data |-> 0, idle |-> FALSE]
           t == [j \in Jobs |-> r]
<1>1. 0 \in 0 .. Batches /\ 0 \in 0 .. MaxFaults /\ 0 \in 0 .. MaxCancels /\ 0 \in Nat
      /\ 1 .. 0 \subseteq applied
  BY DEF JobServerAssumption
<1>2. r \in Job /\ r.data = 0
  BY <1>1, Zenon DEF Job, Status
<1>3. db = [jobs |-> t, completed |-> FALSE] /\ replica = db
  BY DEF Init
<1> HIDE DEF r
<1>4. t \in [Jobs -> Job] /\ \A j \in Jobs : t[j].data = 0
  BY <1>2
<1> HIDE DEF t
<1>5. db \in Tables /\ db.jobs = t /\ ~db.completed
  BY <1>3, <1>4, Zenon DEF Tables
<1>6. /\ worker \in [Workers -> WorkerState] /\ sched \in [Nodes -> SchedState]
      /\ \A w \in Workers : worker[w] = Idle
      /\ \A n \in Nodes : sched[n] = Waiting
  BY IdleType DEF Init
<1>7. TypeOK
  BY <1>1, <1>3, <1>5, <1>6 DEF Init, TypeOK
<1>8. Claimed
  BY <1>6, IdleType DEF Claimed, RunsAlone, Busy
<1>9. Recorded
  BY <1>1, <1>3, <1>4, <1>5, <1>6, IdleType DEF Recorded
<1> QED  BY <1>7, <1>8, <1>9 DEF Inv

LEMMA AlwaysInv ==
  ASSUME JobServerAssumption
  PROVE  Spec => []Inv
<1>1. Init => Inv
  BY InitInv
<1>2. Inv /\ [Next]_vars => Inv'
  BY NextInv
<1> QED  BY <1>1, <1>2, PTL DEF Spec

(***************************************************************************)
(* The rows of the Jobs table and what nodes, workers and schedulers have  *)
(* in hand of them are of their type.                                      *)
(***************************************************************************)
THEOREM JobsTypeCorrect ==
  ASSUME JobServerAssumption
  PROVE  Spec => []TypeOK
<1>1. Inv => TypeOK
  BY DEF Inv
<1> QED  BY <1>1, AlwaysInv, PTL

(***************************************************************************)
(* However many nodes poll the same pending job, from a replica that lags  *)
(* or not, and whatever crashes, fails, is cancelled or looks wedged, one  *)
(* worker runs it: ClaimJob's UPDATE ... WHERE Status = pending is enough. *)
(***************************************************************************)
THEOREM JobRunsAlone ==
  ASSUME JobServerAssumption
  PROVE  Spec => []RunsAlone
<1>1. Inv => RunsAlone
  BY DEF Inv, Claimed
<1> QED  BY <1>1, AlwaysInv, PTL

(***************************************************************************)
(* No batch of a migration is skipped, for any number of batches: a batch  *)
(* is counted after it is applied, and the count passes unharmed through   *)
(* the row, the replica, a scheduler and the next job, so that the         *)
(* migration is called complete only when every batch has been applied.    *)
(***************************************************************************)
THEOREM MigrationNeverSkips ==
  ASSUME JobServerAssumption
  PROVE  Spec => []NeverSkips
<1>1. Inv => NeverSkips
  BY DEF Inv, Recorded, NeverSkips
<1> QED  BY <1>1, AlwaysInv, PTL

-----------------------------------------------------------------------------

(* JobServer implements JobLifecycle, if only a job that has lost its       *)
(* worker can look wedged.                                                  *)

Runs(w, j) == Busy(w) /\ worker[w].job = j

Runner(j) == IF \E w \in Workers : Busy(w) /\ worker[w].job = j
               THEN CHOOSE w \in Workers : Busy(w) /\ worker[w].job = j
               ELSE NoJob

(* The refinement mapping. *)
JobStatuses == [j \in Jobs |-> StatusOf(j)]

Runners == [j \in Jobs |-> Runner(j)]

(* Nobody runs a job that has been claimed, and nobody will. *)
Lost(j) ==
  /\ StatusOf(j) \in {"in_progress", "cancel_requested", "error"}
  /\ \A w \in Workers : Busy(w) => worker[w].job # j

(* A job that a worker runs has not ended, and one that looks wedged, in    *)
(* the table, in the replica or to a scheduler, is lost.                    *)
Owned ==
  /\ \A w \in Workers :
       Busy(w) => StatusOf(worker[w].job) \in {"in_progress", "cancel_requested"}
  /\ \A j \in Jobs : db.jobs[j].idle \/ replica.jobs[j].idle => Lost(j)
  /\ \A n \in Nodes : sched[n].pc = "wedged" => Lost(sched[n].job)

(* No worker begins to run a job. *)
Shrinks == \A w \in Workers : Busy(w)' => Busy(w) /\ worker'[w].job = worker[w].job

(* No scheduler newly takes a job that is not lost for wedged. *)
SchedKeeps ==
  \A n \in Nodes : sched'[n].pc = "wedged" =>
    \/ sched[n].pc = "wedged" /\ sched'[n].job = sched[n].job
    \/ Lost(sched'[n].job)

QuietStep ==
  /\ \A j \in Jobs : StatusOf(j)' = StatusOf(j)
  /\ Shrinks
  /\ \A j \in Jobs : db'.jobs[j].idle => db.jobs[j].idle \/ Lost(j)
  /\ \A j \in Jobs : replica'.jobs[j].idle => db.jobs[j].idle \/ replica.jobs[j].idle
  /\ SchedKeeps

LEMMA RunnerFacts ==
  ASSUME RunsAlone, NEW j \in Jobs
  PROVE  /\ \A w \in Workers : Runs(w, j) => Runner(j) = w
         /\ (\A w \in Workers : ~Runs(w, j)) => Runner(j) = NoJob
<1>1. ASSUME NEW w \in Workers, Runs(w, j) PROVE Runner(j) = w
  <2>1. \A v \in Workers : Busy(v) /\ worker[v].job = j => v = w
    BY <1>1 DEF Runs, RunsAlone
  <2> QED  BY <1>1, <2>1 DEF Runner, Runs
<1> QED  BY <1>1 DEF Runner, Runs

LEMMA RunnerFactsNext ==
  ASSUME RunsAlone', NEW j \in Jobs
  PROVE  /\ \A w \in Workers : Runs(w, j)' => Runner(j)' = w
         /\ (\A w \in Workers : ~Runs(w, j)') => Runner(j)' = NoJob
<1>1. ASSUME NEW w \in Workers, Runs(w, j)' PROVE Runner(j)' = w
  <2>1. \A v \in Workers : (Busy(v) /\ worker[v].job = j)' => v = w
    BY <1>1 DEF Runs, RunsAlone
  <2> QED  BY <1>1, <2>1 DEF Runner, Runs
<1> QED  BY <1>1 DEF Runner, Runs

(* Steps in which no worker begins a job. *)
LEMMA OwnedStep ==
  ASSUME Inv, Owned, Shrinks,
         \A j \in Jobs : Lost(j) =>
           (StatusOf(j) \in {"in_progress", "cancel_requested", "error"})',
         \A w \in Workers : Busy(w)' =>
           (StatusOf(worker[w].job) \in {"in_progress", "cancel_requested"})',
         \A j \in Jobs : db'.jobs[j].idle \/ replica'.jobs[j].idle => Lost(j),
         \A n \in Nodes : sched'[n].pc = "wedged" => sched'[n].job \in Jobs,
         SchedKeeps
  PROVE  Owned'
<1>1. ASSUME NEW j \in Jobs, Lost(j) PROVE Lost(j)'
  BY <1>1 DEF Lost, Shrinks
<1>2. \A n \in Nodes : sched'[n].pc = "wedged" => Lost(sched'[n].job)
  BY DEF SchedKeeps, Owned
<1>3. \A n \in Nodes : sched'[n].pc = "wedged" => Lost(sched[n].job)'
  BY <1>1, <1>2 DEF Lost, StatusOf
<1> QED  BY <1>1, <1>3 DEF Owned

(* A step that changes no status and takes no job lets workers go, or is    *)
(* nothing to JobLifecycle.                                                 *)
LEMMA QuietRefines ==
  ASSUME Inv, Inv', Owned, QuietStep
  PROVE  Owned' /\ Lifecycle!Next
<1>1. Owned'
  <2>1. \A j \in Jobs : db'.jobs[j].idle \/ replica'.jobs[j].idle => Lost(j)
    BY DEF QuietStep, Owned
  <2>2. \A j \in Jobs : Lost(j) =>
          (StatusOf(j) \in {"in_progress", "cancel_requested", "error"})'
    BY DEF QuietStep, Lost
  <2>3. \A w \in Workers : Busy(w) => worker[w].job \in Jobs
    BY DEF Inv, Claimed, Busy
  <2>4. \A w \in Workers : Busy(w)' =>
          (StatusOf(worker[w].job) \in {"in_progress", "cancel_requested"})'
    BY <2>3 DEF QuietStep, Shrinks, Owned, StatusOf
  <2>5. \A n \in Nodes : sched'[n].pc = "wedged" => sched'[n].job \in Jobs
    BY DEF Inv, Claimed
  <2> QED  BY <2>1, <2>2, <2>4, <2>5, OwnedStep DEF QuietStep
<1> DEFINE S == {j \in Jobs : \A w \in Workers : ~Runs(w, j)'}
<1>2. ASSUME NEW j \in Jobs
      PROVE  Runner(j)' = IF j \in S THEN NoJob ELSE Runner(j)
  <2>1. CASE j \in S
    BY <2>1, RunnerFactsNext DEF Inv, Claimed
  <2>2. CASE j \notin S
    <3>1. PICK w \in Workers : Runs(w, j)'
      BY <2>2
    <3>2. Runs(w, j)
      BY <3>1 DEF QuietStep, Shrinks, Runs
    <3> QED  BY <2>2, <3>1, <3>2, RunnerFacts, RunnerFactsNext DEF Inv, Claimed
  <2> QED  BY <2>1, <2>2
<1>3. Runners' = [k \in Jobs |-> IF k \in S THEN NoJob ELSE Runners[k]]
  BY <1>2 DEF Runners
<1>4. JobStatuses' = JobStatuses
  BY DEF QuietStep, JobStatuses
<1>5. PICK T \in SUBSET Jobs : T = S
  OBVIOUS
<1> HIDE DEF S
<1>6. Lifecycle!Abandon(T)
  BY <1>3, <1>4, <1>5 DEF JobStatuses, Runners, Runner, Lifecycle!Abandon
<1> QED  BY <1>1, <1>6 DEF Lifecycle!Next

(* A row is written by others than the worker of the job: it is created,    *)
(* cancelled, asked to be cancelled, or given up when nobody runs it.       *)
LEMMA RowRefines ==
  ASSUME Inv, Inv', Owned, NEW j \in Jobs, NEW to, NEW d, RowStep(j, to, d),
         UNCHANGED <<worker, replica>>, SchedKeeps,
         \/ StatusOf(j) = "none" /\ to = "pending"
         \/ StatusOf(j) = "pending" /\ to = "canceled"
         \/ StatusOf(j) = "in_progress" /\ to = "cancel_requested"
         \/ Lost(j) /\ to = "error"
  PROVE  Owned' /\ Lifecycle!Next
<1>1. /\ \A k \in Jobs : StatusOf(k)' = IF k = j THEN to ELSE StatusOf(k)
      /\ \A k \in Jobs : db'.jobs[k].idle => db.jobs[k].idle
  BY DEF RowStep, StatusOf
<1>2. Shrinks /\ \A w \in Workers, k \in Jobs : Runs(w, k)' <=> Runs(w, k)
  BY DEF Shrinks, Runs, Busy
<1>3. \A w \in Workers : Busy(w) => worker[w].job \in Jobs
  BY DEF Inv, Claimed, Busy
<1>4. Owned'
  <2>1. \A k \in Jobs : db'.jobs[k].idle \/ replica'.jobs[k].idle => Lost(k)
    BY <1>1 DEF Owned
  <2>2. \A k \in Jobs : Lost(k) =>
          (StatusOf(k) \in {"in_progress", "cancel_requested", "error"})'
    BY <1>1 DEF Lost
  <2>3. \A w \in Workers : Busy(w)' => Busy(w) /\ worker'[w].job = worker[w].job
    BY <1>2 DEF Shrinks
  <2>4. \A w \in Workers : Busy(w) /\ worker[w].job = j => to = "cancel_requested"
    BY <1>3 DEF Owned, Lost
  <2>5. \A w \in Workers : Busy(w)' =>
          (StatusOf(worker[w].job) \in {"in_progress", "cancel_requested"})'
    <3> SUFFICES ASSUME NEW w \in Workers, Busy(w)'
                 PROVE  StatusOf(worker[w].job)' \in {"in_progress", "cancel_requested"}
      OBVIOUS
    <3>1. Busy(w) /\ worker'[w].job = worker[w].job /\ worker[w].job \in Jobs
      BY <1>3, <2>3
    <3>2. StatusOf(worker[w].job)' = IF worker[w].job = j THEN to ELSE StatusOf(worker[w].job)
      BY <1>1, <3>1 DEF StatusOf
    <3> QED  BY <2>4, <3>1, <3>2 DEF Owned
  <2>6. \A n \in Nodes : sched'[n].pc = "wedged" => sched'[n].job \in Jobs
    BY DEF Inv, Claimed
  <2> QED  BY <1>2, <2>1, <2>2, <2>5, <2>6, OwnedStep
<1>5. \A k \in Jobs : Runner(k)' = Runner(k)
  BY <1>2, RunnerFacts, RunnerFactsNext DEF Inv, Claimed
<1>6. Runners' = Runners /\ JobStatuses' = [JobStatuses EXCEPT ![j] = to]
  BY <1>1, <1>5 DEF Runners, JobStatuses
<1>7. JobStatuses[j] = StatusOf(j) /\ (Lost(j) => Runners[j] = NoJob)
  BY RunnerFacts DEF JobStatuses, Runners, Lost, Runs, Inv, Claimed
<1>8. CASE StatusOf(j) = "none" /\ to = "pending"
  <2>1. Lifecycle!Create(j)
    BY <1>6, <1>7, <1>8 DEF JobStatuses, Runners, Runner, Lifecycle!Create, Lifecycle!Becomes
  <2> QED  BY <1>4, <2>1 DEF Lifecycle!Next
<1>9. CASE StatusOf(j) = "pending" /\ to = "canceled"
  <2>1. Lifecycle!Cancel(j)
    BY <1>6, <1>7, <1>9 DEF JobStatuses, Runners, Runner, Lifecycle!Cancel, Lifecycle!Becomes
  <2> QED  BY <1>4, <2>1 DEF Lifecycle!Next
<1>10. CASE StatusOf(j) = "in_progress" /\ to = "cancel_requested"
  <2>1. Lifecycle!RequestCancel(j)
    BY <1>6, <1>7, <1>10
       DEF JobStatuses, Runners, Runner, Lifecycle!RequestCancel, Lifecycle!Becomes
  <2> QED  BY <1>4, <2>1 DEF Lifecycle!Next
<1>11. CASE Lost(j) /\ to = "error" /\ StatusOf(j) # "error"
  <2>1. JobStatuses[j] \in {"in_progress", "cancel_requested"} /\ Runners[j] = NoJob
    BY <1>7, <1>11 DEF Lost
  <2>2. Lifecycle!GiveUp(j)
    BY <1>6, <1>11, <2>1
       DEF JobStatuses, Runners, Runner, Lifecycle!GiveUp, Lifecycle!Becomes
  <2> QED  BY <1>4, <2>2 DEF Lifecycle!Next
<1>12. CASE Lost(j) /\ to = "error" /\ StatusOf(j) = "error"
  <2>1. QuietStep
    BY <1>1, <1>2, <1>12 DEF QuietStep
  <2> QED  BY <2>1, QuietRefines
<1> QED  BY <1>8, <1>9, <1>10, <1>11, <1>12

(* The worker of a job ends it. *)
LEMMA EndRefines ==
  ASSUME JobServerAssumption, Inv, Inv', Owned, NEW w \in Workers, Busy(w), Leaves(w),
         NEW j, worker[w].job = j,
         NEW s \in {"success", "error", "canceled"}, NEW d,
         RowStep(j, s, d), UNCHANGED <<replica, sched>>
  PROVE  Owned' /\ Lifecycle!Next
<1>1. j \in Jobs /\ StatusOf(j) \in {"in_progress", "cancel_requested"}
  BY DEF Inv, Claimed, Busy, Owned
<1>2. ~Busy(w)' /\ \A v \in Workers \ {w} : worker'[v] = worker[v] /\ (Busy(v)' <=> Busy(v))
  BY LeavesFacts DEF Busy, Inv
<1>3. /\ \A k \in Jobs : StatusOf(k)' = IF k = j THEN s ELSE StatusOf(k)
      /\ \A k \in Jobs : db'.jobs[k].idle => db.jobs[k].idle
  BY DEF RowStep, StatusOf
<1>4. \A v \in Workers \ {w} : Busy(v) => worker[v].job \in Jobs \ {j}
  BY DEF Inv, Claimed, Busy, RunsAlone
<1>5. Owned'
  <2>1. Shrinks
    BY <1>2 DEF Shrinks
  <2>2. ~Lost(j)
    BY DEF Lost
  <2>3. \A k \in Jobs : Lost(k) =>
          (StatusOf(k) \in {"in_progress", "cancel_requested", "error"})'
    BY <1>3, <2>2 DEF Lost
  <2>4. \A v \in Workers : Busy(v)' =>
          (StatusOf(worker[v].job) \in {"in_progress", "cancel_requested"})'
    <3> SUFFICES ASSUME NEW v \in Workers, Busy(v)'
                 PROVE  StatusOf(worker[v].job)' \in {"in_progress", "cancel_requested"}
      OBVIOUS
    <3>1. Busy(v) /\ worker'[v] = worker[v] /\ worker[v].job \in Jobs \ {j}
      BY <1>2, <1>4
    <3>2. StatusOf(worker[v].job)' = StatusOf(worker[v].job)
      BY <1>3, <3>1 DEF StatusOf
    <3> QED  BY <3>1, <3>2 DEF Owned
  <2>5. \A k \in Jobs : db'.jobs[k].idle \/ replica'.jobs[k].idle => Lost(k)
    BY <1>3 DEF Owned
  <2>6. \A n \in Nodes : sched'[n].pc = "wedged" => sched'[n].job \in Jobs
    BY DEF Inv, Claimed
  <2>7. SchedKeeps
    BY DEF SchedKeeps
  <2> QED  BY <2>1, <2>3, <2>4, <2>5, <2>6, <2>7, OwnedStep
<1>6. \A k \in Jobs \ {j}, v \in Workers : Runs(v, k)' <=> Runs(v, k)
  BY <1>2 DEF Runs
<1>7. \A v \in Workers : ~Runs(v, j)'
  BY <1>2, <1>4 DEF Runs
<1>8. ASSUME NEW k \in Jobs PROVE Runner(k)' = IF k = j THEN NoJob ELSE Runner(k)
  <2>1. CASE k = j
    BY <1>7, <2>1, RunnerFactsNext DEF Inv, Claimed
  <2>2. CASE k # j
    BY <1>6, <2>2, RunnerFacts, RunnerFactsNext DEF Inv, Claimed
  <2> QED  BY <2>1, <2>2
<1>9. Runner(j) = w
  BY <1>1, RunnerFacts DEF Runs, Inv, Claimed
<1>10. /\ Runners[j] = w /\ JobStatuses[j] \in {"in_progress", "cancel_requested"}
       /\ JobStatuses' = [JobStatuses EXCEPT ![j] = s]
       /\ Runners' = [Runners EXCEPT ![j] = NoJob]
  BY <1>1, <1>3, <1>8, <1>9 DEF Runners, JobStatuses
<1>11. Lifecycle!End(j, w)
  BY <1>1, <1>10 DEF JobStatuses, Runners, Runner, Lifecycle!End, Lifecycle!Ended
<1> QED  BY <1>1, <1>5, <1>11 DEF Lifecycle!Next

(* A worker claims a pending job. *)
LEMMA TakeRefines ==
  ASSUME JobServerAssumption, Inv, Inv', Owned, NEW w \in Workers, NEW j \in Jobs,
         StatusOf(j) = "pending", NEW d, RowStep(j, "in_progress", d),
         Runs(w, j)', \A v \in Workers \ {w} : worker'[v] = worker[v],
         ~Busy(w), UNCHANGED <<replica, sched>>
  PROVE  Owned' /\ Lifecycle!Next
<1>1. /\ \A k \in Jobs : StatusOf(k)' = IF k = j THEN "in_progress" ELSE StatusOf(k)
      /\ \A k \in Jobs : db'.jobs[k].idle => db.jobs[k].idle
  BY DEF RowStep, StatusOf
<1>2. \A v \in Workers : Busy(v) => worker[v].job \in Jobs \ {j} /\ v # w
  BY DEF Inv, Claimed, Busy
<1>3. \A v \in Workers \ {w} : Busy(v)' <=> Busy(v)
  BY DEF Busy
<1>4. ASSUME NEW k \in Jobs, Lost(k) PROVE k # j /\ Lost(k)'
  <2>1. k # j
    BY <1>4 DEF Lost
  <2>2. StatusOf(k)' = StatusOf(k)
    BY <1>1, <2>1
  <2>3. \A v \in Workers : Busy(v)' => worker'[v].job # k
    BY <1>3, <1>4, <2>1 DEF Lost, Runs
  <2> QED  BY <1>4, <2>1, <2>2, <2>3 DEF Lost
<1>5. Owned'
  <2>1. \A v \in Workers : Busy(v)' =>
          (StatusOf(worker[v].job) \in {"in_progress", "cancel_requested"})'
    <3> SUFFICES ASSUME NEW v \in Workers, Busy(v)'
                 PROVE  StatusOf(worker[v].job)' \in {"in_progress", "cancel_requested"}
      OBVIOUS
    <3>1. CASE v = w
      BY <1>1, <3>1 DEF Runs, StatusOf
    <3>2. CASE v # w
      <4>1. Busy(v) /\ worker'[v] = worker[v] /\ worker[v].job \in Jobs \ {j}
        BY <1>2, <1>3, <3>2
      <4>2. StatusOf(worker[v].job)' = StatusOf(worker[v].job)
        BY <1>1, <4>1 DEF StatusOf
      <4> QED  BY <4>1, <4>2 DEF Owned
    <3> QED  BY <3>1, <3>2
  <2>2. \A k \in Jobs : (db.jobs[k].idle \/ replica.jobs[k].idle => Lost(k))'
    BY <1>1, <1>4 DEF Owned
  <2>3. \A n \in Nodes : (sched[n].pc = "wedged" => Lost(sched[n].job))'
    <3> SUFFICES ASSUME NEW n \in Nodes, sched[n].pc = "wedged" PROVE Lost(sched[n].job)'
      OBVIOUS
    <3>1. sched[n].job \in Jobs /\ Lost(sched[n].job)
      BY DEF Inv, Claimed, Owned
    <3> QED  BY <1>4, <3>1 DEF Lost, StatusOf
  <2> QED  BY <2>1, <2>2, <2>3 DEF Owned
<1>6. \A k \in Jobs \ {j}, v \in Workers : Runs(v, k)' <=> Runs(v, k)
  BY <1>3 DEF Runs
<1>7. ASSUME NEW k \in Jobs PROVE Runner(k)' = IF k = j THEN w ELSE Runner(k)
  <2>1. CASE k = j
    BY <2>1, RunnerFactsNext DEF Inv, Claimed
  <2>2. CASE k # j
    BY <1>6, <2>2, RunnerFacts, RunnerFactsNext DEF Inv, Claimed
  <2> QED  BY <2>1, <2>2
<1>8. /\ JobStatuses[j] = "pending" /\ JobStatuses' = [JobStatuses EXCEPT ![j] = "in_progress"]
      /\ Runners' = [Runners EXCEPT ![j] = w]
  BY <1>1, <1>7 DEF Runners, JobStatuses
<1>9. Lifecycle!Claim(j, w)
  BY <1>8 DEF JobStatuses, Runners, Runner, Lifecycle!Claim, Lifecycle!Becomes
<1> QED  BY <1>5, <1>9 DEF Lifecycle!Next

(* Only the hands of worker w change, and it does not begin a job. *)
LEMMA HandRefines ==
  ASSUME Inv, Inv', Owned, NEW w \in Workers, UNCHANGED <<db, replica, sched>>,
         \A v \in Workers \ {w} : worker'[v] = worker[v],
         worker'[w].pc \in {"idle", "candidate"} \/ (Busy(w) /\ worker'[w].job = worker[w].job)
  PROVE  Owned' /\ Lifecycle!Next
<1>1. Shrinks
  BY DEF Shrinks, Busy
<1>2. QuietStep
  BY <1>1 DEF QuietStep, StatusOf, SchedKeeps
<1> QED  BY <1>2, QuietRefines

LEMMA LeavesRefines ==
  ASSUME JobServerAssumption, Inv, Inv', Owned, NEW w \in Workers, Leaves(w),
         UNCHANGED <<db, replica, sched>>
  PROVE  Owned' /\ Lifecycle!Next
<1>1. worker'[w].pc = "idle" /\ \A v \in Workers \ {w} : worker'[v] = worker[v]
  BY LeavesFacts DEF Inv
<1>2. worker'[w].pc \in {"idle", "candidate"} \/ (Busy(w) /\ worker'[w].job = worker[w].job)
  BY <1>1 DEF Busy
<1> QED  BY <1>1, <1>2, HandRefines

LEMMA GoesRefines ==
  ASSUME JobServerAssumption, Inv, Inv', Owned, NEW w \in Workers, Busy(w),
         NEW pc \in Pcs, Goes(w, pc), UNCHANGED <<db, replica, sched>>
  PROVE  Owned' /\ Lifecycle!Next
<1>1. /\ worker'[w].job = worker[w].job
      /\ \A v \in Workers \ {w} : worker'[v] = worker[v]
  BY GoesFacts DEF Inv
<1> QED  BY <1>1, HandRefines

(* A row is written with the status it has. *)
LEMMA SameStatusRefines ==
  ASSUME Inv, Inv', Owned, NEW j \in Jobs, NEW d, RowStep(j, StatusOf(j), d),
         Shrinks, UNCHANGED <<replica, sched>>
  PROVE  Owned' /\ Lifecycle!Next
<1>1. QuietStep
  BY DEF QuietStep, RowStep, StatusOf, SchedKeeps
<1> QED  BY <1>1, QuietRefines

LEMMA ClaimRefines ==
  ASSUME JobServerAssumption, Inv, Inv', Owned, NEW w \in Workers, Claim(w)
  PROVE  Owned' /\ Lifecycle!Next
<1>1. PICK j : j = worker[w].job
  OBVIOUS
<1>2. j \in Jobs /\ worker[w].pc = "candidate" /\ UNCHANGED <<replica, sched>>
  BY <1>1 DEF Claim, Inv, Claimed
<1>3. CASE Leaves(w) /\ UNCHANGED db
  BY <1>2, <1>3, LeavesRefines
<1>4. CASE /\ UpdateStatusOptimistically(j, "pending", "in_progress")
           /\ worker' = IF StatusOf(j) = "pending"
                          THEN [worker EXCEPT ![w].pc = "running",
                                              ![w].data = db.jobs[j].data]
                          ELSE [worker EXCEPT ![w] = Idle]
  <2>1. CASE StatusOf(j) # "pending"
    <3>1. Leaves(w) /\ UNCHANGED db
      BY <1>4, <2>1 DEF Leaves, UpdateStatusOptimistically
    <3> QED  BY <1>2, <3>1, LeavesRefines
  <2>2. CASE StatusOf(j) = "pending"
    <3>1. PICK d : RowStep(j, "in_progress", d)
      BY <1>2, <1>4, <2>2, UpdateStatusOptimisticallyRow DEF Inv, Status
    <3>2. worker \in [Workers -> WorkerState]
      BY DEF Inv, TypeOK
    <3>3. worker' = [worker EXCEPT ![w] = [worker[w] EXCEPT !.pc = "running",
                                                           !.data = db.jobs[j].data]]
      BY <1>4, <2>2, <3>2
    <3>4. \A v \in Workers \ {w} : worker'[v] = worker[v]
      BY <3>2, <3>3
    <3>5. worker'[w].pc = "running" /\ worker'[w].job = j
      <4> DEFINE x == [worker[w] EXCEPT !.pc = "running", !.data = db.jobs[j].data]
      <4>1. worker'[w] = x
        BY <3>2, <3>3
      <4>2. worker[w] \in WorkerState
        BY <3>2
      <4>3. x.pc = "running" /\ x.job = worker[w].job
        BY <4>2, Zenon DEF WorkerState
      <4> QED  BY <1>1, <4>1, <4>3
    <3>6. Runs(w, j)' /\ ~Busy(w)
      BY <1>2, <3>5 DEF Runs, Busy
    <3> QED  BY <1>2, <2>2, <3>1, <3>4, <3>6, TakeRefines
  <2> QED  BY <2>1, <2>2
<1> QED  BY <1>1, <1>3, <1>4 DEF Claim

LEMMA BatchRefines ==
  ASSUME JobServerAssumption, Inv, Inv', Owned, NEW w \in Workers, Batch(w)
  PROVE  Owned' /\ Lifecycle!Next
<1> DEFINE d == worker[w].data
<1>1. /\ Busy(w) /\ UNCHANGED <<replica, sched>>
      /\ \/ /\ worker' = [worker EXCEPT ![w].pc = "update", ![w].data = d + 1]
            /\ UNCHANGED db
         \/ /\ Goes(w, IF db.completed THEN "error" ELSE "success")
            /\ db' = [db EXCEPT !.completed = TRUE]
         \/ Goes(w, "error") /\ UNCHANGED db
  BY Zenon DEF Batch, Busy
<1>2. worker \in [Workers -> WorkerState] /\ worker[w] \in WorkerState
  BY DEF Inv, TypeOK
<1>3. CASE /\ worker' = [worker EXCEPT ![w].pc = "update", ![w].data = d + 1]
           /\ UNCHANGED db
  <2> DEFINE x == [worker[w] EXCEPT !.pc = "update", !.data = d + 1]
  <2>1. worker' = [worker EXCEPT ![w] = x]
    BY <1>2, <1>3
  <2>2. x.job = worker[w].job
    BY <1>2, Zenon DEF WorkerState
  <2> HIDE DEF x
  <2>3. worker'[w].job = worker[w].job /\ \A v \in Workers \ {w} : worker'[v] = worker[v]
    BY <1>2, <2>1, <2>2
  <2> QED  BY <1>1, <1>3, <2>3, HandRefines
<1>4. CASE /\ Goes(w, IF db.completed THEN "error" ELSE "success")
           /\ db' = [db EXCEPT !.completed = TRUE]
  <2>1. PICK pc \in {"error", "success"} : Goes(w, pc)
    BY <1>4
  <2>2. worker'[w].job = worker[w].job /\ \A v \in Workers \ {w} : worker'[v] = worker[v]
    BY <2>1, GoesFacts DEF Inv, Pcs
  <2>3. db \in Tables
    BY DEF Inv, TypeOK
  <2>4. db'.jobs = db.jobs
    BY <1>4, <2>3, Zenon DEF Tables
  <2>5. Shrinks
    BY <1>1, <2>2 DEF Shrinks, Busy
  <2>6. QuietStep
    BY <1>1, <2>4, <2>5 DEF QuietStep, StatusOf, SchedKeeps
  <2> QED  BY <2>6, QuietRefines
<1>5. CASE Goes(w, "error") /\ UNCHANGED db
  BY <1>1, <1>5, GoesRefines DEF Pcs
<1> QED  BY <1>1, <1>3, <1>4, <1>5

LEMMA UpdateInProgressJobDataRefines ==
  ASSUME JobServerAssumption, Inv, Inv', Owned, NEW w \in Workers,
         UpdateInProgressJobData(w)
  PROVE  Owned' /\ Lifecycle!Next
<1> DEFINE d == worker[w].data
<1>1. PICK j : j = worker[w].job
  OBVIOUS
<1>2. Busy(w) /\ UNCHANGED <<replica, sched>> /\ j \in Jobs /\ d \in 0 .. Batches
  BY <1>1, BusyFacts DEF UpdateInProgressJobData, Busy
<1>3. CASE Goes(w, "error") /\ UNCHANGED db
  BY <1>2, <1>3, GoesRefines DEF Pcs
<1>4. CASE UpdateOptimistically(j, d, "in_progress", "in_progress") /\ Goes(w, "running")
  <2>1. IF StatusOf(j) = "in_progress" THEN RowStep(j, "in_progress", d) ELSE db' = db
    BY <1>2, <1>4, UpdateOptimisticallyRow DEF Inv, Status
  <2>2. worker'[w].job = worker[w].job /\ \A v \in Workers \ {w} : worker'[v] = worker[v]
    BY <1>4, GoesFacts DEF Inv, Pcs
  <2>3. Shrinks
    BY <1>2, <2>2 DEF Shrinks, Busy
  <2>4. CASE db' = db
    BY <1>2, <2>2, <2>4, HandRefines
  <2>5. CASE StatusOf(j) = "in_progress"
    <3>1. PICK x : x = d
      OBVIOUS
    <3> QED  BY <1>2, <2>1, <2>3, <2>5, <3>1, SameStatusRefines
  <2> QED  BY <2>1, <2>4, <2>5
<1> QED  BY <1>1, <1>3, <1>4 DEF UpdateInProgressJobData

LEMMA CancellationWatcherRefines ==
  ASSUME JobServerAssumption, Inv, Inv', Owned, NEW w \in Workers,
         CancellationWatcher(w)
  PROVE  Owned' /\ Lifecycle!Next
<1> DEFINE x == [worker[w] EXCEPT !.canceled = TRUE]
<1>1. /\ Busy(w) /\ worker \in [Workers -> WorkerState] /\ worker[w] \in WorkerState
      /\ UNCHANGED <<db, replica, sched>>
  BY DEF CancellationWatcher, Inv, TypeOK
<1>2. worker' = [worker EXCEPT ![w] = x]
  BY <1>1 DEF CancellationWatcher
<1>3. x.job = worker[w].job
  BY <1>1, Zenon DEF WorkerState
<1> HIDE DEF x
<1>4. worker'[w].job = worker[w].job /\ \A v \in Workers \ {w} : worker'[v] = worker[v]
  BY <1>1, <1>2, <1>3
<1> QED  BY <1>1, <1>4, HandRefines

(* Statements with which a worker ends its job. *)
LEMMA SetJobRefines ==
  ASSUME JobServerAssumption, Inv, Inv', Owned, NEW w \in Workers,
         SetJobCanceled(w) \/ SetJobSuccess(w) \/ SetJobError(w)
  PROVE  Owned' /\ Lifecycle!Next
<1>1. PICK j : j = worker[w].job
  OBVIOUS
<1>2. /\ Busy(w) /\ UNCHANGED <<replica, sched>> /\ j \in Jobs
      /\ worker[w].data \in 0 .. Batches
  BY <1>1, BusyFacts DEF SetJobCanceled, SetJobSuccess, SetJobError, Busy
<1>3. ASSUME NEW pc \in Pcs, Goes(w, pc), UNCHANGED db PROVE Owned' /\ Lifecycle!Next
  BY <1>2, <1>3, GoesRefines
<1>4. CASE Leaves(w) /\ UNCHANGED db
  BY <1>2, <1>4, LeavesRefines
<1>5. ASSUME NEW s \in {"success", "canceled"}, UpdateStatus(j, s), Leaves(w)
      PROVE  Owned' /\ Lifecycle!Next
  <2>1. PICK d : RowStep(j, s, d)
    BY <1>2, <1>5, UpdateStatusRow DEF Inv, Status
  <2> QED  BY <1>1, <1>2, <1>5, <2>1, EndRefines
<1>6. ASSUME NEW from, UpdateOptimistically(j, worker[w].data, from, "error"), Leaves(w)
      PROVE  Owned' /\ Lifecycle!Next
  <2>1. db' = db \/ \E d : RowStep(j, "error", d)
    BY <1>2, <1>6, UpdateOptimisticallyRow DEF Inv, Status
  <2> QED  BY <1>1, <1>2, <1>4, <1>6, <2>1, EndRefines
<1>7. CASE SetJobCanceled(w)
  BY <1>1, <1>4, <1>5, <1>7 DEF SetJobCanceled
<1>8. CASE SetJobSuccess(w)
  BY <1>1, <1>3, <1>5, <1>8 DEF SetJobSuccess, Pcs
<1>9. CASE SetJobError(w)
  <2>1. CASE /\ UpdateOptimistically(j, worker[w].data, "in_progress", "error")
             /\ StatusOf(j) # "in_progress" /\ Goes(w, "error2")
    BY <1>3, <2>1 DEF UpdateOptimistically, Pcs
  <2> QED  BY <1>1, <1>4, <1>6, <1>9, <2>1 DEF SetJobError
<1> QED  BY <1>7, <1>8, <1>9

LEMMA WorkerStepRefines ==
  ASSUME JobServerAssumption, Inv, Inv', Owned, NEW w \in Workers,
         WorkerStep(w) \/ CancellationWatcher(w)
  PROVE  Owned' /\ Lifecycle!Next
<1>1. CASE Execute(w)
  <2>1. /\ Busy(w) /\ UNCHANGED <<db, replica, sched>>
        /\ Goes(w, "success") \/ Goes(w, "error")
    BY <1>1 DEF Execute, Busy
  <2> QED  BY <2>1, GoesRefines DEF Pcs
<1>2. CASE SeesCancel(w)
  <2>1. Busy(w) /\ UNCHANGED <<db, replica, sched>> /\ Goes(w, "canceling")
    BY <1>2 DEF SeesCancel, Busy
  <2> QED  BY <2>1, GoesRefines DEF Pcs
<1> QED
  BY <1>1, <1>2, ClaimRefines, BatchRefines, UpdateInProgressJobDataRefines,
     CancellationWatcherRefines, SetJobRefines DEF WorkerStep

(* Steps that leave the tables and the schedulers alone. *)
LEMMA OtherRefines ==
  ASSUME JobServerAssumption, Inv, Inv', Owned,
         \/ Replicate
         \/ \E n \in Nodes : \/ Poll(n) \/ Notify(n) \/ StopWorkers(n)
                             \/ Crash(n) \/ Restart(n) \/ Stopped(n)
  PROVE  Owned' /\ Lifecycle!Next
<1>1. CASE Replicate
  <2>1. replica' = db /\ UNCHANGED <<db, worker, sched>>
    BY <1>1 DEF Replicate
  <2>2. Shrinks
    BY <2>1 DEF Shrinks, Busy
  <2>3. QuietStep
    BY <2>1, <2>2 DEF QuietStep, StatusOf, SchedKeeps
  <2> QED  BY <2>3, QuietRefines
<1>2. ASSUME NEW n \in Nodes, Poll(n) \/ StopWorkers(n) PROVE Owned' /\ Lifecycle!Next
  <2>1. UNCHANGED <<db, replica, worker, sched>>
    BY <1>2 DEF Poll, StopWorkers
  <2>2. Shrinks
    BY <2>1 DEF Shrinks, Busy
  <2>3. QuietStep
    BY <2>1, <2>2 DEF QuietStep, StatusOf, SchedKeeps
  <2> QED  BY <2>3, QuietRefines
<1>3. ASSUME NEW n \in Nodes, Notify(n) PROVE Owned' /\ Lifecycle!Next
  <2>1. PICK j \in watcher[n] :
          /\ UNCHANGED <<db, replica, sched>>
          /\ worker' = IF worker[<<n, TypeOf(j)>>].pc = "idle"
                         THEN [worker EXCEPT ![<<n, TypeOf(j)>>].pc = "candidate",
                                             ![<<n, TypeOf(j)>>].job = j]
                         ELSE worker
    BY <1>3 DEF Notify
  <2>2. PICK w \in Workers : w = <<n, TypeOf(j)>>
    <3>1. TypeOf(j) \in {"simple", "migrations"}
      BY DEF TypeOf
    <3>2. <<n, TypeOf(j)>> \in Workers
      BY <3>1 DEF Workers
    <3> QED  BY <3>2
  <2>3. worker \in [Workers -> WorkerState] /\ worker[w] \in WorkerState
    BY DEF Inv, TypeOK
  <2>4. CASE worker[w].pc = "idle"
    <3> DEFINE x == [worker[w] EXCEPT !.pc = "candidate", !.job = j]
    <3>1. worker' = [worker EXCEPT ![w] = x]
      BY <2>1, <2>2, <2>3, <2>4
    <3>2. x.pc = "candidate"
      BY <2>3, Zenon DEF WorkerState
    <3> HIDE DEF x
    <3>3. /\ \/ worker'[w].pc \in {"idle", "candidate"}
             \/ Busy(w) /\ worker'[w].job = worker[w].job
          /\ \A v \in Workers \ {w} : worker'[v] = worker[v]
      BY <2>3, <3>1, <3>2 DEF Busy
    <3> QED  BY <2>1, <3>3, HandRefines
  <2>5. CASE worker' = worker
    <3>1. Shrinks
      BY <2>5 DEF Shrinks, Busy
    <3>2. QuietStep
      BY <2>1, <3>1 DEF QuietStep, StatusOf, SchedKeeps
    <3> QED  BY <3>2, QuietRefines
  <2> QED  BY <2>1, <2>2, <2>4, <2>5
<1>4. ASSUME NEW n \in Nodes, Crash(n) \/ Restart(n) \/ Stopped(n)
      PROVE  Owned' /\ Lifecycle!Next
  <2>1. PICK st \in {"up", "down"} : Gone(n, st) /\ UNCHANGED <<db, replica>>
    BY <1>4 DEF Crash, Restart, Stopped
  <2>2. \A w \in Workers : worker'[w].pc = "idle" \/ worker'[w] = worker[w]
    BY <2>1, GoneFacts, IdleType DEF Inv
  <2>3. \A m \in Nodes : sched'[m].pc = "wait" \/ sched'[m] = sched[m]
    BY <2>1, GoneFacts, IdleType DEF Inv
  <2>4. Shrinks
    BY <2>2 DEF Shrinks, Busy
  <2>5. SchedKeeps
    BY <2>3 DEF SchedKeeps
  <2>6. QuietStep
    BY <2>1, <2>4, <2>5 DEF QuietStep, StatusOf
  <2> QED  BY <2>6, QuietRefines
<1> QED  BY <1>1, <1>2, <1>3, <1>4

(* The requests of the API. *)
LEMMA RequestRefines ==
  ASSUME JobServerAssumption, Inv, Inv', Owned,
         CancelRunning \/ \E j \in Jobs : CreateJob(j) \/ RequestCancellation(j)
  PROVE  Owned' /\ Lifecycle!Next
<1>1. UNCHANGED <<replica, worker, sched>>
  BY DEF CancelRunning, CreateJob, RequestCancellation
<1>2. SchedKeeps
  BY <1>1 DEF SchedKeeps
<1>3. CASE db' = db
  <2>1. Shrinks
    BY <1>1 DEF Shrinks, Busy
  <2>2. QuietStep
    BY <1>1, <1>2, <1>3, <2>1 DEF QuietStep, StatusOf
  <2> QED  BY <2>2, QuietRefines
<1>4. ASSUME NEW j \in Jobs, CreateJob(j) PROVE Owned' /\ Lifecycle!Next
  <2>1. 0 \in 0 .. Batches
    BY DEF JobServerAssumption
  <2>2. RowStep(j, "pending", 0) /\ StatusOf(j) = "none"
    BY <1>4, <2>1, SaveRow DEF CreateJob, Inv
  <2> QED  BY <1>1, <1>2, <2>2, RowRefines
<1>5. ASSUME NEW j \in Jobs, RequestCancellation(j) PROVE Owned' /\ Lifecycle!Next
  <2>1. db' = db \/ (StatusOf(j) = "pending" /\ \E d : RowStep(j, "canceled", d))
    BY <1>5, UpdateStatusOptimisticallyRow DEF RequestCancellation, Inv, Status
  <2> QED  BY <1>1, <1>2, <1>3, <2>1, RowRefines
<1>6. CASE CancelRunning
  <2>1. PICK j \in Jobs : j = cancel
    BY <1>6 DEF CancelRunning, Inv, TypeOK
  <2>2. db' = db \/ (StatusOf(j) = "in_progress" /\ \E d : RowStep(j, "cancel_requested", d))
    BY <1>6, <2>1, UpdateStatusOptimisticallyRow DEF CancelRunning, Inv, Status
  <2> QED  BY <1>1, <1>2, <1>3, <2>2, RowRefines
<1> QED  BY <1>4, <1>5, <1>6

(* A scheduler takes for wedged only what looks so in the table or in a     *)
(* replica, and such a job is lost.                                         *)
LEMMA SchedulerRefines ==
  ASSUME JobServerAssumption, Inv, Inv', Owned, NEW n \in Nodes, SchedulerStep(n)
  PROVE  Owned' /\ Lifecycle!Next
<1>1. sched \in [Nodes -> SchedState] /\ sched[n] \in SchedState
  BY DEF Inv, TypeOK
<1>2. UNCHANGED <<replica, worker>>
  BY DEF SchedulerStep, ScheduleJob, GiveUpWedged, CreateMigrationJob
<1>3. Shrinks
  BY <1>2 DEF Shrinks, Busy
<1>4. ASSUME db' = db, SchedKeeps PROVE Owned' /\ Lifecycle!Next
  <2>1. QuietStep
    BY <1>2, <1>3, <1>4 DEF QuietStep, StatusOf
  <2> QED  BY <2>1, QuietRefines
<1>5. CASE ScheduleJob(n)
  <2>1. PICK x : /\ sched' = [sched EXCEPT ![n] = x]
                 /\ x.pc = "wedged" => x.job \in Jobs /\ Seen.jobs[x.job].idle
    <3>1. PICK pc, j, d : /\ Decides(n, pc, j, d)
                          /\ pc = "wedged" => j \in Jobs /\ Seen.jobs[j].idle
      BY <1>5 DEF ScheduleJob, Jobs
    <3> DEFINE y == [pc |-> pc, job |-> j, data |-> d]
    <3>2. sched' = [sched EXCEPT ![n] = y] /\ y.pc = pc /\ y.job = j
      BY <3>1 DEF Decides
    <3> HIDE DEF y
    <3> QED  BY <3>1, <3>2
  <2>2. x.pc = "wedged" => Lost(x.job)
    BY <2>1 DEF Seen, Owned
  <2>3. \A m \in Nodes : sched'[m] = IF m = n THEN x ELSE sched[m]
    BY <1>1, <2>1
  <2>4. SchedKeeps
    BY <2>2, <2>3 DEF SchedKeeps
  <2> QED  BY <1>4, <1>5, <2>4 DEF ScheduleJob
<1>6. CASE GiveUpWedged(n)
  <2>1. PICK j \in Jobs : j = sched[n].job /\ Lost(j)
    BY <1>6 DEF GiveUpWedged, Inv, Claimed, Owned
  <2> DEFINE x == [sched[n] EXCEPT !.pc = "create"]
  <2>2. sched' = [sched EXCEPT ![n] = x] /\ x.pc = "create"
    BY <1>1, <1>6 DEF GiveUpWedged, SchedState
  <2> HIDE DEF x
  <2>3. SchedKeeps
    BY <1>1, <2>2 DEF SchedKeeps
  <2>4. db' = db \/ \E d : RowStep(j, "error", d)
    BY <1>6, <2>1, UpdateStatusRow DEF GiveUpWedged, Inv, Status
  <2> QED  BY <1>2, <1>4, <2>1, <2>3, <2>4, RowRefines
<1>7. CASE CreateMigrationJob(n)
  <2>1. SchedKeeps
    BY <1>1, <1>7, IdleType DEF CreateMigrationJob, SchedKeeps
  <2>2. sched[n].data \in 0 .. Batches
    BY Fields DEF Inv
  <2>3. db' = db \/ \E j \in Jobs : StatusOf(j) = "none" /\ \E d : RowStep(j, "pending", d)
    BY <1>7, <2>2, SaveRow DEF CreateMigrationJob, Inv, Jobs
  <2> QED  BY <1>2, <1>4, <2>1, <2>3, RowRefines
<1> QED  BY <1>5, <1>6, <1>7 DEF SchedulerStep

(* A job of which an hour passes without activity has lost its worker. *)
LEMMA HourRefines ==
  ASSUME ~SlowWorkers, Inv, Inv', Owned, NEW j \in Jobs, HourPasses(j)
  PROVE  Owned' /\ Lifecycle!Next
<1>1. UNCHANGED <<replica, worker, sched>>
  BY DEF HourPasses
<1>2. Lost(j)
  BY DEF HourPasses, Lost
<1>3. /\ \A k \in Jobs \ {j} : db'.jobs[k] = db.jobs[k]
      /\ db'.jobs[j].status = db.jobs[j].status
  BY HourRow DEF Inv
<1>4. Shrinks /\ SchedKeeps
  BY <1>1 DEF Shrinks, Busy, SchedKeeps
<1>5. QuietStep
  BY <1>1, <1>2, <1>3, <1>4 DEF QuietStep, StatusOf
<1> QED  BY <1>5, QuietRefines

LEMMA NextRefines ==
  ASSUME JobServerAssumption, ~SlowWorkers, Inv, Inv', Owned, Next
  PROVE  Owned' /\ Lifecycle!Next
  BY OtherRefines, RequestRefines, SchedulerRefines, HourRefines, WorkerStepRefines DEF Next

LEMMA InitRefines ==
  ASSUME JobServerAssumption, Init
  PROVE  Owned /\ Lifecycle!Init
<1>1. \A w \in Workers : ~Busy(w)
  BY IdleType DEF Init, Busy
<1>2. \A j \in Jobs : StatusOf(j) = "none" /\ ~db.jobs[j].idle /\ ~replica.jobs[j].idle
  BY DEF Init, StatusOf
<1>3. \A n \in Nodes : sched[n].pc # "wedged"
  BY IdleType DEF Init
<1>4. Owned
  BY <1>1, <1>2, <1>3 DEF Owned
<1>5. JobStatuses = [j \in Jobs |-> "none"] /\ Runners = [j \in Jobs |-> NoJob]
  BY <1>1, <1>2 DEF JobStatuses, Runners, Runner
<1> QED  BY <1>4, <1>5 DEF JobStatuses, Runners, Runner, Lifecycle!Init

(***************************************************************************)
(* The jobs live as JobLifecycle promises, whatever crashes, stops, fails  *)
(* or is read from a replica that lags: one worker at a time claims a      *)
(* pending job and it alone ends it; others cancel it before that, ask for *)
(* its cancellation, or give it up once its worker is gone; and a job that *)
(* has ended stays so.  It takes that a job is without activity for an     *)
(* hour only if it has lost its worker (migrations/scheduler.go:58).       *)
(***************************************************************************)
THEOREM JobsImplementLifecycle ==
  ASSUME JobServerAssumption, ~SlowWorkers
  PROVE  Spec => LifecycleSpec
<1>1. Init => Owned /\ Lifecycle!Init
  BY InitRefines
<1>2. Inv /\ Inv' /\ Owned /\ [Next]_vars
        => Owned' /\ [Lifecycle!Next]_<<JobStatuses, Runners>>
  <2> SUFFICES ASSUME Inv, Inv', Owned, [Next]_vars
               PROVE  Owned' /\ [Lifecycle!Next]_<<JobStatuses, Runners>>
    OBVIOUS
  <2>1. CASE Next
    BY <2>1, NextRefines
  <2>2. CASE UNCHANGED vars
    <3>1. UNCHANGED <<db, replica, worker, sched>>
      BY <2>2 DEF vars
    <3>2. Owned'
      BY <3>1 DEF Owned, Lost, Busy, StatusOf
    <3>3. UNCHANGED <<JobStatuses, Runners>>
      BY <3>1 DEF JobStatuses, Runners, Runner, Busy, StatusOf
    <3> QED  BY <3>2, <3>3
  <2> QED  BY <2>1, <2>2
<1>3. Spec => []Inv
  BY AlwaysInv
<1> QED  BY <1>1, <1>2, <1>3, PTL DEF Spec, LifecycleSpec, Lifecycle!Spec, JobStatuses, Runners, Runner

=============================================================================
