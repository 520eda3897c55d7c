----------------------------- MODULE Schedulers -----------------------------
(***************************************************************************)
(* The job schedulers of one node (jobs/schedulers.go, jobs/server.go):    *)
(* one goroutine that runs a scheduler when its time has come, and that    *)
(* hears of configurations (an unbuffered channel), of cluster leaders (a  *)
(* channel of one) and of the stop.  Listeners of the configuration run in *)
(* the request that saved it; listeners of the cluster leader run in a     *)
(* goroutine made for each change; Start, Stop and the leader's listener   *)
(* share the mutex of the job server.                                      *)
(*                                                                         *)
(* The schedulers differ only in when they want to run, so one is kept.    *)
(***************************************************************************)
EXTENDS Integers, Sequences

CONSTANTS Changes,       \* bound: changes of the cluster's leader
          Saves,         \* bound: configurations that are saved
          MaxStarts,     \* bound: starts of the schedulers
          MaxFaults      \* bound: failing queries

SchedulersAssumption ==
  /\ Changes \cap Saves = {} /\ Changes \cap {"nobody", "stop"} = {}
  /\ MaxStarts \in Nat /\ MaxFaults \in Nat

VARIABLES leader,    \* whether this node leads the cluster
          enabled,   \* whether the saved configuration enables the scheduler
          change,    \* change[i]: the goroutine of a change of leader
          save,      \* save[i]: the request that saves a configuration
          mut,       \* who holds JobServer.mut
          queue,     \* clusterLeaderChanged
          isLeader, nextRun, running,
          loop,      \* where the schedulers' goroutine is
          starts,    \* number of starts, which names the stop channel
          closed,    \* whether the last stop channel is closed
          listening, \* whether handleConfigChange is a listener
          faults

vars == <<leader, enabled, change, save, mut, queue, isLeader, nextRun,
          running, loop, starts, closed, listening, faults>>

Nobody == "nobody"

TypeOK ==
  /\ leader \in BOOLEAN /\ enabled \in BOOLEAN
  /\ change \in [Changes -> [pc : {"none", "begun", "read", "try", "drain",
                                   "send", "done"}, isLeader : BOOLEAN,
                              overtakes : BOOLEAN]]
  /\ save \in [Saves -> [pc : {"none", "saved", "calling", "done"},
                         enabled : BOOLEAN, stop : 0 .. MaxStarts,
                         overtakes : BOOLEAN]]
  /\ mut \in Changes \cup {Nobody, "stop"}
  /\ queue \in Seq(BOOLEAN) /\ Len(queue) <= 1
  /\ isLeader \in BOOLEAN /\ running \in BOOLEAN
  /\ nextRun \in {"nil", "failed", "set"}
  /\ loop \in {"off", "first", "select"}
  /\ starts \in 0 .. MaxStarts /\ closed \in BOOLEAN
  /\ listening \in BOOLEAN /\ faults \in 0 .. MaxFaults

Init == /\ leader = TRUE /\ enabled \in BOOLEAN
        /\ change = [i \in Changes |-> [pc |-> "none", isLeader |-> TRUE,
                                         overtakes |-> FALSE]]
        /\ save = [i \in Saves |->
                     [pc |-> "none", enabled |-> TRUE, stop |-> 0,
                      overtakes |-> FALSE]]
        /\ mut = Nobody /\ queue = <<>>
        /\ isLeader = TRUE /\ nextRun = "nil" /\ running = FALSE
        /\ loop = "off" /\ starts = 0 /\ closed = FALSE
        /\ listening = FALSE /\ faults = 0

Free(m) == m = Nobody

Acting(t) == t.pc \notin {"none", "done"}

-----------------------------------------------------------------------------

(* InvokeClusterLeaderChangedListeners: a goroutine for each change. *)
LeaderChanges(i) ==
  /\ change[i].pc = "none"
  /\ leader' = ~leader
  /\ change' = [change EXCEPT ![i].pc = "begun",
                              ![i].overtakes = \E k \in Changes : Acting(change[k])]
  /\ UNCHANGED <<enabled, save, mut, queue, isLeader, nextRun, running, loop,
                 starts, closed, listening, faults>>

(* The argument of HandleClusterLeaderChange, before its lock. *)
ReadLeader(i) ==
  /\ change[i].pc = "begun"
  /\ change' = [change EXCEPT ![i].pc = "read", ![i].isLeader = leader]
  /\ UNCHANGED <<leader, enabled, save, mut, queue, isLeader, nextRun,
                 running, loop, starts, closed, listening, faults>>

(* Mutant of LockForChange: the method is not called under lock. *)
LockForChangeNot(i) ==
  /\ change[i].pc = "read"
  /\ change' = [change EXCEPT ![i].pc = "try"]
  /\ UNCHANGED <<leader, enabled, save, mut, queue, isLeader, nextRun,
                 running, loop, starts, closed, listening, faults>>

LockForChange(i) ==
  /\ change[i].pc = "read" /\ Free(mut)
  /\ mut' = i
  /\ change' = [change EXCEPT ![i].pc = "try"]
  /\ UNCHANGED <<leader, enabled, save, queue, isLeader, nextRun, running,
                 loop, starts, closed, listening, faults>>

Unlocked(i) == IF mut = i THEN Nobody ELSE mut

(* Mutant of HandleClusterLeaderChange: a full channel keeps what it has. *)
HandleClusterLeaderChangeDrops(i) ==
  /\ change[i].pc = "try"
  /\ queue' = IF queue = <<>> THEN <<change[i].isLeader>> ELSE queue
  /\ change' = [change EXCEPT ![i].pc = "done"]
  /\ mut' = Unlocked(i)
  /\ UNCHANGED <<leader, enabled, save, isLeader, nextRun, running, loop,
                 starts, closed, listening, faults>>

(* handleClusterLeaderChange: send, else drain and then send, waiting if    *)
(* there is no room.                                                        *)
HandleClusterLeaderChange(i) ==
  /\ \/ /\ change[i].pc \in {"try", "send"} /\ queue = <<>>
        /\ queue' = <<change[i].isLeader>>
        /\ change' = [change EXCEPT ![i].pc = "done"]
        /\ mut' = Unlocked(i)
     \/ /\ change[i].pc = "try" /\ queue # <<>>
        /\ change' = [change EXCEPT ![i].pc = "drain"]
        /\ UNCHANGED <<queue, mut>>
     \/ /\ change[i].pc = "drain"
        /\ queue' = <<>>
        /\ change' = [change EXCEPT ![i].pc = "send"]
        /\ UNCHANGED mut
  /\ UNCHANGED <<leader, enabled, save, isLeader, nextRun, running, loop,
                 starts, closed, listening, faults>>

-----------------------------------------------------------------------------

(* Store.Set of the configuration, and then its listeners. *)
SaveConfig(i) ==
  /\ save[i].pc = "none"
  /\ enabled' = ~enabled
  /\ save' = [save EXCEPT ![i].pc = "saved", ![i].enabled = enabled',
                          ![i].overtakes = \E k \in Saves : Acting(save[k])]
  /\ UNCHANGED <<leader, change, mut, queue, isLeader, nextRun, running, loop,
                 starts, closed, listening, faults>>

(* The listener, if it is one still, takes the stop channel of the moment. *)
InvokeListeners(i) ==
  /\ save[i].pc = "saved"
  /\ save' = [save EXCEPT ![i].pc = IF listening THEN "calling" ELSE "done",
                          ![i].stop = starts]
  /\ UNCHANGED <<leader, enabled, change, mut, queue, isLeader, nextRun,
                 running, loop, starts, closed, listening, faults>>

(* Mutant of ListenerSeesStop: the send is not given up at a stop. *)
ListenerSeesStopNot(i) == save[i].pc = "gone" /\ UNCHANGED vars

(* handleConfigChange gives up when the schedulers stop. *)
ListenerSeesStop(i) ==
  /\ save[i].pc = "calling" /\ (save[i].stop < starts \/ closed)
  /\ save' = [save EXCEPT ![i].pc = "done"]
  /\ UNCHANGED <<leader, enabled, change, mut, queue, isLeader, nextRun,
                 running, loop, starts, closed, listening, faults>>

-----------------------------------------------------------------------------

(* StartSchedulers and StopSchedulers, by the server and its license. *)
StartSchedulers ==
  /\ Free(mut) /\ ~running /\ starts < MaxStarts
  /\ starts' = starts + 1 /\ closed' = FALSE
  /\ listening' = TRUE /\ running' = TRUE /\ loop' = "first"
  /\ UNCHANGED <<leader, enabled, change, save, mut, queue, isLeader, nextRun,
                 faults>>

StopSchedulers ==
  /\ Free(mut) /\ running
  /\ mut' = "stop" /\ closed' = TRUE
  /\ UNCHANGED <<leader, enabled, change, save, queue, isLeader, nextRun,
                 running, loop, starts, listening, faults>>

StopSchedulersEnds ==
  /\ mut = "stop" /\ loop = "off"
  /\ mut' = Nobody
  /\ listening' = FALSE /\ running' = FALSE
  /\ UNCHANGED <<leader, enabled, change, save, queue, isLeader, nextRun,
                 loop, starts, closed, faults>>

-----------------------------------------------------------------------------

(* setNextRunTime: its queries may fail, and then there is no next time.    *)
SetNextRunTime ==
  \/ nextRun' = "set" /\ UNCHANGED faults
  \/ faults < MaxFaults /\ faults' = faults + 1 /\ nextRun' = "failed"

NoNextRunTime == nextRun' = "nil" /\ UNCHANGED faults

FirstRunTimes ==
  /\ loop = "first"
  /\ IF enabled THEN SetNextRunTime ELSE NoNextRunTime
  /\ loop' = "select"
  /\ UNCHANGED <<leader, enabled, change, save, mut, queue, isLeader, running,
                 starts, closed, listening>>

(* The timer: if scheduleJob fails, the time that has come stays. *)
Tick ==
  /\ loop = "select" /\ nextRun = "set" /\ isLeader /\ enabled
  /\ \/ SetNextRunTime
     \/ faults < MaxFaults /\ faults' = faults + 1 /\ UNCHANGED nextRun
  /\ UNCHANGED <<leader, enabled, change, save, mut, queue, isLeader, running,
                 loop, starts, closed, listening>>

ConfigChanged ==
  /\ loop = "select"
  /\ \E i \in Saves :
       /\ save[i].pc = "calling"
       /\ save' = [save EXCEPT ![i].pc = "done"]
       /\ IF isLeader /\ save[i].enabled THEN SetNextRunTime ELSE NoNextRunTime
  /\ UNCHANGED <<leader, enabled, change, mut, queue, isLeader, running, loop,
                 starts, closed, listening>>

ClusterLeaderChanged ==
  /\ loop = "select" /\ queue # <<>>
  /\ queue' = <<>> /\ isLeader' = Head(queue)
  /\ IF isLeader' THEN SetNextRunTime ELSE NoNextRunTime
  /\ UNCHANGED <<leader, enabled, change, save, mut, running, loop, starts,
                 closed, listening>>

LoopStops ==
  /\ loop = "select" /\ closed
  /\ loop' = "off"
  /\ UNCHANGED <<leader, enabled, change, save, mut, queue, isLeader, nextRun,
                 running, starts, closed, listening, faults>>

-----------------------------------------------------------------------------

ChangeStep(i) ==
  ReadLeader(i) \/ LockForChange(i) \/ HandleClusterLeaderChange(i)

SaveStep(i) == InvokeListeners(i) \/ ListenerSeesStop(i)

Next == \/ \E i \in Changes : LeaderChanges(i) \/ ChangeStep(i)
        \/ \E i \in Saves : SaveConfig(i) \/ SaveStep(i)
        \/ StartSchedulers \/ StopSchedulers \/ StopSchedulersEnds
        \/ FirstRunTimes \/ Tick \/ ConfigChanged \/ ClusterLeaderChanged
        \/ LoopStops

Spec == Init /\ [][Next]_vars

(***************************************************************************)
(* Goroutines run.  The mutex of Go is fair, and a select that finds a     *)
(* case ready again and again chooses it in the end: hence strong fairness *)
(* for these.  A change of leader, a save, a start, a stop and a failure   *)
(* need not happen.                                                        *)
(***************************************************************************)
Fairness ==
  /\ \A i \in Changes : /\ WF_vars(ReadLeader(i))
                        /\ SF_vars(LockForChange(i))
                        /\ WF_vars(HandleClusterLeaderChange(i))
  /\ \A i \in Saves : WF_vars(SaveStep(i))
  /\ WF_vars(StopSchedulersEnds) /\ WF_vars(FirstRunTimes) /\ WF_vars(Tick)
  /\ SF_vars(ConfigChanged) /\ SF_vars(ClusterLeaderChanged)
  /\ SF_vars(LoopStops)

FairSpec == Spec /\ Fairness

-----------------------------------------------------------------------------

(* The last send of a change of leader, made with the mutex held that Start *)
(* and Stop need, finds room at once, however many changes there are at a   *)
(* time: "This operation is safe due to this method being called under      *)
(* lock" (schedulers.go:184).                                               *)
SendFindsRoom == \A i \in Changes : change[i].pc = "send" => queue = <<>>

(* Saving a configuration is not held up by schedulers that stop, have      *)
(* stopped or are started again (schedulers.go:166).                        *)
SaveReturns == \A i \in Saves : save[i].pc = "saved" ~> save[i].pc = "done"

(* A listener was called before another one had returned. *)
Overtaken == \/ \E i \in Changes : change[i].overtakes
             \/ \E i \in Saves : save[i].overtakes

(* Once changes end, running schedulers act as the leader exactly if this   *)
(* node leads the cluster: the newest change replaces one that waits. That  *)
(* is so if listeners are called one after the other.                       *)
LeadershipSettles ==
  <>[](running /\ ~closed /\ ~Overtaken) => <>[](isLeader = leader)

(* A scheduler that is enabled on the leader has a next time to run, unless *)
(* a query failed when it was set (schedulers.go:133): no order of changes, *)
(* saves, stops and starts leaves it without one.                           *)
KeepsScheduling ==
  <>[](running /\ ~closed /\ leader /\ enabled /\ ~Overtaken) => <>[](nextRun # "nil")
=============================================================================
