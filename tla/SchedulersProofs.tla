-------------------------- MODULE SchedulersProofs --------------------------
(***************************************************************************)
(* Proofs about Schedulers, for any number of changes of the leader and of *)
(* configurations that are saved.                                          *)
(***************************************************************************)
EXTENDS Schedulers, TLAPS

ChangeState ==
  [pc : {"none", "begun", "read", "try", "drain", "send", "done"},
   isLeader : BOOLEAN, overtakes : BOOLEAN]

SaveState ==
  [pc : {"none", "saved", "calling", "done"}, enabled : BOOLEAN,
   stop : 0 .. MaxStarts, overtakes : BOOLEAN]

(* Only the goroutine with the mutex is within handleClusterLeaderChange. *)
UnderLock ==
  \A i \in Changes : change[i].pc \in {"try", "drain", "send"} => mut = i

(* The inductive invariant. *)
Inv == TypeOK /\ UnderLock /\ SendFindsRoom

-----------------------------------------------------------------------------

LEMMA TypeOKParts ==
  TypeOK <=> /\ leader \in BOOLEAN /\ enabled \in BOOLEAN
             /\ change \in [Changes -> ChangeState]
             /\ save \in [Saves -> SaveState]
             /\ mut \in Changes \cup {Nobody, "stop"}
             /\ queue \in Seq(BOOLEAN) /\ Len(queue) <= 1
             /\ isLeader \in BOOLEAN /\ running \in BOOLEAN
             /\ nextRun \in {"nil", "failed", "set"}
             /\ loop \in {"off", "first", "select"}
             /\ starts \in 0 .. MaxStarts /\ closed \in BOOLEAN
             /\ listening \in BOOLEAN /\ faults \in 0 .. MaxFaults
  BY DEF TypeOK, ChangeState, SaveState

(* The next state of one change of leader, given its new place. *)
LEMMA ChangeFacts ==
  ASSUME Inv, NEW i \in Changes, NEW c \in ChangeState,
         change' = [change EXCEPT ![i] = c]
  PROVE  /\ change' \in [Changes -> ChangeState] /\ change'[i] = c
         /\ \A k \in Changes \ {i} : change'[k] = change[k]
<1>1. change \in [Changes -> ChangeState]
  BY TypeOKParts DEF Inv
<1> QED  BY <1>1

(* Steps that leave the changes, the mutex and the channel alone. *)
LEMMA ElsewhereInv ==
  ASSUME Inv, TypeOK', UNCHANGED <<change, mut, queue>>
  PROVE  Inv'
  BY DEF Inv, UnderLock, SendFindsRoom

LEMMA LeaderChangesInv ==
  ASSUME Inv, NEW i \in Changes, LeaderChanges(i)
  PROVE  Inv'
<1> DEFINE o == \E k \in Changes : Acting(change[k])
           c == [change[i] EXCEPT !.pc = "begun", !.overtakes = o]
<1>1. change \in [Changes -> ChangeState] /\ change[i] \in ChangeState
  BY TypeOKParts DEF Inv
<1>2. o \in BOOLEAN
  OBVIOUS
<1>3. change' = [change EXCEPT ![i] = c]
  BY <1>1 DEF LeaderChanges
<1> HIDE DEF o
<1>4. c \in ChangeState /\ c.pc = "begun"
  BY <1>1, <1>2, Zenon DEF ChangeState
<1> HIDE DEF c
<1>5. leader' \in BOOLEAN /\ UNCHANGED <<enabled, save, mut, queue, isLeader,
        nextRun, running, loop, starts, closed, listening, faults>>
  BY DEF LeaderChanges
<1>6. TypeOK'
  BY <1>3, <1>4, <1>5, ChangeFacts, TypeOKParts, ZenonT(60) DEF Inv, TypeOK, ChangeState, SaveState
<1>7. UnderLock' /\ SendFindsRoom'
  BY <1>3, <1>4, <1>5, ChangeFacts DEF Inv, UnderLock, SendFindsRoom
<1> QED  BY <1>6, <1>7 DEF Inv

LEMMA ReadLeaderInv ==
  ASSUME Inv, NEW i \in Changes, ReadLeader(i)
  PROVE  Inv'
<1> DEFINE c == [change[i] EXCEPT !.pc = "read", !.isLeader = leader]
<1>1. change \in [Changes -> ChangeState] /\ change[i] \in ChangeState /\ leader \in BOOLEAN
  BY TypeOKParts DEF Inv
<1>3. change' = [change EXCEPT ![i] = c]
  BY <1>1 DEF ReadLeader
<1>4. c \in ChangeState /\ c.pc = "read"
  BY <1>1, Zenon DEF ChangeState
<1> HIDE DEF c
<1>5. UNCHANGED <<leader, enabled, save, mut, queue, isLeader, nextRun,
                 running, loop, starts, closed, listening, faults>>
  BY DEF ReadLeader
<1>6. TypeOK'
  BY <1>3, <1>4, <1>5, ChangeFacts, TypeOKParts, ZenonT(60) DEF Inv, TypeOK, ChangeState, SaveState
<1>7. UnderLock' /\ SendFindsRoom'
  BY <1>3, <1>4, <1>5, ChangeFacts DEF Inv, UnderLock, SendFindsRoom
<1> QED  BY <1>6, <1>7 DEF Inv
(* The goroutine of a change enters handleClusterLeaderChange when nobody   *)
(* else has the mutex, so that nobody else is in it.                        *)
LEMMA LockForChangeInv ==
  ASSUME SchedulersAssumption, Inv, NEW i \in Changes, LockForChange(i)
  PROVE  Inv'
<1> DEFINE c == [change[i] EXCEPT !.pc = "try"]
<1>1. change \in [Changes -> ChangeState] /\ change[i] \in ChangeState
  BY TypeOKParts DEF Inv
<1>2. change' = [change EXCEPT ![i] = c]
  BY <1>1 DEF LockForChange
<1>3. c \in ChangeState /\ c.pc = "try"
  BY <1>1, Zenon DEF ChangeState
<1> HIDE DEF c
<1>4. /\ mut = Nobody /\ mut' = i
      /\ UNCHANGED <<leader, enabled, save, queue, isLeader, nextRun, running,
                     loop, starts, closed, listening, faults>>
  BY DEF LockForChange, Free
<1>5. TypeOK'
  BY <1>2, <1>3, <1>4, ChangeFacts, TypeOKParts, Zenon
     DEF Inv, TypeOK, ChangeState, SaveState
<1>6. \A k \in Changes : change[k].pc \notin {"try", "drain", "send"}
  BY <1>4 DEF Inv, UnderLock, Nobody, SchedulersAssumption
<1>7. UnderLock' /\ SendFindsRoom'
  BY <1>2, <1>3, <1>4, <1>6, ChangeFacts DEF UnderLock, SendFindsRoom
<1> QED  BY <1>5, <1>7 DEF Inv

(* Only the goroutine with the mutex puts something on the channel: it      *)
(* sends and leaves, finds the channel full, or empties it.                 *)
LEMMA HandleClusterLeaderChangeInv ==
  ASSUME SchedulersAssumption, Inv, NEW i \in Changes, HandleClusterLeaderChange(i)
  PROVE  Inv'
<1>1. /\ change \in [Changes -> ChangeState] /\ change[i] \in ChangeState
      /\ change[i].isLeader \in BOOLEAN
  BY TypeOKParts, ZenonT(60) DEF Inv, ChangeState
<1>2. UNCHANGED <<leader, enabled, save, isLeader, nextRun, running, loop,
                  starts, closed, listening, faults>>
  BY DEF HandleClusterLeaderChange
<1>3. mut = i /\ \A k \in Changes \ {i} : change[k].pc \notin {"try", "drain", "send"}
  BY DEF HandleClusterLeaderChange, Inv, UnderLock
<1>4. PICK pc \in {"done", "drain", "send"} :
        /\ change' = [change EXCEPT ![i].pc = pc]
        /\ mut' \in {mut, Nobody} /\ (pc # "done" => mut' = mut)
        /\ queue' \in {<<change[i].isLeader>>, queue, <<>>}
        /\ (pc = "send" => queue' = <<>>)
  BY DEF HandleClusterLeaderChange, Unlocked
<1> DEFINE c == [change[i] EXCEPT !.pc = pc]
<1>5. change' = [change EXCEPT ![i] = c]
  BY <1>1, <1>4
<1>6. c \in ChangeState /\ c.pc = pc
  BY <1>1, Zenon DEF ChangeState
<1> HIDE DEF c
<1>7. queue' \in Seq(BOOLEAN) /\ Len(queue') <= 1
  <2>1. CASE queue' = <<change[i].isLeader>>
    BY <1>1, <2>1
  <2>2. CASE queue' = queue
    BY <2>2, TypeOKParts DEF Inv
  <2>3. CASE queue' = <<>>
    BY <2>3
  <2> QED  BY <1>4, <2>1, <2>2, <2>3
<1>8. mut' \in Changes \cup {Nobody, "stop"}
  BY <1>4, TypeOKParts DEF Inv
<1>9. TypeOK'
  BY <1>2, <1>5, <1>6, <1>7, <1>8, ChangeFacts, TypeOKParts, Zenon
     DEF Inv, TypeOK, ChangeState, SaveState
<1>10. UnderLock' /\ SendFindsRoom'
  BY <1>3, <1>4, <1>5, <1>6, ChangeFacts DEF UnderLock, SendFindsRoom
<1> QED  BY <1>9, <1>10 DEF Inv

(* The next state of a request that saves a configuration. *)
LEMMA SaveFacts ==
  ASSUME Inv, NEW i \in Saves, NEW c \in SaveState, save' = [save EXCEPT ![i] = c]
  PROVE  save' \in [Saves -> SaveState]
  BY TypeOKParts DEF Inv

LEMMA SaveConfigInv ==
  ASSUME Inv, NEW i \in Saves, SaveConfig(i)
  PROVE  Inv'
<1> DEFINE o == \E k \in Saves : Acting(save[k])
           c == [save[i] EXCEPT !.pc = "saved", !.enabled = enabled', !.overtakes = o]
<1>1. save \in [Saves -> SaveState] /\ save[i] \in SaveState
  BY TypeOKParts DEF Inv
<1>2. o \in BOOLEAN
  OBVIOUS
<1>3. /\ enabled' \in BOOLEAN
      /\ UNCHANGED <<leader, change, mut, queue, isLeader, nextRun, running, loop,
                     starts, closed, listening, faults>>
  BY DEF SaveConfig
<1>4. save' = [save EXCEPT ![i] = c]
  BY <1>1 DEF SaveConfig
<1> HIDE DEF o
<1>5. c \in SaveState
  BY <1>1, <1>2, <1>3, Zenon DEF SaveState
<1> HIDE DEF c
<1>6. TypeOK'
  BY <1>3, <1>4, <1>5, SaveFacts, TypeOKParts, ZenonT(60) DEF Inv, TypeOK, ChangeState, SaveState
<1> QED  BY <1>3, <1>6, ElsewhereInv

LEMMA InvokeListenersInv ==
  ASSUME Inv, NEW i \in Saves, InvokeListeners(i)
  PROVE  Inv'
<1> DEFINE p == IF listening THEN "calling" ELSE "done"
           c == [save[i] EXCEPT !.pc = p, !.stop = starts]
<1>1. save \in [Saves -> SaveState] /\ save[i] \in SaveState /\ starts \in 0 .. MaxStarts
  BY TypeOKParts DEF Inv
<1>2. p \in {"calling", "done"}
  OBVIOUS
<1>3. UNCHANGED <<leader, enabled, change, mut, queue, isLeader, nextRun,
                  running, loop, starts, closed, listening, faults>>
  BY DEF InvokeListeners
<1>4. save' = [save EXCEPT ![i] = c]
  BY <1>1 DEF InvokeListeners
<1> HIDE DEF p
<1>5. c \in SaveState
  BY <1>1, <1>2, Zenon DEF SaveState
<1> HIDE DEF c
<1>6. TypeOK'
  BY <1>3, <1>4, <1>5, SaveFacts, TypeOKParts, ZenonT(60) DEF Inv, TypeOK, ChangeState, SaveState
<1> QED  BY <1>3, <1>6, ElsewhereInv

(* A listener that was called returns. *)
LEMMA SaveDone ==
  ASSUME Inv, NEW i \in Saves, save' = [save EXCEPT ![i].pc = "done"]
  PROVE  save' \in [Saves -> SaveState]
<1> DEFINE c == [save[i] EXCEPT !.pc = "done"]
<1>1. save \in [Saves -> SaveState] /\ save[i] \in SaveState
  BY TypeOKParts DEF Inv
<1>2. save' = [save EXCEPT ![i] = c]
  BY <1>1
<1>3. c \in SaveState
  BY <1>1, Zenon DEF SaveState
<1> QED  BY <1>2, <1>3, SaveFacts

LEMMA ListenerSeesStopInv ==
  ASSUME Inv, NEW i \in Saves, ListenerSeesStop(i)
  PROVE  Inv'
<1>1. UNCHANGED <<leader, enabled, change, mut, queue, isLeader, nextRun,
                  running, loop, starts, closed, listening, faults>>
  BY DEF ListenerSeesStop
<1>2. save' \in [Saves -> SaveState]
  BY SaveDone DEF ListenerSeesStop
<1>3. TypeOK'
  BY <1>1, <1>2, TypeOKParts, ZenonT(60) DEF Inv, TypeOK, ChangeState, SaveState
<1> QED  BY <1>1, <1>3, ElsewhereInv

(* StartSchedulers and StopSchedulers: the mutex is free or their own. *)
LEMMA StartStopInv ==
  ASSUME SchedulersAssumption, Inv,
         StartSchedulers \/ StopSchedulers \/ StopSchedulersEnds
  PROVE  Inv'
<1>1. UNCHANGED <<leader, enabled, change, save, queue, isLeader, nextRun, faults>>
  BY DEF StartSchedulers, StopSchedulers, StopSchedulersEnds
<1>2. starts' \in 0 .. MaxStarts
  BY TypeOKParts DEF Inv, StartSchedulers, StopSchedulers, StopSchedulersEnds,
                     SchedulersAssumption
<1>3. /\ closed' \in BOOLEAN /\ listening' \in BOOLEAN /\ running' \in BOOLEAN
      /\ loop' \in {"off", "first", "select"}
      /\ mut' \in Changes \cup {Nobody, "stop"}
  BY TypeOKParts, ZenonT(60) DEF Inv, StartSchedulers, StopSchedulers, StopSchedulersEnds
<1>4. TypeOK'
  BY <1>1, <1>2, <1>3, TypeOKParts, ZenonT(60) DEF Inv, TypeOK, ChangeState, SaveState
<1>5. mut \notin Changes
  BY DEF StartSchedulers, StopSchedulers, StopSchedulersEnds, Free, Nobody,
         SchedulersAssumption
<1>6. \A k \in Changes : change[k].pc \notin {"try", "drain", "send"}
  BY <1>5 DEF Inv, UnderLock
<1>7. UnderLock' /\ SendFindsRoom'
  BY <1>1, <1>6 DEF UnderLock, SendFindsRoom
<1> QED  BY <1>4, <1>7 DEF Inv

(* The time of the next run, set or not. *)
LEMMA RunTimeFacts ==
  ASSUME SchedulersAssumption, Inv,
         SetNextRunTime \/ NoNextRunTime
         \/ (faults < MaxFaults /\ faults' = faults + 1 /\ UNCHANGED nextRun)
  PROVE  nextRun' \in {"nil", "failed", "set"} /\ faults' \in 0 .. MaxFaults
  BY TypeOKParts DEF Inv, SetNextRunTime, NoNextRunTime, SchedulersAssumption

(* The goroutine of the schedulers puts nothing on the channel. *)
LEMMA LoopInv ==
  ASSUME SchedulersAssumption, Inv,
         FirstRunTimes \/ Tick \/ ConfigChanged \/ ClusterLeaderChanged \/ LoopStops
  PROVE  Inv'
<1>1. CASE FirstRunTimes
  <2>1. /\ loop' = "select"
        /\ UNCHANGED <<leader, enabled, change, save, mut, queue, isLeader,
                       running, starts, closed, listening>>
    BY <1>1 DEF FirstRunTimes
  <2>2. nextRun' \in {"nil", "failed", "set"} /\ faults' \in 0 .. MaxFaults
    BY <1>1, RunTimeFacts DEF FirstRunTimes
  <2>3. TypeOK'
    BY <2>1, <2>2, TypeOKParts, ZenonT(60) DEF Inv, TypeOK, ChangeState, SaveState
  <2> QED  BY <2>1, <2>3, ElsewhereInv
<1>2. CASE Tick
  <2>1. UNCHANGED <<leader, enabled, change, save, mut, queue, isLeader,
                    running, loop, starts, closed, listening>>
    BY <1>2 DEF Tick
  <2>2. nextRun' \in {"nil", "failed", "set"} /\ faults' \in 0 .. MaxFaults
    BY <1>2, RunTimeFacts DEF Tick
  <2>3. TypeOK'
    BY <2>1, <2>2, TypeOKParts, ZenonT(60) DEF Inv, TypeOK, ChangeState, SaveState
  <2> QED  BY <2>1, <2>3, ElsewhereInv
<1>3. CASE ConfigChanged
  <2>1. UNCHANGED <<leader, enabled, change, mut, queue, isLeader, running,
                    loop, starts, closed, listening>>
    BY <1>3 DEF ConfigChanged
  <2>2. /\ nextRun' \in {"nil", "failed", "set"} /\ faults' \in 0 .. MaxFaults
        /\ save' \in [Saves -> SaveState]
    BY <1>3, RunTimeFacts, SaveDone DEF ConfigChanged
  <2>3. TypeOK'
    BY <2>1, <2>2, TypeOKParts, ZenonT(60) DEF Inv, TypeOK, ChangeState, SaveState
  <2> QED  BY <2>1, <2>3, ElsewhereInv
<1>4. CASE ClusterLeaderChanged
  <2>1. /\ queue' = <<>> /\ isLeader' = Head(queue) /\ queue # <<>>
        /\ UNCHANGED <<leader, enabled, change, save, mut, running, loop,
                       starts, closed, listening>>
    BY <1>4 DEF ClusterLeaderChanged
  <2>2. nextRun' \in {"nil", "failed", "set"} /\ faults' \in 0 .. MaxFaults
    BY <1>4, RunTimeFacts DEF ClusterLeaderChanged
  <2>3. isLeader' \in BOOLEAN /\ queue' \in Seq(BOOLEAN) /\ Len(queue') <= 1
    <3>1. Head(queue) \in BOOLEAN
      BY <2>1, TypeOKParts DEF Inv
    <3>2. queue' \in Seq(BOOLEAN) /\ Len(queue') <= 1
      BY <2>1
    <3> QED  BY <2>1, <3>1, <3>2
  <2>4. TypeOK'
    BY <2>1, <2>2, <2>3, TypeOKParts, ZenonT(60) DEF Inv, TypeOK, ChangeState, SaveState
  <2>5. UnderLock' /\ SendFindsRoom'
    BY <2>1 DEF Inv, UnderLock, SendFindsRoom
  <2> QED  BY <2>4, <2>5 DEF Inv
<1>5. CASE LoopStops
  <2>1. /\ loop' = "off"
        /\ UNCHANGED <<leader, enabled, change, save, mut, queue, isLeader,
                       nextRun, running, starts, closed, listening, faults>>
    BY <1>5 DEF LoopStops
  <2>2. TypeOK'
    BY <2>1, TypeOKParts, ZenonT(60) DEF Inv, TypeOK, ChangeState, SaveState
  <2> QED  BY <2>1, <2>2, ElsewhereInv
<1> QED  BY <1>1, <1>2, <1>3, <1>4, <1>5

LEMMA NextInv ==
  ASSUME SchedulersAssumption, Inv, [Next]_vars
  PROVE  Inv'
<1>1. CASE UNCHANGED vars
  <2>1. TypeOK'
    BY <1>1, Zenon DEF vars, Inv, TypeOK
  <2> QED  BY <1>1, <2>1, ElsewhereInv DEF vars
<1> QED
  BY <1>1, LeaderChangesInv, ReadLeaderInv, LockForChangeInv,
     HandleClusterLeaderChangeInv, SaveConfigInv, InvokeListenersInv,
     ListenerSeesStopInv, StartStopInv, LoopInv
     DEF Next, ChangeStep, SaveStep

LEMMA InitInv ==
  ASSUME SchedulersAssumption, Init
  PROVE  Inv
<1>1. 0 \in 0 .. MaxStarts /\ 0 \in 0 .. MaxFaults
  BY DEF SchedulersAssumption
<1> DEFINE c == [pc |-> "none", isLeader |-> TRUE, overtakes |-> FALSE]
           v == [pc |-> "none", enabled |-> TRUE, stop |-> 0, overtakes |-> FALSE]
<1>2. c \in ChangeState /\ c.pc = "none" /\ v \in SaveState
  BY <1>1, Zenon DEF ChangeState, SaveState
<1>3. change = [i \in Changes |-> c] /\ save = [i \in Saves |-> v]
  BY DEF Init
<1> HIDE DEF c, v
<1>4. /\ change \in [Changes -> ChangeState] /\ save \in [Saves -> SaveState]
      /\ \A i \in Changes : change[i].pc = "none"
  BY <1>2, <1>3
<1>5. queue \in Seq(BOOLEAN) /\ Len(queue) <= 1
  BY DEF Init
<1>6. TypeOK
  BY <1>1, <1>4, <1>5, TypeOKParts, ZenonT(60) DEF Init
<1> QED  BY <1>4, <1>6 DEF Inv, UnderLock, SendFindsRoom

(***************************************************************************)
(* The state of the schedulers is of its type: the channel of the leader   *)
(* holds one value at most.                                                *)
(***************************************************************************)
THEOREM SchedulersTypeCorrect ==
  ASSUME SchedulersAssumption
  PROVE  Spec => []TypeOK
<1>1. Init => Inv
  BY InitInv
<1>2. Inv /\ [Next]_vars => Inv'
  BY NextInv
<1>3. Inv => TypeOK
  BY DEF Inv
<1> QED  BY <1>1, <1>2, <1>3, PTL DEF Spec

(***************************************************************************)
(* The blocking send at the end of handleClusterLeaderChange never blocks, *)
(* for any number of changes at a time and however they meet starts and    *)
(* stops: "This operation is safe due to this method being called under    *)
(* lock" (schedulers.go:184).                                              *)
(***************************************************************************)
THEOREM LeaderSendFindsRoom ==
  ASSUME SchedulersAssumption
  PROVE  Spec => []SendFindsRoom
<1>1. Init => Inv
  BY InitInv
<1>2. Inv /\ [Next]_vars => Inv'
  BY NextInv
<1>3. Inv => SendFindsRoom
  BY DEF Inv
<1> QED  BY <1>1, <1>2, <1>3, PTL DEF Spec
=============================================================================
