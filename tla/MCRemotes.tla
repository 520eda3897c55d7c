----------------------------- MODULE MCRemotes ------------------------------
(* Small instances for TLC of the goroutines that work for remote clusters: *)
(* the sends to a remote, the calls of the remote cluster service and the   *)
(* sync of a shared channel. In a behaviour one of them runs and the others *)
(* rest, so that their state spaces are not multiplied.                     *)
EXTENDS RemoteSend, SharedChannelSync, TLC

CONSTANTS i1, i2, p1, e1, l1, s1  \* calls of the service

VARIABLES service, k_pc, k_readers, k_writer

callVars == <<k_pc, k_readers, k_writer>>

remoteVars == <<service, sendVars, callVars, syncVars>>

Kind == [c \in {i1, i2, p1, e1, l1, s1} |->
           CASE c \in {i1, i2} -> "incoming" [] c = p1 -> "publish"
             [] c = e1 -> "event" [] c = l1 -> "leader"
             [] c = s1 -> "shutdown"]

(* Messages come in and events are published, or the leader changes and the *)
(* service is shut down.                                                    *)
Calls == INSTANCE InterCluster WITH
  Calls <- DOMAIN Kind, Kind <- Kind,
  Together <- {{i1, i2, e1, p1}, {l1, e1, p1, s1}},
  pc <- k_pc, readers <- k_readers, writer <- k_writer

ASSUME InstancesAssumption ==
  RemoteSendAssumption /\ SharedChannelSyncAssumption

OneChannel == [r \in RemoteClusters |-> 1]

-----------------------------------------------------------------------------

(* All calls have returned. *)
CallsRest ==
  /\ k_pc = [c \in DOMAIN Kind |-> Len(Calls!Code(c))]
  /\ k_readers = [m \in Calls!Mutexes |-> [c \in DOMAIN Kind |-> 0]]
  /\ k_writer = [m \in Calls!Mutexes |-> Calls!Nobody]

(* The loop does not run. *)
SyncRests ==
  /\ post = <<>> /\ unsaid = {}
  /\ cursor = [r \in Remotes |-> 0] /\ online = [r \in Remotes |-> TRUE]
  /\ got = [r \in Remotes |-> {}] /\ gaveUp = [r \in Remotes |-> {}]
  /\ tasks = <<>> /\ signal = FALSE
  /\ active = TRUE /\ resumes = 1
  /\ loop = [n \in Terms |-> NoLoop]
  /\ used = [f \in Faults |-> 0]

RemotesInit == /\ service \in {"send", "calls", "sync"}
               /\ IF service = "calls" THEN Calls!Init ELSE CallsRest
               /\ IF service = "sync" THEN SyncInit ELSE SyncRests
               /\ SendInit

RemotesNext ==
  /\ UNCHANGED service
  /\ \/ service = "send" /\ SendNext /\ UNCHANGED <<callVars, syncVars>>
     \/ service = "calls" /\ Calls!Next /\ UNCHANGED <<sendVars, syncVars>>
     \/ service = "sync" /\ SyncNext /\ UNCHANGED <<sendVars, callVars>>

RemotesSpec == /\ RemotesInit /\ [][RemotesNext]_remoteVars
               /\ SendFairness /\ Calls!Fairness /\ SyncFairness

-----------------------------------------------------------------------------

(* A message on a channel is answered if the service is active in the end,  *)
(* whichever loop takes it; a caller with a deadline gets its answer, also  *)
(* when the service is paused with a full channel; and the goroutines of a  *)
(* resume leave after its pause, whatever is resumed in the meantime        *)
(* (remotecluster/send.go and service.go).                                  *)
SendSettles == QueuedAnswered /\ DeadlineReturns /\ LoopsLeave

(* The calls of the remote cluster service do not wait for each other for   *)
(* ever, and give back exactly the locks they take                          *)
(* (remotecluster/service.go and recv.go).                                  *)
CallsReturn == []Calls!TypeOK /\ Calls!CallsReturn
=============================================================================
