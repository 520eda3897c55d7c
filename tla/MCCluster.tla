------------------------------ MODULE MCCluster -----------------------------
(* Small instances for TLC of what the nodes of a cluster and their         *)
(* goroutines share: jobs, the cursors of a shared channel, the messages to *)
(* remote clusters and the status of a user. None of them has state of      *)
(* another: in a behaviour one of them runs, so that their state spaces are *)
(* checked side by side and not multiplied.                                 *)
EXTENDS JobServer, RemoteSend, SharedChannelSync, UserStatus

CONSTANTS r1, r2  \* remote clusters

VARIABLE service

clusterVars == <<service, vars, sendVars, syncVars, statusVars>>

SameChannel == [r \in {r1, r2} |-> 1]

ASSUME InstancesAssumption ==
  /\ JobServerAssumption /\ RemoteSendAssumption
  /\ SharedChannelSyncAssumption /\ UserStatusAssumption

ClusterInit ==
  /\ service \in {"jobs", "send", "sync", "status"}
  /\ Init /\ SendInit /\ SyncInit /\ StatusInit

ClusterNext ==
  /\ UNCHANGED service
  /\ \/ /\ service = "jobs" /\ Next
        /\ UNCHANGED <<sendVars, syncVars, statusVars>>
     \/ /\ service = "send" /\ SendNext
        /\ UNCHANGED <<vars, syncVars, statusVars>>
     \/ /\ service = "sync" /\ SyncNext
        /\ UNCHANGED <<vars, sendVars, statusVars>>
     \/ /\ service = "status" /\ StatusNext
        /\ UNCHANGED <<vars, sendVars, syncVars>>

ClusterSpec == ClusterInit /\ [][ClusterNext]_clusterVars

-----------------------------------------------------------------------------

(* The rows, channels, tasks and caches, and what is in hand of them, are   *)
(* of their type.                                                           *)
ClusterTypeOK == TypeOK /\ SendTypeOK /\ SyncTypeOK /\ StatusTypeOK
=============================================================================
