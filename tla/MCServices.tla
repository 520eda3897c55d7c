----------------------------- MODULE MCServices -----------------------------
(* Small instances for TLC of the services that run within one server and   *)
(* share no state: the push notifications hub, the busy flag, the email     *)
(* batching job, the plugin environment and an upload session. In a         *)
(* behaviour one of them runs and the others rest, so that their state      *)
(* spaces are checked side by side and not multiplied. The plugin is that   *)
(* of PluginEnvironment.                                                    *)
EXTENDS PluginEnvironment, PushNotificationsHub, Busy, EmailBatching,
        UploadSession

VARIABLE service

serviceVars == <<service, pushVars, busyVars, emailVars, vars, uploadVars>>

ASSUME InstancesAssumption ==
  /\ PushAssumption /\ BusyAssumption /\ EmailBatchingAssumption
  /\ PluginAssumption /\ UploadAssumption

-----------------------------------------------------------------------------

(* Where a service rests nothing of it goes on by itself: the hub is        *)
(* stopped, the busy flag has expired, the batching task is off, no plugin  *)
(* is registered and the upload is complete.                                *)

PushRests ==
  /\ notificationsChan = <<>>
  /\ sender = [n \in Notifications |-> "idle"]
  /\ hub = [pc |-> "exited", took |-> Dummy]
  /\ workers = {} /\ sent = {} /\ wg = 0 /\ semaWg = 0
  /\ stopper = [pc |-> "stopped", left |-> 0] /\ early = {}

BusyRests ==
  /\ clock = MaxTicks /\ calls = 0 /\ last = 0 /\ late = FALSE
  /\ busy = [n \in Servers |-> FALSE] /\ expires = [n \in Servers |-> 0]
  /\ armed = [n \in Servers |-> {}] /\ fired = [n \in Servers |-> 0]
  /\ net = [p \in Servers \X Servers |-> <<>>]

EmailRests ==
  /\ seconds = MaxSeconds /\ post = <<>> /\ newNotifications = <<>>
  /\ pendingNotifications = [u \in Users |-> <<>>]
  /\ todo = {} /\ task = "off" /\ storeFails = 0
  /\ lastViewedAt = [u \in Users |-> [t \in Teams |-> -1]]
  /\ mailed = {} /\ immediate = {} /\ deleted = {}

PluginRests == Init /\ enabled = FALSE

UploadRests ==
  /\ offset = -1 /\ file = Bytes(1, FileSize) /\ uploadLockMap = {}
  /\ infos = <<file>> /\ fails = 0 /\ lost = 0
  /\ req \in [Requests -> [node : Nodes, us : {0}, err : {FALSE}, pc : {"idle"}]]

ServicesInit ==
  /\ service \in {"push", "busy", "email", "plugin", "upload"}
  /\ IF service = "push" THEN PushInit ELSE PushRests
  /\ IF service = "busy" THEN BusyInit ELSE BusyRests
  /\ IF service = "email" THEN EmailInit ELSE EmailRests
  /\ IF service = "plugin" THEN Init ELSE PluginRests
  /\ IF service = "upload" THEN UploadInit ELSE UploadRests

ServicesNext ==
  /\ UNCHANGED service
  /\ \/ /\ service = "push" /\ PushNext
        /\ UNCHANGED <<busyVars, emailVars, vars, uploadVars>>
     \/ /\ service = "busy" /\ BusyNext
        /\ UNCHANGED <<pushVars, emailVars, vars, uploadVars>>
     \/ /\ service = "email" /\ EmailNext
        /\ UNCHANGED <<pushVars, busyVars, vars, uploadVars>>
     \/ /\ service = "plugin" /\ Next
        /\ UNCHANGED <<pushVars, busyVars, emailVars, uploadVars>>
     \/ /\ service = "upload" /\ UploadNext
        /\ UNCHANGED <<pushVars, busyVars, emailVars, vars>>

ServicesFairness ==
  PushFairness /\ BusyFairness /\ EmailFairness /\ Fairness /\ UploadFairness

ServicesSpec ==
  ServicesInit /\ [][ServicesNext]_serviceVars /\ ServicesFairness

-----------------------------------------------------------------------------

(* The state of the service that runs is of its type. *)
ServicesTypeOK ==
  /\ service = "push" => PushTypeOK
  /\ service = "busy" => BusyTypeOK
  /\ service = "email" => EmailTypeOK
  /\ service = "plugin" => TypeOK
  /\ service = "upload" => UploadTypeOK

(* Nobody waits for ever. Stop of the push notifications hub returns,       *)
(* however full the channel and few the tokens, and so do the senders       *)
(* (notification_push.go); a busy state ends (busy.go); a notification is   *)
(* mailed or dropped (email_batching.go); and a plugin that is thought to   *)
(* be running and whose process has gone is noticed (health_check.go).      *)
NothingWaits ==
  StopReturns /\ SendersReturn /\ BusyEnds /\ EventuallyMailed /\ Noticed
=============================================================================
