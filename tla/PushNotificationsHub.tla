------------------------ MODULE PushNotificationsHub ------------------------
(***************************************************************************)
(* The hub that sends push notifications (app/notification_push.go): a     *)
(* buffered channel, a goroutine that starts a worker per notification, as *)
(* many at a time as there are tokens, and a stop that pushes dummies      *)
(* through the channel before it closes stopChan and waits.                *)
(***************************************************************************)
EXTENDS Integers, Sequences, FiniteSets

CONSTANTS Notifications,  \* each sent by a goroutine of its own
          Buffer,         \* EmailSettings.PushNotificationBuffer
          Tokens          \* the capacity of sema

Dummy == "dummy"

PushAssumption ==
  Buffer \in Nat \ {0} /\ Tokens \in Nat \ {0} /\ Dummy \notin Notifications

VARIABLES notificationsChan,
          sender,     \* sender[n]: where the goroutine that sends n is
          hub,        \* the goroutine of start: where it is, and what it took
          workers,    \* the notifications being sent, each with a token
          sent,
          wg, semaWg,
          stopper,    \* the goroutine of stop, and the dummies it has to send
          early       \* notifications that were in the channel before stop

pushVars == <<notificationsChan, sender, hub, workers, sent, wg, semaWg, stopper, early>>

PushTypeOK ==
  /\ notificationsChan \in Seq(Notifications \cup {Dummy})
  /\ Len(notificationsChan) <= Buffer
  /\ sender \in [Notifications -> {"idle", "sending", "queued", "returned"}]
  /\ hub \in [pc : {"created", "select", "token", "exited"},
              took : Notifications \cup {Dummy}]
  /\ workers \subseteq Notifications /\ Cardinality(workers) <= Tokens
  /\ wg \in 0 .. 1 /\ semaWg \in Nat
  /\ stopper \in [pc : {"idle", "draining", "wg", "semaWg", "stopped"},
                  left : 0 .. Buffer + 1]
  /\ sent \subseteq Notifications /\ early \subseteq Notifications

PushInit ==
  /\ notificationsChan = <<>>
  /\ sender = [n \in Notifications |-> "idle"]
  /\ hub = [pc |-> "created", took |-> Dummy]
  /\ workers = {} /\ sent = {} /\ wg = 0 /\ semaWg = 0
  /\ stopper = [pc |-> "idle", left |-> 0]
  /\ early = {}

stopChanClosed == stopper.pc \in {"wg", "semaWg", "stopped"}

Room == Len(notificationsChan) < Buffer

-----------------------------------------------------------------------------

(* sendPushNotification, clearPushNotification, UpdateMobileAppBadge. *)

Send(n) ==
  /\ sender[n] = "idle"
  /\ sender' = [sender EXCEPT ![n] = "sending"]
  /\ UNCHANGED <<notificationsChan, hub, workers, sent, wg, semaWg, stopper, early>>

Queue(n) ==
  /\ sender[n] = "sending" /\ Room
  /\ sender' = [sender EXCEPT ![n] = "queued"]
  /\ notificationsChan' = Append(notificationsChan, n)
  /\ UNCHANGED <<hub, workers, sent, wg, semaWg, stopper, early>>

(* The select has no case for stopChan. *)
GiveUpNever(n) == FALSE /\ UNCHANGED pushVars

GiveUp(n) ==
  /\ sender[n] = "sending" /\ stopChanClosed
  /\ sender' = [sender EXCEPT ![n] = "returned"]
  /\ UNCHANGED <<notificationsChan, hub, workers, sent, wg, semaWg, stopper, early>>

-----------------------------------------------------------------------------

(* start. *)

Start ==
  /\ hub.pc = "created"
  /\ hub' = [hub EXCEPT !.pc = "select"]
  /\ wg' = wg + 1
  /\ UNCHANGED <<notificationsChan, sender, workers, sent, semaWg, stopper, early>>

(* The worker is counted when it has its token. *)
ReceiveUncounted ==
  /\ hub.pc = "select" /\ notificationsChan # <<>>
  /\ hub' = IF Head(notificationsChan) = Dummy THEN hub
            ELSE [pc |-> "token", took |-> Head(notificationsChan)]
  /\ notificationsChan' = Tail(notificationsChan)
  /\ UNCHANGED <<sender, workers, sent, wg, semaWg, stopper, early>>

Receive ==
  /\ hub.pc = "select" /\ notificationsChan # <<>>
  /\ IF Head(notificationsChan) = Dummy
     THEN UNCHANGED <<hub, semaWg>>
     ELSE /\ hub' = [pc |-> "token", took |-> Head(notificationsChan)]
          /\ semaWg' = semaWg + 1
  /\ notificationsChan' = Tail(notificationsChan)
  /\ UNCHANGED <<sender, workers, sent, wg, stopper, early>>

GetToken ==
  /\ hub.pc = "token" /\ Cardinality(workers) < Tokens
  /\ workers' = workers \cup {hub.took}
  /\ hub' = [pc |-> "select", took |-> Dummy]
  /\ UNCHANGED <<notificationsChan, sender, sent, wg, semaWg, stopper, early>>

(* The worker has sent its notification, or has logged why it could not. *)
Work(n) ==
  /\ n \in workers
  /\ workers' = workers \ {n}
  /\ sent' = sent \cup {n}
  /\ semaWg' = semaWg - 1
  /\ UNCHANGED <<notificationsChan, sender, hub, wg, stopper, early>>

Exit ==
  /\ hub.pc = "select" /\ stopChanClosed
  /\ hub' = [hub EXCEPT !.pc = "exited"]
  /\ wg' = wg - 1
  /\ UNCHANGED <<notificationsChan, sender, workers, sent, semaWg, stopper, early>>

-----------------------------------------------------------------------------

(* stop. *)

Stop ==
  /\ stopper.pc = "idle"
  /\ stopper' = [pc |-> "draining", left |-> Buffer + 1]
  /\ early' = {n \in Notifications : sender[n] = "queued"}
  /\ UNCHANGED <<notificationsChan, sender, hub, workers, sent, wg, semaWg>>

Drain ==
  /\ stopper.pc = "draining" /\ stopper.left > 0 /\ Room
  /\ notificationsChan' = Append(notificationsChan, Dummy)
  /\ stopper' = [stopper EXCEPT !.left = @ - 1]
  /\ UNCHANGED <<sender, hub, workers, sent, wg, semaWg, early>>

(* stopChan is closed. *)
Close ==
  /\ stopper.pc = "draining" /\ stopper.left = 0
  /\ stopper' = [stopper EXCEPT !.pc = "wg"]
  /\ UNCHANGED <<notificationsChan, sender, hub, workers, sent, wg, semaWg, early>>

(* The two waits, the other way round. *)
WaitSwapped ==
  /\ \/ /\ stopper.pc = "wg" /\ semaWg = 0
        /\ stopper' = [stopper EXCEPT !.pc = "semaWg"]
     \/ /\ stopper.pc = "semaWg" /\ wg = 0
        /\ stopper' = [stopper EXCEPT !.pc = "stopped"]
  /\ UNCHANGED <<notificationsChan, sender, hub, workers, sent, wg, semaWg, early>>

Wait ==
  /\ \/ /\ stopper.pc = "wg" /\ wg = 0
        /\ stopper' = [stopper EXCEPT !.pc = "semaWg"]
     \/ /\ stopper.pc = "semaWg" /\ semaWg = 0
        /\ stopper' = [stopper EXCEPT !.pc = "stopped"]
  /\ UNCHANGED <<notificationsChan, sender, hub, workers, sent, wg, semaWg, early>>

PushNext ==
  \/ \E n \in Notifications : Send(n) \/ Queue(n) \/ GiveUp(n) \/ Work(n)
  \/ Start \/ Receive \/ GetToken \/ Exit
  \/ Stop \/ Drain \/ Close \/ Wait

PushSpec == PushInit /\ [][PushNext]_pushVars

(* The goroutines go on: a worker's request has a timeout, and a select     *)
(* with a ready case takes one.                                             *)
PushFairness ==
  /\ \A n \in Notifications : WF_pushVars(Queue(n) \/ GiveUp(n)) /\ WF_pushVars(Work(n))
  /\ WF_pushVars(Start) /\ WF_pushVars(Receive \/ Exit) /\ WF_pushVars(GetToken)
  /\ WF_pushVars(Drain) /\ WF_pushVars(Close) /\ WF_pushVars(Wait)

PushFairSpec == PushSpec /\ PushFairness

-----------------------------------------------------------------------------

(* The dummies "pump out any remaining notifications before we stop the     *)
(* hub": whatever was in the channel when stop was called has been sent     *)
(* when it returns, also when the hub's goroutine has not run before.       *)
Drained == stopper.pc = "stopped" => early \subseteq sent

(* When stop has returned no worker runs, nor will one start: the server    *)
(* goes on to close what they use.                                          *)
Quiet == stopper.pc = "stopped" => workers = {} /\ hub.pc = "exited"

(* When stop returns, whatever was in the hub's channel when it was called  *)
(* has been sent, no worker runs, and none will start                       *)
(* (notification_push.go, stop).                                            *)
StopComplete == Drained /\ Quiet

(* Stop returns, however full the channel and however few the tokens. *)
StopReturns == (stopper.pc = "draining") ~> (stopper.pc = "stopped")

(* Nobody is left waiting to send a notification. *)
SendersReturn == \A n \in Notifications : (sender[n] = "sending") ~> (sender[n] # "sending")
=============================================================================
