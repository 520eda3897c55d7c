---------------------------- MODULE InterCluster ----------------------------
(***************************************************************************)
(* The locks of the remote cluster service and of the shared channel       *)
(* service (services/remotecluster, services/sharedchannel), which call    *)
(* each other: the calls that take them, as sequences of the steps that    *)
(* can wait, and Go's sync.RWMutex, where a writer that waits keeps new    *)
(* readers out.                                                            *)
(***************************************************************************)
EXTENDS Integers, Sequences, FiniteSets

CONSTANTS Calls,    \* goroutines, each with one call to make
          Kind,     \* Kind[c]: which call
          Together  \* the sets of calls that are made at the same time

VARIABLES pc,       \* pc[c]: how many steps of its call c has taken
          readers,  \* readers[m][c]: how often c holds m for reading
          writer    \* writer[m]: who has called Lock of m

vars == <<pc, readers, writer>>

Mutexes == {"rcs", "scs"}

Nobody == "nobody"

-----------------------------------------------------------------------------

(* The calls. *)

Locked(m)  == << <<"Lock", m>>, <<"Unlock", m>> >>
RLocked(m) == << <<"RLock", m>>, <<"RUnlock", m>> >>

(* A websocket event reaches SharedChannelSyncHandler: Active, and, if it   *)
(* is, NotifyChannelChanged and its addTask.                                *)
SharedChannelSyncHandler ==
  Locked("scs") \o << <<"ifActive", "scs">> >> \o Locked("scs")

(* The listener of TopicSync saves a post, whose event goes to the handler  *)
(* above; it is called with the lock held for reading, as is                *)
(* getTopicListeners, which takes it again.                                 *)
ReceiveIncomingMsg ==
  << <<"RLock", "rcs">> >> \o RLocked("rcs") \o SharedChannelSyncHandler
    \o << <<"RUnlock", "rcs">> >>

(* Both services listen to changes of the leader, and resume or pause.      *)
onClusterLeaderChange == Locked("rcs") \o Locked("scs")

(* The listeners are called with the lock held. *)
fireConnectionStateChgEventLocked ==
  << <<"RLock", "rcs">> >> \o Locked("scs") \o << <<"RUnlock", "rcs">> >>

(* The listener is ForceSyncForRemote, with its addTask. *)
fireConnectionStateChgEvent == RLocked("rcs") \o Locked("scs")

(* The two services are shut down one after the other: the first removes    *)
(* its listeners from the second with its own lock held. Each then pauses.  *)
Shutdown ==
  << <<"Lock", "scs">> >> \o Locked("rcs") \o Locked("rcs") \o Locked("rcs")
    \o << <<"Unlock", "scs">> >> \o Locked("scs") \o Locked("rcs")

Code(c) == CASE Kind[c] = "incoming" -> ReceiveIncomingMsg
             [] Kind[c] = "publish"  -> SharedChannelSyncHandler
             [] Kind[c] = "leader"   -> onClusterLeaderChange
             [] Kind[c] = "event"    -> fireConnectionStateChgEvent
             [] Kind[c] = "shutdown" -> Shutdown

-----------------------------------------------------------------------------

TypeOK ==
  /\ pc \in [Calls -> Nat] /\ \A c \in Calls : pc[c] <= Len(Code(c))
  /\ readers \in [Mutexes -> [Calls -> 0 .. 2]]
  /\ writer \in [Mutexes -> Calls \cup {Nobody}]

Init ==
  /\ \E S \in Together :
       pc = [c \in Calls |-> IF c \in S THEN 0 ELSE Len(Code(c))]
  /\ readers = [m \in Mutexes |-> [c \in Calls |-> 0]]
  /\ writer = [m \in Mutexes |-> Nobody]

Returned(c) == pc[c] = Len(Code(c))

At(c, op, m) == ~Returned(c) /\ Code(c)[pc[c] + 1] = <<op, m>>

Advance(c, n) == pc' = [pc EXCEPT ![c] = @ + n]

RLock(c, m) ==
  /\ At(c, "RLock", m) /\ writer[m] = Nobody
  /\ readers' = [readers EXCEPT ![m][c] = @ + 1]
  /\ Advance(c, 1)
  /\ UNCHANGED writer

RUnlock(c, m) ==
  /\ At(c, "RUnlock", m)
  /\ readers' = [readers EXCEPT ![m][c] = @ - 1]
  /\ Advance(c, 1)
  /\ UNCHANGED writer

(* Lock first keeps others out, then waits for the readers there are. *)
LockCalled(c, m) ==
  /\ At(c, "Lock", m) /\ writer[m] = Nobody
  /\ writer' = [writer EXCEPT ![m] = c]
  /\ UNCHANGED <<pc, readers>>

Lock(c, m) ==
  /\ At(c, "Lock", m) /\ writer[m] = c
  /\ \A d \in Calls : readers[m][d] = 0
  /\ Advance(c, 1)
  /\ UNCHANGED <<readers, writer>>

Unlock(c, m) ==
  /\ At(c, "Unlock", m)
  /\ writer' = [writer EXCEPT ![m] = Nobody]
  /\ Advance(c, 1)
  /\ UNCHANGED readers

(* What Active returned: leaders come and go. *)
IfActive(c, m) ==
  /\ At(c, "ifActive", m)
  /\ \E b \in BOOLEAN : Advance(c, IF b THEN 1 ELSE 3)
  /\ UNCHANGED <<readers, writer>>

Next == \E c \in Calls, m \in Mutexes :
          \/ RLock(c, m) \/ RUnlock(c, m) \/ LockCalled(c, m) \/ Lock(c, m)
          \/ Unlock(c, m) \/ IfActive(c, m)

(* Every call goes on when it can. Each is made once, so a lock that is     *)
(* wanted is free again and again only finitely often.                      *)
Fairness == WF_vars(Next)

Spec == Init /\ [][Next]_vars /\ Fairness

-----------------------------------------------------------------------------

(* The calls do not wait for each other forever, wherever each has got to   *)
(* when the next one begins.                                                *)
CallsReturn == <>(\A c \in Calls : Returned(c))

(* A message from a remote is routed to the listeners of its topic:         *)
(* ReceiveIncomingMsg "is called by the Rest API layer [...] when a Remote  *)
(* Cluster message is received.  Here we route the message to any topic     *)
(* listeners."                                                              *)
IncomingRouted == \A c \in Calls : Kind[c] = "incoming" => <>Returned(c)
=============================================================================
