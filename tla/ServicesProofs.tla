--------------------------- MODULE ServicesProofs ---------------------------
(***************************************************************************)
(* Proofs about the services of a server: the push notifications hub, for  *)
(* any number of notifications, any buffer and any number of tokens; the   *)
(* upload session, for any number of requests and any size of file, at one *)
(* node: the lock on a session is in the memory of a node, so with two     *)
(* nodes the properties are false; the busy flag, for any number of nodes, *)
(* calls and durations; email batching, for any number of users and        *)
(* notifications; and all of them put together (MCServices).               *)
(***************************************************************************)
EXTENDS MCServices, PluginEnvironmentProofs, FiniteSetTheorems,
        SequenceTheorems

Items == Notifications \cup {Dummy}

HubState == [pc : {"created", "select", "token", "exited"}, took : Items]

StopperState == [pc : {"idle", "draining", "wg", "semaWg", "stopped"},
                 left : 0 .. Buffer + 1]

(* The dummies that stop has sent. *)
Pushed == IF stopper.pc = "idle" THEN 0 ELSE Buffer + 1 - stopper.left

(* The notification for which the hub waits for a token. *)
Held == IF hub.pc = "token" THEN {hub.took} ELSE {}

(* A notification is in the channel, with the hub or with a worker, and is  *)
(* there once.                                                              *)
Once ==
  /\ \A i \in 1 .. Len(notificationsChan) :
       notificationsChan[i] # Dummy =>
         /\ sender[notificationsChan[i]] = "queued"
         /\ notificationsChan[i] \notin workers \cup Held
  /\ \A i, j \in 1 .. Len(notificationsChan) :
       notificationsChan[i] = notificationsChan[j] /\ notificationsChan[i] # Dummy
         => i = j
  /\ \A n \in workers \cup Held : sender[n] = "queued"
  /\ Held \subseteq Notifications /\ Held \cap workers = {}

(* The two wait groups count the hub and the workers. *)
Counted ==
  /\ IsFiniteSet(workers)
  /\ semaWg = Cardinality(workers) + (IF hub.pc = "token" THEN 1 ELSE 0)
  /\ wg = IF hub.pc \in {"select", "token"} THEN 1 ELSE 0

PushInHand == sent \cup workers \cup Held

(* Whatever was queued has left the channel or is in it. *)
Placed ==
  \A n \in Notifications : sender[n] = "queued" =>
    n \in PushInHand \/ \E i \in 1 .. Len(notificationsChan) : notificationsChan[i] = n

(* What was queued before stop has, while it is in the channel, all the     *)
(* dummies behind it.                                                       *)
Behind ==
  \A n \in early :
    \/ n \in PushInHand
    \/ \E i \in 1 .. Len(notificationsChan) :
         notificationsChan[i] = n /\ Len(notificationsChan) - i >= Pushed

(* A hub that has not started has received no dummy, so stop cannot have    *)
(* sent them all; the waits have waited.                                    *)
Phases ==
  /\ stopper.pc = "idle" => early = {}
  /\ hub.pc = "created" => Pushed <= Len(notificationsChan)
  /\ stopChanClosed => stopper.left = 0
  /\ stopper.pc \in {"semaWg", "stopped"} => hub.pc = "exited"
  /\ stopper.pc = "stopped" => semaWg = 0

(* The inductive invariant. *)
PushInv == PushTypeOK /\ Once /\ Counted /\ Placed /\ Behind /\ Phases

-----------------------------------------------------------------------------

LEMMA PushTypeOKParts ==
  PushTypeOK <=>
             /\ notificationsChan \in Seq(Items) /\ Len(notificationsChan) <= Buffer
             /\ sender \in [Notifications -> {"idle", "sending", "queued", "returned"}]
             /\ hub \in HubState
             /\ workers \subseteq Notifications /\ Cardinality(workers) <= Tokens
             /\ wg \in 0 .. 1 /\ semaWg \in Nat
             /\ stopper \in StopperState
             /\ sent \subseteq Notifications /\ early \subseteq Notifications
  BY DEF PushTypeOK, Items, HubState, StopperState

LEMMA AppendFacts ==
  ASSUME NEW S, NEW s \in Seq(S), NEW x \in S
  PROVE  /\ Append(s, x) \in Seq(S) /\ Len(Append(s, x)) = Len(s) + 1
         /\ \A i \in 1 .. Len(s) : Append(s, x)[i] = s[i]
         /\ Append(s, x)[Len(s) + 1] = x
  OBVIOUS

LEMMA TailFacts ==
  ASSUME NEW S, NEW s \in Seq(S), s # <<>>
  PROVE  /\ Tail(s) \in Seq(S) /\ Len(Tail(s)) = Len(s) - 1 /\ Len(s) \in Nat \ {0}
         /\ \A i \in 1 .. Len(s) - 1 : Tail(s)[i] = s[i + 1]
         /\ Head(s) = s[1] /\ Head(s) \in S
  OBVIOUS

(* A goroutine that sends, before the channel has its notification. *)
LEMMA SenderInv ==
  ASSUME PushAssumption, PushInv, NEW n \in Notifications,
         NEW pc \in {"sending", "returned"}, sender[n] # "queued",
         sender' = [sender EXCEPT ![n] = pc],
         UNCHANGED <<notificationsChan, hub, workers, sent, wg, semaWg, stopper, early>>
  PROVE  PushInv'
<1>1. \A m \in Notifications : sender'[m] = "queued" <=> sender[m] = "queued"
  BY DEF PushInv, PushTypeOK
<1>2. \A m \in Notifications : sender[m] = "queued" => sender'[m] = "queued"
  BY <1>1
<1>3. PushTypeOK'
  BY DEF PushInv, PushTypeOK
<1>4. Held' = Held /\ Pushed' = Pushed /\ PushInHand' = PushInHand
  BY DEF Held, Pushed, PushInHand
<1>5. Once'
  <2>1. workers \cup Held \subseteq Notifications
    BY DEF PushInv, PushTypeOK, Once
  <2>2. \A i \in 1 .. Len(notificationsChan) :
          notificationsChan[i] # Dummy => notificationsChan[i] \in Notifications
    BY DEF PushInv, PushTypeOK
  <2> QED  BY <1>2, <1>4, <2>1, <2>2 DEF PushInv, Once
<1>6. Counted' /\ Phases'
  BY <1>4 DEF PushInv, Counted, Phases, stopChanClosed
<1>7. Placed' /\ Behind'
  BY <1>1, <1>4 DEF PushInv, Placed, Behind
<1> QED  BY <1>3, <1>5, <1>6, <1>7 DEF PushInv

(* A notification is put at the end of the channel: it is nowhere else. *)
LEMMA QueueInv ==
  ASSUME PushAssumption, PushInv, NEW n \in Notifications, Queue(n)
  PROVE  PushInv'
<1> DEFINE c == notificationsChan
           L == Len(notificationsChan)
<1>1. /\ c \in Seq(Items) /\ n \in Items /\ L \in Nat /\ n # Dummy
      /\ c' = Append(c, n) /\ sender[n] = "sending"
      /\ UNCHANGED <<hub, workers, sent, wg, semaWg, stopper, early>>
  BY PushTypeOKParts DEF PushInv, Items, Queue, PushAssumption
<1>2. /\ c' \in Seq(Items) /\ L' = L + 1 /\ c'[L + 1] = n
      /\ \A i \in 1 .. L : c'[i] = c[i]
  BY <1>1, AppendFacts
<1>3. sender' \in [Notifications -> {"idle", "sending", "queued", "returned"}]
  BY PushTypeOKParts DEF PushInv, Queue
<1>4. \A m \in Notifications : sender'[m] = "queued" <=> sender[m] = "queued" \/ m = n
  BY PushTypeOKParts DEF PushInv, Queue
<1>5. L + 1 <= Buffer
  BY <1>1 DEF Queue, Room, PushAssumption
<1>6. PushTypeOK'
  BY <1>1, <1>2, <1>3, <1>5, PushTypeOKParts DEF PushInv, PushTypeOK, Items
<1>7. Held' = Held /\ Pushed' = Pushed /\ PushInHand' = PushInHand
  BY <1>1 DEF Held, Pushed, PushInHand
<1>8. Once'
  <2>1. \A i \in 1 .. L : c[i] # Dummy => c[i] \in Notifications
    BY <1>1 DEF Items
  <2>2. \A i \in 1 .. L : c[i] # n
    BY <1>1, <2>1 DEF PushInv, Once
  <2>3. n \notin workers \cup Held /\ workers \cup Held \subseteq Notifications
    BY <1>1, PushTypeOKParts DEF PushInv, Once
  <2>4. sender'[n] = "queued"
    BY <1>4
  <2>5. \A i \in 1 .. L' : c'[i] # Dummy =>
          sender'[c'[i]] = "queued" /\ c'[i] \notin workers \cup Held
    <3> TAKE i \in 1 .. L'
    <3>1. CASE i = L + 1
      BY <1>2, <2>3, <2>4, <3>1
    <3>2. CASE i \in 1 .. L
      BY <1>2, <1>4, <2>1, <3>2 DEF PushInv, Once
    <3> QED  BY <1>1, <1>2, <3>1, <3>2
  <2>6. \A i, j \in 1 .. L' : c'[i] = c'[j] /\ c'[i] # Dummy => i = j
    BY <1>1, <1>2, <2>2 DEF PushInv, Once
  <2>7. \A m \in workers \cup Held : sender'[m] = "queued"
    BY <1>4, <2>3 DEF PushInv, Once
  <2> QED  BY <1>1, <1>7, <2>5, <2>6, <2>7 DEF PushInv, Once
<1>9. Counted' /\ Phases'
  <2>1. Counted'
    BY <1>1 DEF PushInv, Counted
  <2>2. stopper \in StopperState
    BY PushTypeOKParts DEF PushInv
  <2>3. Pushed \in Int
    BY <2>2 DEF Pushed, StopperState, PushAssumption
  <2> QED  BY <1>1, <1>2, <1>7, <2>1, <2>3 DEF PushInv, Phases, stopChanClosed
<1>10. Placed'
  BY <1>1, <1>2, <1>4, <1>7 DEF PushInv, Placed
<1>11. Behind'
  <2>1. stopper \in StopperState
    BY PushTypeOKParts DEF PushInv
  <2>2. Pushed \in Int
    BY <2>1 DEF Pushed, StopperState, PushAssumption
  <2>3. ASSUME NEW m \in early, NEW i \in 1 .. L, c[i] = m, L - i >= Pushed
        PROVE  i \in 1 .. L' /\ c'[i] = m /\ L' - i >= Pushed'
    BY <1>1, <1>2, <1>7, <2>2, <2>3
  <2> QED  BY <1>1, <1>7, <2>3 DEF PushInv, Behind
<1> QED  BY <1>6, <1>8, <1>9, <1>10, <1>11 DEF PushInv

(* The number of dummies sent. *)
LEMMA PushedType ==
  ASSUME PushAssumption, PushInv
  PROVE  Pushed \in 0 .. Buffer + 1 /\ stopper \in StopperState
<1>1. stopper \in StopperState
  BY PushTypeOKParts DEF PushInv
<1> QED  BY <1>1 DEF Pushed, StopperState, PushAssumption

(* The hub's goroutine is counted before it runs. *)
LEMMA StartInv ==
  ASSUME PushAssumption, PushInv, Start
  PROVE  PushInv'
<1>1. /\ hub \in HubState /\ hub.pc = "created"
      /\ UNCHANGED <<notificationsChan, sender, workers, sent, semaWg, stopper, early>>
  BY PushTypeOKParts DEF PushInv, Start
<1>2. hub' \in HubState /\ hub'.pc = "select"
  BY <1>1 DEF Start, HubState
<1>3. wg = 0 /\ wg' = 1
  BY <1>1 DEF PushInv, Counted, Start
<1>4. Held = {} /\ Held' = {} /\ Pushed' = Pushed /\ PushInHand' = PushInHand
  BY <1>1, <1>2 DEF Held, Pushed, PushInHand
<1>5. PushTypeOK'
  BY <1>1, <1>2, <1>3, PushTypeOKParts DEF PushInv, PushTypeOK, HubState, Items
<1>6. Once' /\ Placed' /\ Behind'
  BY <1>1, <1>4 DEF PushInv, Once, Placed, Behind
<1>7. Counted'
  BY <1>1, <1>2, <1>3 DEF PushInv, Counted
<1>8. Phases'
  BY <1>1, <1>2 DEF PushInv, Phases, stopChanClosed
<1> QED  BY <1>5, <1>6, <1>7, <1>8 DEF PushInv

(* The hub's goroutine leaves once stopChan is closed, and is not counted   *)
(* any more.                                                                *)
LEMMA ExitInv ==
  ASSUME PushAssumption, PushInv, Exit
  PROVE  PushInv'
<1>1. /\ hub \in HubState /\ hub.pc = "select" /\ stopChanClosed
      /\ UNCHANGED <<notificationsChan, sender, workers, sent, semaWg, stopper, early>>
  BY PushTypeOKParts DEF PushInv, Exit
<1>2. hub' \in HubState /\ hub'.pc = "exited"
  BY <1>1 DEF Exit, HubState
<1>3. wg = 1 /\ wg' = 0
  BY <1>1 DEF PushInv, Counted, Exit
<1>4. Held = {} /\ Held' = {} /\ Pushed' = Pushed /\ PushInHand' = PushInHand
  BY <1>1, <1>2 DEF Held, Pushed, PushInHand
<1>5. PushTypeOK'
  BY <1>1, <1>2, <1>3, PushTypeOKParts DEF PushInv, PushTypeOK, HubState, Items
<1>6. Once' /\ Placed' /\ Behind'
  BY <1>1, <1>4 DEF PushInv, Once, Placed, Behind
<1>7. Counted'
  BY <1>1, <1>2, <1>3 DEF PushInv, Counted
<1>8. Phases'
  BY <1>1, <1>2 DEF PushInv, Phases, stopChanClosed
<1> QED  BY <1>5, <1>6, <1>7, <1>8 DEF PushInv

(* The hub takes the first item: a dummy is thrown away, for a notification *)
(* it waits for a token. What stays keeps what is behind it.                *)
LEMMA ReceiveInv ==
  ASSUME PushAssumption, PushInv, Receive
  PROVE  PushInv'
<1> DEFINE c == notificationsChan
           L == Len(notificationsChan)
<1>1. /\ c \in Seq(Items) /\ c # <<>> /\ c' = Tail(c) /\ hub.pc = "select"
      /\ hub \in HubState
      /\ UNCHANGED <<sender, workers, sent, wg, stopper, early>>
  BY PushTypeOKParts DEF PushInv, Receive
<1>2. /\ c' \in Seq(Items) /\ L' = L - 1 /\ L \in Nat \ {0}
      /\ \A i \in 1 .. L - 1 : c'[i] = c[i + 1]
      /\ Head(c) = c[1] /\ Head(c) \in Items
  BY <1>1, TailFacts
<1>3. \/ Head(c) = Dummy /\ hub' = hub /\ semaWg' = semaWg
      \/ /\ Head(c) # Dummy /\ hub' = [pc |-> "token", took |-> Head(c)]
         /\ semaWg' = semaWg + 1
  BY DEF Receive
<1>4. hub' \in HubState /\ hub'.pc \in {"select", "token"}
  BY <1>1, <1>2, <1>3 DEF HubState
<1>5. PushTypeOK'
  <2>1. semaWg' \in Nat
    BY <1>3 DEF PushInv, PushTypeOK
  <2>2. L' <= Buffer
    BY <1>2, PushTypeOKParts DEF PushInv, PushAssumption
  <2> QED  BY <1>1, <1>2, <1>4, <2>1, <2>2, PushTypeOKParts DEF PushInv, PushTypeOK, HubState, Items
<1>6. /\ Held = {} /\ Held' = {Head(c)} \ {Dummy} /\ Pushed' = Pushed
      /\ PushInHand \subseteq PushInHand' /\ Held' \subseteq PushInHand'
  BY <1>1, <1>3 DEF Held, Pushed, PushInHand
<1>7. Once'
  <2>1. \A i \in 1 .. L' : i + 1 \in 1 .. L /\ c'[i] = c[i + 1]
    BY <1>2
  <2>2. 1 \in 1 .. L
    BY <1>2
  <2>3. \A i \in 1 .. L' : c'[i] # Dummy =>
          sender[c'[i]] = "queued" /\ c'[i] \notin workers \cup Held'
    <3> TAKE i \in 1 .. L'
    <3>1. i \in Nat \ {0}
      BY <1>2
    <3> QED  BY <1>2, <1>6, <2>1, <2>2, <3>1 DEF PushInv, Once
  <2>4. \A i, j \in 1 .. L' : c'[i] = c'[j] /\ c'[i] # Dummy => i = j
    BY <1>2, <2>1 DEF PushInv, Once
  <2>5. \A n \in workers \cup Held' : sender[n] = "queued"
    BY <1>2, <1>6, <2>2 DEF PushInv, Once
  <2>6. Held' \subseteq Notifications /\ Held' \cap workers = {}
    BY <1>2, <1>6, <2>2 DEF PushInv, Once, Items
  <2> QED  BY <1>1, <2>3, <2>4, <2>5, <2>6 DEF Once
<1>8. Counted'
  <2>1. IsFiniteSet(workers) /\ Cardinality(workers) \in Nat
    BY FS_CardinalityType DEF PushInv, Counted
  <2>2. semaWg = Cardinality(workers) /\ wg = 1
    BY <1>1, <2>1 DEF PushInv, Counted
  <2> QED  BY <1>1, <1>3, <2>1, <2>2 DEF Counted
<1>9. ASSUME NEW n \in Notifications, NEW i \in 1 .. L, c[i] = n
      PROVE  n \in PushInHand' \/ (i - 1 \in 1 .. L' /\ c'[i - 1] = n)
  <2>1. CASE i = 1
    BY <1>2, <1>6, <1>9, <2>1 DEF PushAssumption
  <2>2. CASE i # 1
    BY <1>2, <1>9, <2>2
  <2> QED  BY <2>1, <2>2
<1>10. Placed'
  BY <1>1, <1>6, <1>9 DEF PushInv, Placed
<1>11. Behind'
  <2>1. early \subseteq Notifications
    BY PushTypeOKParts DEF PushInv
  <2> SUFFICES ASSUME NEW n \in early, n \notin PushInHand'
               PROVE  \E i \in 1 .. L' : c'[i] = n /\ L' - i >= Pushed'
    BY <1>1 DEF Behind
  <2>2. PICK i \in 1 .. L : c[i] = n /\ L - i >= Pushed
    BY <1>6 DEF PushInv, Behind
  <2>3. i - 1 \in 1 .. L' /\ c'[i - 1] = n /\ L' - (i - 1) >= Pushed'
    BY <1>2, <1>6, <1>9, <2>1, <2>2, PushedType
  <2> QED  BY <2>3
<1>12. Phases'
  <2>1. stopper.pc \notin {"semaWg", "stopped"}
    BY <1>1 DEF PushInv, Phases
  <2> QED  BY <1>1, <1>4, <2>1 DEF PushInv, Phases, stopChanClosed
<1> QED  BY <1>5, <1>7, <1>8, <1>10, <1>11, <1>12 DEF PushInv

(* A worker starts with the token the hub has got. *)
LEMMA GetTokenInv ==
  ASSUME PushAssumption, PushInv, GetToken
  PROVE  PushInv'
<1>1. /\ hub \in HubState /\ hub.pc = "token" /\ workers' = workers \cup {hub.took}
      /\ hub' = [pc |-> "select", took |-> Dummy]
      /\ UNCHANGED <<notificationsChan, sender, sent, wg, semaWg, stopper, early>>
  BY PushTypeOKParts DEF PushInv, GetToken
<1>2. Held = {hub.took} /\ Held' = {} /\ Pushed' = Pushed
  BY <1>1 DEF Held, Pushed
<1>3. workers' = workers \cup Held /\ PushInHand' = PushInHand
  BY <1>1, <1>2 DEF PushInHand
<1>4. /\ IsFiniteSet(workers') /\ Cardinality(workers') = Cardinality(workers) + 1
      /\ Cardinality(workers) \in Nat
  BY <1>1, <1>2, FS_AddElement, FS_CardinalityType DEF PushInv, Counted, Once
<1>5. hub' \in HubState
  BY <1>1 DEF HubState, Items
<1>6. PushTypeOK'
  <2>1. Cardinality(workers') <= Tokens
    BY <1>4 DEF GetToken, PushAssumption
  <2>2. workers' \subseteq Notifications
    BY <1>3, PushTypeOKParts DEF PushInv, Once
  <2> QED  BY <1>1, <1>5, <2>1, <2>2, PushTypeOKParts DEF PushInv, PushTypeOK, HubState, Items
<1>7. Once'
  BY <1>1, <1>2, <1>3 DEF PushInv, Once
<1>8. Counted'
  BY <1>1, <1>4 DEF PushInv, Counted
<1>9. Placed' /\ Behind'
  BY <1>1, <1>2, <1>3 DEF PushInv, Placed, Behind
<1>10. Phases'
  BY <1>1, <1>2 DEF PushInv, Phases, stopChanClosed
<1> QED  BY <1>6, <1>7, <1>8, <1>9, <1>10 DEF PushInv

(* A worker ends. *)
LEMMA WorkInv ==
  ASSUME PushAssumption, PushInv, NEW n \in Notifications, Work(n)
  PROVE  PushInv'
<1>1. /\ n \in workers /\ workers' = workers \ {n} /\ sent' = sent \cup {n}
      /\ semaWg' = semaWg - 1
      /\ UNCHANGED <<notificationsChan, sender, hub, wg, stopper, early>>
  BY DEF Work
<1>2. Held' = Held /\ Pushed' = Pushed
  BY <1>1 DEF Held, Pushed
<1>3. PushInHand' = PushInHand
  BY <1>1, <1>2 DEF PushInHand
<1>4. /\ IsFiniteSet(workers') /\ Cardinality(workers') = Cardinality(workers) - 1
      /\ Cardinality(workers) \in Nat /\ Cardinality(workers') \in Nat
  BY <1>1, FS_RemoveElement, FS_CardinalityType DEF PushInv, Counted
<1>5. Counted'
  BY <1>1, <1>4 DEF PushInv, Counted
<1>6. PushTypeOK'
  <2>1. semaWg' \in Nat
    BY <1>4, <1>5 DEF Counted
  <2>2. Cardinality(workers') <= Tokens
    BY <1>4, PushTypeOKParts DEF PushInv, PushAssumption
  <2> QED  BY <1>1, <2>1, <2>2, PushTypeOKParts DEF PushInv, PushTypeOK, HubState, Items
<1>7. Once'
  BY <1>1, <1>2 DEF PushInv, Once
<1>8. Placed' /\ Behind'
  BY <1>1, <1>2, <1>3 DEF PushInv, Placed, Behind
<1>9. Phases'
  <2>1. semaWg # 0
    BY <1>1, <1>4, <1>6 DEF PushInv, PushTypeOK
  <2> QED  BY <1>1, <1>2, <2>1 DEF PushInv, Phases, stopChanClosed
<1> QED  BY <1>5, <1>6, <1>7, <1>8, <1>9 DEF PushInv

(* Stop is called: no dummy has been sent. *)
LEMMA StopInv ==
  ASSUME PushAssumption, PushInv, Stop
  PROVE  PushInv'
<1>1. /\ stopper' = [pc |-> "draining", left |-> Buffer + 1]
      /\ early' = {n \in Notifications : sender[n] = "queued"}
      /\ UNCHANGED <<notificationsChan, sender, hub, workers, sent, wg, semaWg>>
  BY DEF Stop
<1>2. stopper' \in StopperState /\ Pushed' = 0
  BY <1>1 DEF StopperState, Pushed, PushAssumption
<1>3. Held' = Held /\ PushInHand' = PushInHand
  BY <1>1 DEF Held, PushInHand
<1>4. PushTypeOK'
  BY <1>1, <1>2, PushTypeOKParts DEF PushInv, PushTypeOK, HubState, StopperState, Items
<1>5. Once' /\ Counted' /\ Placed'
  BY <1>1, <1>3 DEF PushInv, Once, Counted, Placed
<1>6. Len(notificationsChan) \in Nat
  BY PushTypeOKParts DEF PushInv
<1>7. Behind'
  BY <1>1, <1>2, <1>3, <1>6 DEF PushInv, Placed, Behind
<1>8. Phases'
  BY <1>1, <1>2, <1>6 DEF Phases, stopChanClosed
<1> QED  BY <1>4, <1>5, <1>7, <1>8 DEF PushInv

(* One dummy more is behind everything in the channel. *)
LEMMA DrainInv ==
  ASSUME PushAssumption, PushInv, Drain
  PROVE  PushInv'
<1> DEFINE c == notificationsChan
           L == Len(notificationsChan)
<1>1. /\ c \in Seq(Items) /\ Dummy \in Items /\ L \in Nat /\ c' = Append(c, Dummy)
      /\ stopper.pc = "draining" /\ stopper.left > 0
      /\ UNCHANGED <<sender, hub, workers, sent, wg, semaWg, early>>
  BY PushTypeOKParts DEF PushInv, Items, Drain
<1>2. /\ c' \in Seq(Items) /\ L' = L + 1 /\ c'[L + 1] = Dummy
      /\ \A i \in 1 .. L : c'[i] = c[i]
  BY <1>1, AppendFacts
<1>3. L + 1 <= Buffer
  BY <1>1 DEF Drain, Room, PushAssumption
<1>4. /\ stopper' \in StopperState /\ stopper'.pc = "draining"
      /\ Pushed' = Pushed + 1 /\ Pushed \in Int
  <2>1. stopper \in StopperState /\ stopper.left \in 1 .. Buffer + 1
    BY <1>1, PushedType DEF StopperState, PushAssumption
  <2>2. stopper' = [stopper EXCEPT !.left = stopper.left - 1]
    BY DEF Drain
  <2>3. stopper.left - 1 \in 0 .. Buffer + 1
    BY <2>1 DEF PushAssumption
  <2>4. /\ stopper' \in StopperState /\ stopper'.pc = "draining"
        /\ stopper'.left = stopper.left - 1
    BY <1>1, <2>1, <2>2, <2>3 DEF StopperState
  <2> QED  BY <1>1, <2>1, <2>4 DEF Pushed, PushAssumption
<1>5. Held' = Held /\ PushInHand' = PushInHand
  BY <1>1 DEF Held, PushInHand
<1>6. PushTypeOK'
  BY <1>1, <1>2, <1>3, <1>4, PushTypeOKParts DEF PushInv, PushTypeOK, HubState, StopperState, Items
<1>7. Once'
  <2>1. \A i \in 1 .. L' : c'[i] # Dummy => i \in 1 .. L /\ c'[i] = c[i]
    BY <1>1, <1>2
  <2> QED  BY <1>1, <1>5, <2>1 DEF PushInv, Once
<1>8. Counted'
  BY <1>1 DEF PushInv, Counted
<1>9. Placed'
  BY <1>1, <1>2, <1>5 DEF PushInv, Placed
<1>10. Behind'
  <2>1. ASSUME NEW n \in early, NEW i \in 1 .. L, c[i] = n, L - i >= Pushed
        PROVE  i \in 1 .. L' /\ c'[i] = n /\ L' - i >= Pushed'
    BY <1>1, <1>2, <1>4, <2>1
  <2> QED  BY <1>1, <1>5, <2>1 DEF PushInv, Behind
<1>11. Phases'
  BY <1>1, <1>2, <1>4 DEF PushInv, Phases, stopChanClosed
<1> QED  BY <1>6, <1>7, <1>8, <1>9, <1>10, <1>11 DEF PushInv

(* All dummies are sent: stopChan is closed. The waits follow, each for its *)
(* group; that of the hub is not left before the hub has run, since the     *)
(* channel cannot hold all the dummies.                                     *)
LEMMA StopperInv ==
  ASSUME PushAssumption, PushInv, Close \/ Wait
  PROVE  PushInv'
<1>1. /\ UNCHANGED <<notificationsChan, sender, hub, workers, sent, wg, semaWg, early>>
      /\ stopper.pc # "idle" /\ stopper.left = 0
  BY DEF Close, Wait, PushInv, Phases, stopChanClosed
<1>2. stopper \in StopperState
  BY PushedType
<1>3. /\ stopper' \in StopperState /\ stopper'.pc \in {"wg", "semaWg", "stopped"}
      /\ stopper'.left = 0
      /\ stopper'.pc = "semaWg" => stopper.pc = "wg" /\ wg = 0
      /\ stopper'.pc = "stopped" => stopper.pc = "semaWg" /\ semaWg = 0
  BY <1>1, <1>2 DEF Close, Wait, StopperState
<1>4. Held' = Held /\ PushInHand' = PushInHand /\ Pushed = Buffer + 1 /\ Pushed' = Buffer + 1
  BY <1>1, <1>3 DEF Held, PushInHand, Pushed, PushAssumption
<1>5. PushTypeOK'
  BY <1>1, <1>3, PushTypeOKParts DEF PushInv, PushTypeOK, HubState, StopperState, Items
<1>6. Once' /\ Counted' /\ Placed'
  BY <1>1, <1>4 DEF PushInv, Once, Counted, Placed
<1>7. Behind'
  BY <1>1, <1>4 DEF PushInv, Behind
<1>8. hub.pc # "created"
  <2>1. Len(notificationsChan) \in Nat /\ Len(notificationsChan) <= Buffer
    BY PushTypeOKParts DEF PushInv
  <2> QED  BY <1>4, <2>1 DEF PushInv, Phases, PushAssumption
<1>9. wg = 0 => hub.pc = "exited"
  BY <1>8, PushTypeOKParts DEF PushInv, Counted, HubState
<1>10. Phases'
  BY <1>1, <1>3, <1>8, <1>9 DEF PushInv, Phases, stopChanClosed
<1> QED  BY <1>5, <1>6, <1>7, <1>10 DEF PushInv

LEMMA PushNextInv ==
  ASSUME PushAssumption, PushInv, [PushNext]_pushVars
  PROVE  PushInv'
<1>1. CASE UNCHANGED pushVars
  <2>1. Held' = Held /\ PushInHand' = PushInHand /\ Pushed' = Pushed
    BY <1>1 DEF pushVars, Held, PushInHand, Pushed
  <2>2. PushTypeOK'
    BY <1>1 DEF pushVars, PushInv, PushTypeOK
  <2>3. Once' /\ Counted' /\ Placed'
    BY <1>1, <2>1 DEF pushVars, PushInv, Once, Counted, Placed
  <2>4. Behind' /\ Phases'
    BY <1>1, <2>1 DEF pushVars, PushInv, Behind, Phases, stopChanClosed
  <2> QED  BY <2>2, <2>3, <2>4 DEF PushInv
<1>2. ASSUME NEW n \in Notifications, Send(n) PROVE PushInv'
  BY <1>2, SenderInv DEF Send
<1>3. ASSUME NEW n \in Notifications, GiveUp(n) PROVE PushInv'
  BY <1>3, SenderInv DEF GiveUp
<1> QED
  BY <1>1, <1>2, <1>3, QueueInv, WorkInv, StartInv, ReceiveInv, GetTokenInv,
     ExitInv, StopInv, DrainInv, StopperInv DEF PushNext

LEMMA PushInitInv ==
  ASSUME PushAssumption, PushInit
  PROVE  PushInv
<1>1. IsFiniteSet(workers) /\ Cardinality(workers) = 0
  BY FS_EmptySet DEF PushInit
<1>2. hub \in HubState /\ hub.pc = "created" /\ stopper \in StopperState /\ stopper.pc = "idle"
  BY DEF PushInit, HubState, StopperState, Items, PushAssumption
<1>3. PushTypeOK
  BY <1>1, <1>2, PushTypeOKParts DEF PushInit, PushAssumption
<1>4. Held = {} /\ Pushed = 0 /\ workers = {} /\ Len(notificationsChan) = 0
  BY <1>2 DEF Held, Pushed, PushInit
<1>5. Once /\ Counted /\ Placed /\ Behind /\ Phases
  BY <1>1, <1>2, <1>4 DEF PushInit, Once, Counted, Placed, Behind, Phases, stopChanClosed
<1> QED  BY <1>3, <1>5 DEF PushInv

(***************************************************************************)
(* The state of the hub is of its type: no send overfills the channel, and *)
(* no more workers run than there are tokens.                              *)
(***************************************************************************)
THEOREM PushTypeCorrect ==
  ASSUME PushAssumption
  PROVE  PushSpec => []PushTypeOK
<1>1. PushInit => PushInv
  BY PushInitInv
<1>2. PushInv /\ [PushNext]_pushVars => PushInv'
  BY PushNextInv
<1>3. PushInv => PushTypeOK
  BY DEF PushInv
<1> QED  BY <1>1, <1>2, <1>3, PTL DEF PushSpec

(***************************************************************************)
(* The Buffer + 1 dummies of stop are enough for any buffer, any number of *)
(* workers and any senders that go on: when stop has returned, whatever    *)
(* was in the channel when it was called has been sent, no worker runs and *)
(* the hub's goroutine has left, also when it was slow to start.           *)
(***************************************************************************)
THEOREM PushStopComplete ==
  ASSUME PushAssumption
  PROVE  PushSpec => []StopComplete
<1>1. PushInit => PushInv
  BY PushInitInv
<1>2. PushInv /\ [PushNext]_pushVars => PushInv'
  BY PushNextInv
<1>3. ASSUME PushInv, stopper.pc = "stopped"
      PROVE  early \subseteq sent /\ workers = {} /\ hub.pc = "exited"
  <2>1. hub.pc = "exited" /\ semaWg = 0 /\ Held = {} /\ Pushed = Buffer + 1
    BY <1>3 DEF PushInv, Phases, stopChanClosed, Held, Pushed, PushAssumption
  <2>2. workers = {}
    <3>1. IsFiniteSet(workers) /\ Cardinality(workers) \in Nat
      BY <1>3, FS_CardinalityType DEF PushInv, Counted
    <3>2. Cardinality(workers) = 0
      BY <1>3, <2>1, <3>1 DEF PushInv, Counted
    <3> QED  BY <3>1, <3>2, FS_EmptySet
  <2>3. Len(notificationsChan) \in Nat /\ Len(notificationsChan) <= Buffer
    BY <1>3, PushTypeOKParts DEF PushInv
  <2>4. \A n \in early : n \in PushInHand
    BY <1>3, <2>1, <2>3 DEF PushInv, Behind, PushAssumption
  <2> QED  BY <2>1, <2>2, <2>4 DEF PushInHand
<1>4. PushInv => StopComplete
  BY <1>3 DEF StopComplete, Drained, Quiet
<1> QED  BY <1>1, <1>2, <1>4, PTL DEF PushSpec

-----------------------------------------------------------------------------

OneNode == \A m, n \in Nodes : m = n

(* The requests that hold the lock. *)
Holds(r) == req[r].pc \notin {"idle", "got"}

(* The lock is held by one request at a time. *)
Exclusive ==
  /\ \A r \in Requests : Holds(r) => req[r].node \in uploadLockMap
  /\ \A q, r \in Requests : Holds(q) /\ Holds(r) => q = r

(* What a request that holds the lock knows of the row: it has the offset   *)
(* it compared with until the update, and is deleted by the last step only. *)
RowOK ==
  \A r \in Requests :
    /\ req[r].pc = "checked" => req[r].us = offset
    /\ req[r].pc = "written" => req[r].us > 0 /\ offset >= 0
    /\ req[r].pc \in {"complete", "saved"} => offset >= 0

(* The first n bytes are in the file, and nothing else. *)
Exact(n) == n > 0 => file = Bytes(1, n)

(* The file is ahead of the row only between a write and its update. *)
FileOK ==
  lost = 0 =>
    /\ \A r \in Requests : req[r].pc = "written" => Exact(req[r].us)
    /\ (\A r \in Requests : req[r].pc # "written") => Exact(offset)

(* A FileInfo is followed by the deletion of the session or a failure. *)
InfosOK ==
  /\ Len(infos) <= 1 + fails
  /\ offset >= 0 /\ (\A r \in Requests : req[r].pc # "saved")
       => Len(infos) <= fails

(* The inductive invariant. *)
UploadInv == UploadTypeOK /\ Exclusive /\ RowOK /\ FileOK /\ InfosOK

ReqState == [node : Nodes, us : 0 .. FileSize, err : BOOLEAN,
             pc : {"idle", "got", "locked", "checked", "written", "complete",
                   "saved"}]

-----------------------------------------------------------------------------

(* Appending the bytes that follow. *)
LEMMA BytesConcat ==
  ASSUME NEW a \in Nat, NEW w \in Nat
  PROVE  Bytes(1, a) \o Bytes(a + 1, a + w) = Bytes(1, a + w)
  BY DEF Bytes

(* Bytes of the upload are what a file may hold. *)
LEMMA BytesType ==
  ASSUME NEW a \in Nat, NEW n \in Nat, NEW m \in Nat, n <= m
  PROVE  Bytes(a + 1, n) \in Seq(1 .. m)
  BY DEF Bytes

(* The lock and its holders agree, the last conjunct but one of TypeOK. *)
LockOK == \A n \in uploadLockMap : \E r \in Requests : req[r].node = n /\ Holds(r)

LEMMA UploadTypeOKParts ==
  UploadTypeOK <=>
             /\ offset \in -1 .. FileSize
             /\ file \in Seq(1 .. FileSize) /\ infos \in Seq(Seq(1 .. FileSize))
             /\ uploadLockMap \subseteq Nodes
             /\ req \in [Requests -> ReqState]
             /\ LockOK
             /\ fails \in 0 .. MaxFails /\ lost \in 0 .. MaxLost
  BY DEF UploadTypeOK, ReqState, LockOK, Holds

LEMMA UploadTypeOKNext ==
  ASSUME (offset \in -1 .. FileSize)',
         (file \in Seq(1 .. FileSize) /\ infos \in Seq(Seq(1 .. FileSize)))',
         (uploadLockMap \subseteq Nodes)',
         (req \in [Requests -> ReqState])',
         LockOK',
         (fails \in 0 .. MaxFails /\ lost \in 0 .. MaxLost)'
  PROVE  UploadTypeOK'
  BY DEF UploadTypeOK, ReqState, LockOK, Holds

(* The request that holds the lock gives it up: then nobody holds it.       *)
LEMMA ReturnFacts ==
  ASSUME UploadAssumption, OneNode, UploadInv, NEW r \in Requests, Holds(r), Return(r)
  PROVE  /\ req' \in [Requests -> ReqState]
         /\ uploadLockMap' = {}
         /\ \A q \in Requests : req'[q].pc \in {"idle", "got"}
         /\ LockOK' /\ Exclusive'
<1>1. req \in [Requests -> ReqState] /\ req[r] \in ReqState
  BY UploadTypeOKParts DEF UploadInv
<1>2. 0 \in 0 .. FileSize
  BY DEF UploadAssumption
<1> DEFINE s == [req[r] EXCEPT !.pc = "idle", !.us = 0, !.err = FALSE]
<1>3. s \in ReqState /\ s.pc = "idle"
  BY <1>1, <1>2, Zenon DEF ReqState
<1>4. req' = [req EXCEPT ![r] = s]
  BY <1>1 DEF Return
<1> HIDE DEF s
<1>5. req' \in [Requests -> ReqState]
  BY <1>1, <1>3, <1>4
<1>6. \A q \in Requests : req'[q].pc \in {"idle", "got"}
  BY <1>1, <1>3, <1>4 DEF UploadInv, Exclusive, Holds, ReqState
<1>7. uploadLockMap' = {}
  BY <1>1 DEF UploadInv, UploadTypeOK, Return, OneNode, ReqState
<1> QED  BY <1>5, <1>6, <1>7 DEF LockOK, Exclusive, Holds

(* The request that holds the lock goes on and keeps it. *)
LEMMA KeepFacts ==
  ASSUME UploadAssumption, UploadInv, NEW r \in Requests, Holds(r),
         NEW s \in ReqState, s.node = req[r].node, s.pc \notin {"idle", "got"},
         req' = [req EXCEPT ![r] = s], uploadLockMap' = uploadLockMap
  PROVE  /\ req' \in [Requests -> ReqState]
         /\ req'[r] = s
         /\ \A q \in Requests \ {r} : req'[q].pc \in {"idle", "got"}
         /\ LockOK' /\ Exclusive'
<1>1. req \in [Requests -> ReqState]
  BY UploadTypeOKParts DEF UploadInv
<1>2. req' \in [Requests -> ReqState] /\ req'[r] = s
  BY <1>1
<1>3. \A q \in Requests \ {r} : req'[q].pc \in {"idle", "got"}
  BY <1>1 DEF UploadInv, Exclusive, Holds, ReqState
<1>4. Exclusive'
  BY <1>1, <1>2, <1>3 DEF UploadInv, Exclusive, Holds
<1>5. \A q \in Requests : Holds(q) => q = r
  BY DEF UploadInv, Exclusive
<1>6. LockOK'
  BY <1>1, <1>2, <1>5, UploadTypeOKParts DEF UploadInv, LockOK, Holds
<1> QED  BY <1>2, <1>3, <1>4, <1>6

(* The part of it in which only the place of the request changes. *)
LEMMA ReqGoFacts ==
  ASSUME UploadAssumption, UploadInv, NEW r \in Requests, Holds(r),
         NEW pc \in {"locked", "checked", "written", "complete", "saved"},
         ReqGo(r, pc), uploadLockMap' = uploadLockMap
  PROVE  /\ req' \in [Requests -> ReqState]
         /\ req'[r].pc = pc /\ req'[r].us = req[r].us
         /\ \A q \in Requests \ {r} : req'[q].pc \in {"idle", "got"}
         /\ LockOK' /\ Exclusive'
<1>1. req \in [Requests -> ReqState] /\ req[r] \in ReqState
  BY UploadTypeOKParts DEF UploadInv
<1> DEFINE s == [req[r] EXCEPT !.pc = pc]
<1>2. s \in ReqState /\ s.pc = pc /\ s.us = req[r].us /\ s.node = req[r].node
  BY <1>1, Zenon DEF ReqState
<1>3. req' = [req EXCEPT ![r] = s]
  BY <1>1 DEF ReqGo
<1> HIDE DEF s
<1>4. s.pc \notin {"idle", "got"}
  BY <1>2
<1> QED  BY <1>2, <1>3, <1>4, KeepFacts

(* A request without the lock stays without it. *)
LEMMA OutsideInv ==
  ASSUME UploadAssumption, UploadInv, NEW r \in Requests, ~Holds(r),
         NEW s \in ReqState, s.pc \in {"idle", "got"},
         req' = [req EXCEPT ![r] = s],
         UNCHANGED <<offset, file, uploadLockMap, infos, fails, lost>>
  PROVE  UploadInv'
<1>1. req \in [Requests -> ReqState]
  BY UploadTypeOKParts DEF UploadInv
<1>2. req' \in [Requests -> ReqState]
  BY <1>1
<1>3. \A q \in Requests : Holds(q)' <=> Holds(q)
  BY <1>1 DEF Holds
<1>4. \A q \in Requests : Holds(q) => req'[q] = req[q]
  BY <1>1
<1>5. LockOK' /\ Exclusive'
  BY <1>3, <1>4, UploadTypeOKParts DEF UploadInv, Exclusive, LockOK
<1>6. UploadTypeOK'
  BY <1>2, <1>5, UploadTypeOKParts, UploadTypeOKNext DEF UploadInv
<1>7. RowOK' /\ FileOK' /\ InfosOK'
  BY <1>3, <1>4 DEF UploadInv, RowOK, FileOK, InfosOK, Exact, Holds
<1> QED  BY <1>5, <1>6, <1>7 DEF UploadInv

(* The handler reads the session: it does not hold the lock yet. *)
LEMMA GetUploadSessionInv ==
  ASSUME UploadAssumption, UploadInv, NEW r \in Requests, GetUploadSession(r)
  PROVE  UploadInv'
<1>1. req \in [Requests -> ReqState] /\ req[r] \in ReqState
  BY UploadTypeOKParts DEF UploadInv
<1>2. offset \in 0 .. FileSize
  BY DEF UploadInv, UploadTypeOK, GetUploadSession, UploadAssumption
<1> DEFINE s == [req[r] EXCEPT !.pc = "got", !.us = offset]
<1>3. s \in ReqState /\ s.pc = "got"
  BY <1>1, <1>2, Zenon DEF ReqState
<1>4. req' = [req EXCEPT ![r] = s]
  BY <1>1 DEF GetUploadSession
<1> HIDE DEF s
<1> QED
  BY <1>3, <1>4, OutsideInv DEF GetUploadSession, ReqAt, Holds

(* One request takes the lock of the node, or is told to try later. *)
LEMMA LockInv ==
  ASSUME UploadAssumption, OneNode, UploadInv, NEW r \in Requests, Lock(r)
  PROVE  UploadInv'
<1>1. req \in [Requests -> ReqState] /\ req[r] \in ReqState
  BY UploadTypeOKParts DEF UploadInv
<1>2. CASE req[r].node \in uploadLockMap
  <2> DEFINE s == [req[r] EXCEPT !.pc = "idle", !.us = 0]
  <2>1. 0 \in 0 .. FileSize
    BY DEF UploadAssumption
  <2>2. s \in ReqState /\ s.pc = "idle"
    BY <1>1, <2>1, Zenon DEF ReqState
  <2>3. req' = [req EXCEPT ![r] = s]
    BY <1>1, <1>2 DEF Lock
  <2> HIDE DEF s
  <2> QED
    BY <1>2, <2>2, <2>3, OutsideInv DEF Lock, ReqAt, Holds
<1>3. CASE req[r].node \notin uploadLockMap
  <2> DEFINE s == [req[r] EXCEPT !.pc = "locked"]
  <2>1. s \in ReqState /\ s.pc = "locked" /\ s.node = req[r].node
    BY <1>1, Zenon DEF ReqState
  <2>2. req' = [req EXCEPT ![r] = s] /\ uploadLockMap' = {req[r].node}
    BY <1>1, <1>3 DEF Lock, ReqGo, UploadInv, UploadTypeOK, OneNode, ReqState
  <2> HIDE DEF s
  <2>3. \A q \in Requests : ~Holds(q)
    BY <1>1, <1>3 DEF UploadInv, Exclusive, OneNode, ReqState
  <2>4. /\ req' \in [Requests -> ReqState] /\ req'[r] = s
        /\ \A q \in Requests \ {r} : req'[q] = req[q]
    BY <1>1, <2>1, <2>2
  <2>5. LockOK' /\ Exclusive'
    BY <2>1, <2>2, <2>3, <2>4 DEF LockOK, Exclusive, Holds
  <2>6. UploadTypeOK'
    BY <1>1, <2>2, <2>4, <2>5, UploadTypeOKParts, UploadTypeOKNext DEF UploadInv, Lock, ReqState
  <2>7. RowOK' /\ FileOK' /\ InfosOK'
    BY <2>1, <2>3, <2>4 DEF UploadInv, RowOK, FileOK, InfosOK, Exact, Holds, Lock
  <2> QED  BY <2>5, <2>6, <2>7 DEF UploadInv
<1> QED  BY <1>2, <1>3

(* The row is compared with what the request read before it had the lock. *)
LEMMA CheckInv ==
  ASSUME UploadAssumption, OneNode, UploadInv, NEW r \in Requests, Check(r)
  PROVE  UploadInv'
<1>1. Holds(r)
  BY DEF Check, ReqAt, Holds
<1>2. \A q \in Requests : req[q].pc \notin {"checked", "written", "complete", "saved"}
  BY <1>1 DEF UploadInv, Exclusive, Holds, Check, ReqAt
<1>3. CASE Return(r)
  <2>1. UploadTypeOK' /\ Exclusive'
    BY <1>1, <1>3, ReturnFacts, UploadTypeOKParts, UploadTypeOKNext DEF UploadInv, Check
  <2>2. RowOK' /\ FileOK' /\ InfosOK'
    BY <1>1, <1>2, <1>3, ReturnFacts DEF UploadInv, RowOK, FileOK, InfosOK, Exact, Check
  <2> QED  BY <2>1, <2>2 DEF UploadInv
<1>4. CASE req[r].us = offset /\ ReqGo(r, "checked") /\ UNCHANGED uploadLockMap
  <2>1. UploadTypeOK' /\ Exclusive'
    BY <1>1, <1>4, ReqGoFacts, UploadTypeOKParts, UploadTypeOKNext DEF UploadInv, Check
  <2>2. RowOK' /\ FileOK' /\ InfosOK'
    BY <1>1, <1>2, <1>4, ReqGoFacts DEF UploadInv, RowOK, FileOK, InfosOK, Exact, Check
  <2> QED  BY <2>1, <2>2 DEF UploadInv
<1> QED  BY <1>3, <1>4 DEF Check

(* The row takes the offset of the request, up to which the file reaches. *)
LEMMA UpdateInv ==
  ASSUME UploadAssumption, OneNode, UploadInv, NEW r \in Requests, Update(r)
  PROVE  UploadInv'
<1>1. Holds(r) /\ req[r].pc = "written"
  BY DEF Update, ReqAt, Holds
<1>2. /\ \A q \in Requests : req[q].pc # "saved"
      /\ req[r] \in ReqState /\ offset >= 0 /\ req[r].us > 0
  BY <1>1, UploadTypeOKParts DEF UploadInv, Exclusive, Holds, RowOK
<1>3. offset' = req[r].us /\ offset' \in 1 .. FileSize
  BY <1>2 DEF Update, ReqState, UploadAssumption
<1>4. CASE Return(r)
  <2>1. UploadTypeOK' /\ Exclusive'
    BY <1>1, <1>3, <1>4, ReturnFacts, UploadTypeOKParts, UploadTypeOKNext DEF UploadInv, Update
  <2>2. RowOK' /\ FileOK' /\ InfosOK'
    BY <1>1, <1>2, <1>3, <1>4, ReturnFacts
       DEF UploadInv, RowOK, FileOK, InfosOK, Exact, Update
  <2> QED  BY <2>1, <2>2 DEF UploadInv
<1>5. CASE ReqGo(r, "complete") /\ UNCHANGED uploadLockMap
  <2>1. UploadTypeOK' /\ Exclusive'
    BY <1>1, <1>3, <1>5, ReqGoFacts, UploadTypeOKParts, UploadTypeOKNext DEF UploadInv, Update
  <2>2. RowOK' /\ FileOK' /\ InfosOK'
    BY <1>1, <1>2, <1>3, <1>5, ReqGoFacts
       DEF UploadInv, RowOK, FileOK, InfosOK, Exact, Update
  <2> QED  BY <2>1, <2>2 DEF UploadInv
<1> QED  BY <1>4, <1>5 DEF Update

(* A lost update leaves a file that is ahead of the row, and is counted. *)
LEMMA UpdateFailsInv ==
  ASSUME UploadAssumption, OneNode, UploadInv, NEW r \in Requests, UpdateFails(r)
  PROVE  UploadInv'
<1>1. Holds(r) /\ Return(r) /\ \A q \in Requests : req[q].pc # "saved"
  BY DEF UpdateFails, ReqAt, Holds, UploadInv, Exclusive
<1>2. lost' \in 0 .. MaxLost /\ lost' # 0
  BY DEF UpdateFails, UploadInv, UploadTypeOK, UploadAssumption
<1>3. UploadTypeOK' /\ Exclusive'
  BY <1>1, <1>2, ReturnFacts, UploadTypeOKParts, UploadTypeOKNext DEF UploadInv, UpdateFails
<1>4. RowOK' /\ FileOK' /\ InfosOK'
  BY <1>1, <1>2, ReturnFacts DEF UploadInv, RowOK, FileOK, InfosOK, UpdateFails
<1> QED  BY <1>3, <1>4 DEF UploadInv

(* The FileInfo is saved while the session is still there. *)
LEMMA SaveInv ==
  ASSUME UploadAssumption, OneNode, UploadInv, NEW r \in Requests, Save(r)
  PROVE  UploadInv'
<1>1. /\ Holds(r) /\ ReqGo(r, "saved") /\ UNCHANGED uploadLockMap
      /\ \A q \in Requests : req[q].pc \notin {"written", "saved"}
  BY DEF Save, ReqAt, Holds, UploadInv, Exclusive
<1>2. infos' \in Seq(Seq(1 .. FileSize)) /\ Len(infos') = Len(infos) + 1
  BY DEF Save, UploadInv, UploadTypeOK
<1>3. UploadTypeOK' /\ Exclusive'
  BY <1>1, <1>2, ReqGoFacts, UploadTypeOKParts, UploadTypeOKNext DEF UploadInv, Save
<1>4. offset >= 0 /\ Len(infos) <= fails
  BY <1>1 DEF UploadInv, RowOK, InfosOK, Save, ReqAt
<1>5. RowOK' /\ FileOK'
  BY <1>1, <1>4, ReqGoFacts DEF UploadInv, RowOK, FileOK, Exact, Save
<1>6. InfosOK'
  BY <1>1, <1>2, <1>4, ReqGoFacts DEF UploadInv, UploadTypeOK, InfosOK, Save
<1> QED  BY <1>3, <1>5, <1>6 DEF UploadInv

(* A failure after the last part leaves row and file alone. *)
LEMMA SaveFailsInv ==
  ASSUME UploadAssumption, OneNode, UploadInv, NEW r \in Requests, SaveFails(r)
  PROVE  UploadInv'
<1>1. /\ Holds(r) /\ Return(r)
      /\ \A q \in Requests : req[q].pc \notin {"written", "saved"}
  BY DEF SaveFails, ReqAt, Holds, UploadInv, Exclusive
<1>2. fails' \in 0 .. MaxFails /\ fails' > fails
  BY DEF SaveFails, UploadInv, UploadTypeOK, UploadAssumption
<1>3. UploadTypeOK' /\ Exclusive'
  BY <1>1, <1>2, ReturnFacts, UploadTypeOKParts, UploadTypeOKNext DEF UploadInv, SaveFails
<1>4. RowOK' /\ FileOK'
  BY <1>1, ReturnFacts DEF UploadInv, RowOK, FileOK, Exact, SaveFails
<1>5. InfosOK'
  BY <1>1, <1>2, ReturnFacts DEF UploadInv, UploadTypeOK, InfosOK, SaveFails
<1> QED  BY <1>3, <1>4, <1>5 DEF UploadInv

(* The session is deleted, or stays with one failure more. *)
LEMMA DeleteInv ==
  ASSUME UploadAssumption, OneNode, UploadInv, NEW r \in Requests, Delete(r)
  PROVE  UploadInv'
<1>1. /\ Holds(r) /\ Return(r)
      /\ \A q \in Requests : req[q].pc # "written"
  BY DEF Delete, ReqAt, Holds, UploadInv, Exclusive
<1>2. /\ fails' \in 0 .. MaxFails /\ offset' \in -1 .. FileSize
      /\ \/ offset' = -1 /\ fails' = fails
         \/ offset' = offset /\ fails' = fails + 1
  BY DEF Delete, UploadInv, UploadTypeOK, UploadAssumption
<1>3. UploadTypeOK' /\ Exclusive'
  BY <1>1, <1>2, ReturnFacts, UploadTypeOKParts, UploadTypeOKNext DEF UploadInv, Delete
<1>4. RowOK' /\ FileOK'
  BY <1>1, <1>2, ReturnFacts DEF UploadInv, RowOK, FileOK, Exact, Delete
<1>5. InfosOK'
  BY <1>1, <1>2, ReturnFacts DEF UploadInv, UploadTypeOK, InfosOK, Delete
<1> QED  BY <1>3, <1>4, <1>5 DEF UploadInv

(* The first part makes a new file, or none when it is too small. *)
LEMMA WriteFileInv ==
  ASSUME UploadAssumption, OneNode, UploadInv, NEW r \in Requests,
         NEW w \in 0 .. FileSize - req[r].us, NEW err \in BOOLEAN,
         WriteFile(r, w, err)
  PROVE  UploadInv'
<1>1. /\ Holds(r) /\ req[r] \in ReqState /\ req \in [Requests -> ReqState]
      /\ \A q \in Requests : req[q].pc \notin {"written", "saved"}
  BY UploadTypeOKParts DEF WriteFile, ReqAt, Holds, UploadInv, Exclusive
<1>2. offset = 0 /\ req[r].us = 0 /\ w \in 0 .. FileSize
  BY DEF WriteFile, ReqAt, UploadInv, RowOK, UploadAssumption
<1>0. UNCHANGED <<offset, infos, fails, lost>>
  BY DEF WriteFile
<1>3. CASE Return(r) /\ file' \in {file, <<>>}
  <2>0. file' \in Seq(1 .. FileSize)
    <3>1. CASE file' = file
      BY <3>1 DEF UploadInv, UploadTypeOK
    <3>2. CASE file' = <<>>
      BY <3>2
    <3> QED  BY <1>3, <3>1, <3>2
  <2>1. UploadTypeOK' /\ Exclusive'
    BY <1>0, <1>1, <1>3, <2>0, ReturnFacts, UploadTypeOKParts, UploadTypeOKNext DEF UploadInv
  <2>2. RowOK' /\ FileOK' /\ InfosOK'
    BY <1>1, <1>2, <1>3, ReturnFacts
       DEF UploadInv, RowOK, FileOK, InfosOK, Exact, WriteFile
  <2> QED  BY <2>1, <2>2 DEF UploadInv
<1>4. CASE w > 0 /\ Written(r, w, err) /\ file' = Bytes(1, w) /\ UNCHANGED uploadLockMap
  <2> DEFINE s == [req[r] EXCEPT !.us = req[r].us + w, !.err = err, !.pc = "written"]
  <2>0. req[r].us + w = w /\ req[r].us + w \in 0 .. FileSize
    BY <1>2 DEF UploadAssumption
  <2>1. s \in ReqState /\ s.pc = "written" /\ s.us = w /\ s.node = req[r].node
    BY <1>1, <2>0, Zenon DEF ReqState
  <2>2. req' = [req EXCEPT ![r] = s]
    BY <1>1, <1>2, <1>4 DEF Written
  <2> HIDE DEF s
  <2>3. /\ req' \in [Requests -> ReqState] /\ req'[r] = s
        /\ \A q \in Requests \ {r} : req'[q].pc \in {"idle", "got"}
        /\ LockOK' /\ Exclusive'
    BY <1>1, <1>4, <2>1, <2>2, KeepFacts
  <2>4. file' \in Seq(1 .. FileSize)
    BY <1>2, <1>4 DEF Bytes, UploadAssumption
  <2>5. UploadTypeOK'
    BY <1>0, <1>4, <2>3, <2>4, UploadTypeOKParts, UploadTypeOKNext DEF UploadInv
  <2>6. RowOK' /\ FileOK' /\ InfosOK'
    BY <1>1, <1>2, <1>4, <2>1, <2>3
       DEF UploadInv, RowOK, FileOK, InfosOK, Exact, WriteFile
  <2> QED  BY <2>3, <2>5, <2>6 DEF UploadInv
<1> QED  BY <1>3, <1>4 DEF WriteFile

(* A later part is appended where the file ends. *)
LEMMA AppendFileInv ==
  ASSUME UploadAssumption, OneNode, UploadInv, NEW r \in Requests,
         NEW w \in 0 .. FileSize - req[r].us, NEW err \in BOOLEAN,
         AppendFile(r, w, err)
  PROVE  UploadInv'
<1>1. /\ Holds(r) /\ req[r] \in ReqState /\ req \in [Requests -> ReqState]
      /\ \A q \in Requests : req[q].pc \notin {"written", "saved"}
  BY UploadTypeOKParts DEF AppendFile, ReqAt, Holds, UploadInv, Exclusive
<1>2. /\ offset = req[r].us /\ req[r].us \in 1 .. FileSize
      /\ w \in Nat /\ req[r].us + w \in 1 .. FileSize
  BY <1>1 DEF AppendFile, ReqAt, UploadInv, RowOK, ReqState, UploadAssumption
<1> DEFINE u == req[r].us
           s == [req[r] EXCEPT !.us = u + w, !.err = err, !.pc = "written"]
<1>3. s \in ReqState /\ s.pc = "written" /\ s.us = u + w /\ s.node = req[r].node
  <2>1. u + w \in 0 .. FileSize
    BY <1>2 DEF UploadAssumption
  <2> QED  BY <1>1, <2>1, Zenon DEF ReqState
<1>4. req' = [req EXCEPT ![r] = s]
  BY <1>1 DEF AppendFile, Written
<1> HIDE DEF s
<1>5. /\ req' \in [Requests -> ReqState] /\ req'[r] = s
      /\ \A q \in Requests \ {r} : req'[q].pc \in {"idle", "got"}
      /\ LockOK' /\ Exclusive'
  BY <1>1, <1>3, <1>4, KeepFacts DEF AppendFile
<1>6. file' \in Seq(1 .. FileSize)
  <2>1. Bytes(u + 1, u + w) \in Seq(1 .. FileSize)
    <3>1. /\ u \in Nat /\ u + w \in Nat /\ FileSize \in Nat /\ u + w <= FileSize
      BY <1>2 DEF UploadAssumption
    <3> HIDE DEF u
    <3> QED  BY <3>1, BytesType
  <2> QED  BY <2>1 DEF AppendFile, UploadInv, UploadTypeOK
<1>7. UploadTypeOK'
  BY <1>5, <1>6, UploadTypeOKParts, UploadTypeOKNext DEF UploadInv, AppendFile
<1>8. lost = 0 => file' = Bytes(1, u + w)
  <2>1. ASSUME lost = 0 PROVE file = Bytes(1, u)
    BY <1>1, <1>2, <2>1 DEF UploadInv, FileOK, Exact
  <2>2. u \in Nat /\ w \in Nat
    BY <1>2 DEF UploadAssumption
  <2>3. Bytes(1, u) \o Bytes(u + 1, u + w) = Bytes(1, u + w)
    BY <2>2, BytesConcat
  <2> QED  BY <2>1, <2>3 DEF AppendFile
<1>9. UNCHANGED <<offset, uploadLockMap, infos, fails, lost>>
  BY DEF AppendFile
<1>10. RowOK'
  BY <1>2, <1>3, <1>5, <1>9 DEF UploadInv, RowOK, UploadAssumption
<1>11. FileOK'
  BY <1>3, <1>5, <1>8, <1>9 DEF FileOK, Exact
<1>12. InfosOK'
  BY <1>1, <1>9 DEF UploadInv, InfosOK
<1> QED  BY <1>5, <1>7, <1>10, <1>11, <1>12 DEF UploadInv

LEMMA UploadNextInv ==
  ASSUME UploadAssumption, OneNode, UploadInv, [UploadNext]_uploadVars
  PROVE  UploadInv'
<1>1. CASE UNCHANGED uploadVars
  BY <1>1 DEF uploadVars, UploadInv, UploadTypeOK, Exclusive, Holds, RowOK, FileOK, Exact, InfosOK
<1>2. ASSUME NEW r \in Requests, Write(r) PROVE UploadInv'
  BY <1>2, WriteFileInv, AppendFileInv DEF Write
<1> QED
  BY <1>1, <1>2, GetUploadSessionInv, LockInv, CheckInv, UpdateInv,
     UpdateFailsInv, SaveInv, SaveFailsInv, DeleteInv DEF UploadNext

LEMMA UploadInitInv ==
  ASSUME UploadAssumption, UploadInit
  PROVE  UploadInv
<1>1. 0 \in 0 .. FileSize /\ 0 \in 0 .. MaxFails /\ 0 \in 0 .. MaxLost
  BY DEF UploadAssumption
<1>2. req \in [Requests -> ReqState] /\ \A r \in Requests : req[r].pc = "idle"
  <2>1. [node : Nodes, us : {0}, err : {FALSE}, pc : {"idle"}] \subseteq ReqState
    BY <1>1, Zenon DEF ReqState
  <2> QED  BY <2>1 DEF UploadInit
<1>3. UploadTypeOK
  BY <1>1, <1>2, UploadTypeOKParts DEF UploadInit, LockOK, UploadAssumption
<1> QED
  BY <1>2, <1>3 DEF UploadInv, UploadInit, Exclusive, Holds, RowOK, FileOK, Exact, InfosOK

(***************************************************************************)
(* The state of an upload is of its type: in particular the offset in the  *)
(* row never passes the size of the file, and a node in the lock map is    *)
(* there for a request that will take it out (doUploadData's defer).       *)
(***************************************************************************)
THEOREM UploadTypeCorrect ==
  ASSUME UploadAssumption, OneNode
  PROVE  UploadSpec => []UploadTypeOK
<1>1. UploadInit => UploadInv
  BY UploadInitInv
<1>2. UploadInv /\ [UploadNext]_uploadVars => UploadInv'
  BY UploadNextInv
<1>3. UploadInv => UploadTypeOK
  BY DEF UploadInv
<1> QED  BY <1>1, <1>2, <1>3, PTL DEF UploadSpec

(***************************************************************************)
(* Whenever nobody is writing, the file has exactly the bytes up to the    *)
(* offset in the row (unless an update of the row was lost), although any  *)
(* number of requests read the row before they took the lock; and there is *)
(* one FileInfo, unless a step after saving it failed: the lock, the       *)
(* comparison with the row under it and the deletion at the end of         *)
(* UploadData suffice, at one node.                                        *)
(***************************************************************************)
THEOREM UploadStoredExactly ==
  ASSUME UploadAssumption, OneNode
  PROVE  UploadSpec => []StoredExactly
<1>1. UploadInit => UploadInv
  BY UploadInitInv
<1>2. UploadInv /\ [UploadNext]_uploadVars => UploadInv'
  BY UploadNextInv
<1>3. UploadInv => StoredExactly
  BY DEF UploadInv, StoredExactly, OffsetExact, SavedOnce, Between, FileOK, Exact,
         InfosOK
<1> QED  BY <1>1, <1>2, <1>3, PTL DEF UploadSpec

-----------------------------------------------------------------------------

(* A timer that runs goes off at the expiry. *)
Timed == \A n \in Servers : armed[n] \subseteq {expires[n]}

(* What the server has been told of the last call, when nothing is late. *)
Shown(n) ==
  /\ expires[n] <= last
  /\ last > clock + Second => expires[n] > last - Second

(* A message on its way is the only one of its pair, tells of the last      *)
(* call, and is fresh.                                                      *)
Tells(q) ==
  q # <<>> => /\ Len(q) = 1
              /\ q[1].expires = last \div Second
              /\ q[1].busy <=> last # 0
              /\ last # 0 => last >= clock + Second

NoneOnItsWay == \A p \in Servers \X Servers : net[p] = <<>>

NoneDue == \A n \in Servers : fired[n] = 0 /\ Due(n) = {}

(* As long as nothing is late: a timer that has gone off was due, messages  *)
(* and timers are not on their way together, and who waits for no message   *)
(* knows the last call.                                                     *)
InTime ==
  /\ \A n \in Servers : fired[n] > 0 => expires[n] <= clock
  /\ NoneOnItsWay \/ NoneDue
  /\ \A p \in Servers \X Servers : Tells(net[p])
  /\ \A m \in Servers : (\E n \in Servers : net[<<n, m>>] # <<>>) \/ Shown(m)

(* The inductive invariant. *)
BusyInv == BusyTypeOK /\ Timed /\ (~late => InTime)

-----------------------------------------------------------------------------

LEMMA DivFacts ==
  ASSUME NEW x \in Nat, NEW s \in Nat \ {0}
  PROVE  /\ x \div s \in Nat
         /\ (x \div s) * s <= x /\ x < (x \div s) * s + s
  OBVIOUS

LEMMA MulMonotone ==
  ASSUME NEW a \in Nat, NEW b \in Nat, NEW s \in Nat, a <= b
  PROVE  a * s <= b * s /\ a * s \in Nat
  OBVIOUS

LEMMA DivMonotone ==
  ASSUME NEW x \in Nat, NEW y \in Nat, NEW s \in Nat \ {0}, x <= y
  PROVE  x \div s <= y \div s
<1> DEFINE a == x \div s
           b == y \div s
<1>1. a \in Nat /\ b \in Nat /\ a * s <= x /\ y < b * s + s /\ s > 0
  BY DivFacts
<1> HIDE DEF a, b
<1>2. ASSUME b + 1 <= a PROVE FALSE
  <2>1. (b + 1) * s <= a * s
    BY <1>1, <1>2, MulMonotone
  <2>2. (b + 1) * s = b * s + s
    BY <1>1
  <2> QED  BY <1>1, <2>1, <2>2
<1>3. a <= b
  BY <1>1, <1>2
<1> QED  BY <1>3 DEF a, b

(* The expiry a message carries is within the clock. *)
LEMMA MessageExpiry ==
  ASSUME BusyAssumption, NEW e \in 0 .. MaxTicks \div Second
  PROVE  e * Second \in 0 .. MaxTicks
<1>1. MaxTicks \in Nat /\ Second \in Nat \ {0}
  BY DEF BusyAssumption
<1> DEFINE b == MaxTicks \div Second
<1>2. b \in Nat /\ b * Second <= MaxTicks
  BY <1>1, DivFacts
<1>3. e \in Nat /\ e <= b
  BY <1>2
<1>4. e * Second <= b * Second /\ e * Second \in Nat
  BY <1>1, <1>2, <1>3, MulMonotone
<1> HIDE DEF b
<1> QED  BY <1>1, <1>2, <1>3, <1>4

LEMMA BusyTypes ==
  BusyTypeOK <=>
    /\ clock \in 0 .. MaxTicks /\ calls \in 0 .. MaxCalls /\ last \in 0 .. MaxTicks
    /\ late \in BOOLEAN
    /\ busy \in [Servers -> BOOLEAN]
    /\ expires \in [Servers -> 0 .. MaxTicks]
    /\ armed \in [Servers -> SUBSET (0 .. MaxTicks)]
    /\ fired \in [Servers -> Nat]
    /\ net \in [Servers \X Servers -> Seq(Messages)]
  BY DEF BusyTypeOK

(* What setWithoutNotify and clearWithoutNotify do, whatever the rest. *)
LEMMA SetFacts ==
  ASSUME BusyAssumption, BusyTypeOK, Timed, NEW n \in Servers, NEW at \in 0 .. MaxTicks,
         setWithoutNotify(n, at)
  PROVE  /\ busy' \in [Servers -> BOOLEAN]
         /\ expires' \in [Servers -> 0 .. MaxTicks]
         /\ armed' \in [Servers -> SUBSET (0 .. MaxTicks)]
         /\ Timed'
         /\ expires'[n] = at /\ armed'[n] = {at}
         /\ \A m \in Servers \ {n} : expires'[m] = expires[m] /\ armed'[m] = armed[m]
<1>1. busy' \in [Servers -> BOOLEAN]
  BY Zenon DEF setWithoutNotify, BusyTypeOK
<1>2. expires' \in [Servers -> 0 .. MaxTicks]
  BY DEF setWithoutNotify, BusyTypeOK
<1>3. armed' \in [Servers -> SUBSET (0 .. MaxTicks)]
  <2>1. {at} \in SUBSET (0 .. MaxTicks)
    OBVIOUS
  <2> QED  BY <2>1 DEF setWithoutNotify, BusyTypeOK
<1>4. expires'[n] = at /\ armed'[n] = {at}
  BY DEF setWithoutNotify, BusyTypeOK
<1>5. \A m \in Servers \ {n} : expires'[m] = expires[m] /\ armed'[m] = armed[m]
  BY DEF setWithoutNotify, BusyTypeOK
<1>6. Timed'
  BY <1>4, <1>5 DEF Timed
<1> QED  BY <1>1, <1>2, <1>3, <1>4, <1>5, <1>6

LEMMA ClearFacts ==
  ASSUME BusyAssumption, BusyTypeOK, Timed, NEW n \in Servers, clearWithoutNotify(n)
  PROVE  /\ busy' \in [Servers -> BOOLEAN]
         /\ expires' \in [Servers -> 0 .. MaxTicks]
         /\ armed' \in [Servers -> SUBSET (0 .. MaxTicks)]
         /\ Timed'
         /\ expires'[n] = 0 /\ armed'[n] = {}
         /\ \A m \in Servers \ {n} : expires'[m] = expires[m] /\ armed'[m] = armed[m]
<1>0. MaxTicks \in Nat
  BY DEF BusyAssumption
<1>1. busy' \in [Servers -> BOOLEAN]
  BY Zenon DEF clearWithoutNotify, BusyTypeOK
<1>2. expires' \in [Servers -> 0 .. MaxTicks]
  BY <1>0 DEF clearWithoutNotify, BusyTypeOK
<1>3. armed' \in [Servers -> SUBSET (0 .. MaxTicks)]
  <2>1. {} \in SUBSET (0 .. MaxTicks)
    OBVIOUS
  <2> QED  BY <2>1 DEF clearWithoutNotify, BusyTypeOK
<1>4. expires'[n] = 0 /\ armed'[n] = {}
  BY DEF clearWithoutNotify, BusyTypeOK
<1>5. \A m \in Servers \ {n} : expires'[m] = expires[m] /\ armed'[m] = armed[m]
  BY DEF clearWithoutNotify, BusyTypeOK
<1>6. Timed'
  BY <1>4, <1>5 DEF Timed
<1> QED  BY <1>1, <1>2, <1>3, <1>4, <1>5, <1>6

(* What notifyServerBusyChange adds. *)
LEMMA NotifyFacts ==
  ASSUME BusyTypeOK, NEW n \in Servers, NEW sbs \in Messages,
         notifyServerBusyChange(n, sbs)
  PROVE  /\ net' \in [Servers \X Servers -> Seq(Messages)]
         /\ \A p \in Servers \X Servers :
              net'[p] = IF p[1] = n /\ p[2] # n THEN Append(net[p], sbs) ELSE net[p]
  BY DEF notifyServerBusyChange, BusyTypeOK

(* A call that finds everything served leaves one message for each of the   *)
(* others, and nothing due.                                                 *)
LEMMA CallInTime ==
  ASSUME BusyAssumption, BusyTypeOK, BusyTypeOK', NEW n \in Servers, NEW sbs \in Messages,
         Served,
         \A p \in Servers \X Servers :
           net'[p] = IF p[1] = n /\ p[2] # n THEN Append(net[p], sbs) ELSE net[p],
         UNCHANGED <<clock, fired>>,
         \A m \in Servers \ {n} : armed'[m] = armed[m],
         \A at \in armed'[n] : at > clock,
         sbs.expires = last' \div Second, sbs.busy <=> last' # 0,
         last' # 0 => last' >= clock + Second,
         expires'[n] = last'
  PROVE  InTime'
<1>0. Second \in Nat \ {0}
  BY DEF BusyAssumption
<1>1. \A p \in Servers \X Servers : net[p] = <<>>
  BY DEF Served
<1>2. \A m \in Servers : fired'[m] = 0
  BY DEF Served
<1>3. \A m \in Servers : Due(m)' = {}
  <2> SUFFICES ASSUME NEW m \in Servers, NEW at \in armed'[m], at <= clock
               PROVE  FALSE
    BY DEF Due
  <2>1. CASE m = n
    <3>1. at \in Int /\ clock \in Int
      BY DEF BusyTypeOK
    <3> QED  BY <2>1, <3>1
  <2>2. CASE m # n
    BY <2>2 DEF Served, Due
  <2> QED  BY <2>1, <2>2
<1>4. \A p \in Servers \X Servers : net'[p] = <<>> \/ net'[p] = <<sbs>>
  <2> SUFFICES ASSUME NEW p \in Servers \X Servers
               PROVE  net'[p] = <<>> \/ net'[p] = <<sbs>>
    OBVIOUS
  <2>1. net[p] = <<>>
    BY <1>1
  <2>2. Append(<<>>, sbs) = <<sbs>>
    OBVIOUS
  <2> QED  BY <2>1, <2>2
<1>5. ASSUME NEW p \in Servers \X Servers PROVE Tells(net[p])'
  <2>1. CASE net'[p] = <<>>
    BY <2>1 DEF Tells
  <2>2. CASE net'[p] = <<sbs>>
    <3>1. Len(net'[p]) = 1 /\ net'[p][1] = sbs
      BY <2>2
    <3> QED  BY <3>1 DEF Tells
  <2> QED  BY <1>4, <2>1, <2>2
<1>6. ASSUME NEW m \in Servers, m # n PROVE net'[<<n, m>>] # <<>>
  <2>1. <<n, m>> \in Servers \X Servers /\ <<n, m>>[1] = n /\ <<n, m>>[2] = m
    OBVIOUS
  <2>2. net'[<<n, m>>] = Append(net[<<n, m>>], sbs) /\ net[<<n, m>>] = <<>>
    BY <1>1, <1>6, <2>1
  <2>3. Append(<<>>, sbs) = <<sbs>> /\ <<sbs>> # <<>>
    OBVIOUS
  <2> QED  BY <2>2, <2>3
<1>7. Shown(n)'
  <2>1. last' \in Int
    BY DEF BusyTypeOK
  <2>2. \A x \in Int : x <= x /\ x > x - Second
    BY <1>0
  <2>3. last' <= last' /\ last' > last' - Second
    BY <2>1, <2>2, Zenon
  <2> QED  BY <2>3, Zenon DEF Shown
<1> QED  BY <1>2, <1>3, <1>5, <1>6, <1>7 DEF InTime, NoneDue

LEMMA SetInv ==
  ASSUME BusyAssumption, BusyInv, NEW n \in Servers, NEW dur \in Durations, Set(n, dur)
  PROVE  BusyInv'
<1> DEFINE at == clock + (IF dur < Second THEN Second ELSE dur)
<1>0. BusyTypeOK /\ Timed /\ Second \in Nat \ {0} /\ MaxTicks \in Nat /\ dur \in Nat
  BY DEF BusyInv, BusyAssumption
<1>1. at \in Nat /\ at >= clock + Second /\ at > clock /\ clock \in Nat
  BY <1>0 DEF BusyTypeOK
<1>2. at <= MaxTicks /\ Notes /\ calls < MaxCalls /\ last' = at
  BY DEF Set
<1>3. setWithoutNotify(n, at)
  BY DEF Set
<1>4. calls' = calls + 1 /\ UNCHANGED <<clock, fired>>
  BY DEF Set
<1>5. PICK sbs : /\ sbs = [busy |-> TRUE, expires |-> at \div Second]
                 /\ notifyServerBusyChange(n, sbs)
  BY DEF Set
<1> HIDE DEF at
<1>6. at \in 0 .. MaxTicks
  BY <1>0, <1>1, <1>2
<1>7. at \div Second \in 0 .. MaxTicks \div Second
  <2>1. at \div Second \in Nat /\ MaxTicks \div Second \in Nat
    BY <1>0, <1>1, DivFacts
  <2>2. at \div Second <= MaxTicks \div Second
    BY <1>0, <1>1, <1>2, DivMonotone
  <2> QED  BY <2>1, <2>2
<1>8. sbs \in Messages
  BY <1>5, <1>7, Zenon DEF Messages
<1>9. sbs.expires = at \div Second /\ (sbs.busy <=> at # 0)
  <2>1. at # 0
    BY <1>0, <1>1
  <2> QED  BY <1>5, <2>1
<1>10. /\ busy' \in [Servers -> BOOLEAN]
       /\ expires' \in [Servers -> 0 .. MaxTicks]
       /\ armed' \in [Servers -> SUBSET (0 .. MaxTicks)]
       /\ Timed'
       /\ expires'[n] = at /\ armed'[n] = {at}
       /\ \A m \in Servers \ {n} : expires'[m] = expires[m] /\ armed'[m] = armed[m]
  BY <1>0, <1>3, <1>6, SetFacts
<1>11. /\ net' \in [Servers \X Servers -> Seq(Messages)]
       /\ \A p \in Servers \X Servers :
            net'[p] = IF p[1] = n /\ p[2] # n THEN Append(net[p], sbs) ELSE net[p]
  BY <1>0, <1>5, <1>8, NotifyFacts
<1>12. BusyTypeOK'
  <2>1. calls' \in 0 .. MaxCalls
    BY <1>0, <1>2, <1>4 DEF BusyTypeOK, BusyAssumption
  <2>2. late' \in BOOLEAN
    BY <1>2 DEF Notes
  <2>3. clock' \in 0 .. MaxTicks /\ fired' \in [Servers -> Nat] /\ last' \in 0 .. MaxTicks
    BY <1>0, <1>2, <1>4, <1>6 DEF BusyTypeOK
  <2> QED  BY <1>10, <1>11, <2>1, <2>2, <2>3 DEF BusyTypeOK
<1>13. ASSUME ~late' PROVE InTime'
  <2>1. Served
    BY <1>2, <1>13 DEF Notes
  <2>2. \A x \in armed'[n] : x > clock
    BY <1>1, <1>10
  <2>3. last' # 0 => last' >= clock + Second
    BY <1>1, <1>2
  <2>4. sbs.expires = last' \div Second /\ (sbs.busy <=> last' # 0) /\ expires'[n] = last'
    BY <1>2, <1>9, <1>10
  <2>5. \A m \in Servers \ {n} : armed'[m] = armed[m]
    BY <1>10
  <2> QED  BY <1>0, <1>4, <1>8, <1>11, <1>12, <2>1, <2>2, <2>3, <2>4, <2>5, CallInTime
<1> QED  BY <1>10, <1>12, <1>13 DEF BusyInv

LEMMA ClearInv ==
  ASSUME BusyAssumption, BusyInv, NEW n \in Servers, Clear(n)
  PROVE  BusyInv'
<1>0. BusyTypeOK /\ Timed /\ Second \in Nat \ {0} /\ MaxTicks \in Nat
  BY DEF BusyInv, BusyAssumption
<1>2. Notes /\ calls < MaxCalls /\ last' = 0
  BY DEF Clear
<1>3. clearWithoutNotify(n)
  BY DEF Clear
<1>4. calls' = calls + 1 /\ UNCHANGED <<clock, fired>>
  BY DEF Clear
<1>5. PICK sbs : /\ sbs = [busy |-> FALSE, expires |-> 0]
                 /\ notifyServerBusyChange(n, sbs)
  BY DEF Clear
<1>6. 0 \in 0 .. MaxTicks /\ 0 \div Second = 0
  <2>1. 0 \div Second \in Nat /\ (0 \div Second) * Second <= 0
    BY <1>0, DivFacts
  <2> QED  BY <1>0, <2>1
<1>7. 0 \in 0 .. MaxTicks \div Second
  <2>1. MaxTicks \div Second \in Nat
    BY <1>0, DivFacts
  <2> QED  BY <2>1
<1>8. sbs \in Messages
  BY <1>5, <1>7, Zenon DEF Messages
<1>9. sbs.expires = last' \div Second /\ (sbs.busy <=> last' # 0)
  BY <1>2, <1>5, <1>6
<1>10. /\ busy' \in [Servers -> BOOLEAN]
       /\ expires' \in [Servers -> 0 .. MaxTicks]
       /\ armed' \in [Servers -> SUBSET (0 .. MaxTicks)]
       /\ Timed'
       /\ expires'[n] = 0 /\ armed'[n] = {}
       /\ \A m \in Servers \ {n} : expires'[m] = expires[m] /\ armed'[m] = armed[m]
  BY <1>0, <1>3, ClearFacts
<1>11. /\ net' \in [Servers \X Servers -> Seq(Messages)]
       /\ \A p \in Servers \X Servers :
            net'[p] = IF p[1] = n /\ p[2] # n THEN Append(net[p], sbs) ELSE net[p]
  BY <1>0, <1>5, <1>8, NotifyFacts
<1>12. BusyTypeOK'
  <2>1. calls' \in 0 .. MaxCalls
    BY <1>0, <1>2, <1>4 DEF BusyTypeOK, BusyAssumption
  <2>2. late' \in BOOLEAN
    BY <1>2 DEF Notes
  <2>3. clock' \in 0 .. MaxTicks /\ fired' \in [Servers -> Nat] /\ last' \in 0 .. MaxTicks
    BY <1>0, <1>2, <1>4, <1>6 DEF BusyTypeOK
  <2> QED  BY <1>10, <1>11, <2>1, <2>2, <2>3 DEF BusyTypeOK
<1>13. ASSUME ~late' PROVE InTime'
  <2>1. Served
    BY <1>2, <1>13 DEF Notes
  <2>2. \A x \in armed'[n] : x > clock
    BY <1>10
  <2>3. last' # 0 => last' >= clock + Second
    BY <1>2
  <2> QED  BY <1>0, <1>2, <1>4, <1>8, <1>9, <1>10, <1>11, <1>12, <2>1, <2>2, <2>3, CallInTime
<1> QED  BY <1>10, <1>12, <1>13 DEF BusyInv

LEMMA FireInv ==
  ASSUME BusyAssumption, BusyInv, NEW n \in Servers, Fire(n)
  PROVE  BusyInv'
<1>0. BusyTypeOK /\ Timed
  BY DEF BusyInv
<1>1. PICK at \in Due(n) : armed' = [armed EXCEPT ![n] = @ \ {at}]
  BY DEF Fire
<1>2. /\ fired' = [fired EXCEPT ![n] = @ + 1]
      /\ UNCHANGED <<clock, calls, busy, expires, net, last, late>>
  BY DEF Fire
<1>3. BusyTypeOK'
  <2>1. armed' \in [Servers -> SUBSET (0 .. MaxTicks)]
    BY <1>0, <1>1 DEF BusyTypeOK
  <2>2. fired' \in [Servers -> Nat]
    BY <1>0, <1>2 DEF BusyTypeOK
  <2> QED  BY <1>0, <1>2, <2>1, <2>2 DEF BusyTypeOK
<1>4. Timed'
  BY <1>0, <1>1, <1>2 DEF Timed, BusyTypeOK
<1>5. ASSUME ~late' PROVE InTime'
  <2>1. InTime
    BY <1>2, <1>5 DEF BusyInv
  <2>2. NoneOnItsWay
    BY <1>1, <2>1 DEF InTime, NoneDue
  <2>3. expires[n] <= clock
    BY <1>0, <1>1 DEF Timed, Due
  <2>4. \A m \in Servers : fired'[m] > 0 => expires'[m] <= clock'
    BY <1>0, <1>2, <2>1, <2>3 DEF InTime, BusyTypeOK
  <2>5. NoneOnItsWay'
    BY <1>2, <2>2 DEF NoneOnItsWay
  <2>6. \A p \in Servers \X Servers : Tells(net[p])'
    BY <2>5 DEF NoneOnItsWay, Tells
  <2>7. \A m \in Servers : Shown(m)'
    <3>1. \A m \in Servers : Shown(m)
      BY <2>1, <2>2 DEF InTime, NoneOnItsWay
    <3> QED  BY <1>2, <3>1 DEF Shown
  <2> QED  BY <2>4, <2>5, <2>6, <2>7 DEF InTime
<1> QED  BY <1>3, <1>4, <1>5 DEF BusyInv

LEMMA BusyExpireInv ==
  ASSUME BusyAssumption, BusyInv, NEW n \in Servers, Expire(n)
  PROVE  BusyInv'
<1>0. BusyTypeOK /\ Timed /\ Second \in Nat \ {0}
  BY DEF BusyInv, BusyAssumption
<1>1. /\ fired[n] > 0 /\ clearWithoutNotify(n)
      /\ fired' = [fired EXCEPT ![n] = @ - 1]
      /\ UNCHANGED <<clock, calls, net, last, late>>
  BY DEF Expire
<1>2. /\ busy' \in [Servers -> BOOLEAN]
      /\ expires' \in [Servers -> 0 .. MaxTicks]
      /\ armed' \in [Servers -> SUBSET (0 .. MaxTicks)]
      /\ Timed'
      /\ expires'[n] = 0 /\ armed'[n] = {}
      /\ \A m \in Servers \ {n} : expires'[m] = expires[m] /\ armed'[m] = armed[m]
  BY <1>0, <1>1, ClearFacts
<1>3. BusyTypeOK'
  <2>1. fired' \in [Servers -> Nat]
    BY <1>0, <1>1 DEF BusyTypeOK
  <2> QED  BY <1>0, <1>1, <1>2, <2>1 DEF BusyTypeOK
<1>4. ASSUME ~late' PROVE InTime'
  <2>1. InTime
    BY <1>1, <1>4 DEF BusyInv
  <2>2. NoneOnItsWay
    BY <1>1, <2>1 DEF InTime, NoneDue
  <2>3. clock \in Nat /\ last \in Nat /\ \A m \in Servers : expires[m] \in Nat
    BY <1>0 DEF BusyTypeOK
  <2>4. \A m \in Servers : fired'[m] > 0 => expires'[m] <= clock'
    <3> SUFFICES ASSUME NEW m \in Servers, fired'[m] > 0
                 PROVE  expires'[m] <= clock
      BY <1>1
    <3>1. CASE m = n
      BY <1>2, <2>3, <3>1
    <3>2. CASE m # n
      BY <1>0, <1>1, <1>2, <2>1, <3>2 DEF InTime, BusyTypeOK
    <3> QED  BY <3>1, <3>2
  <2>5. NoneOnItsWay'
    BY <1>1, <2>2 DEF NoneOnItsWay
  <2>6. \A p \in Servers \X Servers : Tells(net[p])'
    BY <2>5 DEF NoneOnItsWay, Tells
  <2>7. \A m \in Servers : Shown(m)'
    <3>1. \A m \in Servers : Shown(m)
      BY <2>1, <2>2 DEF InTime, NoneOnItsWay
    <3>2. expires[n] <= clock
      BY <1>1, <2>1 DEF InTime
    <3>3. ~(last > clock + Second)
      BY <1>0, <2>3, <3>1, <3>2 DEF Shown
    <3>4. Shown(n)'
      BY <1>1, <1>2, <2>3, <3>3 DEF Shown
    <3>5. \A m \in Servers \ {n} : Shown(m)'
      BY <1>1, <1>2, <3>1 DEF Shown
    <3> QED  BY <3>4, <3>5
  <2> QED  BY <2>4, <2>5, <2>6, <2>7 DEF InTime
<1> QED  BY <1>2, <1>3, <1>4 DEF BusyInv

LEMMA ClockTickInv ==
  ASSUME BusyAssumption, BusyInv, ClockTick
  PROVE  BusyInv'
<1>0. BusyTypeOK /\ Timed /\ Second \in Nat \ {0} /\ MaxTicks \in Nat
  BY DEF BusyInv, BusyAssumption
<1>1. /\ Notes /\ clock < MaxTicks /\ clock' = clock + 1
      /\ UNCHANGED <<calls, busy, expires, armed, fired, net, last>>
  BY DEF ClockTick
<1>2. BusyTypeOK'
  <2>1. late' \in BOOLEAN
    BY <1>1 DEF Notes
  <2>2. clock' \in 0 .. MaxTicks
    BY <1>0, <1>1 DEF BusyTypeOK
  <2> QED  BY <1>0, <1>1, <2>1, <2>2 DEF BusyTypeOK
<1>3. Timed'
  BY <1>0, <1>1 DEF Timed
<1>4. ASSUME ~late' PROVE InTime'
  <2>1. Served /\ ~late
    BY <1>1, <1>4 DEF Notes
  <2>2. NoneOnItsWay'
    BY <1>1, <2>1 DEF NoneOnItsWay, Served
  <2>3. \A m \in Servers : fired'[m] = 0
    BY <1>1, <2>1 DEF Served
  <2>4. \A p \in Servers \X Servers : Tells(net[p])'
    BY <2>2 DEF NoneOnItsWay, Tells
  <2>5. \A m \in Servers : Shown(m)'
    <3>1. \A m \in Servers : Shown(m)
      BY <2>1 DEF BusyInv, InTime, Served
    <3>2. clock \in Nat /\ last \in Nat
      BY <1>0 DEF BusyTypeOK
    <3> QED  BY <1>0, <1>1, <3>1, <3>2 DEF Shown
  <2> QED  BY <2>2, <2>3, <2>4, <2>5 DEF InTime
<1> QED  BY <1>2, <1>3, <1>4 DEF BusyInv

LEMMA EventInv ==
  ASSUME BusyAssumption, BusyInv, NEW n \in Servers, NEW m \in Servers,
         ClusterEventChanged(n, m)
  PROVE  BusyInv'
<1> DEFINE q == net[<<n, m>>]
           at == Head(q).expires * Second
<1>0. BusyTypeOK /\ Timed /\ Second \in Nat \ {0} /\ MaxTicks \in Nat
  BY DEF BusyInv, BusyAssumption
<1>1. /\ q # <<>> /\ net' = [net EXCEPT ![<<n, m>>] = Tail(@)]
      /\ UNCHANGED <<clock, calls, fired, last, late>>
  BY DEF ClusterEventChanged
<1>2. \/ Head(q).busy /\ at > clock /\ setWithoutNotify(m, at)
      \/ Head(q).busy /\ at <= clock /\ UNCHANGED <<busy, expires, armed>>
      \/ ~Head(q).busy /\ clearWithoutNotify(m)
  BY DEF ClusterEventChanged
<1>3. <<n, m>> \in Servers \X Servers
  OBVIOUS
<1>4. q \in Seq(Messages) /\ Head(q) \in Messages /\ Tail(q) \in Seq(Messages)
  <2>1. q \in Seq(Messages)
    BY <1>0, <1>3 DEF BusyTypeOK
  <2> QED  BY <1>1, <2>1
<1>5. Head(q).expires \in 0 .. MaxTicks \div Second
  BY <1>4 DEF Messages
<1>6. at \in 0 .. MaxTicks
  BY <1>5, MessageExpiry
<1>7. net' \in [Servers \X Servers -> Seq(Messages)]
  BY <1>0, <1>1, <1>3, <1>4 DEF BusyTypeOK
<1>8. net'[<<n, m>>] = Tail(q) /\ \A p \in Servers \X Servers : p # <<n, m>> => net'[p] = net[p]
  BY <1>0, <1>1, <1>3 DEF BusyTypeOK
<1> HIDE DEF q, at
<1>9. /\ busy' \in [Servers -> BOOLEAN]
      /\ expires' \in [Servers -> 0 .. MaxTicks]
      /\ armed' \in [Servers -> SUBSET (0 .. MaxTicks)]
      /\ Timed'
      /\ \A k \in Servers \ {m} : expires'[k] = expires[k] /\ armed'[k] = armed[k]
  <2>1. CASE setWithoutNotify(m, at)
    BY <1>0, <1>6, <2>1, SetFacts
  <2>2. CASE clearWithoutNotify(m)
    BY <1>0, <2>2, ClearFacts
  <2>3. CASE UNCHANGED <<busy, expires, armed>>
    <3>1. Timed'
      BY <1>0, <2>3 DEF Timed
    <3> QED  BY <1>0, <2>3, <3>1 DEF BusyTypeOK
  <2> QED  BY <1>2, <2>1, <2>2, <2>3
<1>10. BusyTypeOK'
  BY <1>0, <1>1, <1>7, <1>9 DEF BusyTypeOK
<1>11. ASSUME ~late' PROVE InTime'
  <2>1. InTime
    BY <1>1, <1>11 DEF BusyInv
  <2>2. NoneDue
    BY <1>1, <1>3, <2>1 DEF InTime, NoneOnItsWay, q
  <2>3. Tells(q)
    BY <1>3, <2>1 DEF InTime, q
  <2>4. Tail(q) = <<>> /\ Head(q) = q[1]
    <3>1. Len(q) = 1
      BY <1>1, <2>3 DEF Tells
    <3>2. Head(q) = q[1]
      BY <1>1, <1>4
    <3>3. Tail(q) \in Seq(Messages) /\ Len(Tail(q)) = 0
      BY <1>1, <1>4, <3>1
    <3>4. Tail(q) = <<>>
      BY <3>3, EmptySeq
    <3> QED  BY <3>2, <3>4
  <2>5. clock \in Nat /\ last \in Nat
    BY <1>0 DEF BusyTypeOK
  <2>6. /\ Head(q).expires = last \div Second
        /\ last # 0 => last >= clock + Second
    BY <1>1, <2>3, <2>4 DEF Tells
  <2>7. Head(q).busy <=> last # 0
    BY <1>1, <2>3, <2>4 DEF Tells
  <2>8. at = (last \div Second) * Second
    BY <2>6 DEF at
  <2>9. at <= last /\ last < at + Second
    <3>1. (last \div Second) * Second <= last /\ last < (last \div Second) * Second + Second
      BY <1>0, <2>5, DivFacts
    <3> QED  BY <2>8, <3>1
  <2>10. last # 0 => at > clock
    BY <1>0, <1>6, <2>5, <2>6, <2>9
  <2>11. /\ Shown(m)'
         /\ \A x \in armed'[m] : x > clock
    <3>1. CASE last # 0
      <4>1. setWithoutNotify(m, at)
        <5>1. ~(at <= clock)
          BY <1>6, <2>5, <2>10, <3>1
        <5> QED  BY <1>2, <2>7, <3>1, <5>1
      <4>2. expires'[m] = at /\ armed'[m] = {at}
        BY <1>0, <1>6, <4>1, SetFacts
      <4>3. at > last - Second
        BY <1>0, <1>6, <2>5, <2>9
      <4> QED  BY <1>1, <2>9, <2>10, <3>1, <4>2, <4>3 DEF Shown
    <3>2. CASE last = 0
      <4>1. clearWithoutNotify(m)
        BY <1>2, <2>7, <3>2
      <4>2. expires'[m] = 0 /\ armed'[m] = {}
        BY <1>0, <4>1, ClearFacts
      <4>3. ~(0 > clock + Second)
        BY <1>0, <2>5
      <4> QED  BY <1>1, <3>2, <4>2, <4>3 DEF Shown
    <3> QED  BY <3>1, <3>2
  <2>12. NoneDue'
    <3> SUFFICES ASSUME NEW k \in Servers PROVE fired'[k] = 0 /\ Due(k)' = {}
      BY DEF NoneDue
    <3>1. fired'[k] = 0
      BY <1>1, <2>2 DEF NoneDue
    <3>2. CASE k = m
      <4>1. armed'[m] \subseteq Nat
        BY <1>9
      <4>2. ASSUME NEW x \in armed'[m], x <= clock' PROVE FALSE
        BY <1>1, <2>5, <2>11, <4>1, <4>2
      <4> QED  BY <3>1, <3>2, <4>2 DEF Due
    <3>3. CASE k # m
      BY <1>1, <1>9, <2>2, <3>1, <3>3 DEF Due, NoneDue
    <3> QED  BY <3>2, <3>3
  <2>13. \A p \in Servers \X Servers : Tells(net[p])'
    <3> SUFFICES ASSUME NEW p \in Servers \X Servers PROVE Tells(net[p])'
      OBVIOUS
    <3>1. CASE p = <<n, m>>
      BY <1>8, <2>4, <3>1 DEF Tells
    <3>2. CASE p # <<n, m>>
      BY <1>1, <1>8, <2>1, <3>2 DEF Tells, InTime
    <3> QED  BY <3>1, <3>2
  <2>14. \A k \in Servers : (\E l \in Servers : net'[<<l, k>>] # <<>>) \/ Shown(k)'
    <3> SUFFICES ASSUME NEW k \in Servers, k # m
                 PROVE  (\E l \in Servers : net'[<<l, k>>] # <<>>) \/ Shown(k)'
      BY <2>11
    <3>1. \A l \in Servers : <<l, k>> \in Servers \X Servers /\ <<l, k>> # <<n, m>>
      OBVIOUS
    <3>2. CASE Shown(k)
      BY <1>1, <1>9, <3>2 DEF Shown
    <3>3. CASE \E l \in Servers : net[<<l, k>>] # <<>>
      BY <1>8, <3>1, <3>3
    <3> QED  BY <2>1, <3>2, <3>3 DEF InTime
  <2>15. \A k \in Servers : fired'[k] > 0 => expires'[k] <= clock'
    BY <2>12 DEF NoneDue
  <2> QED  BY <2>12, <2>13, <2>14, <2>15 DEF InTime
<1> QED  BY <1>9, <1>10, <1>11 DEF BusyInv

LEMMA BusyInitInv ==
  ASSUME BusyAssumption, BusyInit
  PROVE  BusyInv
<1>0. MaxTicks \in Nat /\ MaxCalls \in Nat /\ Second \in Nat \ {0}
  BY DEF BusyAssumption
<1>1. BusyTypeOK
  <2>1. clock \in 0 .. MaxTicks /\ calls \in 0 .. MaxCalls /\ last \in 0 .. MaxTicks
    BY <1>0 DEF BusyInit
  <2>2. late \in BOOLEAN /\ busy \in [Servers -> BOOLEAN]
    BY Zenon DEF BusyInit
  <2>3. expires \in [Servers -> 0 .. MaxTicks] /\ fired \in [Servers -> Nat]
    BY <1>0 DEF BusyInit
  <2>4. armed \in [Servers -> SUBSET (0 .. MaxTicks)]
    BY DEF BusyInit
  <2>5. net \in [Servers \X Servers -> Seq(Messages)]
    BY DEF BusyInit
  <2> QED  BY <2>1, <2>2, <2>3, <2>4, <2>5 DEF BusyTypeOK
<1>2. Timed
  BY DEF BusyInit, Timed
<1>3. InTime
  <2>1. NoneOnItsWay
    BY DEF BusyInit, NoneOnItsWay
  <2>2. \A n \in Servers : Shown(n)
    <3>1. clock = 0 /\ last = 0 /\ \A n \in Servers : expires[n] = 0
      BY DEF BusyInit
    <3>2. 0 <= 0 /\ ~(0 > 0 + Second)
      BY <1>0
    <3> QED  BY <3>1, <3>2, Zenon DEF Shown
  <2> QED  BY <2>1, <2>2 DEF BusyInit, InTime, NoneOnItsWay, Tells
<1> QED  BY <1>1, <1>2, <1>3 DEF BusyInv

LEMMA BusyNextInv ==
  ASSUME BusyAssumption, BusyInv, [BusyNext]_busyVars
  PROVE  BusyInv'
<1>1. ASSUME NEW n \in Servers, NEW dur \in Durations, Set(n, dur) PROVE BusyInv'
  BY <1>1, SetInv
<1>2. ASSUME NEW n \in Servers, Clear(n) \/ Fire(n) \/ Expire(n) PROVE BusyInv'
  BY <1>2, ClearInv, FireInv, BusyExpireInv
<1>3. ASSUME NEW n \in Servers, NEW m \in Servers, ClusterEventChanged(n, m) PROVE BusyInv'
  BY <1>3, EventInv
<1>4. CASE ClockTick
  BY <1>4, ClockTickInv
<1>5. CASE UNCHANGED busyVars
  BY <1>5 DEF busyVars, BusyInv, BusyTypeOK, Timed, InTime, NoneOnItsWay, NoneDue, Due,
              Tells, Shown
<1> QED  BY <1>1, <1>2, <1>3, <1>4, <1>5 DEF BusyNext

(* The inductive invariant of the busy flag, for any number of nodes: a     *)
(* timer that runs goes off at the expiry, and as long as nothing is late   *)
(* the messages on their way all tell of the last call (busy.go).           *)
THEOREM BusyInvariant ==
  ASSUME BusyAssumption
  PROVE  BusySpec => []BusyInv
<1>1. BusyInit => BusyInv
  BY BusyInitInv
<1>2. BusyInv /\ [BusyNext]_busyVars => BusyInv'
  BY BusyNextInv
<1> QED  BY <1>1, <1>2, PTL DEF BusySpec

(* No timer ends a busy state before its expiry, and once the messages are  *)
(* in every node is busy as the last call asked for, less the fraction of a *)
(* second the messages lose, as long as nothing is late (busy.go), for any  *)
(* number of nodes, calls, durations and ticks in a second.                 *)
THEOREM BusyEndsAsAsked ==
  ASSUME BusyAssumption
  PROVE  BusySpec => BusyAsAsked
<1>1. BusyInv => Follows
  <2>1. ASSUME BusyInv, Served, ~late PROVE \A n \in Servers : Shown(n)
    BY <2>1 DEF BusyInv, InTime, Served
  <2> QED  BY <2>1 DEF Follows, Shown
<1> DEFINE A == ~late => \A n \in Servers : fired'[n] < fired[n] => clock >= expires[n]
<1>2. BusyInv /\ [BusyNext]_busyVars => [A]_busyVars
  <2> SUFFICES ASSUME BusyInv, [BusyNext]_busyVars, ~late, NEW n \in Servers,
                      fired'[n] < fired[n]
               PROVE  clock >= expires[n]
    OBVIOUS
  <2>1. fired[n] \in Nat /\ fired'[n] \in Nat /\ clock \in Nat /\ expires[n] \in Nat
    <3>1. BusyTypeOK /\ BusyTypeOK'
      BY BusyNextInv DEF BusyInv
    <3> QED  BY <3>1 DEF BusyTypeOK
  <2> QED  BY <2>1 DEF BusyInv, InTime
<1>3. BusySpec => [][A]_busyVars
  BY <1>2, BusyInvariant, PTL DEF BusySpec
<1>4. BusySpec => []Follows
  BY <1>1, BusyInvariant, PTL
<1> QED  BY <1>3, <1>4 DEF BusyAsAsked, NotEarly

-----------------------------------------------------------------------------

Posts == [user : Users, team : Teams, at : 0 .. MaxSeconds]

(* n is in exactly one of five sets. *)
InOne(n, A, B, C, D, E) ==
  /\ n \in A \/ n \in B \/ n \in C \/ n \in D \/ n \in E
  /\ n \in A => n \notin B /\ n \notin C /\ n \notin D /\ n \notin E
  /\ n \in B => n \notin C /\ n \notin D /\ n \notin E
  /\ n \in C => n \notin D /\ n \notin E
  /\ n \in D => n \notin E

OnePlace ==
  \A n \in DOMAIN post :
    InOne(n, Range(newNotifications), Pending, mailed, immediate, deleted)

(* What is pending is filed under its user, and is in the channel once;     *)
(* what has ended was a notification.                                       *)
Filed == \A u \in Users : \A n \in Range(pendingNotifications[u]) : post[n].user = u

Distinct ==
  \A i, j \in DOMAIN newNotifications : newNotifications[i] = newNotifications[j] => i = j

Known == Ended \subseteq DOMAIN post

Past == \A u \in Users, t \in Teams : lastViewedAt[u][t] <= seconds

(* A batch is dropped for a view that came after one of its posts, and      *)
(* views are never forgotten.                                               *)
SeenFirst ==
  \A n \in deleted : \E m \in DOMAIN post, t \in Teams :
    post[m].user = post[n].user /\ lastViewedAt[post[n].user][t] >= post[m].at

(* The inductive invariant. *)
EmailInv == EmailTypeOK /\ OnePlace /\ Filed /\ Distinct /\ Known /\ Past /\ SeenFirst

-----------------------------------------------------------------------------

LEMMA InOnePlace ==
  ASSUME NEW n, NEW A, NEW B, NEW C, NEW D, NEW E, InOne(n, A, B, C, D, E)
  PROVE  LET places == <<A, B, C, D, E>>
         IN  \E i \in DOMAIN places : \A j \in DOMAIN places : n \in places[j] <=> i = j
<1> DEFINE places == <<A, B, C, D, E>>
<1>1. DOMAIN places = 1 .. 5
  OBVIOUS
<1>2. places[1] = A /\ places[2] = B /\ places[3] = C /\ places[4] = D /\ places[5] = E
  OBVIOUS
<1> HIDE DEF places
<1>3. \E i \in 1 .. 5 : \A j \in 1 .. 5 : n \in places[j] <=> i = j
  <2>0. \A j \in 1 .. 5 : j = 1 \/ j = 2 \/ j = 3 \/ j = 4 \/ j = 5
    OBVIOUS
  <2>1. CASE n \in A
    <3>1. \A j \in 1 .. 5 : n \in places[j] <=> 1 = j
      BY <1>2, <2>0, <2>1 DEF InOne
    <3> QED  BY <3>1
  <2>2. CASE n \in B
    <3>1. \A j \in 1 .. 5 : n \in places[j] <=> 2 = j
      BY <1>2, <2>0, <2>2 DEF InOne
    <3> QED  BY <3>1
  <2>3. CASE n \in C
    <3>1. \A j \in 1 .. 5 : n \in places[j] <=> 3 = j
      BY <1>2, <2>0, <2>3 DEF InOne
    <3> QED  BY <3>1
  <2>4. CASE n \in D
    <3>1. \A j \in 1 .. 5 : n \in places[j] <=> 4 = j
      BY <1>2, <2>0, <2>4 DEF InOne
    <3> QED  BY <3>1
  <2>5. CASE n \in E
    <3>1. \A j \in 1 .. 5 : n \in places[j] <=> 5 = j
      BY <1>2, <2>0, <2>5 DEF InOne
    <3> QED  BY <3>1
  <2> QED  BY <2>1, <2>2, <2>3, <2>4, <2>5 DEF InOne
<1>4. \E i \in DOMAIN places : \A j \in DOMAIN places : n \in places[j] <=> i = j
  BY <1>1, <1>3
<1> QED  BY <1>4 DEF places

LEMMA RangeAppend ==
  ASSUME NEW S, NEW s \in Seq(S), NEW x \in S
  PROVE  Range(Append(s, x)) = Range(s) \cup {x}
<1>1. DOMAIN s = 1 .. Len(s) /\ Len(s) \in Nat
  OBVIOUS
<1>2. DOMAIN Append(s, x) = 1 .. Len(s) + 1
  OBVIOUS
<1>3. Append(s, x)[Len(s) + 1] = x /\ \A i \in 1 .. Len(s) : Append(s, x)[i] = s[i]
  OBVIOUS
<1>4. Len(s) + 1 \in 1 .. Len(s) + 1 /\ \A i \in 1 .. Len(s) : i \in 1 .. Len(s) + 1
  BY <1>1
<1>5. \A i \in 1 .. Len(s) + 1 : i \in 1 .. Len(s) \/ i = Len(s) + 1
  BY <1>1
<1> DEFINE a == Append(s, x)
           k == Len(s) + 1
<1> HIDE DEF a, k
<1>6. \A y : y \in Range(a) <=> y \in Range(s) \/ y = x
  <2>1. \A y : y \in Range(a) <=> \E i \in 1 .. k : y = a[i]
    BY <1>2 DEF Range, a, k
  <2>2. \A y : y \in Range(s) <=> \E i \in 1 .. Len(s) : y = s[i]
    BY <1>1 DEF Range
  <2>3. /\ a[k] = x /\ k \in 1 .. k
        /\ \A i \in 1 .. Len(s) : a[i] = s[i] /\ i \in 1 .. k
        /\ \A i \in 1 .. k : i \in 1 .. Len(s) \/ i = k
    BY <1>3, <1>4, <1>5 DEF a, k
  <2> HIDE DEF Range
  <2>4. ASSUME NEW y, y \in Range(a) PROVE y \in Range(s) \/ y = x
    <3>1. PICK i \in 1 .. k : y = a[i]
      BY <2>1, <2>4
    <3>2. CASE i \in 1 .. Len(s)
      BY <2>2, <2>3, <3>1, <3>2
    <3>3. CASE i = k
      BY <2>3, <3>1, <3>3
    <3> QED  BY <2>3, <3>2, <3>3
  <2>5. ASSUME NEW y, y \in Range(s) PROVE y \in Range(a)
    <3>1. PICK i \in 1 .. Len(s) : y = s[i]
      BY <2>2, <2>5
    <3> QED  BY <2>1, <2>3, <3>1
  <2>6. x \in Range(a)
    BY <2>1, <2>3
  <2> QED  BY <2>4, <2>5, <2>6
<1> QED  BY <1>6 DEF a

(* The head of a sequence without repetition leaves it. *)
LEMMA RangeTail ==
  ASSUME NEW S, NEW s \in Seq(S), s # <<>>,
         \A i, j \in DOMAIN s : s[i] = s[j] => i = j
  PROVE  /\ Range(Tail(s)) = Range(s) \ {Head(s)}
         /\ Head(s) \in Range(s)
         /\ \A i, j \in DOMAIN Tail(s) : Tail(s)[i] = Tail(s)[j] => i = j
<1>1. Len(s) \in Nat \ {0} /\ DOMAIN s = 1 .. Len(s) /\ Head(s) = s[1]
  OBVIOUS
<1>2. /\ Len(Tail(s)) = Len(s) - 1 /\ DOMAIN Tail(s) = 1 .. Len(s) - 1
      /\ \A i \in 1 .. Len(s) - 1 : Tail(s)[i] = s[i + 1]
  BY <1>1
<1> DEFINE t == Tail(s)
<1>3. DOMAIN t = 1 .. Len(s) - 1 /\ \A i \in 1 .. Len(s) - 1 : t[i] = s[i + 1]
  BY <1>2
<1> HIDE DEF t
<1>4. 1 \in DOMAIN s
  BY <1>1
<1>5. \A y : y \in Range(t) <=> y \in Range(s) /\ y # Head(s)
  <2>1. ASSUME NEW i \in DOMAIN t PROVE t[i] \in Range(s) /\ t[i] # Head(s)
    <3>1. i + 1 \in DOMAIN s /\ t[i] = s[i + 1] /\ i + 1 # 1
      BY <1>1, <1>3
    <3> QED  BY <1>1, <1>4, <3>1 DEF Range
  <2>2. ASSUME NEW i \in DOMAIN s, s[i] # Head(s) PROVE \E j \in DOMAIN t : t[j] = s[i]
    <3>1. i # 1
      BY <1>1, <2>2
    <3>2. i - 1 \in DOMAIN t /\ i - 1 + 1 = i
      BY <1>1, <1>3, <3>1
    <3>3. t[i - 1] = s[i]
      BY <1>3, <3>2
    <3> QED  BY <3>2, <3>3
  <2> QED  BY <2>1, <2>2 DEF Range
<1>6. Head(s) \in Range(s)
  BY <1>1, <1>4 DEF Range
<1>7. \A i, j \in DOMAIN t : t[i] = t[j] => i = j
  <2> SUFFICES ASSUME NEW i \in DOMAIN t, NEW j \in DOMAIN t, t[i] = t[j] PROVE i = j
    OBVIOUS
  <2>1. i + 1 \in DOMAIN s /\ j + 1 \in DOMAIN s /\ s[i + 1] = s[j + 1]
    BY <1>1, <1>3
  <2>2. i + 1 = j + 1
    BY <2>1
  <2> QED  BY <1>1, <1>3, <2>2
<1> QED  BY <1>5, <1>6, <1>7 DEF t

LEMMA RangeEmpty == Range(<<>>) = {}
  BY DEF Range

LEMMA PendingIs ==
  \A n : n \in Pending <=> \E u \in Users : n \in Range(pendingNotifications[u])
  BY DEF Pending

LEMMA EmailTypes ==
  EmailTypeOK <=>
    /\ seconds \in 0 .. MaxSeconds /\ storeFails \in 0 .. MaxStoreFails
    /\ post \in Seq(Posts)
    /\ newNotifications \in Seq(DOMAIN post) /\ Len(newNotifications) <= BufferSize
    /\ pendingNotifications \in [Users -> Seq(DOMAIN post)]
    /\ todo \subseteq {u \in Users : pendingNotifications[u] # <<>>}
    /\ task \in {"waiting", "receiving", "checking"}
    /\ lastViewedAt \in [Users -> [Teams -> -1 .. MaxSeconds]]
  BY DEF EmailTypeOK, Posts

LEMMA EmailTypesNext ==
  ASSUME (seconds \in 0 .. MaxSeconds /\ storeFails \in 0 .. MaxStoreFails)',
         (post \in Seq(Posts))',
         (newNotifications \in Seq(DOMAIN post) /\ Len(newNotifications) <= BufferSize)',
         (pendingNotifications \in [Users -> Seq(DOMAIN post)])',
         (todo \subseteq {u \in Users : pendingNotifications[u] # <<>>})',
         (task \in {"waiting", "receiving", "checking"})',
         (lastViewedAt \in [Users -> [Teams -> -1 .. MaxSeconds]])'
  PROVE  EmailTypeOK'
  BY DEF EmailTypeOK, Posts

(* What is in the channel or pending is a notification. *)
LEMMA PlacesKnown ==
  ASSUME EmailTypeOK
  PROVE  /\ Range(newNotifications) \subseteq DOMAIN post
         /\ \A u \in Users : Range(pendingNotifications[u]) \subseteq DOMAIN post
<1>1. newNotifications \in Seq(DOMAIN post)
  BY DEF EmailTypeOK
<1>2. \A u \in Users : pendingNotifications[u] \in Seq(DOMAIN post)
  BY DEF EmailTypeOK
<1> QED  BY <1>1, <1>2 DEF Range

(* Another notification is new, and changes none of the others. *)
LEMMA PostGrows ==
  ASSUME EmailTypeOK, NEW r \in Posts, post' = Append(post, r)
  PROVE  /\ post' \in Seq(Posts)
         /\ Len(post') = Len(post) + 1
         /\ DOMAIN post' = DOMAIN post \cup {Len(post')}
         /\ Len(post') \notin DOMAIN post
         /\ \A n \in DOMAIN post : post'[n] = post[n]
  BY EmailTypes

(* A sequence over a set is one over a larger set. *)
LEMMA SeqGrows ==
  ASSUME NEW S, NEW T, S \subseteq T, NEW s \in Seq(S)
  PROVE  s \in Seq(T)
  OBVIOUS

LEMMA AddInv ==
  ASSUME EmailBatchingAssumption, EmailInv, NEW u \in Users, NEW t \in Teams,
         AddNotificationEmailToBatch(u, t)
  PROVE  EmailInv'
<1>0. EmailTypeOK /\ OnePlace /\ Filed /\ Distinct /\ Known /\ Past /\ SeenFirst
  BY DEF EmailInv
<1>1. PICK at \in {seconds - 1, seconds} \cap Nat :
        post' = Append(post, [user |-> u, team |-> t, at |-> at])
  BY DEF AddNotificationEmailToBatch
<1>2. PICK r : r = [user |-> u, team |-> t, at |-> at]
  OBVIOUS
<1>3. r \in Posts
  <2>1. at \in 0 .. MaxSeconds
    BY <1>0, EmailTypes DEF EmailBatchingAssumption
  <2> QED  BY <1>2, <2>1 DEF Posts
<1> DEFINE k == Len(post')
<1>4. /\ post' \in Seq(Posts)
      /\ DOMAIN post' = DOMAIN post \cup {k}
      /\ k \notin DOMAIN post
      /\ \A n \in DOMAIN post : post'[n] = post[n]
  BY <1>0, <1>1, <1>2, <1>3, PostGrows
<1>5. \/ /\ Len(newNotifications) < BufferSize
         /\ newNotifications' = Append(newNotifications, k)
         /\ UNCHANGED immediate
      \/ /\ immediate' = immediate \cup {k}
         /\ UNCHANGED newNotifications
  BY DEF AddNotificationEmailToBatch
<1>6. UNCHANGED <<seconds, pendingNotifications, todo, task, lastViewedAt, mailed, deleted,
                  storeFails>>
  BY DEF AddNotificationEmailToBatch
<1> HIDE DEF k
<1>7. newNotifications \in Seq(DOMAIN post') /\ Len(newNotifications) <= BufferSize
  BY <1>0, <1>4, EmailTypes, SeqGrows
<1>8. /\ newNotifications' \in Seq(DOMAIN post') /\ Len(newNotifications') <= BufferSize
      /\ Distinct'
      /\ Range(newNotifications') \subseteq Range(newNotifications) \cup {k}
  <2>1. CASE UNCHANGED newNotifications
    BY <1>0, <1>7, <2>1 DEF Distinct
  <2>2. CASE /\ Len(newNotifications) < BufferSize
             /\ newNotifications' = Append(newNotifications, k)
    <3>1. k \in DOMAIN post'
      BY <1>4
    <3>2. Range(newNotifications') = Range(newNotifications) \cup {k}
      BY <1>7, <2>2, <3>1, RangeAppend
    <3>3. k \notin Range(newNotifications)
      BY <1>0, <1>4, PlacesKnown
    <3>4. newNotifications' \in Seq(DOMAIN post') /\ Len(newNotifications') <= BufferSize
      BY <1>7, <2>2, <3>1 DEF EmailBatchingAssumption
    <3>5. Distinct'
      <4> SUFFICES ASSUME NEW i \in DOMAIN newNotifications',
                          NEW j \in DOMAIN newNotifications',
                          newNotifications'[i] = newNotifications'[j]
                   PROVE  i = j
        BY DEF Distinct
      <4>0. /\ DOMAIN newNotifications = 1 .. Len(newNotifications)
            /\ Len(newNotifications) \in Nat
            /\ DOMAIN newNotifications' = 1 .. Len(newNotifications) + 1
            /\ newNotifications'[Len(newNotifications) + 1] = k
            /\ \A l \in DOMAIN newNotifications : newNotifications'[l] = newNotifications[l]
        BY <1>7, <2>2, <3>1
      <4>1. \A l \in DOMAIN newNotifications : newNotifications[l] # k
        BY <3>3 DEF Range
      <4>2. i \in DOMAIN newNotifications \/ i = Len(newNotifications) + 1
        BY <4>0
      <4>3. j \in DOMAIN newNotifications \/ j = Len(newNotifications) + 1
        BY <4>0
      <4> QED  BY <1>0, <4>0, <4>1, <4>2, <4>3 DEF Distinct
    <3> QED  BY <3>2, <3>4, <3>5
  <2> QED  BY <1>5, <2>1, <2>2
<1>9. EmailTypeOK'
  <2>1. pendingNotifications' \in [Users -> Seq(DOMAIN post')]
    <3>1. pendingNotifications \in [Users -> Seq(DOMAIN post)]
      BY <1>0, EmailTypes
    <3>2. \A v \in Users : pendingNotifications[v] \in Seq(DOMAIN post')
      BY <1>4, <3>1, SeqGrows
    <3> QED  BY <1>6, <3>1, <3>2
  <2>2. /\ seconds \in 0 .. MaxSeconds /\ storeFails \in 0 .. MaxStoreFails
        /\ todo \subseteq {v \in Users : pendingNotifications[v] # <<>>}
        /\ task \in {"waiting", "receiving", "checking"}
        /\ lastViewedAt \in [Users -> [Teams -> -1 .. MaxSeconds]]
    BY <1>0, EmailTypes
  <2> QED  BY <1>4, <1>6, <1>8, <2>1, <2>2, EmailTypesNext
<1>10. Filed'
  <2>1. \A v \in Users : Range(pendingNotifications[v]) \subseteq DOMAIN post
    BY <1>0, PlacesKnown
  <2> QED  BY <1>0, <1>4, <1>6, <2>1 DEF Filed
<1>11. Known'
  BY <1>0, <1>4, <1>5, <1>6 DEF Known, Ended
<1>12. Past'
  BY <1>0, <1>6 DEF Past
<1>13. SeenFirst'
  <2> SUFFICES ASSUME NEW n \in deleted
               PROVE  \E m \in DOMAIN post', s \in Teams :
                        /\ post'[m].user = post'[n].user
                        /\ lastViewedAt[post'[n].user][s] >= post'[m].at
    BY <1>6 DEF SeenFirst
  <2>1. n \in DOMAIN post
    BY <1>0 DEF Known, Ended
  <2>2. PICK m \in DOMAIN post, s \in Teams :
          post[m].user = post[n].user /\ lastViewedAt[post[n].user][s] >= post[m].at
    BY <1>0 DEF SeenFirst
  <2>3. m \in DOMAIN post' /\ post'[m] = post[m] /\ post'[n] = post[n]
    BY <1>4, <2>1
  <2> QED  BY <2>2, <2>3
<1>14. OnePlace'
  <2> SUFFICES ASSUME NEW n \in DOMAIN post'
               PROVE  InOne(n, Range(newNotifications'), Pending', mailed', immediate', deleted')
    BY DEF OnePlace
  <2>1. Pending' = Pending /\ mailed' = mailed /\ deleted' = deleted
    BY <1>6 DEF Pending
  <2>2. Range(Append(newNotifications, k)) = Range(newNotifications) \cup {k}
    <3>1. k \in DOMAIN post'
      BY <1>4
    <3> QED  BY <1>7, <3>1, RangeAppend
  <2>3. k \notin Range(newNotifications) /\ k \notin Pending /\ k \notin mailed
        /\ k \notin immediate /\ k \notin deleted
    BY <1>0, <1>4, PlacesKnown, PendingIs DEF Known, Ended
  <2>4. \/ Range(newNotifications') = Range(newNotifications) \cup {k} /\ immediate' = immediate
        \/ Range(newNotifications') = Range(newNotifications) /\ immediate' = immediate \cup {k}
    BY <1>5, <2>2, Zenon
  <2>5. CASE n = k
    BY <2>1, <2>3, <2>4, <2>5 DEF InOne
  <2>6. CASE n # k
    <3>1. InOne(n, Range(newNotifications), Pending, mailed, immediate, deleted)
      BY <1>0, <1>4, <2>6 DEF OnePlace
    <3> QED  BY <2>1, <2>4, <2>6, <3>1 DEF InOne
  <2> QED  BY <2>5, <2>6
<1> QED  BY <1>8, <1>9, <1>10, <1>11, <1>12, <1>13, <1>14 DEF EmailInv

LEMMA ViewInv ==
  ASSUME EmailBatchingAssumption, EmailInv, NEW u \in Users, NEW t \in Teams, View(u, t)
  PROVE  EmailInv'
<1>0. EmailTypeOK /\ OnePlace /\ Filed /\ Distinct /\ Known /\ Past /\ SeenFirst
  BY DEF EmailInv
<1>1. /\ lastViewedAt' = [lastViewedAt EXCEPT ![u][t] = seconds]
      /\ UNCHANGED <<seconds, post, newNotifications, pendingNotifications, todo, task,
                     mailed, immediate, deleted, storeFails>>
  BY DEF View
<1>2. /\ lastViewedAt \in [Users -> [Teams -> -1 .. MaxSeconds]] /\ seconds \in 0 .. MaxSeconds
      /\ MaxSeconds \in Nat
  BY <1>0, EmailTypes DEF EmailBatchingAssumption
<1>3. lastViewedAt' \in [Users -> [Teams -> -1 .. MaxSeconds]]
  BY <1>1, <1>2
<1>4. \A v \in Users, s \in Teams :
        lastViewedAt'[v][s] = IF v = u /\ s = t THEN seconds ELSE lastViewedAt[v][s]
  BY <1>1, <1>2
<1>5. EmailTypeOK'
  BY <1>0, <1>1, <1>3 DEF EmailTypeOK
<1>6. Past'
  BY <1>0, <1>1, <1>2, <1>4 DEF Past
<1>7. OnePlace' /\ Filed' /\ Distinct' /\ Known'
  BY <1>0, <1>1 DEF OnePlace, Filed, Distinct, Known, Ended, Pending
<1>8. SeenFirst'
  <2> SUFFICES ASSUME NEW n \in deleted
               PROVE  \E m \in DOMAIN post, s \in Teams :
                        /\ post[m].user = post[n].user
                        /\ lastViewedAt'[post[n].user][s] >= post[m].at
    BY <1>1 DEF SeenFirst
  <2>1. n \in DOMAIN post
    BY <1>0 DEF Known, Ended
  <2>2. PICK m \in DOMAIN post, s \in Teams :
          post[m].user = post[n].user /\ lastViewedAt[post[n].user][s] >= post[m].at
    BY <1>0 DEF SeenFirst
  <2>3. post[n].user \in Users /\ post[m].at \in Nat
    <3>1. post[n] \in Posts /\ post[m] \in Posts
      BY <1>0, <2>1, EmailTypes
    <3> QED  BY <3>1 DEF Posts
  <2>4. lastViewedAt'[post[n].user][s] >= lastViewedAt[post[n].user][s]
        /\ lastViewedAt'[post[n].user][s] \in Int /\ lastViewedAt[post[n].user][s] \in Int
    <3> DEFINE v == post[n].user
    <3> HIDE DEF v
    <3>1. v \in Users
      BY <2>3 DEF v
    <3>2. /\ lastViewedAt[v][s] \in -1 .. MaxSeconds /\ lastViewedAt[v][s] <= seconds
          /\ lastViewedAt'[v][s] = IF v = u /\ s = t THEN seconds ELSE lastViewedAt[v][s]
      BY <1>0, <1>2, <1>4, <3>1 DEF Past
    <3>3. /\ lastViewedAt'[v][s] >= lastViewedAt[v][s]
          /\ lastViewedAt'[v][s] \in Int /\ lastViewedAt[v][s] \in Int
      BY <1>2, <3>2
    <3> QED  BY <3>3 DEF v
  <2> QED  BY <2>2, <2>3, <2>4
<1> QED  BY <1>5, <1>6, <1>7, <1>8 DEF EmailInv

LEMMA HandleInv ==
  ASSUME EmailBatchingAssumption, EmailInv, handleNewNotifications
  PROVE  EmailInv'
<1> DEFINE n == Head(newNotifications)
           u == post[n].user
<1>0. EmailTypeOK /\ OnePlace /\ Filed /\ Distinct /\ Known /\ Past /\ SeenFirst
  BY DEF EmailInv
<1>1. /\ newNotifications # <<>>
      /\ pendingNotifications' = [pendingNotifications EXCEPT ![u] = Append(@, n)]
      /\ newNotifications' = Tail(newNotifications)
      /\ UNCHANGED <<seconds, post, todo, task, lastViewedAt, mailed, immediate, deleted,
                     storeFails>>
  BY DEF handleNewNotifications
<1>2. /\ newNotifications \in Seq(DOMAIN post) /\ Len(newNotifications) <= BufferSize
      /\ pendingNotifications \in [Users -> Seq(DOMAIN post)] /\ post \in Seq(Posts)
  BY <1>0, EmailTypes
<1>3. n \in DOMAIN post
  BY <1>1, <1>2
<1>4. u \in Users
  <2>1. post[n] \in Posts
    BY <1>2, <1>3
  <2> QED  BY <2>1 DEF Posts
<1>5. /\ Range(newNotifications') = Range(newNotifications) \ {n}
      /\ n \in Range(newNotifications)
      /\ Distinct'
  <2>1. \A i, j \in DOMAIN newNotifications : newNotifications[i] = newNotifications[j] => i = j
    BY <1>0 DEF Distinct
  <2> QED  BY <1>1, <1>2, <2>1, RangeTail DEF Distinct
<1>6. newNotifications' \in Seq(DOMAIN post) /\ Len(newNotifications') <= BufferSize
  BY <1>1, <1>2 DEF EmailBatchingAssumption
<1> HIDE DEF n, u
<1>7. /\ pendingNotifications' \in [Users -> Seq(DOMAIN post)]
      /\ pendingNotifications'[u] = Append(pendingNotifications[u], n)
      /\ \A v \in Users : v # u => pendingNotifications'[v] = pendingNotifications[v]
  <2>1. Append(pendingNotifications[u], n) \in Seq(DOMAIN post)
    BY <1>2, <1>3, <1>4
  <2> QED  BY <1>1, <1>2, <1>4, <2>1
<1>8. Range(pendingNotifications'[u]) = Range(pendingNotifications[u]) \cup {n}
  BY <1>2, <1>3, <1>4, <1>7, RangeAppend
<1>9. EmailTypeOK'
  <2>1. todo' \subseteq {v \in Users : pendingNotifications'[v] # <<>>}
    <3>1. todo \subseteq {v \in Users : pendingNotifications[v] # <<>>}
      BY <1>0, EmailTypes
    <3>2. pendingNotifications'[u] # <<>>
      BY <1>8, RangeEmpty
    <3> QED  BY <1>1, <1>7, <3>1, <3>2
  <2>2. /\ seconds \in 0 .. MaxSeconds /\ storeFails \in 0 .. MaxStoreFails
        /\ task \in {"waiting", "receiving", "checking"}
        /\ lastViewedAt \in [Users -> [Teams -> -1 .. MaxSeconds]]
    BY <1>0, EmailTypes
  <2> QED  BY <1>1, <1>2, <1>6, <1>7, <2>1, <2>2, EmailTypesNext
<1>10. Filed'
  <2> SUFFICES ASSUME NEW v \in Users, NEW m \in Range(pendingNotifications'[v])
               PROVE  post[m].user = v
    BY <1>1 DEF Filed
  <2>1. CASE v # u
    BY <1>0, <1>7, <2>1 DEF Filed
  <2>2. CASE v = u
    BY <1>0, <1>4, <1>8, <2>2 DEF Filed, u
  <2> QED  BY <2>1, <2>2
<1>11. Known' /\ Past' /\ SeenFirst'
  BY <1>0, <1>1 DEF Known, Ended, Past, SeenFirst
<1>12. OnePlace'
  <2> SUFFICES ASSUME NEW m \in DOMAIN post
               PROVE  InOne(m, Range(newNotifications'), Pending', mailed, immediate, deleted)
    BY <1>1 DEF OnePlace
  <2>1. InOne(m, Range(newNotifications), Pending, mailed, immediate, deleted)
    BY <1>0 DEF OnePlace
  <2>2. m \in Pending' <=> m \in Pending \/ m = n
    <3>1. m \in Pending' <=> \E v \in Users : m \in Range(pendingNotifications'[v])
      BY DEF Pending
    <3>2. m \in Pending <=> \E v \in Users : m \in Range(pendingNotifications[v])
      BY DEF Pending
    <3> QED  BY <1>4, <1>7, <1>8, <3>1, <3>2
  <2> QED  BY <1>5, <2>1, <2>2 DEF InOne
<1> QED  BY <1>5, <1>9, <1>10, <1>11, <1>12 DEF EmailInv

(* A user's batch is mailed or dropped as a whole, and leaves the map. *)
LEMMA BatchEnds ==
  ASSUME EmailInv, NEW u \in todo, NEW M, NEW D,
         pendingNotifications' = [pendingNotifications EXCEPT ![u] = <<>>],
         mailed' = mailed \cup M, deleted' = deleted \cup D,
         \/ M = Range(pendingNotifications[u]) /\ D = {}
         \/ M = {} /\ D = Range(pendingNotifications[u]),
         todo' = todo \ {u},
         UNCHANGED <<seconds, post, newNotifications, task, lastViewedAt, immediate>>,
         storeFails' \in 0 .. MaxStoreFails
  PROVE  EmailTypeOK' /\ OnePlace' /\ Filed' /\ Distinct' /\ Known' /\ Past'
<1>0. EmailTypeOK /\ OnePlace /\ Filed /\ Distinct /\ Known /\ Past
  BY DEF EmailInv
<1>1. /\ newNotifications \in Seq(DOMAIN post) /\ Len(newNotifications) <= BufferSize
      /\ pendingNotifications \in [Users -> Seq(DOMAIN post)] /\ post \in Seq(Posts)
      /\ todo \subseteq {v \in Users : pendingNotifications[v] # <<>>}
      /\ seconds \in 0 .. MaxSeconds
      /\ task \in {"waiting", "receiving", "checking"}
      /\ lastViewedAt \in [Users -> [Teams -> -1 .. MaxSeconds]]
  BY <1>0, EmailTypes
<1>2. u \in Users
  BY <1>1
<1>3. /\ pendingNotifications' \in [Users -> Seq(DOMAIN post)]
      /\ pendingNotifications'[u] = <<>>
      /\ \A v \in Users : v # u => pendingNotifications'[v] = pendingNotifications[v]
  <2>1. <<>> \in Seq(DOMAIN post)
    OBVIOUS
  <2> QED  BY <1>1, <1>2, <2>1
<1>4. Range(pendingNotifications'[u]) = {}
  BY <1>3, RangeEmpty
<1>5. EmailTypeOK'
  <2>1. todo' \subseteq {v \in Users : pendingNotifications'[v] # <<>>}
    BY <1>1, <1>3
  <2> QED  BY <1>1, <1>3, <2>1, EmailTypesNext
<1>6. Filed'
  BY <1>0, <1>3, <1>4 DEF Filed
<1>7. Distinct' /\ Past'
  BY <1>0 DEF Distinct, Past
<1>8. Known'
  <2>1. Range(pendingNotifications[u]) \subseteq DOMAIN post
    BY <1>0, <1>2, PlacesKnown
  <2> QED  BY <1>0, <2>1 DEF Known, Ended
<1>9. OnePlace'
  <2> SUFFICES ASSUME NEW m \in DOMAIN post
               PROVE  InOne(m, Range(newNotifications), Pending', mailed', immediate, deleted')
    BY DEF OnePlace
  <2>1. InOne(m, Range(newNotifications), Pending, mailed, immediate, deleted)
    BY <1>0 DEF OnePlace
  <2>2. m \in Pending' <=> m \in Pending /\ m \notin Range(pendingNotifications[u])
    <3>1. m \in Pending' <=> \E v \in Users : m \in Range(pendingNotifications'[v])
      BY DEF Pending
    <3>2. m \in Pending <=> \E v \in Users : m \in Range(pendingNotifications[v])
      BY DEF Pending
    <3>3. \A v \in Users : v # u /\ m \in Range(pendingNotifications[v])
                             => m \notin Range(pendingNotifications[u])
      BY <1>0, <1>2 DEF Filed
    <3> QED  BY <1>2, <1>3, <1>4, <3>1, <3>2, <3>3
  <2>3. m \in Range(pendingNotifications[u]) => m \in Pending
    BY <1>2 DEF Pending
  <2> QED  BY <2>1, <2>2, <2>3 DEF InOne
<1> QED  BY <1>5, <1>6, <1>7, <1>8, <1>9

(* The same when the batch has to wait. *)
LEMMA BatchStays ==
  ASSUME EmailInv, NEW u \in todo, todo' = todo \ {u},
         UNCHANGED <<seconds, post, newNotifications, pendingNotifications, task,
                     lastViewedAt, immediate, mailed, deleted>>,
         storeFails' \in 0 .. MaxStoreFails
  PROVE  EmailInv'
<1>1. EmailTypeOK'
  <2>1. EmailTypeOK
    BY DEF EmailInv
  <2>2. todo' \subseteq {v \in Users : pendingNotifications[v] # <<>>}
    BY <2>1, EmailTypes
  <2> QED  BY <2>1, <2>2, EmailTypes, EmailTypesNext
<1>2. OnePlace' /\ Filed' /\ Distinct' /\ Known' /\ Past' /\ SeenFirst'
  BY DEF EmailInv, OnePlace, Filed, Distinct, Known, Ended, Pending, Past, SeenFirst
<1> QED  BY <1>1, <1>2 DEF EmailInv

LEMMA MailedInv ==
  ASSUME EmailInv, NEW u \in todo, Mailed(u), todo' = todo \ {u},
         UNCHANGED <<seconds, post, newNotifications, task, lastViewedAt, immediate>>,
         storeFails' \in 0 .. MaxStoreFails
  PROVE  EmailInv'
<1>1. /\ mailed' = mailed \cup Range(pendingNotifications[u])
      /\ pendingNotifications' = [pendingNotifications EXCEPT ![u] = <<>>]
      /\ deleted' = deleted
  BY DEF Mailed
<1>2. deleted' = deleted \cup {}
  BY <1>1
<1>3. EmailTypeOK' /\ OnePlace' /\ Filed' /\ Distinct' /\ Known' /\ Past'
  BY <1>1, <1>2, BatchEnds
<1>4. SeenFirst'
  BY <1>1 DEF EmailInv, SeenFirst
<1> QED  BY <1>3, <1>4 DEF EmailInv

LEMMA DroppedInv ==
  ASSUME EmailInv, NEW u \in todo, Viewed(u), Dropped(u), todo' = todo \ {u},
         UNCHANGED <<seconds, post, newNotifications, task, lastViewedAt, immediate>>,
         storeFails' \in 0 .. MaxStoreFails
  PROVE  EmailInv'
<1>0. EmailTypeOK /\ Filed /\ SeenFirst /\ Known
  BY DEF EmailInv
<1>1. /\ deleted' = deleted \cup Range(pendingNotifications[u])
      /\ pendingNotifications' = [pendingNotifications EXCEPT ![u] = <<>>]
      /\ mailed' = mailed
  BY DEF Dropped
<1>2. mailed' = mailed \cup {}
  BY <1>1
<1>3. EmailTypeOK' /\ OnePlace' /\ Filed' /\ Distinct' /\ Known' /\ Past'
  BY <1>1, <1>2, BatchEnds
<1>4. u \in Users /\ pendingNotifications[u] # <<>> /\ pendingNotifications[u] \in Seq(DOMAIN post)
      /\ post \in Seq(Posts)
  BY <1>0, EmailTypes
<1> DEFINE h == Head(pendingNotifications[u])
<1>5. h \in Range(pendingNotifications[u]) /\ h \in DOMAIN post
  <2>1. h = pendingNotifications[u][1] /\ 1 \in DOMAIN pendingNotifications[u]
    BY <1>4
  <2>2. h \in DOMAIN post
    BY <1>4
  <2> QED  BY <2>1, <2>2 DEF Range
<1>6. post[h].user = u /\ post[h].team \in Teams
  <2>1. post[h] \in Posts
    BY <1>4, <1>5
  <2> QED  BY <1>0, <1>4, <1>5, <2>1 DEF Filed, Posts
<1>7. lastViewedAt[u][post[h].team] >= post[h].at
  BY DEF Viewed, batchStartTime
<1> HIDE DEF h
<1>8. SeenFirst'
  <2> SUFFICES ASSUME NEW n \in deleted'
               PROVE  \E m \in DOMAIN post, t \in Teams :
                        post[m].user = post[n].user /\ lastViewedAt[post[n].user][t] >= post[m].at
    BY DEF SeenFirst
  <2>1. CASE n \in deleted
    BY <1>0, <2>1 DEF SeenFirst
  <2>2. CASE n \in Range(pendingNotifications[u])
    <3>1. post[n].user = u
      BY <1>0, <1>4, <2>2 DEF Filed
    <3> QED  BY <1>5, <1>6, <1>7, <3>1
  <2> QED  BY <1>1, <2>1, <2>2
<1> QED  BY <1>3, <1>8 DEF EmailInv

LEMMA CheckUserInv ==
  ASSUME EmailBatchingAssumption, EmailInv, NEW u \in Users, CheckUser(u)
  PROVE  EmailInv'
<1>1. u \in todo /\ todo' = todo \ {u}
      /\ UNCHANGED <<seconds, post, newNotifications, task, lastViewedAt, immediate>>
      /\ storeFails' = storeFails
  BY DEF CheckUser
<1>2. storeFails' \in 0 .. MaxStoreFails
  BY <1>1 DEF EmailInv, EmailTypeOK
<1>3. CASE Viewed(u) /\ Dropped(u)
  BY <1>1, <1>2, <1>3, DroppedInv
<1>4. CASE Mailed(u)
  BY <1>1, <1>2, <1>4, MailedInv
<1>5. CASE UNCHANGED <<deleted, mailed, pendingNotifications>>
  BY <1>1, <1>2, <1>5, BatchStays
<1> QED  BY <1>3, <1>4, <1>5 DEF CheckUser

LEMMA CheckUserFailsInv ==
  ASSUME EmailBatchingAssumption, EmailInv, NEW u \in Users, CheckUserFails(u)
  PROVE  EmailInv'
<1>1. u \in todo /\ todo' = todo \ {u}
      /\ UNCHANGED <<seconds, post, newNotifications, task, lastViewedAt, immediate>>
      /\ storeFails < MaxStoreFails /\ storeFails' = storeFails + 1
  BY DEF CheckUserFails
<1>2. storeFails' \in 0 .. MaxStoreFails
  BY <1>1 DEF EmailInv, EmailTypeOK, EmailBatchingAssumption
<1>4. CASE Mailed(u)
  BY <1>1, <1>2, <1>4, MailedInv
<1>5. CASE UNCHANGED <<deleted, mailed, pendingNotifications>>
  BY <1>1, <1>2, <1>5, BatchStays
<1> QED  BY <1>4, <1>5 DEF CheckUserFails

(* The steps of the recurring task that move no notification, and time. *)
LEMMA TaskInv ==
  ASSUME EmailBatchingAssumption, EmailInv,
         CheckPendingEmails \/ checkPendingNotifications \/ Done \/ SecondPasses
  PROVE  EmailInv'
<1>0. EmailTypeOK /\ MaxSeconds \in Nat
  BY DEF EmailInv, EmailBatchingAssumption
<1>1. /\ UNCHANGED <<post, newNotifications, pendingNotifications, lastViewedAt, mailed,
                     immediate, deleted, storeFails>>
      /\ seconds' = seconds \/ (seconds < MaxSeconds /\ seconds' = seconds + 1)
      /\ task' = task \/ task' \in {"waiting", "receiving", "checking"}
      /\ todo' = todo \/ todo' = {v \in Users : pendingNotifications[v] # <<>>}
  BY DEF CheckPendingEmails, checkPendingNotifications, Done, SecondPasses
<1>2. seconds' \in 0 .. MaxSeconds /\ seconds' >= seconds /\ seconds \in Nat
  BY <1>0, <1>1, EmailTypes
<1>3. EmailTypeOK'
  BY <1>0, <1>1, <1>2 DEF EmailTypeOK
<1>4. Past'
  <2>1. \A u \in Users, t \in Teams : lastViewedAt[u][t] <= seconds /\ lastViewedAt[u][t] \in Int
    BY <1>0 DEF EmailInv, Past, EmailTypeOK
  <2> QED  BY <1>1, <1>2, <2>1 DEF Past
<1>5. OnePlace' /\ Filed' /\ Distinct' /\ Known' /\ SeenFirst'
  BY <1>1 DEF EmailInv, OnePlace, Filed, Distinct, Known, Ended, Pending, SeenFirst
<1> QED  BY <1>3, <1>4, <1>5 DEF EmailInv

LEMMA EmailInitInv ==
  ASSUME EmailBatchingAssumption, EmailInit
  PROVE  EmailInv
<1>1. EmailTypeOK
  BY DEF EmailInit, EmailTypeOK, EmailBatchingAssumption
<1>2. DOMAIN post = {} /\ Ended = {} /\ deleted = {}
  BY DEF EmailInit, Ended
<1>3. \A u \in Users : Range(pendingNotifications[u]) = {}
  BY RangeEmpty DEF EmailInit
<1>4. Past
  BY DEF EmailInit, Past
<1>5. Distinct
  BY DEF EmailInit, Distinct
<1> QED  BY <1>1, <1>2, <1>3, <1>4, <1>5 DEF EmailInv, OnePlace, Filed, Known, SeenFirst

LEMMA EmailNextInv ==
  ASSUME EmailBatchingAssumption, EmailInv, [EmailNext]_emailVars
  PROVE  EmailInv'
<1>1. ASSUME NEW u \in Users, NEW t \in Teams,
             AddNotificationEmailToBatch(u, t) \/ View(u, t)
      PROVE  EmailInv'
  BY <1>1, AddInv, ViewInv
<1>2. ASSUME NEW u \in Users, CheckUser(u) \/ CheckUserFails(u) PROVE EmailInv'
  BY <1>2, CheckUserInv, CheckUserFailsInv
<1>3. CASE handleNewNotifications
  BY <1>3, HandleInv
<1>4. CASE CheckPendingEmails \/ checkPendingNotifications \/ Done \/ SecondPasses
  BY <1>4, TaskInv
<1>5. CASE UNCHANGED emailVars
  <2>1. EmailTypeOK'
    BY <1>5 DEF emailVars, EmailInv, EmailTypeOK
  <2>2. OnePlace' /\ Filed' /\ Distinct' /\ Known' /\ Past' /\ SeenFirst'
    BY <1>5 DEF emailVars, EmailInv, OnePlace, Filed, Distinct, Known, Ended, Pending, Past,
                SeenFirst
  <2> QED  BY <2>1, <2>2 DEF EmailInv
<1> QED  BY <1>1, <1>2, <1>3, <1>4, <1>5 DEF EmailNext

(* The inductive invariant of email batching. *)
THEOREM EmailInvariant ==
  ASSUME EmailBatchingAssumption
  PROVE  EmailSpec => []EmailInv
<1>1. EmailInit => EmailInv
  BY EmailInitInv
<1>2. EmailInv /\ [EmailNext]_emailVars => EmailInv'
  BY EmailNextInv
<1> QED  BY <1>1, <1>2, PTL DEF EmailSpec

OneTeam == \A s, t \in Teams : s = t

(* For any number of users and notifications, any buffer and interval, a    *)
(* notification is in exactly one place, none is lost or mailed twice, and  *)
(* a batch is dropped only for a view; what is mailed has no notification   *)
(* of a team in which the user has viewed a channel since the batch began,  *)
(* if there is one team: checkPendingNotifications looks at the team of the *)
(* first notification only (email_batching.go).                             *)
THEOREM EmailMailedUnlessViewed ==
  ASSUME EmailBatchingAssumption, OneTeam
  PROVE  EmailSpec => MailedUnlessViewed
<1>1. EmailInv => Accounted
  <2> SUFFICES ASSUME EmailInv PROVE Accounted
    OBVIOUS
  <2>1. \A n \in DOMAIN post :
          LET places == <<Range(newNotifications), Pending, mailed, immediate, deleted>>
          IN  \E i \in DOMAIN places : \A j \in DOMAIN places : n \in places[j] <=> i = j
    <3> TAKE n \in DOMAIN post
    <3>1. InOne(n, Range(newNotifications), Pending, mailed, immediate, deleted)
      BY DEF EmailInv, OnePlace
    <3> QED  BY <3>1, InOnePlace
  <2>2. SeenFirst
    BY DEF EmailInv
  <2> QED  BY <2>1, <2>2 DEF Accounted, SeenFirst
<1> DEFINE A == \A u \in Users :
                  (mailed' # mailed /\ u \in todo \ todo' /\ storeFails' = storeFails) =>
                    \A p \in Batch(u) : lastViewedAt[u][p.team] < batchStartTime(u)
<1>2. EmailInv /\ [EmailNext]_emailVars => [A]_emailVars
  <2> SUFFICES ASSUME EmailInv, EmailNext, NEW u \in Users,
                      mailed' # mailed, u \in todo \ todo', storeFails' = storeFails,
                      NEW p \in Batch(u)
               PROVE  lastViewedAt[u][p.team] < batchStartTime(u)
    BY DEF emailVars
  <2>0. EmailTypeOK
    BY DEF EmailInv
  <2>1. PICK v \in Users : CheckUser(v) \/ CheckUserFails(v)
    BY DEF EmailNext, AddNotificationEmailToBatch, View, CheckPendingEmails,
           handleNewNotifications, checkPendingNotifications, Done, SecondPasses
  <2>2. ~CheckUserFails(v)
    <3>1. storeFails \in Int
      BY <2>0 DEF EmailTypeOK
    <3> QED  BY <3>1 DEF CheckUserFails
  <2>3. CheckUser(v) /\ v = u
    BY <2>1, <2>2 DEF CheckUser
  <2>4. ~Viewed(u)
    BY <2>3 DEF CheckUser, Dropped
  <2>5. /\ pendingNotifications[u] \in Seq(DOMAIN post) /\ pendingNotifications[u] # <<>>
        /\ post \in Seq(Posts) /\ lastViewedAt \in [Users -> [Teams -> -1 .. MaxSeconds]]
    BY <2>0, EmailTypes
  <2> DEFINE h == Head(pendingNotifications[u])
  <2>6. h \in DOMAIN post
    BY <2>5
  <2>7. post[h] \in Posts /\ p \in Posts
    <3>1. \A n \in Range(pendingNotifications[u]) : n \in DOMAIN post
      BY <2>0, PlacesKnown
    <3> QED  BY <2>5, <2>6, <3>1 DEF Batch
  <2>8. p.team = post[h].team /\ post[h].team \in Teams /\ post[h].at \in Int
    BY <2>7 DEF OneTeam, Posts
  <2>9. lastViewedAt[u][post[h].team] \in Int
    BY <2>5, <2>8
  <2>10. ~(lastViewedAt[u][post[h].team] >= post[h].at)
    BY <2>4 DEF Viewed, batchStartTime
  <2> QED  BY <2>8, <2>9, <2>10 DEF batchStartTime
<1>3. EmailSpec => [][A]_emailVars
  BY <1>2, EmailInvariant, PTL DEF EmailSpec
<1>4. EmailSpec => []Accounted
  BY <1>1, EmailInvariant, PTL
<1> QED  BY <1>3, <1>4 DEF MailedUnlessViewed, ViewedNotMailed

-----------------------------------------------------------------------------

(* The services put together: the one that runs keeps its invariant. *)
ServicesInv ==
  /\ service = "push" => PushInv
  /\ service = "busy" => BusyInv
  /\ service = "email" => EmailInv
  /\ service = "plugin" => RestartInv
  /\ service = "upload" => UploadInv

(* What the service that runs has in its channels, maps, files and tables   *)
(* is of its type, for every value of the constants, if an upload is at one *)
(* node (notification_push.go, busy.go, email_batching.go, environment.go,  *)
(* upload.go).                                                              *)
THEOREM ServicesTypeCorrect ==
  ASSUME PushAssumption, BusyAssumption, EmailBatchingAssumption,
         PluginAssumption, UploadAssumption, OneNode
  PROVE  ServicesSpec => []ServicesTypeOK
<1>1. ServicesInit => ServicesInv
  BY PushInitInv, BusyInitInv, EmailInitInv, RestartInit, UploadInitInv
  DEF ServicesInit, ServicesInv
<1>2. ServicesInv /\ [ServicesNext]_serviceVars => ServicesInv'
  <2> SUFFICES ASSUME ServicesInv, [ServicesNext]_serviceVars
               PROVE  ServicesInv'
    OBVIOUS
  <2>1. service' = service
    BY DEF ServicesNext, serviceVars
  <2>2. ASSUME service = "push" PROVE PushInv'
    <3>1. [PushNext]_pushVars
      BY <2>2 DEF ServicesNext, serviceVars
    <3> QED  BY <2>2, <3>1, PushNextInv DEF ServicesInv
  <2>3. ASSUME service = "busy" PROVE BusyInv'
    <3>1. [BusyNext]_busyVars
      BY <2>3 DEF ServicesNext, serviceVars
    <3> QED  BY <2>3, <3>1, BusyNextInv DEF ServicesInv
  <2>4. ASSUME service = "email" PROVE EmailInv'
    <3>1. [EmailNext]_emailVars
      BY <2>4 DEF ServicesNext, serviceVars
    <3> QED  BY <2>4, <3>1, EmailNextInv DEF ServicesInv
  <2>5. ASSUME service = "plugin" PROVE RestartInv'
    <3>1. [Next]_vars
      BY <2>5 DEF ServicesNext, serviceVars
    <3> QED  BY <2>5, <3>1, RestartNext DEF ServicesInv
  <2>6. ASSUME service = "upload" PROVE UploadInv'
    <3>1. [UploadNext]_uploadVars
      BY <2>6 DEF ServicesNext, serviceVars
    <3> QED  BY <2>6, <3>1, UploadNextInv DEF ServicesInv
  <2> QED  BY <2>1, <2>2, <2>3, <2>4, <2>5, <2>6 DEF ServicesInv
<1>3. ServicesInv => ServicesTypeOK
  BY DEF ServicesInv, ServicesTypeOK, PushInv, BusyInv, EmailInv, RestartInv, UploadInv
<1> QED  BY <1>1, <1>2, <1>3, PTL DEF ServicesSpec
=============================================================================
