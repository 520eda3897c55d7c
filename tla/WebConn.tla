------------------------------ MODULE WebConn ------------------------------
(***************************************************************************)
(* The reliable websocket of one client (app/web_conn.go with the          *)
(* register, unregister, checkConn, broadcast, directMsg and reaper cases   *)
(* of the hub loop in app/web_hub.go, and connectWebSocket in               *)
(* api4/websocket.go).                                                      *)
(*                                                                         *)
(* A "chain" is the succession of WebConn objects that hand the same send  *)
(* channel and dead queue to one another: checkConn gives them from an     *)
(* inactive WebConn, whose pumps have ended, to the WebConn made for the   *)
(* client's next socket.  At most one WebConn of a chain has a running     *)
(* write pump, so a chain is one record.                                   *)
(*                                                                         *)
(* The network delivers a written message at once or never: a socket is    *)
(* "up", or "broken" (writes still succeed into the kernel's buffer and    *)
(* vanish), or "down" (the client knows).  What a TCP connection loses is  *)
(* a suffix of what was written to it, and the point where that suffix     *)
(* begins is the step that makes the socket "broken".                      *)
(***************************************************************************)
EXTENDS DeadQueue, Sequences, FiniteSets

CONSTANTS Chains,           \* identities of chains
          sendQueueSize,    \* capacity of the send channel (256 in the code)
          MaxEvents,        \* bound: events published to the client's user
          Droppable,        \* the events of a type the slow write pump drops
          MaxConnIDs,       \* bound: connection IDs made by model.NewId
          MaxBreaks,        \* bound: sockets that fail while they are up
          MaxEncodeErrors,  \* bound: events whose Encode fails
          MaxResponses      \* bound: responses to the client's requests

(* A message in a send channel, and an event kept in a dead queue. *)
Message == [kind : {"event", "hello", "response"}, id : Nat, connID : Nat]

DeadEvent == [kind : {"event", "hello"}, id : Nat, connID : Nat, seq : Nat,
              under : Nat]

ASSUME WebConnAssumption ==
  /\ Chains # {}
  /\ sendQueueSize \in Nat \ {0}
  /\ MaxEvents \in Nat /\ MaxConnIDs \in Nat /\ MaxBreaks \in Nat
  /\ MaxEncodeErrors \in Nat /\ MaxResponses \in Nat
  /\ Droppable \subseteq 1 .. MaxEvents
  /\ Nil \notin DeadEvent

VARIABLES conn,       \* conn[c]: the chain's WebConn and what it hands over
          client,     \* the client (external)
          nextID,     \* the next connection ID model.NewId gives
          published,  \* how many events have been published
          missed,     \* history: events published during a hand-over of the
                      \* chain whose connection ID the client holds
          log,        \* history: log[g], the events numbered under g
          breaks, encodeErrors, responses  \* used parts of the bounds

vars == <<conn, client, nextID, published, missed, log, breaks, encodeErrors,
          responses>>

counters == <<breaks, encodeErrors, responses>>

sendSlowWarn == (sendQueueSize * 50) \div 100

Event(e) == [kind |-> "event", id |-> e, connID |-> 0]
Hello(g) == [kind |-> "hello", id |-> 0, connID |-> g]
Response == [kind |-> "response", id |-> 0, connID |-> 0]

(* SetSequence: the copy of message m that carries number n.  "under" is a  *)
(* history field, the connection ID that was in force.                      *)
Numbered(m, n, g) == [kind |-> m.kind, id |-> m.id, connID |-> m.connID,
                      seq |-> n, under |-> g]

FreeConn == [index |-> "none", pump |-> "none", open |-> TRUE, queue |-> <<>>,
             deadQueue |-> EmptyDeadQueue, deadQueuePointer |-> 0,
             sequence |-> 0, connID |-> 0, reused |-> FALSE, drain |-> 0]

Indexed(c) == conn[c].index # "none"

ConnState == [index : {"none", "active", "inactive"},
              pump : {"none", "new", "start", "drain", "run", "ended"},
              open : BOOLEAN,
              queue : Seq(Message),
              deadQueue : [Slots -> DeadEvent \cup {Nil}],
              deadQueuePointer : Slots,
              sequence : Nat, connID : Nat, reused : BOOLEAN, drain : Slots]

ClientState == [sock : {"up", "broken", "down"}, chain : Chains,
                connID : Nat, want : Nat, last : Nat, known : SUBSET Nat]

TypeOK == /\ conn \in [Chains -> ConnState]
          /\ client \in ClientState
          /\ nextID \in Nat \ {0}
          /\ published \in Nat
          /\ missed \subseteq Nat
          /\ log \in [1 .. MaxConnIDs -> Seq(Nat)]
          /\ breaks \in Nat /\ encodeErrors \in Nat /\ responses \in Nat

Init ==
  /\ conn = [c \in Chains |-> FreeConn]
  /\ client = [sock |-> "down", chain |-> CHOOSE c \in Chains : TRUE,
               connID |-> 0, want |-> 0, last |-> 0, known |-> {}]
  /\ nextID = 1
  /\ published = 0
  /\ missed = {}
  /\ log = [g \in 1 .. MaxConnIDs |-> <<>>]
  /\ breaks = 0 /\ encodeErrors = 0 /\ responses = 0

-----------------------------------------------------------------------------

(* The client (external): it adopts the connection ID of a hello and counts *)
(* from 0 again, having fetched over REST what it may have missed; any      *)
(* other event must carry the number it wants next.  On a gap it forgets    *)
(* its connection ID and makes a fresh connection.                          *)

Listening(c) == client.sock = "up" /\ client.chain = c

Receive(m) ==
  LET adopts == m.kind = "hello" /\ m.connID # client.connID
      want   == IF adopts THEN 0 ELSE client.want
      known  == IF adopts THEN 1 .. published ELSE client.known
  IN  IF m.seq = want
        THEN [client EXCEPT !.connID = IF adopts THEN m.connID ELSE @,
                            !.want = want + 1, !.last = m.id,
                            !.known = IF m.kind = "event"
                                        THEN known \cup {m.id} ELSE known]
        ELSE [client EXCEPT !.sock = "down", !.connID = 0, !.want = 0]

(* writeMessageBuf succeeds. *)
WriteOK(c, m) == /\ client' = IF Listening(c) THEN Receive(m) ELSE client
                 /\ UNCHANGED breaks

(* The socket of chain c is closed, by the network, by a read or a write    *)
(* error or by a missed pong: a failure when it was up.                     *)
SocketFails(c) ==
  IF Listening(c)
    THEN /\ breaks < MaxBreaks
         /\ breaks' = breaks + 1
         /\ client' = [client EXCEPT !.sock = "down"]
    ELSE UNCHANGED <<client, breaks>>

SocketBreaks == /\ client.sock = "up"
                /\ breaks < MaxBreaks
                /\ breaks' = breaks + 1
                /\ client' = [client EXCEPT !.sock = "broken"]
                /\ UNCHANGED <<conn, nextID, published, missed, log,
                               encodeErrors, responses>>

ClientNotices == /\ client.sock = "broken"
                 /\ client' = [client EXCEPT !.sock = "down"]
                 /\ UNCHANGED <<conn, nextID, published, missed, log, counters>>

-----------------------------------------------------------------------------

(* connectWebSocket, up to HubRegister: with no connection ID, or with one   *)
(* that the hub does not hold for an inactive connection, the WebConn is     *)
(* new.  With an inactive one, checkConn removes that from the index and     *)
(* hands over its queues; the sequence is the one the client asks for.       *)

Resumable(c) == conn[c].index = "inactive" /\ conn[c].connID = client.connID

ConnectFresh(c) ==
  /\ client.sock = "down"
  /\ client.connID = 0 \/ ~\E d \in Chains : Resumable(d)
  /\ conn[c].index = "none" /\ conn[c].pump = "none"
  /\ nextID <= MaxConnIDs
  /\ conn' = [conn EXCEPT ![c] =
                [FreeConn EXCEPT !.pump = "new", !.connID = nextID]]
  /\ nextID' = nextID + 1
  /\ client' = [client EXCEPT !.sock = "up", !.chain = c]
  /\ UNCHANGED <<published, missed, log, counters>>

ConnectResume(c) ==
  /\ client.sock = "down"
  /\ client.connID # 0 /\ Resumable(c)
  /\ conn' = [conn EXCEPT ![c].index = "none", ![c].pump = "new",
                          ![c].sequence = client.want, ![c].reused = TRUE]
  /\ client' = [client EXCEPT !.sock = "up", !.chain = c]
  /\ UNCHANGED <<nextID, published, missed, log, counters>>

(* The hub's register case; the pumps start after it. *)
Register(c) ==
  /\ conn[c].pump = "new"
  /\ conn' = [conn EXCEPT ![c].pump = "start", ![c].index = "active",
                          ![c].queue = IF conn[c].reused THEN @
                                       ELSE Append(@, Hello(conn[c].connID))]
  /\ UNCHANGED <<client, nextID, published, missed, log, counters>>

-----------------------------------------------------------------------------

(* writePump, before its loop. *)

StartLive(c) ==
  /\ conn[c].pump = "start"
  /\ \/ conn[c].sequence = 0
     \/ /\ IsInDeadQueue(conn[c].deadQueue, conn[c].sequence) = {}
        /\ ~HasMsgLoss(conn[c].deadQueue, conn[c].deadQueuePointer,
                       conn[c].sequence)
  /\ conn' = [conn EXCEPT ![c].pump = "run"]
  /\ UNCHANGED <<client, nextID, published, missed, log, counters>>

StartDrain(c) ==
  /\ conn[c].pump = "start"
  /\ conn[c].sequence # 0
  /\ \E index \in IsInDeadQueue(conn[c].deadQueue, conn[c].sequence) :
       conn' = [conn EXCEPT
                  ![c].pump = IF DrainsFrom(conn[c].deadQueue,
                                            conn[c].deadQueuePointer, index)
                                THEN "drain" ELSE "run",
                  ![c].drain = index]
  /\ UNCHANGED <<client, nextID, published, missed, log, counters>>

MustClear(c) ==
  /\ conn[c].pump = "start"
  /\ conn[c].sequence # 0
  /\ IsInDeadQueue(conn[c].deadQueue, conn[c].sequence) = {}
  /\ HasMsgLoss(conn[c].deadQueue, conn[c].deadQueuePointer, conn[c].sequence)

(* The wanted event is gone: a new connection ID, whose hello is the first  *)
(* event of its dead queue.                                                 *)
StartLoss(c) ==
  LET hello == Numbered(Hello(nextID), 0, nextID)
      ptr   == ClearDeadQueuePointer(conn[c].deadQueue,
                                     conn[c].deadQueuePointer)
      With(pump) ==
        [conn EXCEPT ![c].pump = pump,
                     ![c].deadQueue = AddToDeadQueue(ClearDeadQueue(@), ptr,
                                                     hello),
                     ![c].deadQueuePointer = Advance(ptr),
                     ![c].connID = nextID, ![c].sequence = 1]
  IN  /\ MustClear(c)
      /\ nextID <= MaxConnIDs
      /\ nextID' = nextID + 1
      /\ log' = [log EXCEPT ![nextID] = Append(@, hello.id)]
      /\ \/ conn' = With("run") /\ WriteOK(c, hello)
         \/ conn' = With("ended") /\ SocketFails(c)
      /\ UNCHANGED <<published, missed, encodeErrors, responses>>

(* One writeMessage of drainDeadQueue's loop. *)
DrainStep(c) ==
  LET i == conn[c].drain
      q == conn[c].deadQueue
      With(pump) == [conn EXCEPT ![c].pump = pump, ![c].sequence = @ + 1,
                                 ![c].drain = Advance(i)]
  IN  /\ conn[c].pump = "drain"
      /\ \/ /\ conn' = With(IF DrainedAfter(q, conn[c].deadQueuePointer, i)
                              THEN "run" ELSE "drain")
            /\ WriteOK(c, q[i])
         \/ conn' = With("ended") /\ SocketFails(c)
      /\ UNCHANGED <<nextID, published, missed, log, encodeErrors, responses>>

-----------------------------------------------------------------------------

(* writePump's loop: a message received from the send channel. *)

Received(c) == conn[c].pump = "run" /\ conn[c].queue # <<>>

Skips(c) == /\ Len(Tail(conn[c].queue)) >= sendSlowWarn
            /\ Head(conn[c].queue).id \in Droppable

SkipSend(c) ==
  /\ Received(c) /\ Skips(c)
  /\ conn' = [conn EXCEPT ![c].queue = Tail(@)]
  /\ UNCHANGED <<client, nextID, published, missed, log, counters>>

(* Mutant of EncodeFails: the sequence number is kept for the next event. *)
EncodeFailsUncounted(c) ==
  /\ Received(c) /\ ~Skips(c)
  /\ Head(conn[c].queue).kind = "event"
  /\ encodeErrors < MaxEncodeErrors
  /\ encodeErrors' = encodeErrors + 1
  /\ conn' = [conn EXCEPT ![c].queue = Tail(@)]
  /\ UNCHANGED <<client, nextID, published, missed, log, breaks, responses>>

(* Encode fails: the sequence number is spent, nothing is written or kept.  *)
EncodeFails(c) ==
  /\ Received(c) /\ ~Skips(c)
  /\ Head(conn[c].queue).kind = "event"
  /\ encodeErrors < MaxEncodeErrors
  /\ encodeErrors' = encodeErrors + 1
  /\ conn' = [conn EXCEPT ![c].queue = Tail(@), ![c].sequence = @ + 1]
  /\ UNCHANGED <<client, nextID, published, missed, log, breaks, responses>>

SendEvent(c) ==
  LET msg == Numbered(Head(conn[c].queue), conn[c].sequence, conn[c].connID)
      With(pump) ==
        [conn EXCEPT ![c].pump = pump, ![c].queue = Tail(@),
                     ![c].sequence = @ + 1,
                     ![c].deadQueue =
                       AddToDeadQueue(@, conn[c].deadQueuePointer, msg),
                     ![c].deadQueuePointer = Advance(@)]
  IN  /\ Received(c) /\ ~Skips(c)
      /\ Head(conn[c].queue).kind # "response"
      /\ log' = [log EXCEPT ![conn[c].connID] = Append(@, msg.id)]
      /\ \/ conn' = With("run") /\ WriteOK(c, msg)
         \/ conn' = With("ended") /\ SocketFails(c)
      /\ UNCHANGED <<nextID, published, missed, encodeErrors, responses>>

(* A response has no sequence number and is not kept. *)
SendResponse(c) ==
  /\ Received(c) /\ ~Skips(c)
  /\ Head(conn[c].queue).kind = "response"
  /\ \/ /\ conn' = [conn EXCEPT ![c].queue = Tail(@)]
        /\ UNCHANGED <<client, breaks>>
     \/ /\ conn' = [conn EXCEPT ![c].queue = Tail(@), ![c].pump = "ended"]
        /\ SocketFails(c)
  /\ UNCHANGED <<nextID, published, missed, log, encodeErrors, responses>>

(* The hub closed the channel and the pump has emptied it. *)
ReceiveClosed(c) ==
  /\ conn[c].pump = "run" /\ conn[c].queue = <<>> /\ ~conn[c].open
  /\ conn' = [conn EXCEPT ![c].pump = "ended"]
  /\ client' = IF Listening(c) THEN [client EXCEPT !.sock = "down"] ELSE client
  /\ UNCHANGED <<nextID, published, missed, log, counters>>

(* The read pump returned (endWritePump), or a ping could not be written.   *)
PumpEnds(c) ==
  /\ conn[c].pump = "run"
  /\ conn' = [conn EXCEPT ![c].pump = "ended"]
  /\ SocketFails(c)
  /\ UNCHANGED <<nextID, published, missed, log, encodeErrors, responses>>

-----------------------------------------------------------------------------

(* The hub's loop. *)

(* A WebConn removed because its queue was full is not in the index any     *)
(* more; no one can reach its queues then.                                  *)
Unregister(c) ==
  /\ conn[c].pump = "ended"
  /\ conn' = [conn EXCEPT ![c] =
                IF Indexed(c)
                  THEN [conn[c] EXCEPT !.pump = "none", !.index = "inactive"]
                  ELSE FreeConn]
  /\ UNCHANGED <<client, nextID, published, missed, log, counters>>

RemoveInactive(c) ==
  /\ conn[c].index = "inactive"
  /\ conn' = [conn EXCEPT ![c] = FreeConn]
  /\ UNCHANGED <<client, nextID, published, missed, log, counters>>

(* Mutant of Offer: the message that does not fit is dropped. *)
OfferDrops(cn, m) ==
  IF Len(cn.queue) < sendQueueSize THEN [cn EXCEPT !.queue = Append(@, m)]
                                   ELSE cn

(* Mutant of Offer: the WebConn is removed but its channel is not closed. *)
OfferLeavesOpen(cn, m) ==
  IF Len(cn.queue) < sendQueueSize
    THEN [cn EXCEPT !.queue = Append(@, m)]
    ELSE IF cn.pump = "none" THEN FreeConn ELSE [cn EXCEPT !.index = "none"]

(* The hub's send to a WebConn of its index: never blocks; a full channel is *)
(* closed and its WebConn removed.                                           *)
Offer(cn, m) ==
  IF Len(cn.queue) < sendQueueSize
    THEN [cn EXCEPT !.queue = Append(@, m)]
    ELSE IF cn.pump = "none"
           THEN FreeConn
           ELSE [cn EXCEPT !.open = FALSE, !.index = "none"]

HandingOver == \E c \in Chains : /\ conn[c].pump = "new"
                                 /\ conn[c].connID = client.connID

Broadcast ==
  /\ published < MaxEvents
  /\ published' = published + 1
  /\ conn' = [c \in Chains |-> IF Indexed(c)
                                 THEN Offer(conn[c], Event(published'))
                                 ELSE conn[c]]
  /\ missed' = IF HandingOver THEN missed \cup {published'} ELSE missed
  /\ UNCHANGED <<client, nextID, log, counters>>

DirectMsg(c) ==
  /\ conn[c].index = "active" /\ Listening(c)
  /\ responses < MaxResponses
  /\ responses' = responses + 1
  /\ conn' = [conn EXCEPT ![c] = Offer(@, Response)]
  /\ UNCHANGED <<client, nextID, published, missed, log, breaks, encodeErrors>>

-----------------------------------------------------------------------------

PumpStep(c) == \/ StartLive(c) \/ StartDrain(c) \/ StartLoss(c)
               \/ DrainStep(c)
               \/ SkipSend(c) \/ EncodeFails(c) \/ SendEvent(c)
               \/ SendResponse(c) \/ ReceiveClosed(c)

HubStep(c) == Register(c) \/ Unregister(c) \/ RemoveInactive(c)

Connect(c) == ConnectFresh(c) \/ ConnectResume(c)

Next == \/ SocketBreaks \/ ClientNotices \/ Broadcast
        \/ \E c \in Chains : \/ Connect(c) \/ HubStep(c) \/ DirectMsg(c)
                             \/ PumpStep(c) \/ PumpEnds(c)

Spec == Init /\ [][Next]_vars

(***************************************************************************)
(* The scheduling the code gives: every goroutine (write pump, hub loop,   *)
(* HTTP handler) goes on, the reaper's ticker fires, a dead socket is      *)
(* noticed on both sides (read deadline and ping; the client's own         *)
(* time-out), and the client keeps trying to connect.  Nothing forces an   *)
(* event, a request or a failure to happen.                                *)
(***************************************************************************)
Fairness ==
  /\ WF_vars(ClientNotices)
  /\ \A c \in Chains : /\ WF_vars(Connect(c))
                        /\ WF_vars(HubStep(c))
                        /\ WF_vars(PumpStep(c))
                        /\ WF_vars(PumpEnds(c) /\ ~Listening(c))

FairSpec == Spec /\ Fairness

-----------------------------------------------------------------------------

(* What the ring of a chain holds: exactly the last deadQueueSize events    *)
(* numbered since it was last cleared, in the slots their numbers           *)
(* determine.  isInDeadQueue, hasMsgLoss and drainDeadQueue take this for   *)
(* granted when they stop at an empty slot or compare neighbours            *)
(* (web_conn.go:550-635).                                                   *)
DeadQueueExact ==
  \A c \in Chains :
    HoldsLast(conn[c].deadQueue, conn[c].deadQueuePointer,
              NextSeq(conn[c].deadQueue, conn[c].deadQueuePointer))

(* A loss gives the WebConn a different connection ID, "and clear[s] dead   *)
(* queue" (web_conn.go:403-405): no event numbered under an earlier         *)
(* connection ID is left to be sent again under the new one.                *)
DeadQueueCleared ==
  \A c \in Chains, i \in Slots :
    conn[c].deadQueue[i] # Nil => conn[c].deadQueue[i].under = conn[c].connID

(* clearDeadQueue returns at the first empty slot without resetting the     *)
(* pointer (web_conn.go:590): that is harmless only if a loss is never      *)
(* declared on a ring that still has one.                                   *)
ClearsOnlyFull == \A c \in Chains : MustClear(c) => Full(conn[c].deadQueue)

(* Event e can still reach the client under the connection ID it holds.     *)
Deliverable(e) ==
  \E c \in Chains :
    /\ conn[c].connID = client.connID
    /\ \/ \E i \in 1 .. Len(conn[c].queue) : conn[c].queue[i].id = e
       \/ \E i \in Slots : /\ conn[c].deadQueue[i] # Nil
                            /\ conn[c].deadQueue[i].id = e
                            /\ conn[c].deadQueue[i].seq >= client.want

(* The client will be given a new connection ID, hence told of a loss: the  *)
(* one it holds names no chain it could resume or is served by, or one      *)
(* whose dead queue does not reach back to what it wants.                   *)
LossWillBeAnnounced ==
  \A c \in Chains : conn[c].connID = client.connID =>
    \/ ~Indexed(c) /\ conn[c].pump # "new"
    \/ client.want < NextSeq(conn[c].deadQueue, conn[c].deadQueuePointer)
       /\ IsInDeadQueue(conn[c].deadQueue, client.want) = {}

SilentlyLost(e) == /\ e \notin client.known
                   /\ ~Deliverable(e)
                   /\ ~LossWillBeAnnounced

(* Apart from the events the slow pump drops on purpose, an event published *)
(* while the client's chain is in the hub's index is never lost silently:   *)
(* the client knows it, or it is still on its way, or the client will be    *)
(* told, by a hello with another connection ID, that it missed something.   *)
NoSilentLoss ==
  \A e \in 1 .. published : e \notin Droppable \cup missed => ~SilentlyLost(e)

(* The same, of every event published, those published between checkConn    *)
(* and register (web_hub.go:436 and 456) included.                          *)
NoSilentLossEver ==
  \A e \in 1 .. published : e \notin Droppable => ~SilentlyLost(e)

(* Once the failures stop, the client catches up with every event that is   *)
(* not dropped on purpose and not published during a hand-over, as long as  *)
(* every event can be encoded.                                              *)
CatchesUp ==
  \A e \in 1 .. MaxEvents \ Droppable :
    e <= published ~> e \in client.known \cup missed \/ encodeErrors > 0

(* An event whose Encode fails is lost, but its sequence number is spent     *)
(* (web_conn.go:468): as long as the socket stays up, the next event makes   *)
(* the client notice, so that it connects anew and learns what it missed.    *)
(* (A reconnection in between takes the client's number for the sequence,    *)
(* and the hole is forgotten.)                                               *)
HoleNoticed ==
  \A e \in 1 .. MaxEvents \ Droppable, f \in 1 .. MaxEvents \ Droppable :
    e < f => (f <= published ~> \/ e \in client.known \cup missed
                                \/ f \in missed \/ breaks > 0)

(* What the client sees is the stream EventStream promises: each log in     *)
(* order, from its hello, without gap, repetition or entry of another log.  *)
Stream == INSTANCE EventStream WITH
            ConnIDs <- 1 .. MaxConnIDs,
            Entries <- 0 .. MaxEvents, epoch <- client.connID,
            pos <- client.want, last <- client.last

StreamSpec == Stream!Spec
=============================================================================
