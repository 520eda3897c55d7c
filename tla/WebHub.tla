------------------------------- MODULE WebHub -------------------------------
(***************************************************************************)
(* One websocket hub (app/web_hub.go), the goroutines of its connections   *)
(* (Pump, readPump and writePump of app/web_conn.go), the requests that    *)
(* make a connection (api4/websocket.go) and the authentication challenge  *)
(* (app/websocket_router.go).                                              *)
(*                                                                         *)
(* The hub is one goroutine; its loop bodies that range over connections   *)
(* are stepped through, because the pumps run meanwhile and because        *)
(* removing a connection rewrites the slice being ranged over.  What a     *)
(* message says is left out: a send channel is its length and whether it   *)
(* is open.  DeadQueue and WebConn model what the pumps send.              *)
(***************************************************************************)
EXTENDS HubIndex, FiniteSets

CONSTANTS NoUser,            \* the empty user ID of an anonymous connection
          sendQueueSize,     \* capacity of a send channel (256 in the code)
          MaxSessionErrors,  \* bound: sessions that IsAuthenticated drops
          ReAuthenticates    \* whether a client may send an authentication
                             \* challenge on a socket already authenticated

ASSUME WebHubAssumption ==
  /\ IsFiniteSet(Conns)
  /\ sendQueueSize \in Nat \ {0}
  /\ MaxSessionErrors \in Nat
  /\ ReAuthenticates \in BOOLEAN
  /\ NoUser \notin Users

VARIABLES conn,             \* conn[c]: a WebConn and its two pumps
          chan,             \* chan[k]: the send channel that k was made with
          index,            \* the hub's hubConnectionIndex
          hub,              \* where the hub's goroutine is
          stop,             \* Hub.stop is closed
          connectionCount,  \* Hub.connectionCount
          sessionErrors,    \* used part of the bound
          snapshot, served  \* history: the connections a broadcast to a user
                            \* ranges over, and those it has come to

vars == <<conn, chan, index, hub, stop, connectionCount, sessionErrors,
          snapshot, served>>

history == <<snapshot, served>>

Loop == [pc |-> "loop", cand |-> <<>>, i |-> 0, rest |-> {}, user |-> NoUser]

NoConn(c) == [pump |-> "none", writer |-> FALSE, sockOpen |-> FALSE,
              registering |-> FALSE, user |-> NoUser, token |-> FALSE,
              active |-> FALSE, reused |-> FALSE, connID |-> c, send |-> c]

ConnState == [pump : {"none", "new", "start", "run", "ending", "done"},
              writer : BOOLEAN, sockOpen : BOOLEAN, registering : BOOLEAN,
              user : Users \cup {NoUser}, token : BOOLEAN, active : BOOLEAN,
              reused : BOOLEAN, connID : Conns, send : Conns]

TypeOK ==
  /\ conn \in [Conns -> ConnState]
  /\ chan \in [Conns -> [open : BOOLEAN, len : 0 .. sendQueueSize]]
  /\ index \in [byUserId : [Users -> Seq(Conns)],
                byConnection : [Conns -> Nat \cup {Absent}]]
  /\ hub \in [pc : {"loop", "hello", "ranging", "rangingAll", "reaping",
                    "stopping", "stopped"},
              cand : Seq(Conns), i : Nat, rest : SUBSET Conns,
              user : Users \cup {NoUser}]
  /\ stop \in BOOLEAN
  /\ connectionCount \in Nat
  /\ sessionErrors \in 0 .. MaxSessionErrors
  /\ snapshot \in Seq(Conns) /\ served \in Seq(Conns)

Init ==
  /\ conn = [c \in Conns |-> NoConn(c)]
  /\ chan = [c \in Conns |-> [open |-> TRUE, len |-> 0]]
  /\ index = NewIndex
  /\ hub = Loop
  /\ stop = FALSE
  /\ connectionCount = 0
  /\ sessionErrors = 0
  /\ snapshot = <<>> /\ served = <<>>

UserOf == [c \in Conns |-> conn[c].user]

AllActive(cn, ix) == Cardinality({c \in All(ix) : cn[c].active})

-----------------------------------------------------------------------------

(* connectWebSocket. *)

(* A session without a user: the pumps start, and the client is expected to *)
(* send an authentication challenge.                                        *)
ConnectAnonymous(c) ==
  /\ conn[c].pump = "none"
  /\ conn' = [conn EXCEPT ![c].pump = "start", ![c].sockOpen = TRUE,
                          ![c].active = TRUE]
  /\ UNCHANGED <<chan, index, hub, stop, connectionCount, sessionErrors,
                 history>>

(* No connection ID, or one that checkConn does not find. *)
ConnectFresh(c, u) ==
  /\ conn[c].pump = "none"
  /\ conn' = [conn EXCEPT ![c].pump = "new", ![c].sockOpen = TRUE,
                          ![c].user = u, ![c].token = TRUE,
                          ![c].active = TRUE]
  /\ UNCHANGED <<chan, index, hub, stop, connectionCount, sessionErrors,
                 history>>

(* Mutant of Matches: an active connection is handed over too. *)
MatchesActive(d, id) == conn[d].connID = id

Matches(d, id) == conn[d].connID = id /\ ~conn[d].active

(* The hub's checkConn case finds an inactive connection d and gives its    *)
(* queues to the new WebConn.                                               *)
ConnectResume(c, u) ==
  /\ hub.pc = "loop"
  /\ conn[c].pump = "none"
  /\ \E i \in 1 .. Len(ForUser(index, u)) :
       LET d == ForUser(index, u)[i]
       IN  /\ Matches(d, conn[d].connID)
           /\ \A j \in 1 .. i - 1 :
                ~Matches(ForUser(index, u)[j], conn[d].connID)
           /\ index' = Remove(index, d, conn[d].user)
           /\ conn' = [conn EXCEPT
                         ![c].pump = "new", ![c].sockOpen = TRUE,
                         ![c].user = u, ![c].token = TRUE,
                         ![c].active = FALSE, ![c].reused = TRUE,
                         ![c].connID = conn[d].connID,
                         ![c].send = conn[d].send]
  /\ UNCHANGED <<chan, hub, stop, connectionCount, sessionErrors, history>>

-----------------------------------------------------------------------------

(* The pumps. *)

(* Pump starts both; the write pump of a reused connection that finds a     *)
(* loss takes a new connection ID.                                          *)
PumpStarts(c) ==
  /\ conn[c].pump = "start"
  /\ \E id \in IF conn[c].reused THEN {c, conn[c].connID}
                                 ELSE {conn[c].connID} :
       conn' = [conn EXCEPT ![c].pump = "run", ![c].writer = TRUE,
                            ![c].connID = id]
  /\ UNCHANGED <<chan, index, hub, stop, connectionCount, sessionErrors,
                 history>>

WriterReceives(c) ==
  /\ conn[c].writer /\ chan[conn[c].send].len > 0
  /\ chan' = [chan EXCEPT ![conn[c].send].len = @ - 1]
  /\ UNCHANGED <<conn, index, hub, stop, connectionCount, sessionErrors,
                 history>>

(* A write or a ping fails, the channel is closed and empty, the read pump  *)
(* has ended, or authTicker finds no token.                                 *)
WriterEnds(c) ==
  /\ conn[c].writer
  /\ conn' = [conn EXCEPT ![c].writer = FALSE, ![c].sockOpen = FALSE]
  /\ UNCHANGED <<chan, index, hub, stop, connectionCount, sessionErrors,
                 history>>

(* A read fails; not while the read pump is in HubRegister. *)
ReaderEnds(c) ==
  /\ conn[c].pump = "run" /\ ~conn[c].registering
  /\ conn' = [conn EXCEPT ![c].pump = "ending", ![c].sockOpen = FALSE]
  /\ UNCHANGED <<chan, index, hub, stop, connectionCount, sessionErrors,
                 history>>

(* The authentication challenge: ignored when there is a session token,     *)
(* otherwise the read pump goes on to HubRegister.  A client sends it once, *)
(* when its socket opens, or, with ReAuthenticates, again after an error.   *)
Authenticate(c, u) ==
  /\ conn[c].pump = "run" /\ ~conn[c].registering
  /\ ~conn[c].token
  /\ conn[c].user = NoUser \/ ReAuthenticates
  /\ conn' = [conn EXCEPT ![c].user = u, ![c].token = TRUE,
                          ![c].registering = TRUE]
  /\ UNCHANGED <<chan, index, hub, stop, connectionCount, sessionErrors,
                 history>>

(* IsAuthenticated, called for a pong, a request or an event, cannot get    *)
(* the session and drops the token.                                         *)
DropsSession == /\ sessionErrors < MaxSessionErrors
                /\ sessionErrors' = sessionErrors + 1

SessionError(c) ==
  /\ conn[c].pump \notin {"none", "new"} /\ ~conn[c].registering
  /\ conn[c].token
  /\ DropsSession
  /\ conn' = [conn EXCEPT ![c].token = FALSE]
  /\ UNCHANGED <<chan, index, hub, stop, connectionCount, history>>

-----------------------------------------------------------------------------

(* The hub's loop. *)

(* Hub.Register returns: connectWebSocket or the read pump goes on. *)
Registered(cn) ==
  [cn EXCEPT !.pump = IF @ = "new" THEN "start" ELSE @, !.registering = FALSE]

WantsRegister(c) == conn[c].pump = "new" \/ conn[c].registering

(* The register case.  The caller goes on while the hub sends the hello,    *)
(* unless IsAuthenticated fails.                                            *)
Register(c) ==
  /\ hub.pc = "loop"
  /\ WantsRegister(c)
  /\ \E authenticated \in BOOLEAN :
       /\ IF authenticated THEN UNCHANGED sessionErrors ELSE DropsSession
       /\ conn' = [conn EXCEPT ![c] = [Registered(@) EXCEPT
                                         !.active = TRUE,
                                         !.token = authenticated]]
       /\ hub' = IF authenticated /\ ~conn[c].reused
                   THEN [Loop EXCEPT !.pc = "hello", !.rest = {c}] ELSE Loop
  /\ index' = Add(index, c, conn[c].user)
  /\ connectionCount' = AllActive(conn', index')
  /\ UNCHANGED <<chan, stop, history>>

(* A panic of the loop: doRecover starts it again with an empty index. *)
Recovered == /\ index' = NewIndex
             /\ hub' = Loop
             /\ UNCHANGED chan

(* The hello is sent with a plain send: it waits for room. *)
SendHello(c) ==
  /\ hub.pc = "hello" /\ c \in hub.rest
  /\ IF chan[conn[c].send].open
       THEN /\ chan[conn[c].send].len < sendQueueSize
            /\ chan' = [chan EXCEPT ![conn[c].send].len = @ + 1]
            /\ hub' = Loop
            /\ UNCHANGED index
       ELSE Recovered
  /\ UNCHANGED <<conn, stop, connectionCount, sessionErrors, history>>

(* Mutant of Unregister: active is not reset. *)
UnregisterStaysActive(c) ==
  /\ hub.pc = "loop"
  /\ conn[c].pump = "ending" /\ ~conn[c].writer
  /\ conn' = [conn EXCEPT ![c].pump = "done"]
  /\ connectionCount' = AllActive(conn', index)
  /\ UNCHANGED <<chan, index, hub, stop, sessionErrors, history>>

(* Mutant of Unregister: the count is taken before active is reset. *)
UnregisterCountsFirst(c) ==
  /\ hub.pc = "loop"
  /\ conn[c].pump = "ending" /\ ~conn[c].writer
  /\ conn' = [conn EXCEPT ![c].active = FALSE, ![c].pump = "done"]
  /\ connectionCount' = AllActive(conn, index)
  /\ UNCHANGED <<chan, index, hub, stop, sessionErrors, history>>

(* The unregister case, and Pump's end (pumpFinished is closed). *)
Unregister(c) ==
  /\ hub.pc = "loop"
  /\ conn[c].pump = "ending" /\ ~conn[c].writer
  /\ conn' = [conn EXCEPT ![c].active = FALSE, ![c].pump = "done"]
  /\ connectionCount' = AllActive(conn', index)
  /\ UNCHANGED <<chan, index, hub, stop, sessionErrors, history>>

(* Mutant of Closed: a full channel is closed but its connection stays. *)
ClosedKept(c, after) ==
  /\ chan' = [chan EXCEPT ![conn[c].send].open = FALSE]
  /\ index' = index
  /\ hub' = after

(* The channel is full: it is closed and the connection removed.  A loop    *)
(* over the user's connections ranges over the slice that Remove rewrites.  *)
Closed(c, after) ==
  /\ chan' = [chan EXCEPT ![conn[c].send].open = FALSE]
  /\ index' = Remove(index, c, conn[c].user)
  /\ hub' = IF after.pc = "ranging" /\ after.user = conn[c].user
              THEN [after EXCEPT !.cand = Aliased(@, index, c, conn[c].user)]
              ELSE after

(* Mutant of Offer: the channel is not looked at before the send. *)
OfferUnchecked(c, after) ==
  /\ chan' = [chan EXCEPT ![conn[c].send].len = @ + 1]
  /\ hub' = after
  /\ UNCHANGED index

(* A send that never blocks, from the directMsg and broadcast cases. *)
Offer(c, after) ==
  LET ch == chan[conn[c].send]
  IN  IF ~ch.open \/ (ch.len = sendQueueSize
                        /\ RemovePanics(index, c, conn[c].user))
        THEN Recovered
        ELSE IF ch.len = sendQueueSize
               THEN Closed(c, after)
               ELSE /\ chan' = [chan EXCEPT ![conn[c].send].len = @ + 1]
                    /\ hub' = after
                    /\ UNCHANGED index

DirectMsg(c) ==
  /\ hub.pc = "loop"
  /\ conn[c].pump = "run" /\ ~conn[c].registering
  /\ Has(index, c)
  /\ Offer(c, Loop)
  /\ UNCHANGED <<conn, stop, connectionCount, sessionErrors, history>>

(* broadcast(webConn): shouldSendEvent decides, never for a connection that *)
(* is not authenticated.                                                    *)
BroadcastTo(c, after) ==
  \/ Has(index, c) /\ conn[c].token /\ Offer(c, after)
  \/ hub' = after /\ UNCHANGED <<chan, index>>

BroadcastUser(u) ==
  /\ hub.pc = "loop"
  /\ ForUser(index, u) # <<>>
  /\ hub' = [Loop EXCEPT !.pc = "ranging", !.cand = ForUser(index, u),
                         !.user = u]
  /\ snapshot' = ForUser(index, u) /\ served' = <<>>
  /\ UNCHANGED <<conn, chan, index, stop, connectionCount, sessionErrors>>

RangeStep ==
  /\ hub.pc = "ranging" /\ hub.i < Len(hub.cand)
  /\ served' = Append(served, hub.cand[hub.i + 1])
  /\ BroadcastTo(hub.cand[hub.i + 1], [hub EXCEPT !.i = @ + 1])
  /\ UNCHANGED <<conn, stop, connectionCount, sessionErrors, snapshot>>

RangeEnds ==
  /\ hub.pc = "ranging" /\ hub.i = Len(hub.cand)
  /\ hub' = Loop
  /\ snapshot' = <<>> /\ served' = <<>>
  /\ UNCHANGED <<conn, chan, index, stop, connectionCount, sessionErrors>>

(* The loops over the byConnection map, in any order: a broadcast to        *)
(* everyone, and the reaper's over the connections that are stale.          *)

After(c, pc) == IF hub.rest = {c} THEN Loop
                ELSE [Loop EXCEPT !.pc = pc, !.rest = hub.rest \ {c}]

BroadcastAll ==
  /\ hub.pc = "loop"
  /\ All(index) # {}
  /\ hub' = [Loop EXCEPT !.pc = "rangingAll", !.rest = All(index)]
  /\ UNCHANGED <<conn, chan, index, stop, connectionCount, sessionErrors,
                 history>>

RangeAllStep(c) ==
  /\ hub.pc = "rangingAll" /\ c \in hub.rest
  /\ BroadcastTo(c, After(c, "rangingAll"))
  /\ UNCHANGED <<conn, stop, connectionCount, sessionErrors, history>>

RemoveInactiveConnections ==
  /\ hub.pc = "loop"
  /\ \E S \in SUBSET {c \in All(index) : ~conn[c].active} \ {{}} :
       hub' = [Loop EXCEPT !.pc = "reaping", !.rest = S]
  /\ UNCHANGED <<conn, chan, index, stop, connectionCount, sessionErrors,
                 history>>

ReapStep(c) ==
  /\ hub.pc = "reaping" /\ c \in hub.rest
  /\ IF RemovePanics(index, c, conn[c].user)
       THEN Recovered
       ELSE /\ index' = Remove(index, c, conn[c].user)
            /\ hub' = After(c, "reaping")
            /\ UNCHANGED chan
  /\ UNCHANGED <<conn, stop, connectionCount, sessionErrors, history>>

-----------------------------------------------------------------------------

(* Hub.Stop: from then on every call to the hub may return at once. *)

Stop ==
  /\ ~stop
  /\ stop' = TRUE
  /\ UNCHANGED <<conn, chan, index, hub, connectionCount, sessionErrors,
                 history>>

RegisterStopped(c) ==
  /\ stop /\ WantsRegister(c)
  /\ conn' = [conn EXCEPT ![c] = Registered(@)]
  /\ UNCHANGED <<chan, index, hub, stop, connectionCount, sessionErrors,
                 history>>

(* Mutant of UnregisterStopped: Unregister does not look at stop. *)
UnregisterWaits(c) ==
  /\ FALSE
  /\ UNCHANGED vars

UnregisterStopped(c) ==
  /\ stop
  /\ conn[c].pump = "ending" /\ ~conn[c].writer
  /\ conn' = [conn EXCEPT ![c].pump = "done"]
  /\ UNCHANGED <<chan, index, hub, stop, connectionCount, sessionErrors,
                 history>>

(* The stop case closes the connections of the index one by one, each time  *)
(* waiting for its pumps to end.                                            *)
HubStops ==
  /\ hub.pc = "loop" /\ stop
  /\ hub' = [Loop EXCEPT !.pc = "stopping", !.rest = All(index)]
  /\ UNCHANGED <<conn, chan, index, stop, connectionCount, sessionErrors,
                 history>>

CloseConn(c) ==
  /\ hub.pc = "stopping" /\ hub.cand = <<>> /\ c \in hub.rest
  /\ conn' = [conn EXCEPT ![c].sockOpen = FALSE]
  /\ hub' = [hub EXCEPT !.cand = <<c>>]
  /\ UNCHANGED <<chan, index, stop, connectionCount, sessionErrors, history>>

PumpFinished(c) ==
  /\ hub.pc = "stopping" /\ hub.cand = <<c>> /\ conn[c].pump = "done"
  /\ hub' = [hub EXCEPT !.cand = <<>>, !.rest = @ \ {c}]
  /\ UNCHANGED <<conn, chan, index, stop, connectionCount, sessionErrors,
                 history>>

DidStop ==
  /\ hub.pc = "stopping" /\ hub.rest = {}
  /\ hub' = [Loop EXCEPT !.pc = "stopped"]
  /\ UNCHANGED <<conn, chan, index, stop, connectionCount, sessionErrors,
                 history>>

-----------------------------------------------------------------------------

ConnStep(c) ==
  \/ ConnectAnonymous(c) \/ \E u \in Users : ConnectFresh(c, u)
  \/ \E u \in Users : ConnectResume(c, u) \/ Authenticate(c, u)
  \/ PumpStarts(c) \/ WriterReceives(c) \/ WriterEnds(c) \/ ReaderEnds(c)
  \/ SessionError(c) \/ RegisterStopped(c) \/ UnregisterStopped(c)

HubCase(c) == Register(c) \/ Unregister(c) \/ DirectMsg(c)

(* What the hub's goroutine does inside a case. *)
HubBody == \/ RangeStep \/ RangeEnds
           \/ \E c \in Conns : \/ SendHello(c) \/ RangeAllStep(c) \/ ReapStep(c)
                               \/ CloseConn(c) \/ PumpFinished(c)
           \/ DidStop

Next == \/ \E c \in Conns : ConnStep(c) \/ HubCase(c)
        \/ \E u \in Users : BroadcastUser(u)
        \/ BroadcastAll \/ RemoveInactiveConnections
        \/ Stop \/ HubStops
        \/ HubBody

Spec == Init /\ [][Next]_vars

(***************************************************************************)
(* Every goroutine goes on; Go's select picks at random among the cases    *)
(* that are ready, so that one that is ready again and again is picked     *)
(* (strong fairness).  A closed socket makes the next read fail, and the   *)
(* next ping at the latest makes a write fail.                             *)
(***************************************************************************)
Fairness ==
  /\ WF_vars(HubBody)
  /\ SF_vars(HubStops)
  /\ \A c \in Conns :
       /\ SF_vars(Register(c)) /\ SF_vars(Unregister(c))
       /\ WF_vars(PumpStarts(c))
       /\ WF_vars(ReaderEnds(c) /\ ~conn[c].sockOpen)
       /\ WF_vars(WriterEnds(c) /\ ~conn[c].sockOpen)
       /\ WF_vars(RegisterStopped(c)) /\ WF_vars(UnregisterStopped(c))

FairSpec == Spec /\ Fairness

-----------------------------------------------------------------------------

(* "byConnection serves the dual purpose of storing the index of the        *)
(* webconn in the value of byUserId map, and also to get all connections"   *)
(* (web_hub.go:597): after every swap-remove, in whatever loop, the two     *)
(* maps hold the same connections and the positions recorded are right.     *)
IndexAgrees == Agrees(index, UserOf)

(* A broadcast to a user comes to each of the user's connections once and   *)
(* in order, although Remove rewrites the slice it is ranging over          *)
(* (web_hub.go:543 and 629).                                                *)
EachServedOnce ==
  hub.pc = "ranging" => served = SubSeq(snapshot, 1, hub.i)

(* The hub never sends on, nor closes, a closed channel (web_hub.go:517,    *)
(* 520, 534, 537): that would panic, and the restarted loop would have lost *)
(* every connection.                                                        *)
IndexedAreOpen == \A c \in All(index) : chan[conn[c].send].open

(* The send channel and the dead queue have one owner at a time: the WebConn *)
(* that checkConn takes them from has no write pump left (web_hub.go:436).  *)
Owns(c) == conn[c].pump \in {"new", "start"} \/ conn[c].writer

OneWriter == \A c, d \in Conns :
               Owns(c) /\ Owns(d) /\ conn[c].send = conn[d].send => c = d

(* connectionCount is taken only on register and unregister, and a          *)
(* connection whose channel is closed because it is full leaves the index   *)
(* without being counted out (web_hub.go:457, 471, 538): the count is right *)
(* whenever no active connection has a closed channel, that is, once the    *)
(* pumps of the closed ones have unregistered them.                         *)
CountSettles ==
  (\A c \in Conns : conn[c].active => chan[conn[c].send].open)
    => connectionCount = AllActive(conn, index)

(* Hub.Stop returns: the hub, closing its connections one by one and        *)
(* waiting for their pumps, is never waited for by one of them (web_hub.go: *)
(* 310 and 554).                                                            *)
StopReturns == stop ~> hub.pc = "stopped"

(* A connection whose socket is gone does not stay active: its pumps end    *)
(* and the hub marks it, so that it can be resumed or reaped.               *)
DeadGoesInactive ==
  \A c \in Conns : conn[c].active /\ ~conn[c].sockOpen
                     ~> ~conn[c].active \/ stop
=============================================================================
