----------------------------- MODULE RemoteSend -----------------------------
(***************************************************************************)
(* The send pool of the remote cluster service (services/remotecluster):   *)
(* callers put messages on the channel their remote is hashed to, one      *)
(* goroutine per channel sends them, and the service is paused and resumed *)
(* as the node ceases to be, and becomes, the leader of its cluster.       *)
(*                                                                         *)
(* The lock of the service is held throughout resume and pause and by      *)
(* nothing else of this module, so each of the two is one step.            *)
(***************************************************************************)
EXTENDS Integers, Sequences, FiniteSets

CONSTANTS Callers,         \* goroutines that each send one message
          RemoteClusters,
          Index,           \* Index[r]: the channel remote r is hashed to
          SendChanBuffer,
          Deadline,        \* callers whose context has a deadline
          Panics,          \* callers whose callback panics
          MaxTerms         \* bound: times the node becomes the leader

RemoteSendAssumption ==
  /\ SendChanBuffer \in Nat \ {0} /\ MaxTerms \in Nat
  /\ Deadline \subseteq Callers /\ Panics \subseteq Callers
  /\ DOMAIN Index = RemoteClusters /\ IsFiniteSet(RemoteClusters)

VARIABLES sendActive,
          terms,     \* how often a done channel has been made
          sendLoop,  \* sendLoop[<<g, i>>]: channel i's goroutine of resume g
          send,      \* send[i]: a buffered channel
          caller,    \* caller[c]: the remotes c has still to send to
          enqueued,  \* enqueued[r]: what was put on a channel for r, in order
          inbox,     \* inbox[r]: what has reached r, in order
          called,    \* called[t]: how often the callback of t was called
          up         \* whether the server runs

sendVars == <<sendActive, terms, sendLoop, send, caller, enqueued, inbox,
              called, up>>

Pool == {Index[r] : r \in RemoteClusters}

Loops == (1 .. MaxTerms) \X Pool

SendTask == Callers \X RemoteClusters  \* the message of a caller, to a remote

Lists == {s \in UNION {[1 .. n -> RemoteClusters] :
                         n \in 1 .. Cardinality(RemoteClusters)} :
            \A i, j \in DOMAIN s : s[i] = s[j] => i = j}

NoTask == <<>>

(* Everything is of its type, and no channel has more than its buffer holds. *)
SendTypeOK ==
  /\ sendActive \in BOOLEAN /\ up \in BOOLEAN /\ terms \in 0 .. MaxTerms
  /\ sendLoop \in [Loops -> [pc : {"none", "waiting", "sending", "arrived", "left"},
                             task : SendTask \cup {NoTask}]]
  /\ send \in [Pool -> Seq(SendTask)]
  /\ \A i \in Pool : Len(send[i]) <= SendChanBuffer
  /\ caller \in [Callers -> [pc : {"idle", "sending", "returned"},
                            todo : Seq(RemoteClusters), expired : BOOLEAN]]
  /\ \A c \in Callers : /\ caller[c].pc = "sending" <=> caller[c].todo # <<>>
                        /\ caller[c].expired => c \in Deadline
  /\ enqueued \in [RemoteClusters -> Seq(SendTask)]
  /\ inbox \in [RemoteClusters -> Seq(SendTask)]
  /\ called \in [SendTask -> Nat]

SendInit ==
  /\ sendActive = FALSE /\ terms = 0 /\ up = TRUE
  /\ sendLoop = [l \in Loops |-> [pc |-> "none", task |-> NoTask]]
  /\ send = [i \in Pool |-> <<>>]
  /\ caller = [c \in Callers |-> [pc |-> "idle", todo |-> <<>>, expired |-> FALSE]]
  /\ enqueued = [r \in RemoteClusters |-> <<>>]
  /\ inbox = [r \in RemoteClusters |-> <<>>]
  /\ called = [t \in SendTask |-> 0]

-----------------------------------------------------------------------------

(* Callers. *)

(* BroadcastMsg has the list of interested remotes; SendMsg has one of them. *)
BroadcastMsg(c) ==
  /\ caller[c].pc = "idle"
  /\ \E list \in Lists :
       caller' = [caller EXCEPT ![c].pc = "sending", ![c].todo = list]
  /\ UNCHANGED <<sendActive, terms, sendLoop, send, enqueued, inbox, called, up>>

NextRemote(c) == IF Len(caller[c].todo) = 1
            THEN [caller[c] EXCEPT !.pc = "returned", !.todo = <<>>]
            ELSE [caller[c] EXCEPT !.todo = Tail(@)]

(* enqueueTask: the channel takes the task, *)
Enqueue(c) ==
  LET r == Head(caller[c].todo)
      i == Index[r]
  IN /\ caller[c].pc = "sending"
     /\ Len(send[i]) < SendChanBuffer
     /\ send' = [send EXCEPT ![i] = Append(@, <<c, r>>)]
     /\ enqueued' = [enqueued EXCEPT ![r] = Append(@, <<c, r>>)]
     /\ caller' = [caller EXCEPT ![c] = NextRemote(c)]
     /\ UNCHANGED <<sendActive, terms, sendLoop, inbox, called, up>>

(* or the context is done, which it stays for the remotes that follow. *)
BufferFull(c) ==
  /\ caller[c].pc = "sending" /\ caller[c].expired
  /\ caller' = [caller EXCEPT ![c] = NextRemote(c)]
  /\ UNCHANGED <<sendActive, terms, sendLoop, send, enqueued, inbox, called, up>>

Expire(c) ==
  /\ caller[c].pc = "sending" /\ c \in Deadline /\ ~caller[c].expired
  /\ caller' = [caller EXCEPT ![c].expired = TRUE]
  /\ UNCHANGED <<sendActive, terms, sendLoop, send, enqueued, inbox, called, up>>

-----------------------------------------------------------------------------

(* sendLoop, sendMsg. *)

DoneClosed(l) == l[1] < terms \/ ~sendActive  \* the done channel l was given

Take(l) ==
  /\ sendLoop[l].pc = "waiting" /\ send[l[2]] # <<>>
  /\ sendLoop' = [sendLoop EXCEPT ![l] = [pc |-> "sending", task |-> Head(send[l[2]])]]
  /\ send' = [send EXCEPT ![l[2]] = Tail(@)]
  /\ UNCHANGED <<sendActive, terms, caller, enqueued, inbox, called, up>>

(* The request reaches the remote. *)
Arrive(l) ==
  /\ sendLoop[l].pc = "sending"
  /\ sendLoop' = [sendLoop EXCEPT ![l].pc = "arrived"]
  /\ LET t == sendLoop[l].task IN inbox' = [inbox EXCEPT ![t[2]] = Append(@, t)]
  /\ UNCHANGED <<sendActive, terms, send, caller, enqueued, called, up>>

(* The answer, an error or the timeout: the deferred function calls the     *)
(* callback, and nothing recovers from its panic.                           *)
Finish(l) ==
  /\ sendLoop[l].pc \in {"sending", "arrived"}
  /\ LET t == sendLoop[l].task
     IN /\ called' = [called EXCEPT ![t] = @ + 1]
        /\ up' = (t[1] \notin Panics)
  /\ sendLoop' = [sendLoop EXCEPT ![l] = [pc |-> "waiting", task |-> NoTask]]
  /\ UNCHANGED <<sendActive, terms, send, caller, enqueued, inbox>>

(* The loop waits for the service's done channel, which resume replaces,    *)
(* not for the one it was given.                                            *)
LoopLeavesSharedDone(l) ==
  /\ sendLoop[l].pc = "waiting" /\ ~sendActive
  /\ sendLoop' = [sendLoop EXCEPT ![l].pc = "left"]
  /\ UNCHANGED <<sendActive, terms, send, caller, enqueued, inbox, called, up>>

LoopLeaves(l) ==
  /\ sendLoop[l].pc = "waiting" /\ DoneClosed(l)
  /\ sendLoop' = [sendLoop EXCEPT ![l].pc = "left"]
  /\ UNCHANGED <<sendActive, terms, send, caller, enqueued, inbox, called, up>>

-----------------------------------------------------------------------------

(* resume and pause. *)

(* Two goroutines for each channel. *)
sendResumeTwoLoops ==
  /\ ~sendActive /\ terms < MaxTerms
  /\ sendActive' = TRUE
  /\ terms' = terms + 1
  /\ sendLoop' = [l \in Loops |-> IF l[1] <= terms' + 1 /\ sendLoop[l].pc = "none"
                                  THEN [sendLoop[l] EXCEPT !.pc = "waiting"]
                                  ELSE sendLoop[l]]
  /\ UNCHANGED <<send, caller, enqueued, inbox, called, up>>

sendResume ==
  /\ ~sendActive /\ terms < MaxTerms
  /\ sendActive' = TRUE
  /\ terms' = terms + 1
  /\ sendLoop' = [l \in Loops |-> IF l[1] = terms'
                                  THEN [sendLoop[l] EXCEPT !.pc = "waiting"]
                                  ELSE sendLoop[l]]
  /\ UNCHANGED <<send, caller, enqueued, inbox, called, up>>

sendPause ==
  /\ sendActive
  /\ sendActive' = FALSE
  /\ UNCHANGED <<terms, sendLoop, send, caller, enqueued, inbox, called, up>>

SendNext ==
  /\ up
  /\ \/ \E c \in Callers : BroadcastMsg(c) \/ Enqueue(c) \/ BufferFull(c) \/ Expire(c)
     \/ \E l \in Loops : Take(l) \/ Arrive(l) \/ Finish(l) \/ LoopLeaves(l)
     \/ sendResume \/ sendPause

SendSpec == SendInit /\ [][SendNext]_sendVars

(* A request ends within SendTimeout; a select with a ready case goes on;   *)
(* a deadline comes. Nothing makes the node the leader again.               *)
SendFairness ==
  /\ \A l \in Loops : /\ WF_sendVars(up /\ (Take(l) \/ LoopLeaves(l)))
                      /\ WF_sendVars(up /\ Finish(l))
                      /\ WF_sendVars(up /\ LoopLeaves(l))
  /\ \A c \in Callers : /\ WF_sendVars(up /\ (Enqueue(c) \/ BufferFull(c)))
                        /\ WF_sendVars(up /\ Expire(c))

SendFairSpec == SendSpec /\ SendFairness

-----------------------------------------------------------------------------

Count(s, t) == Cardinality({n \in DOMAIN s : s[n] = t})

(* Pausing and resuming neither loses nor repeats a message: one that was   *)
(* put on a channel is there, in the hands of one goroutine, or its         *)
(* callback has been called, once; and no other message is in any of these  *)
(* places, the ones refused with BufferFullError among them.                *)
Conserved ==
  \A t \in SendTask :
    Count(send[Index[t[2]]], t) + Cardinality({l \in Loops : sendLoop[l].task = t})
      + called[t] = Count(enqueued[t[2]], t)

(* Messages reach a remote in the order in which they were put on its       *)
(* channel: "preserving message order for each remote" (send.go). That is   *)
(* so until the node becomes the leader a second time.                      *)
OrderPreserved ==
  terms < 2 => \A r \in RemoteClusters : \A i, j \in DOMAIN inbox[r] :
    i < j => \E m, n \in DOMAIN enqueued[r] :
               m < n /\ enqueued[r][m] = inbox[r][i] /\ enqueued[r][n] = inbox[r][j]

(* What is put on a channel is delivered: once, and in order.               *)
Delivered == Conserved /\ OrderPreserved

(* A message on a channel is answered if the service is active in the end,  *)
(* whichever loop takes it.                                                 *)
QueuedAnswered ==
  <>[]sendActive => \A c \in Callers, r \in RemoteClusters :
    (\E n \in DOMAIN enqueued[r] : enqueued[r][n] = <<c, r>>) ~> (called[<<c, r>>] = 1)

(* The goroutines of a resume leave after its pause, whatever is resumed    *)
(* in the meantime.                                                         *)
LoopsLeave ==
  \A l \in Loops : (sendLoop[l].pc # "none" /\ DoneClosed(l)) ~> (sendLoop[l].pc = "left")

(* A caller with a deadline gets its answer, also when the service is       *)
(* paused with a full channel.                                              *)
DeadlineReturns ==
  \A c \in Deadline : (caller[c].pc = "sending") ~> (caller[c].pc = "returned")
=============================================================================
