---------------------------- MODULE ClusterProofs ---------------------------
(***************************************************************************)
(* Proofs about RemoteSend, for any number of callers, remotes and terms,  *)
(* about UserStatus, for any number of calls and connections, and about    *)
(* what the nodes of a cluster share, put together (MCCluster).            *)
(***************************************************************************)
EXTENDS MCCluster, JobServerProofs, SharedChannelSyncProofs

(* A goroutine has a message in hand while it sends it, of its channel; the *)
(* goroutines of a term to come have not begun.                             *)
SendHands ==
  \A l \in Loops :
    /\ sendLoop[l].task # NoTask <=> sendLoop[l].pc \in {"sending", "arrived"}
    /\ sendLoop[l].task # NoTask => Index[sendLoop[l].task[2]] = l[2]
    /\ l[1] > terms => sendLoop[l].pc = "none"

(* A message is on the channel of its remote. *)
SendQueues ==
  \A i \in Pool : \A n \in DOMAIN send[i] : Index[send[i][n][2]] = i

SendInv == SendTypeOK /\ SendHands /\ SendQueues

-----------------------------------------------------------------------------

(* How often a message is in a sequence. *)

LEMMA CountNat ==
  ASSUME NEW S, NEW s \in Seq(S), NEW t
  PROVE  /\ Count(s, t) \in Nat /\ IsFiniteSet({n \in DOMAIN s : s[n] = t})
<1>1. DOMAIN s = 1 .. Len(s) /\ Len(s) \in Nat
  OBVIOUS
<1>2. IsFiniteSet(DOMAIN s)
  BY <1>1, FS_Interval
<1>3. {n \in DOMAIN s : s[n] = t} \in SUBSET DOMAIN s
  OBVIOUS
<1> QED  BY <1>2, <1>3, FS_Subset, FS_CardinalityType DEF Count

LEMMA CountAppend ==
  ASSUME NEW S, NEW s \in Seq(S), NEW x \in S, NEW t
  PROVE  Count(Append(s, x), t) = IF x = t THEN Count(s, t) + 1 ELSE Count(s, t)
<1> DEFINE A == {n \in DOMAIN s : s[n] = t}
           B == {n \in DOMAIN Append(s, x) : Append(s, x)[n] = t}
<1>1. IsFiniteSet(A)
  BY CountNat
<1>2. Len(s) + 1 \notin A
  OBVIOUS
<1>3. CASE x = t
  <2>1. B = A \cup {Len(s) + 1}
    BY <1>3
  <2> QED  BY <1>1, <1>2, <1>3, <2>1, FS_AddElement DEF Count
<1>4. CASE x # t
  <2>1. B = A
    BY <1>4
  <2> QED  BY <1>4, <2>1 DEF Count
<1> QED  BY <1>3, <1>4

LEMMA CountTail ==
  ASSUME NEW S, NEW s \in Seq(S), s # <<>>, NEW t
  PROVE  Count(s, t) = IF Head(s) = t THEN Count(Tail(s), t) + 1 ELSE Count(Tail(s), t)
<1> DEFINE A == {n \in DOMAIN Tail(s) : Tail(s)[n] = t}
           B == {n \in DOMAIN s : s[n] = t}
           f == [n \in A |-> n + 1]
<1>1. Tail(s) \in Seq(S)
  OBVIOUS
<1>2. IsFiniteSet(A) /\ IsFiniteSet(B)
  BY <1>1, CountNat
<1>3. DOMAIN Tail(s) = 1 .. Len(s) - 1 /\ DOMAIN s = 1 .. Len(s) /\ Len(s) \in Nat \ {0}
  OBVIOUS
<1>4. \A n \in DOMAIN Tail(s) : Tail(s)[n] = s[n + 1]
  OBVIOUS
<1>5. f \in Bijection(A, B \ {1})
  <2>1. f \in [A -> B \ {1}]
    BY <1>3, <1>4
  <2>2. \A m, n \in A : f[m] = f[n] => m = n
    BY <1>3
  <2>3. ASSUME NEW k \in B \ {1} PROVE \E n \in A : f[n] = k
    <3>1. k - 1 \in A
      BY <1>3, <1>4
    <3> QED  BY <1>3, <3>1
  <2> QED  BY <2>1, <2>2, <2>3 DEF Bijection, Injection, Surjection, IsInjective
<1>6. Cardinality(B \ {1}) = Cardinality(A)
  <2>1. ExistsBijection(A, B \ {1})
    BY <1>5 DEF ExistsBijection
  <2> HIDE DEF A, B
  <2> QED  BY <1>2, <2>1, FS_Bijection
<1>7. 1 \in B <=> Head(s) = t
  BY <1>3
<1>8. Cardinality(B \ {1}) = IF 1 \in B THEN Cardinality(B) - 1 ELSE Cardinality(B)
  BY <1>2, FS_RemoveElement
<1>9. Cardinality(A) \in Nat /\ Cardinality(B) \in Nat
  BY <1>2, FS_CardinalityType
<1> HIDE DEF A, B
<1>10. Cardinality(B) = IF Head(s) = t THEN Cardinality(A) + 1 ELSE Cardinality(A)
  BY <1>6, <1>7, <1>8, <1>9
<1> QED  BY <1>10 DEF Count, A, B

-----------------------------------------------------------------------------

LEMMA LoopsFinite ==
  ASSUME RemoteSendAssumption
  PROVE  IsFiniteSet(Loops)
<1> DEFINE f == [r \in RemoteClusters |-> Index[r]]
<1>1. f \in Surjection(RemoteClusters, Pool)
  BY DEF Surjection, Pool
<1>2. IsFiniteSet(Pool)
  BY <1>1, FS_Surjection DEF RemoteSendAssumption
<1>3. IsFiniteSet(1 .. MaxTerms)
  BY FS_Interval DEF RemoteSendAssumption
<1> QED  BY <1>2, <1>3, FS_Product DEF Loops

LEMMA SendTaskFacts ==
  /\ NoTask \notin SendTask
  /\ \A t \in SendTask : t[1] \in Callers /\ t[2] \in RemoteClusters /\ Index[t[2]] \in Pool
  BY DEF NoTask, SendTask, Pool

LoopRec == [pc : {"none", "waiting", "sending", "arrived", "left"},
            task : SendTask \cup {NoTask}]

CallerRec == [pc : {"idle", "sending", "returned"}, todo : Seq(RemoteClusters),
              expired : BOOLEAN]

CallersOK ==
  \A c \in Callers : /\ caller[c].pc = "sending" <=> caller[c].todo # <<>>
                     /\ caller[c].expired => c \in Deadline

LEMMA SendInitInv ==
  ASSUME RemoteSendAssumption, SendInit
  PROVE  SendInv
<1>1. terms \in 0 .. MaxTerms /\ \A i \in Pool : Len(send[i]) <= SendChanBuffer
  BY DEF RemoteSendAssumption, SendInit
<1>2. sendActive \in BOOLEAN /\ up \in BOOLEAN
  BY DEF SendInit
<1>3. sendLoop \in [Loops -> LoopRec] /\ send \in [Pool -> Seq(SendTask)]
  BY DEF SendInit, LoopRec
<1>4. caller \in [Callers -> CallerRec] /\ CallersOK
  BY DEF SendInit, CallerRec, CallersOK
<1>5. /\ enqueued \in [RemoteClusters -> Seq(SendTask)]
      /\ inbox \in [RemoteClusters -> Seq(SendTask)] /\ called \in [SendTask -> Nat]
  BY DEF SendInit
<1>6. SendTypeOK
  BY <1>1, <1>2, <1>3, <1>4, <1>5 DEF SendTypeOK, LoopRec, CallerRec, CallersOK
<1>7. SendHands /\ SendQueues
  BY DEF SendInit, SendHands, SendQueues
<1> QED  BY <1>6, <1>7 DEF SendInv

(* A caller goes on: the state of the callers stays of its type. *)
LEMMA CallerSet ==
  ASSUME SendTypeOK, NEW c \in Callers, NEW d \in CallerRec,
         d.pc = "sending" <=> d.todo # <<>>, d.expired => c \in Deadline,
         caller' = [caller EXCEPT ![c] = d]
  PROVE  caller' \in [Callers -> CallerRec] /\ CallersOK'
<1>1. caller \in [Callers -> CallerRec] /\ CallersOK
  BY DEF SendTypeOK, CallerRec, CallersOK
<1> QED  BY <1>1 DEF CallersOK

LEMMA NextRemoteFacts ==
  ASSUME SendTypeOK, NEW c \in Callers, caller[c].pc = "sending"
  PROVE  /\ NextRemote(c) \in CallerRec /\ NextRemote(c).expired = caller[c].expired
         /\ NextRemote(c).pc = "sending" <=> NextRemote(c).todo # <<>>
         /\ Head(caller[c].todo) \in RemoteClusters
<1>1. caller[c] \in CallerRec /\ caller[c].todo # <<>>
  BY DEF SendTypeOK, CallerRec
<1>2. caller[c].todo \in Seq(RemoteClusters)
  BY <1>1 DEF CallerRec
<1> DEFINE q == caller[c].todo
<1> HIDE DEF q
<1>3. /\ Tail(q) \in Seq(RemoteClusters) /\ Head(q) \in RemoteClusters
      /\ Len(q) \in Nat /\ Len(Tail(q)) = Len(q) - 1 /\ Len(q) # 0
  BY <1>1, <1>2 DEF q
<1>4. Len(q) # 1 => Tail(q) # <<>>
  <2>1. Len(<<>>) = 0
    OBVIOUS
  <2>2. Len(q) # 1 => Len(Tail(q)) # 0
    BY <1>3
  <2> QED  BY <2>1, <2>2
<1>5. CASE Len(q) = 1
  <2>1. NextRemote(c) = [caller[c] EXCEPT !.pc = "returned", !.todo = <<>>]
    BY <1>5 DEF NextRemote, q
  <2>2. <<>> \in Seq(RemoteClusters)
    OBVIOUS
  <2> QED  BY <1>1, <1>3, <2>1, <2>2 DEF CallerRec, q
<1>6. CASE Len(q) # 1
  <2>1. NextRemote(c) = [caller[c] EXCEPT !.todo = Tail(q)]
    BY <1>1, <1>6 DEF NextRemote, q, CallerRec
  <2>2. NextRemote(c).todo = Tail(q) /\ NextRemote(c).pc = "sending"
    BY <1>1, <2>1 DEF CallerRec
  <2> QED  BY <1>1, <1>3, <1>4, <1>6, <2>1, <2>2 DEF CallerRec, q
<1> QED  BY <1>5, <1>6

(* Steps of a caller that leave the channels and the goroutines alone. *)
LEMMA CallerInv ==
  ASSUME SendInv, caller' \in [Callers -> CallerRec], CallersOK',
         UNCHANGED <<sendActive, terms, sendLoop, send, enqueued, inbox, called, up>>
  PROVE  SendInv'
<1>1. SendTypeOK'
  BY DEF SendInv, SendTypeOK, CallerRec, CallersOK
<1>2. SendHands' /\ SendQueues'
  BY DEF SendInv, SendHands, SendQueues
<1> QED  BY <1>1, <1>2 DEF SendInv

LEMMA BroadcastMsgInv ==
  ASSUME RemoteSendAssumption, SendInv, NEW c \in Callers, BroadcastMsg(c)
  PROVE  SendInv'
<1>1. PICK list \in Lists :
        caller' = [caller EXCEPT ![c].pc = "sending", ![c].todo = list]
  BY DEF BroadcastMsg
<1> DEFINE d == [caller[c] EXCEPT !.pc = "sending", !.todo = list]
<1>2. caller[c] \in CallerRec /\ caller \in [Callers -> CallerRec] /\ SendTypeOK
  BY DEF SendInv, SendTypeOK, CallerRec
<1>3. list \in Seq(RemoteClusters) /\ list # <<>>
  <2>1. Cardinality(RemoteClusters) \in Nat
    BY FS_CardinalityType DEF RemoteSendAssumption
  <2>2. PICK n \in 1 .. Cardinality(RemoteClusters) : list \in [1 .. n -> RemoteClusters]
    BY DEF Lists
  <2>3. list \in Seq(RemoteClusters) /\ Len(list) = n
    BY <2>1, <2>2
  <2> QED  BY <2>1, <2>2, <2>3
<1>4. d \in CallerRec /\ d.pc = "sending" /\ d.todo = list /\ d.expired = caller[c].expired
  BY <1>2, <1>3 DEF CallerRec
<1>5. caller' = [caller EXCEPT ![c] = d]
  BY <1>1, <1>2 DEF CallerRec
<1>6. d.expired => c \in Deadline
  BY <1>2, <1>4 DEF SendTypeOK
<1> HIDE DEF d
<1>7. caller' \in [Callers -> CallerRec] /\ CallersOK'
  BY <1>2, <1>3, <1>4, <1>5, <1>6, CallerSet
<1> QED  BY <1>7, CallerInv DEF BroadcastMsg

(* The remote that comes next on the list of c. *)
Target(c) == Head(caller[c].todo)

LEMMA EnqueueFacts ==
  ASSUME SendInv, NEW c \in Callers, Enqueue(c)
  PROVE  /\ Target(c) \in RemoteClusters /\ Index[Target(c)] \in Pool
         /\ <<c, Target(c)>> \in SendTask
         /\ send' = [send EXCEPT ![Index[Target(c)]] = Append(@, <<c, Target(c)>>)]
         /\ enqueued' = [enqueued EXCEPT ![Target(c)] = Append(@, <<c, Target(c)>>)]
         /\ Len(send[Index[Target(c)]]) < SendChanBuffer
         /\ caller' \in [Callers -> CallerRec] /\ CallersOK'
         /\ UNCHANGED <<sendActive, terms, sendLoop, inbox, called, up>>
<1>1. SendTypeOK /\ caller[c].pc = "sending"
  BY DEF SendInv, Enqueue
<1>2. Target(c) \in RemoteClusters
  BY <1>1, NextRemoteFacts DEF Target
<1>3. Index[Target(c)] \in Pool /\ <<c, Target(c)>> \in SendTask
  BY <1>2 DEF Pool, SendTask
<1>4. NextRemote(c).expired => c \in Deadline
  <2>1. NextRemote(c).expired = caller[c].expired
    BY <1>1, NextRemoteFacts, Zenon
  <2>2. caller[c].expired => c \in Deadline
    BY <1>1, Zenon DEF SendTypeOK
  <2> QED  BY <2>1, <2>2
<1>5. caller' \in [Callers -> CallerRec] /\ CallersOK'
  BY <1>1, <1>4, NextRemoteFacts, CallerSet DEF Enqueue
<1> QED  BY <1>2, <1>3, <1>5 DEF Enqueue, Target

LEMMA EnqueueInv ==
  ASSUME RemoteSendAssumption, SendInv, NEW c \in Callers, Enqueue(c)
  PROVE  SendInv'
<1> DEFINE r == Target(c)
           i == Index[r]
           x == <<c, r>>
<1>1. /\ r \in RemoteClusters /\ i \in Pool /\ x \in SendTask /\ x[2] = r
      /\ send' = [send EXCEPT ![i] = Append(@, x)]
      /\ enqueued' = [enqueued EXCEPT ![r] = Append(@, x)]
      /\ Len(send[i]) < SendChanBuffer
      /\ caller' \in [Callers -> CallerRec] /\ CallersOK'
      /\ UNCHANGED <<sendActive, terms, sendLoop, inbox, called, up>>
  BY EnqueueFacts
<1>2. SendTypeOK /\ SendHands /\ SendQueues
  BY DEF SendInv
<1> HIDE DEF r, x
<1>3. /\ send[i] \in Seq(SendTask) /\ Append(send[i], x) \in Seq(SendTask)
      /\ Len(Append(send[i], x)) = Len(send[i]) + 1 /\ Len(send[i]) \in Nat
      /\ enqueued[r] \in Seq(SendTask) /\ Append(enqueued[r], x) \in Seq(SendTask)
  BY <1>1, <1>2 DEF SendTypeOK
<1>4. send' \in [Pool -> Seq(SendTask)] /\ enqueued' \in [RemoteClusters -> Seq(SendTask)]
  BY <1>1, <1>2, <1>3 DEF SendTypeOK
<1>5. \A j \in Pool : Len(send'[j]) <= SendChanBuffer
  BY <1>1, <1>2, <1>3 DEF SendTypeOK, RemoteSendAssumption
<1>6. SendTypeOK'
  BY <1>1, <1>2, <1>4, <1>5 DEF SendTypeOK, CallerRec, CallersOK
<1>7. SendQueues'
  <2>1. SUFFICES ASSUME NEW j \in Pool, NEW n \in DOMAIN send'[j]
                 PROVE  Index[send'[j][n][2]] = j
    BY DEF SendQueues
  <2>2. CASE j # i
    BY <1>1, <1>2, <2>1, <2>2 DEF SendQueues, SendTypeOK
  <2>3. CASE j = i
    <3>1. send'[j] = Append(send[i], x)
      BY <1>1, <1>2, <2>3 DEF SendTypeOK
    <3>2. (n \in DOMAIN send[i] /\ send'[j][n] = send[i][n]) \/ send'[j][n] = x
      BY <1>3, <2>1, <3>1
    <3> QED  BY <1>1, <1>2, <2>3, <3>2 DEF SendQueues
  <2> QED  BY <2>2, <2>3
<1>8. SendHands'
  BY <1>1, <1>2 DEF SendHands
<1> QED  BY <1>6, <1>7, <1>8 DEF SendInv

LEMMA BufferFullInv ==
  ASSUME SendInv, NEW c \in Callers, BufferFull(c)
  PROVE  SendInv'
<1>1. SendTypeOK /\ caller[c].pc = "sending"
  BY DEF SendInv, BufferFull
<1>2. NextRemote(c).expired => c \in Deadline
  BY <1>1, NextRemoteFacts DEF SendTypeOK
<1>3. caller' \in [Callers -> CallerRec] /\ CallersOK'
  BY <1>1, <1>2, NextRemoteFacts, CallerSet DEF BufferFull
<1> QED  BY <1>3, CallerInv DEF BufferFull

LEMMA SendExpireInv ==
  ASSUME SendInv, NEW c \in Callers, Expire(c)
  PROVE  SendInv'
<1> DEFINE d == [caller[c] EXCEPT !.expired = TRUE]
<1>1. /\ SendTypeOK /\ c \in Deadline /\ caller[c] \in CallerRec
      /\ caller \in [Callers -> CallerRec]
  BY DEF SendInv, Expire, SendTypeOK, CallerRec
<1>2. d \in CallerRec /\ d.pc = caller[c].pc /\ d.todo = caller[c].todo
  BY <1>1 DEF CallerRec
<1>3. caller' = [caller EXCEPT ![c] = d]
  BY <1>1 DEF Expire, CallerRec
<1>4. d.pc = "sending" <=> d.todo # <<>>
  BY <1>1, <1>2 DEF SendTypeOK
<1> HIDE DEF d
<1>5. caller' \in [Callers -> CallerRec] /\ CallersOK'
  BY <1>1, <1>2, <1>3, <1>4, CallerSet
<1> QED  BY <1>5, CallerInv DEF Expire

-----------------------------------------------------------------------------

(* Steps of a goroutine. *)

LEMMA SendLoopFacts ==
  ASSUME SendTypeOK, NEW l \in Loops
  PROVE  /\ l[1] \in 1 .. MaxTerms /\ l[2] \in Pool /\ sendLoop[l] \in LoopRec
         /\ sendLoop \in [Loops -> LoopRec] /\ l = <<l[1], l[2]>>
  BY DEF SendTypeOK, Loops, LoopRec

LEMMA TakeFacts ==
  ASSUME SendInv, NEW l \in Loops, Take(l)
  PROVE  /\ send[l[2]] \in Seq(SendTask) /\ send[l[2]] # <<>> /\ l[2] \in Pool
         /\ Head(send[l[2]]) \in SendTask /\ Tail(send[l[2]]) \in Seq(SendTask)
         /\ Len(Tail(send[l[2]])) = Len(send[l[2]]) - 1
         /\ \A n \in DOMAIN Tail(send[l[2]]) :
              n + 1 \in DOMAIN send[l[2]] /\ Tail(send[l[2]])[n] = send[l[2]][n + 1]
         /\ 1 \in DOMAIN send[l[2]] /\ Head(send[l[2]]) = send[l[2]][1]
         /\ send' = [send EXCEPT ![l[2]] = Tail(send[l[2]])]
         /\ sendLoop' = [sendLoop EXCEPT ![l] = [pc |-> "sending",
                                                task |-> Head(send[l[2]])]]
         /\ Index[Head(send[l[2]])[2]] = l[2]
         /\ sendLoop[l].pc = "waiting" /\ sendLoop[l].task = NoTask
         /\ UNCHANGED <<sendActive, terms, caller, enqueued, inbox, called, up>>
<1>1. SendTypeOK /\ SendHands /\ SendQueues /\ l[2] \in Pool
  BY SendLoopFacts DEF SendInv
<1>2. send[l[2]] \in Seq(SendTask) /\ send[l[2]] # <<>>
  BY <1>1 DEF SendTypeOK, Take
<1>3. 1 \in DOMAIN send[l[2]] /\ Head(send[l[2]]) = send[l[2]][1]
  BY <1>2
<1>4. Index[Head(send[l[2]])[2]] = l[2]
  BY <1>1, <1>3 DEF SendQueues
<1>5. /\ Head(send[l[2]]) \in SendTask /\ Tail(send[l[2]]) \in Seq(SendTask)
      /\ Len(Tail(send[l[2]])) = Len(send[l[2]]) - 1
      /\ \A n \in DOMAIN Tail(send[l[2]]) :
              n + 1 \in DOMAIN send[l[2]] /\ Tail(send[l[2]])[n] = send[l[2]][n + 1]
  BY <1>2
<1>6. sendLoop[l].pc = "waiting" /\ sendLoop[l].task = NoTask
  BY <1>1 DEF Take, SendHands
<1> QED  BY <1>1, <1>2, <1>3, <1>4, <1>5, <1>6 DEF Take

LEMMA TakeInv ==
  ASSUME RemoteSendAssumption, SendInv, NEW l \in Loops, Take(l)
  PROVE  SendInv'
<1> DEFINE i == l[2]
           q == send[i]
           c == [pc |-> "sending", task |-> Head(q)]
<1>1. /\ q \in Seq(SendTask) /\ q # <<>> /\ i \in Pool
      /\ Head(q) \in SendTask /\ Tail(q) \in Seq(SendTask) /\ Len(Tail(q)) = Len(q) - 1
      /\ \A n \in DOMAIN Tail(q) : n + 1 \in DOMAIN q /\ Tail(q)[n] = q[n + 1]
      /\ send' = [send EXCEPT ![i] = Tail(q)] /\ sendLoop' = [sendLoop EXCEPT ![l] = c]
      /\ Index[Head(q)[2]] = i /\ sendLoop[l].pc = "waiting" /\ sendLoop[l].task = NoTask
      /\ UNCHANGED <<sendActive, terms, caller, enqueued, inbox, called, up>>
  BY TakeFacts
<1>2. SendTypeOK /\ SendHands /\ SendQueues
  BY DEF SendInv
<1>3. c \in LoopRec /\ c.pc = "sending" /\ c.task = Head(q) /\ c.task # NoTask
  BY <1>1, SendTaskFacts DEF LoopRec
<1> HIDE DEF c
<1>4. sendLoop' \in [Loops -> LoopRec] /\ sendLoop'[l] = c
        /\ \A k \in Loops \ {l} : sendLoop'[k] = sendLoop[k]
  BY <1>1, <1>2, <1>3 DEF SendTypeOK, LoopRec
<1>5. /\ send \in [Pool -> Seq(SendTask)] /\ send' \in [Pool -> Seq(SendTask)]
      /\ send'[i] = Tail(q) /\ \A j \in Pool \ {i} : send'[j] = send[j]
  BY <1>1, <1>2 DEF SendTypeOK
<1> HIDE DEF i, q
<1>6. \A j \in Pool : Len(send'[j]) <= SendChanBuffer
  BY <1>1, <1>2, <1>5 DEF SendTypeOK, RemoteSendAssumption, q
<1>7. SendTypeOK'
  BY <1>1, <1>2, <1>4, <1>5, <1>6 DEF SendTypeOK, LoopRec
<1>8. SendQueues'
  BY <1>1, <1>2, <1>5 DEF SendQueues, q
<1>9. SendHands'
  BY <1>1, <1>2, <1>3, <1>4 DEF SendHands, i
<1> QED  BY <1>7, <1>8, <1>9 DEF SendInv
LEMMA ArriveFacts ==
  ASSUME SendInv, NEW l \in Loops, sendLoop[l].pc \in {"sending", "arrived"}
  PROVE  /\ sendLoop[l].task \in SendTask /\ sendLoop[l].task[2] \in RemoteClusters
         /\ Index[sendLoop[l].task[2]] = l[2]
         /\ sendLoop[l].task # NoTask
<1>1. sendLoop[l].task # NoTask /\ Index[sendLoop[l].task[2]] = l[2]
  BY DEF SendInv, SendHands
<1>2. sendLoop[l].task \in SendTask \cup {NoTask}
  BY DEF SendInv, SendTypeOK
<1> QED  BY <1>1, <1>2, SendTaskFacts

(* Goroutine l is now as c says, c being no worse than before. *)
LEMMA LoopSet ==
  ASSUME SendInv, NEW l \in Loops, NEW c \in LoopRec,
         sendLoop' = [sendLoop EXCEPT ![l] = c], UNCHANGED terms,
         c.task # NoTask <=> c.pc \in {"sending", "arrived"},
         c.task # NoTask => Index[c.task[2]] = l[2], l[1] > terms => c.pc = "none"
  PROVE  /\ sendLoop' \in [Loops -> LoopRec] /\ SendHands' /\ sendLoop'[l] = c
         /\ \A k \in Loops \ {l} : sendLoop'[k] = sendLoop[k]
<1>1. sendLoop \in [Loops -> LoopRec]
  BY DEF SendInv, SendTypeOK, LoopRec
<1>2. /\ sendLoop' \in [Loops -> LoopRec] /\ sendLoop'[l] = c
      /\ \A k \in Loops \ {l} : sendLoop'[k] = sendLoop[k]
  BY <1>1
<1>3. SendHands'
  BY <1>2 DEF SendInv, SendHands
<1> QED  BY <1>2, <1>3

LEMMA ArriveInv ==
  ASSUME SendInv, NEW l \in Loops, Arrive(l)
  PROVE  SendInv'
<1> DEFINE t == sendLoop[l].task
           c == [sendLoop[l] EXCEPT !.pc = "arrived"]
<1>1. /\ SendTypeOK /\ SendHands /\ SendQueues /\ sendLoop[l] \in LoopRec
      /\ sendLoop \in [Loops -> LoopRec] /\ sendLoop[l].pc = "sending"
  BY SendLoopFacts DEF SendInv, Arrive
<1>2. t \in SendTask /\ t[2] \in RemoteClusters /\ Index[t[2]] = l[2] /\ t # NoTask
  BY <1>1, ArriveFacts
<1>3. c \in LoopRec /\ c.pc = "arrived" /\ c.task = t
  BY <1>1 DEF LoopRec
<1>4. sendLoop' = [sendLoop EXCEPT ![l] = c]
  BY <1>1 DEF Arrive, LoopRec
<1>5. l[1] > terms => FALSE
  BY <1>1 DEF SendHands
<1>6. UNCHANGED <<sendActive, terms, send, caller, enqueued, called, up>>
  BY DEF Arrive
<1> HIDE DEF c
<1>7. sendLoop' \in [Loops -> LoopRec] /\ SendHands'
  BY <1>2, <1>3, <1>4, <1>5, <1>6, LoopSet
<1>8. inbox' \in [RemoteClusters -> Seq(SendTask)]
  <2>1. inbox' = [inbox EXCEPT ![t[2]] = Append(@, t)]
    BY DEF Arrive
  <2>2. inbox \in [RemoteClusters -> Seq(SendTask)]
    BY <1>1 DEF SendTypeOK
  <2> HIDE DEF t
  <2> QED  BY <1>2, <2>1, <2>2
<1>9. SendTypeOK' /\ SendQueues'
  BY <1>1, <1>6, <1>7, <1>8 DEF SendTypeOK, SendQueues, LoopRec
<1> QED  BY <1>7, <1>9 DEF SendInv

LEMMA FinishInv ==
  ASSUME SendInv, NEW l \in Loops, Finish(l)
  PROVE  SendInv'
<1> DEFINE t == sendLoop[l].task
           c == [pc |-> "waiting", task |-> NoTask]
<1>1. /\ SendTypeOK /\ SendHands /\ SendQueues /\ sendLoop \in [Loops -> LoopRec]
      /\ sendLoop[l].pc \in {"sending", "arrived"}
  BY SendLoopFacts DEF SendInv, Finish
<1>2. t \in SendTask
  BY <1>1, ArriveFacts
<1>3. c \in LoopRec /\ c.pc = "waiting" /\ c.task = NoTask
  BY DEF LoopRec
<1>4. sendLoop' = [sendLoop EXCEPT ![l] = c]
  BY DEF Finish
<1>5. l[1] > terms => FALSE
  BY <1>1 DEF SendHands
<1>6. UNCHANGED <<sendActive, terms, send, caller, enqueued, inbox>>
  BY DEF Finish
<1> HIDE DEF c
<1>7. sendLoop' \in [Loops -> LoopRec] /\ SendHands'
  BY <1>3, <1>4, <1>5, <1>6, LoopSet
<1>8. called' \in [SendTask -> Nat] /\ up' \in BOOLEAN
  BY <1>1, <1>2 DEF Finish, SendTypeOK
<1>9. SendTypeOK' /\ SendQueues'
  BY <1>1, <1>6, <1>7, <1>8 DEF SendTypeOK, SendQueues, LoopRec
<1> QED  BY <1>7, <1>9 DEF SendInv

LEMMA LoopLeavesInv ==
  ASSUME SendInv, NEW l \in Loops, LoopLeaves(l)
  PROVE  SendInv'
<1> DEFINE c == [sendLoop[l] EXCEPT !.pc = "left"]
<1>1. /\ SendTypeOK /\ SendHands /\ SendQueues /\ sendLoop[l] \in LoopRec
      /\ sendLoop \in [Loops -> LoopRec] /\ sendLoop[l].pc = "waiting"
  BY SendLoopFacts DEF SendInv, LoopLeaves
<1>2. c \in LoopRec /\ c.pc = "left" /\ c.task = NoTask
  BY <1>1 DEF LoopRec, SendHands
<1>3. sendLoop' = [sendLoop EXCEPT ![l] = c]
  BY <1>1 DEF LoopLeaves, LoopRec
<1>4. l[1] > terms => FALSE
  BY <1>1 DEF SendHands
<1>5. UNCHANGED <<sendActive, terms, send, caller, enqueued, inbox, called, up>>
  BY DEF LoopLeaves
<1> HIDE DEF c
<1>6. sendLoop' \in [Loops -> LoopRec] /\ SendHands'
  BY <1>2, <1>3, <1>4, <1>5, LoopSet
<1>7. SendTypeOK' /\ SendQueues'
  BY <1>1, <1>5, <1>6 DEF SendTypeOK, SendQueues, LoopRec
<1> QED  BY <1>6, <1>7 DEF SendInv

LEMMA sendResumeFacts ==
  ASSUME SendInv, sendResume
  PROVE  /\ terms' = terms + 1 /\ sendLoop' \in [Loops -> LoopRec]
         /\ \A l \in Loops : /\ sendLoop'[l].task = sendLoop[l].task
                             /\ sendLoop'[l].pc = IF l[1] = terms' THEN "waiting"
                                                  ELSE sendLoop[l].pc
         /\ UNCHANGED <<send, caller, enqueued, inbox, called, up>>
<1>1. sendLoop \in [Loops -> LoopRec]
  BY DEF SendInv, SendTypeOK, LoopRec
<1>2. ASSUME NEW l \in Loops
      PROVE  /\ sendLoop'[l] \in LoopRec /\ sendLoop'[l].task = sendLoop[l].task
             /\ sendLoop'[l].pc = IF l[1] = terms' THEN "waiting" ELSE sendLoop[l].pc
  BY <1>1 DEF sendResume, LoopRec
<1>3. sendLoop' \in [Loops -> LoopRec]
  BY <1>2 DEF sendResume
<1> QED  BY <1>2, <1>3 DEF sendResume

LEMMA sendResumeInv ==
  ASSUME RemoteSendAssumption, SendInv, sendResume
  PROVE  SendInv'
<1>1. /\ SendTypeOK /\ SendHands /\ SendQueues /\ terms \in Nat
      /\ terms' = terms + 1 /\ sendLoop' \in [Loops -> LoopRec]
      /\ \A l \in Loops : /\ sendLoop'[l].task = sendLoop[l].task
                          /\ sendLoop'[l].pc = IF l[1] = terms' THEN "waiting"
                                               ELSE sendLoop[l].pc
      /\ UNCHANGED <<send, caller, enqueued, inbox, called, up>>
  BY sendResumeFacts DEF SendInv, SendTypeOK
<1>2. SendTypeOK'
  BY <1>1 DEF RemoteSendAssumption, sendResume, SendTypeOK, LoopRec
<1>3. SendQueues'
  BY <1>1 DEF SendQueues
<1>4. SendHands'
  <2>1. SUFFICES ASSUME NEW l \in Loops
        PROVE  /\ sendLoop'[l].task # NoTask <=> sendLoop'[l].pc \in {"sending", "arrived"}
               /\ sendLoop'[l].task # NoTask => Index[sendLoop'[l].task[2]] = l[2]
               /\ l[1] > terms' => sendLoop'[l].pc = "none"
    BY DEF SendHands
  <2>2. l[1] \in Nat
    BY <1>1, SendLoopFacts
  <2>3. l[1] >= terms' => sendLoop[l].pc = "none"
    BY <1>1, <2>2 DEF SendHands
  <2> QED  BY <1>1, <2>2, <2>3 DEF SendHands
<1> QED  BY <1>2, <1>3, <1>4 DEF SendInv

LEMMA sendPauseInv ==
  ASSUME SendInv, sendPause
  PROVE  SendInv'
<1>1. SendTypeOK'
  BY DEF SendInv, SendTypeOK, sendPause
<1> QED  BY <1>1 DEF SendInv, SendHands, SendQueues, sendPause
-----------------------------------------------------------------------------

(* No message is lost or repeated. *)

Held(t) == {l \in Loops : sendLoop[l].task = t}

Balance(t) == Count(send[Index[t[2]]], t) + Cardinality(Held(t)) + called[t]

LEMMA HeldFinite ==
  ASSUME RemoteSendAssumption, NEW t
  PROVE  IsFiniteSet(Held(t)) /\ Cardinality(Held(t)) \in Nat
<1>1. Held(t) \in SUBSET Loops
  BY DEF Held
<1> QED  BY <1>1, LoopsFinite, FS_Subset, FS_CardinalityType

LEMMA BalanceTypes ==
  ASSUME RemoteSendAssumption, SendInv, NEW t \in SendTask
  PROVE  /\ t[2] \in RemoteClusters /\ Index[t[2]] \in Pool
         /\ send[Index[t[2]]] \in Seq(SendTask) /\ enqueued[t[2]] \in Seq(SendTask)
         /\ Count(send[Index[t[2]]], t) \in Nat /\ Count(enqueued[t[2]], t) \in Nat
         /\ Cardinality(Held(t)) \in Nat /\ called[t] \in Nat
<1>1. t[2] \in RemoteClusters /\ Index[t[2]] \in Pool
  BY SendTaskFacts
<1>2. /\ send[Index[t[2]]] \in Seq(SendTask) /\ enqueued[t[2]] \in Seq(SendTask)
      /\ called[t] \in Nat
  BY <1>1 DEF SendInv, SendTypeOK
<1> QED  BY <1>1, <1>2, CountNat, HeldFinite

LEMMA EnqueueConserves ==
  ASSUME RemoteSendAssumption, SendInv, Conserved, NEW c \in Callers, Enqueue(c)
  PROVE  Conserved'
<1> DEFINE r == Target(c)
           i == Index[r]
           x == <<c, r>>
<1>1. /\ r \in RemoteClusters /\ i \in Pool /\ x \in SendTask /\ x[2] = r
      /\ send' = [send EXCEPT ![i] = Append(@, x)]
      /\ enqueued' = [enqueued EXCEPT ![r] = Append(@, x)]
      /\ UNCHANGED <<sendLoop, called>>
  BY EnqueueFacts
<1>2. SUFFICES ASSUME NEW t \in SendTask
               PROVE  /\ Count(send'[Index[t[2]]], t) + Cardinality(Held(t)') + called'[t]
                            = Count(enqueued'[t[2]], t)
  BY DEF Conserved, Held
<1> HIDE DEF r, x
<1>3. /\ t[2] \in RemoteClusters /\ Index[t[2]] \in Pool
      /\ send[Index[t[2]]] \in Seq(SendTask) /\ enqueued[t[2]] \in Seq(SendTask)
      /\ Count(send[Index[t[2]]], t) \in Nat /\ Count(enqueued[t[2]], t) \in Nat
      /\ Cardinality(Held(t)) \in Nat /\ called[t] \in Nat
  BY BalanceTypes
<1>4. Held(t)' = Held(t) /\ called'[t] = called[t]
  BY <1>1 DEF Held
<1>5. Count(send[Index[t[2]]], t) + Cardinality(Held(t)) + called[t]
        = Count(enqueued[t[2]], t)
  BY DEF Conserved, Held
<1>6. /\ send'[Index[t[2]]] = IF Index[t[2]] = i THEN Append(send[Index[t[2]]], x)
                              ELSE send[Index[t[2]]]
      /\ enqueued'[t[2]] = IF t[2] = r THEN Append(enqueued[t[2]], x)
                           ELSE enqueued[t[2]]
  BY <1>1, <1>3 DEF SendInv, SendTypeOK
<1>7. CASE t = x
  <2>1. t[2] = r /\ Index[t[2]] = i
    BY <1>1, <1>7
  <2>2. /\ send'[Index[t[2]]] = Append(send[Index[t[2]]], t)
        /\ enqueued'[t[2]] = Append(enqueued[t[2]], t)
    BY <1>6, <1>7, <2>1
  <2>3. /\ Count(send'[Index[t[2]]], t) = Count(send[Index[t[2]]], t) + 1
        /\ Count(enqueued'[t[2]], t) = Count(enqueued[t[2]], t) + 1
    <3>1. \A q \in Seq(SendTask) : Count(Append(q, t), t) = Count(q, t) + 1
      BY CountAppend
    <3> QED  BY <1>3, <2>2, <3>1
  <2> QED  BY <1>3, <1>4, <1>5, <2>3
<1>8. CASE t # x
  <2>1. /\ Count(send'[Index[t[2]]], t) = Count(send[Index[t[2]]], t)
        /\ Count(enqueued'[t[2]], t) = Count(enqueued[t[2]], t)
    BY <1>1, <1>3, <1>6, <1>8, CountAppend
  <2> QED  BY <1>4, <1>5, <2>1
<1> QED  BY <1>7, <1>8

LEMMA TakeConserves ==
  ASSUME RemoteSendAssumption, SendInv, Conserved, NEW l \in Loops, Take(l)
  PROVE  Conserved'
<1> DEFINE i == l[2]
           q == send[i]
           x == Head(q)
<1>1. /\ q \in Seq(SendTask) /\ q # <<>> /\ i \in Pool /\ x \in SendTask
      /\ send' = [send EXCEPT ![i] = Tail(q)]
      /\ sendLoop' = [sendLoop EXCEPT ![l] = [pc |-> "sending", task |-> x]]
      /\ Index[x[2]] = i /\ sendLoop[l].task = NoTask
      /\ UNCHANGED <<enqueued, called>>
  BY TakeFacts
<1>2. SUFFICES ASSUME NEW t \in SendTask
               PROVE  /\ Count(send'[Index[t[2]]], t) + Cardinality(Held(t)') + called'[t]
                            = Count(enqueued'[t[2]], t)
  BY DEF Conserved, Held
<1>3. /\ t[2] \in RemoteClusters /\ Index[t[2]] \in Pool
      /\ send[Index[t[2]]] \in Seq(SendTask)
      /\ Count(send[Index[t[2]]], t) \in Nat /\ Count(enqueued[t[2]], t) \in Nat
      /\ Cardinality(Held(t)) \in Nat /\ called[t] \in Nat
  BY BalanceTypes
<1>4. Count(send[Index[t[2]]], t) + Cardinality(Held(t)) + called[t]
        = Count(enqueued[t[2]], t)
  BY DEF Conserved, Held
<1>5. send'[Index[t[2]]] = IF Index[t[2]] = i THEN Tail(q) ELSE send[Index[t[2]]]
  BY <1>1, <1>3 DEF SendInv, SendTypeOK
<1>6. /\ sendLoop'[l].task = x
      /\ \A k \in Loops \ {l} : sendLoop'[k].task = sendLoop[k].task
  BY <1>1 DEF SendInv, SendTypeOK
<1>7. t # NoTask /\ Count(Tail(q), t) \in Nat
  <2>1. Tail(q) \in Seq(SendTask)
    BY TakeFacts
  <2> QED  BY <2>1, SendTaskFacts, CountNat
<1> HIDE DEF x
<1>8. CASE t = x
  <2>1. Index[t[2]] = i
    BY <1>1, <1>8
  <2>2. Count(q, t) = Count(Tail(q), t) + 1
    BY <1>1, <1>8, CountTail DEF x
  <2>3. Held(t)' = Held(t) \cup {l} /\ l \notin Held(t)
    BY <1>1, <1>6, <1>7, <1>8 DEF Held
  <2>4. Cardinality(Held(t)') = Cardinality(Held(t)) + 1
    BY <2>3, HeldFinite, FS_AddElement
  <2>5. send[Index[t[2]]] = q /\ send'[Index[t[2]]] = Tail(q)
    BY <1>5, <2>1
  <2>6. Count(q, t) + Cardinality(Held(t)) + called[t] = Count(enqueued[t[2]], t)
    BY <1>4, <2>5
  <2>7. Count(Tail(q), t) + Cardinality(Held(t)') + called[t] = Count(enqueued[t[2]], t)
    BY <1>3, <1>7, <2>2, <2>4, <2>6
  <2> QED  BY <1>1, <2>5, <2>7
<1>9. CASE t # x
  <2>1. Count(send'[Index[t[2]]], t) = Count(send[Index[t[2]]], t)
    BY <1>1, <1>5, <1>9, CountTail DEF x
  <2>2. Held(t)' = Held(t)
    BY <1>1, <1>6, <1>7, <1>9 DEF Held
  <2> QED  BY <1>1, <1>4, <2>1, <2>2
<1> QED  BY <1>8, <1>9

LEMMA FinishConserves ==
  ASSUME RemoteSendAssumption, SendInv, Conserved, NEW l \in Loops, Finish(l)
  PROVE  Conserved'
<1> DEFINE x == sendLoop[l].task
<1>1. /\ x \in SendTask
      /\ sendLoop' = [sendLoop EXCEPT ![l] = [pc |-> "waiting", task |-> NoTask]]
      /\ called' = [called EXCEPT ![x] = @ + 1]
      /\ UNCHANGED <<enqueued, send>>
  BY ArriveFacts DEF Finish
<1>2. SUFFICES ASSUME NEW t \in SendTask
               PROVE  /\ Count(send'[Index[t[2]]], t) + Cardinality(Held(t)') + called'[t]
                            = Count(enqueued'[t[2]], t)
  BY DEF Conserved, Held
<1>3. /\ Count(send[Index[t[2]]], t) \in Nat /\ Count(enqueued[t[2]], t) \in Nat
      /\ Cardinality(Held(t)) \in Nat /\ called[t] \in Nat
  BY BalanceTypes
<1>4. Count(send[Index[t[2]]], t) + Cardinality(Held(t)) + called[t]
        = Count(enqueued[t[2]], t)
  BY DEF Conserved, Held
<1>5. /\ sendLoop'[l].task = NoTask /\ t # NoTask
      /\ \A k \in Loops \ {l} : sendLoop'[k].task = sendLoop[k].task
  BY <1>1, SendTaskFacts DEF SendInv, SendTypeOK
<1>6. called'[t] = IF t = x THEN called[t] + 1 ELSE called[t]
  BY <1>1 DEF SendInv, SendTypeOK
<1>7. Held(t)' = IF t = x THEN Held(t) \ {l} ELSE Held(t)
  BY <1>5 DEF Held
<1>8. CASE t = x
  <2>1. l \in Held(t) /\ Held(t)' = Held(t) \ {l}
    BY <1>7, <1>8 DEF Held
  <2>2. Cardinality(Held(t)') = Cardinality(Held(t)) - 1
    BY <2>1, HeldFinite, FS_RemoveElement
  <2> QED  BY <1>1, <1>3, <1>4, <1>6, <1>8, <2>2
<1>9. CASE t # x
  BY <1>1, <1>4, <1>6, <1>7, <1>9
<1> QED  BY <1>8, <1>9

(* Steps that leave the messages where they are. *)
LEMMA OthersConserve ==
  ASSUME Conserved, \A l \in Loops : sendLoop'[l].task = sendLoop[l].task,
         UNCHANGED <<send, enqueued, called>>
  PROVE  Conserved'
<1>1. \A t : {l \in Loops : sendLoop'[l].task = t} = {l \in Loops : sendLoop[l].task = t}
  OBVIOUS
<1> QED  BY <1>1 DEF Conserved
-----------------------------------------------------------------------------

(* Messages reach a remote in order. *)

(* a is in s; a is in s and b after it. *)
Occurs(s, a) == \E m \in DOMAIN s : s[m] = a

Before(s, a, b) == \E m, n \in DOMAIN s : m < n /\ s[m] = a /\ s[n] = b

(* What has arrived, what is being sent and what is on the channel follow   *)
(* each other as they were put on the channel.                              *)
InboxOrder(r) ==
  /\ \A i \in DOMAIN inbox[r] : Occurs(enqueued[r], inbox[r][i])
  /\ \A i, j \in DOMAIN inbox[r] :
       i < j => Before(enqueued[r], inbox[r][i], inbox[r][j])

InHand(l, r) == sendLoop[l].pc = "sending" /\ sendLoop[l].task[2] = r

HandOrder(l, r) ==
  /\ Occurs(enqueued[r], sendLoop[l].task)
  /\ \A i \in DOMAIN inbox[r] : Before(enqueued[r], inbox[r][i], sendLoop[l].task)
  /\ \A n \in DOMAIN send[l[2]] :
       send[l[2]][n][2] = r => Before(enqueued[r], sendLoop[l].task, send[l[2]][n])

QueueOrder(k, r) ==
  \A n \in DOMAIN send[k] : send[k][n][2] = r =>
    /\ Occurs(enqueued[r], send[k][n])
    /\ \A i \in DOMAIN inbox[r] : Before(enqueued[r], inbox[r][i], send[k][n])
    /\ \A m \in DOMAIN send[k] :
         m < n /\ send[k][m][2] = r => Before(enqueued[r], send[k][m], send[k][n])

SendOrder ==
  terms < 2 =>
    \A r \in RemoteClusters :
      /\ InboxOrder(r) /\ QueueOrder(Index[r], r)
      /\ \A l \in Loops : InHand(l, r) => HandOrder(l, r)

LEMMA AppendOrder ==
  ASSUME NEW S, NEW s \in Seq(S), NEW x \in S
  PROVE  /\ Occurs(Append(s, x), x)
         /\ \A a : Occurs(s, a) => Occurs(Append(s, x), a) /\ Before(Append(s, x), a, x)
         /\ \A a, b : Before(s, a, b) => Before(Append(s, x), a, b)
<1>1. /\ DOMAIN Append(s, x) = 1 .. Len(s) + 1 /\ DOMAIN s = 1 .. Len(s) /\ Len(s) \in Nat
      /\ \A n \in 1 .. Len(s) : Append(s, x)[n] = s[n]
      /\ Append(s, x)[Len(s) + 1] = x
  OBVIOUS
<1> DEFINE u == Append(s, x)
<1> HIDE DEF u
<1>2. /\ DOMAIN u = 1 .. Len(s) + 1 /\ DOMAIN s = 1 .. Len(s) /\ Len(s) \in Nat
      /\ \A n \in 1 .. Len(s) : u[n] = s[n]
      /\ u[Len(s) + 1] = x
  BY <1>1 DEF u
<1>3. Occurs(u, x)
  BY <1>2 DEF Occurs
<1>4. ASSUME NEW a, Occurs(s, a) PROVE Occurs(u, a) /\ Before(u, a, x)
  <2>1. PICK m \in DOMAIN s : s[m] = a
    BY <1>4 DEF Occurs
  <2>2. m \in DOMAIN u /\ u[m] = a /\ Len(s) + 1 \in DOMAIN u /\ m < Len(s) + 1
    BY <1>2, <2>1
  <2> QED  BY <1>2, <2>2 DEF Occurs, Before
<1>5. ASSUME NEW a, NEW b, Before(s, a, b) PROVE Before(u, a, b)
  <2>1. PICK m, n \in DOMAIN s : m < n /\ s[m] = a /\ s[n] = b
    BY <1>5 DEF Before
  <2>2. m \in DOMAIN u /\ n \in DOMAIN u /\ u[m] = a /\ u[n] = b
    BY <1>2, <2>1
  <2> QED  BY <2>1, <2>2 DEF Before
<1> QED  BY <1>3, <1>4, <1>5 DEF u

LEMMA EnqueueOrders ==
  ASSUME SendInv, SendOrder, NEW c \in Callers, Enqueue(c)
  PROVE  SendOrder'
<1> DEFINE k == Target(c)
           x == <<c, k>>
<1>1. /\ k \in RemoteClusters /\ Index[k] \in Pool /\ x \in SendTask /\ x[2] = k
      /\ send' = [send EXCEPT ![Index[k]] = Append(@, x)]
      /\ enqueued' = [enqueued EXCEPT ![k] = Append(@, x)]
      /\ UNCHANGED <<terms, sendLoop, inbox>>
  BY EnqueueFacts
<1> HIDE DEF k, x
<1>2. /\ send \in [Pool -> Seq(SendTask)] /\ enqueued \in [RemoteClusters -> Seq(SendTask)]
      /\ SendHands
  BY DEF SendInv, SendTypeOK
<1>3. SUFFICES ASSUME terms < 2, NEW r \in RemoteClusters
               PROVE  /\ InboxOrder(r)' /\ QueueOrder(Index[r], r)'
                      /\ \A l \in Loops : InHand(l, r)' => HandOrder(l, r)'
  BY <1>1 DEF SendOrder
<1>4. /\ InboxOrder(r) /\ QueueOrder(Index[r], r)
      /\ \A l \in Loops : InHand(l, r) => HandOrder(l, r)
  BY <1>3 DEF SendOrder
<1>5. Index[r] \in Pool
  BY DEF Pool
<1> DEFINE e == enqueued[r]
           f == enqueued'[r]
           q == send[Index[r]]
           u == send'[Index[r]]
<1>6. /\ \A a : Occurs(e, a) => Occurs(f, a)
      /\ \A a, b : Before(e, a, b) => Before(f, a, b)
      /\ r = k => Occurs(f, x) /\ \A a : Occurs(e, a) => Before(f, a, x)
  <2>1. e \in Seq(SendTask)
    BY <1>2
  <2>2. f = IF r = k THEN Append(e, x) ELSE e
    BY <1>1, <1>2
  <2> HIDE DEF e, f
  <2> QED  BY <1>1, <2>1, <2>2, AppendOrder
<1>7. u = IF Index[r] = Index[k] THEN Append(q, x) ELSE q
  BY <1>1, <1>2, <1>5
<1>8. q \in Seq(SendTask)
  BY <1>2, <1>5
<1>9. /\ \A n \in DOMAIN u :
           \/ n \in DOMAIN q /\ u[n] = q[n]
           \/ u[n] = x /\ \A m \in DOMAIN u : m < n => m \in DOMAIN q
      /\ \A n \in DOMAIN q : n \in DOMAIN u /\ u[n] = q[n]
  <2> HIDE DEF q, u
  <2> QED  BY <1>1, <1>7, <1>8
<1> HIDE DEF e, f, q, u
<1>10. InboxOrder(r)'
  BY <1>1, <1>4, <1>6 DEF InboxOrder, e, f
<1>11. QueueOrder(Index[r], r)'
  <2>1. SUFFICES ASSUME NEW n \in DOMAIN u, u[n][2] = r
                 PROVE  /\ Occurs(f, u[n])
                        /\ \A i \in DOMAIN inbox[r] : Before(f, inbox[r][i], u[n])
                        /\ \A m \in DOMAIN u : m < n /\ u[m][2] = r => Before(f, u[m], u[n])
    BY <1>1 DEF QueueOrder, f, u
  <2>2. /\ \A i \in DOMAIN inbox[r] : Occurs(e, inbox[r][i])
        /\ \A m \in DOMAIN q : q[m][2] = r => Occurs(e, q[m])
    BY <1>4 DEF InboxOrder, QueueOrder, e, q
  <2>3. CASE n \in DOMAIN q /\ u[n] = q[n]
    <3>1. \A m \in DOMAIN u : m < n => m \in DOMAIN q /\ u[m] = q[m]
      BY <1>8, <1>9, <2>3, <2>1, <1>7
    <3>2. /\ Occurs(e, q[n])
          /\ \A i \in DOMAIN inbox[r] : Before(e, inbox[r][i], q[n])
          /\ \A m \in DOMAIN q : m < n /\ q[m][2] = r => Before(e, q[m], q[n])
      BY <1>4, <2>1, <2>3 DEF QueueOrder, e, q
    <3> QED  BY <1>6, <2>3, <3>1, <3>2
  <2>4. CASE u[n] = x /\ \A m \in DOMAIN u : m < n => m \in DOMAIN q
    <3>1. r = k
      BY <1>1, <2>1, <2>4
    <3> QED  BY <1>6, <1>9, <2>2, <2>4, <3>1
  <2> QED  BY <1>9, <2>1, <2>3, <2>4
<1>12. ASSUME NEW l \in Loops, InHand(l, r)' PROVE HandOrder(l, r)'
  <2>1. InHand(l, r) /\ HandOrder(l, r)
    BY <1>1, <1>4, <1>12 DEF InHand
  <2>2. l[2] = Index[r]
    BY <1>2, <2>1 DEF InHand, SendHands
  <2>3. /\ Occurs(e, sendLoop[l].task)
        /\ \A i \in DOMAIN inbox[r] : Before(e, inbox[r][i], sendLoop[l].task)
        /\ \A n \in DOMAIN q : q[n][2] = r => Before(e, sendLoop[l].task, q[n])
    BY <2>1, <2>2 DEF HandOrder, e, q
  <2>4. ASSUME NEW n \in DOMAIN u, u[n][2] = r PROVE Before(f, sendLoop[l].task, u[n])
    <3>1. CASE n \in DOMAIN q /\ u[n] = q[n]
      BY <1>6, <2>3, <2>4, <3>1
    <3>2. CASE u[n] = x
      BY <1>1, <1>6, <2>3, <2>4, <3>2
    <3> QED  BY <1>9, <2>4, <3>1, <3>2
  <2> QED  BY <1>1, <1>6, <2>2, <2>3, <2>4 DEF HandOrder, f, u
<1> QED  BY <1>10, <1>11, <1>12
(* In the first term each channel has one goroutine. *)
LEMMA OneLoop ==
  ASSUME SendInv, terms < 2, NEW l \in Loops, NEW k \in Loops, l[2] = k[2],
         sendLoop[l].pc # "none", sendLoop[k].pc # "none"
  PROVE  l = k
<1>1. /\ l[1] \in Nat \ {0} /\ k[1] \in Nat \ {0} /\ l = <<l[1], l[2]>> /\ k = <<k[1], k[2]>>
      /\ terms \in Nat
  BY SendLoopFacts DEF SendInv, SendTypeOK
<1>2. l[1] <= terms /\ k[1] <= terms
  BY <1>1 DEF SendInv, SendHands
<1> QED  BY <1>1, <1>2

LEMMA TakeOrders ==
  ASSUME SendInv, SendOrder, NEW l \in Loops, Take(l)
  PROVE  SendOrder'
<1> DEFINE k == l[2]
           q == send[k]
           u == Tail(q)
<1>1. /\ q \in Seq(SendTask) /\ k \in Pool /\ u \in Seq(SendTask)
      /\ \A n \in DOMAIN u : n + 1 \in DOMAIN q /\ u[n] = q[n + 1]
      /\ 1 \in DOMAIN q /\ Head(q) = q[1] /\ Index[q[1][2]] = k
      /\ send' = [send EXCEPT ![k] = u]
      /\ sendLoop' = [sendLoop EXCEPT ![l] = [pc |-> "sending", task |-> q[1]]]
      /\ sendLoop[l].pc = "waiting" /\ UNCHANGED <<terms, enqueued, inbox>>
  BY TakeFacts
<1>2. SUFFICES ASSUME terms < 2, NEW r \in RemoteClusters
               PROVE  /\ InboxOrder(r)' /\ QueueOrder(Index[r], r)'
                      /\ \A j \in Loops : InHand(j, r)' => HandOrder(j, r)'
  BY <1>1 DEF SendOrder
<1>3. /\ InboxOrder(r) /\ QueueOrder(Index[r], r)
      /\ \A j \in Loops : InHand(j, r) => HandOrder(j, r)
  BY <1>2 DEF SendOrder
<1>4. send'[k] = u /\ \A i \in Pool \ {k} : send'[i] = send[i]
  BY <1>1 DEF SendInv, SendTypeOK
<1>5. /\ sendLoop'[l].pc = "sending" /\ sendLoop'[l].task = q[1]
      /\ \A j \in Loops \ {l} : sendLoop'[j] = sendLoop[j]
  BY <1>1 DEF SendInv, SendTypeOK
<1>6. DOMAIN u \subseteq Nat \ {0}
  BY <1>1
<1> HIDE DEF q, u
<1>7. InboxOrder(r)'
  BY <1>1, <1>3 DEF InboxOrder
<1>8. QueueOrder(Index[r], r)'
  <2>1. CASE Index[r] # k
    <3>1. send'[Index[r]] = send[Index[r]]
      BY <1>4, <2>1 DEF Pool
    <3> QED  BY <1>1, <1>3, <3>1 DEF QueueOrder
  <2>2. CASE Index[r] = k
    <3>1. SUFFICES ASSUME NEW n \in DOMAIN u, u[n][2] = r
          PROVE  /\ Occurs(enqueued[r], u[n])
                 /\ \A i \in DOMAIN inbox[r] : Before(enqueued[r], inbox[r][i], u[n])
                 /\ \A m \in DOMAIN u :
                      m < n /\ u[m][2] = r => Before(enqueued[r], u[m], u[n])
      BY <1>1, <1>4, <2>2 DEF QueueOrder
    <3>2. n + 1 \in DOMAIN q /\ u[n] = q[n + 1]
      BY <1>1
    <3>3. /\ Occurs(enqueued[r], q[n + 1])
          /\ \A i \in DOMAIN inbox[r] : Before(enqueued[r], inbox[r][i], q[n + 1])
          /\ \A m \in DOMAIN q :
               m < n + 1 /\ q[m][2] = r => Before(enqueued[r], q[m], q[n + 1])
      BY <1>3, <2>2, <3>1, <3>2 DEF QueueOrder, q
    <3>4. ASSUME NEW m \in DOMAIN u, m < n, u[m][2] = r
          PROVE  Before(enqueued[r], u[m], u[n])
      <4>1. m + 1 \in DOMAIN q /\ u[m] = q[m + 1] /\ m + 1 < n + 1
        BY <1>1, <1>6, <3>4
      <4> QED  BY <3>2, <3>3, <3>4, <4>1
    <3> QED  BY <3>2, <3>3, <3>4
  <2> QED  BY <2>1, <2>2
<1>9. ASSUME NEW j \in Loops, InHand(j, r)' PROVE HandOrder(j, r)'
  <2>1. CASE j = l
    <3>1. q[1][2] = r /\ Index[r] = k
      BY <1>1, <1>5, <1>9, <2>1 DEF InHand
    <3>2. /\ Occurs(enqueued[r], q[1])
          /\ \A i \in DOMAIN inbox[r] : Before(enqueued[r], inbox[r][i], q[1])
      BY <1>1, <1>3, <3>1 DEF QueueOrder, q
    <3>3. ASSUME NEW n \in DOMAIN u, u[n][2] = r
          PROVE  Before(enqueued[r], q[1], u[n])
      <4>1. n + 1 \in DOMAIN q /\ u[n] = q[n + 1] /\ 1 < n + 1
        BY <1>1, <1>6
      <4> QED  BY <1>1, <1>3, <3>1, <3>3, <4>1 DEF QueueOrder, q
    <3> QED  BY <1>1, <1>4, <1>5, <2>1, <3>2, <3>3 DEF HandOrder
  <2>2. CASE j # l
    <3>1. InHand(j, r) /\ HandOrder(j, r)
      BY <1>3, <1>5, <1>9, <2>2 DEF InHand
    <3>2. j[2] # k
      BY <1>1, <1>2, <2>2, <3>1, OneLoop DEF InHand
    <3>3. send'[j[2]] = send[j[2]]
      BY <1>4, <3>2, SendLoopFacts DEF SendInv
    <3> QED  BY <1>1, <1>5, <2>2, <3>1, <3>3 DEF HandOrder
  <2> QED  BY <2>1, <2>2
<1> QED  BY <1>7, <1>8, <1>9

LEMMA ArriveOrders ==
  ASSUME SendInv, SendOrder, NEW l \in Loops, Arrive(l)
  PROVE  SendOrder'
<1> DEFINE t == sendLoop[l].task
<1>1. /\ t \in SendTask /\ t[2] \in RemoteClusters /\ Index[t[2]] = l[2]
      /\ sendLoop[l].pc = "sending"
      /\ inbox' = [inbox EXCEPT ![t[2]] = Append(@, t)]
      /\ sendLoop' = [sendLoop EXCEPT ![l].pc = "arrived"]
      /\ UNCHANGED <<terms, send, enqueued>>
  BY ArriveFacts DEF Arrive
<1>2. SUFFICES ASSUME terms < 2, NEW r \in RemoteClusters
               PROVE  /\ InboxOrder(r)' /\ QueueOrder(Index[r], r)'
                      /\ \A j \in Loops : InHand(j, r)' => HandOrder(j, r)'
  BY <1>1 DEF SendOrder
<1>3. /\ InboxOrder(r) /\ QueueOrder(Index[r], r)
      /\ \A j \in Loops : InHand(j, r) => HandOrder(j, r)
  BY <1>2 DEF SendOrder
<1>4. /\ sendLoop'[l].pc = "arrived"
      /\ \A j \in Loops \ {l} : sendLoop'[j] = sendLoop[j]
  BY <1>1 DEF SendInv, SendTypeOK
<1> HIDE DEF t
<1>5. \A j \in Loops : InHand(j, r)' => j # l /\ InHand(j, r)
  BY <1>4 DEF InHand
<1>6. CASE t[2] # r
  <2>1. inbox'[r] = inbox[r]
    BY <1>1, <1>6 DEF SendInv, SendTypeOK
  <2>2. InboxOrder(r)' /\ QueueOrder(Index[r], r)'
    BY <1>1, <1>3, <2>1 DEF InboxOrder, QueueOrder
  <2>3. \A j \in Loops : InHand(j, r)' => HandOrder(j, r)'
    BY <1>1, <1>3, <1>4, <1>5, <2>1 DEF HandOrder
  <2> QED  BY <2>2, <2>3
<1>7. CASE t[2] = r
  <2> DEFINE v == inbox[r]
             w == inbox'[r]
  <2>1. w = Append(v, t) /\ v \in Seq(SendTask)
    BY <1>1, <1>7 DEF SendInv, SendTypeOK
  <2> HIDE DEF v, w
  <2>2. \A i \in DOMAIN w : \/ i \in DOMAIN v /\ w[i] = v[i]
                            \/ w[i] = t /\ \A j \in DOMAIN w : ~(i < j)
    BY <1>1, <2>1
  <2>3. InHand(l, r) /\ HandOrder(l, r)
    BY <1>1, <1>3, <1>7 DEF InHand, t
  <2>4. /\ Occurs(enqueued[r], t) /\ \A i \in DOMAIN v : Before(enqueued[r], v[i], t)
        /\ \A n \in DOMAIN send[Index[r]] :
             send[Index[r]][n][2] = r => Before(enqueued[r], t, send[Index[r]][n])
    BY <1>1, <1>7, <2>3 DEF HandOrder, t, v
  <2>5. /\ \A i \in DOMAIN v : Occurs(enqueued[r], v[i])
        /\ \A i, j \in DOMAIN v : i < j => Before(enqueued[r], v[i], v[j])
    BY <1>3 DEF InboxOrder, v
  <2>6. InboxOrder(r)'
    <3>1. /\ \A i \in DOMAIN w : Occurs(enqueued[r], w[i])
          /\ \A i, j \in DOMAIN w : i < j => Before(enqueued[r], w[i], w[j])
      BY <2>2, <2>4, <2>5
    <3> QED  BY <1>1, <3>1 DEF InboxOrder, w
  <2>7. QueueOrder(Index[r], r)'
    <3>1. SUFFICES ASSUME NEW n \in DOMAIN send[Index[r]], send[Index[r]][n][2] = r,
                          NEW i \in DOMAIN w
                   PROVE  Before(enqueued[r], w[i], send[Index[r]][n])
      BY <1>1, <1>3 DEF QueueOrder, w
    <3>2. CASE i \in DOMAIN v /\ w[i] = v[i]
      BY <1>3, <3>1, <3>2 DEF QueueOrder, v
    <3> QED  BY <2>2, <2>4, <3>1, <3>2
  <2>8. ASSUME NEW j \in Loops, InHand(j, r)' PROVE FALSE
    <3>1. j # l /\ InHand(j, r)
      BY <1>5, <2>8
    <3>2. j[2] = l[2]
      BY <1>1, <1>7, <3>1 DEF InHand, SendInv, SendHands
    <3> QED  BY <1>1, <1>2, <3>1, <3>2, OneLoop DEF InHand
  <2> QED  BY <2>6, <2>7, <2>8
<1> QED  BY <1>6, <1>7

(* Steps that put no message in another place, Finish among them: what      *)
(* arrived stays, and nothing more is in hand.                              *)
LEMMA OthersOrder ==
  ASSUME SendOrder, UNCHANGED <<send, enqueued, inbox>>, terms \in Nat,
         terms' \in {terms, terms + 1},
         \A l \in Loops : sendLoop'[l].pc = "sending" =>
           sendLoop[l].pc = "sending" /\ sendLoop'[l].task = sendLoop[l].task
  PROVE  SendOrder'
<1>1. SUFFICES ASSUME terms < 2, NEW r \in RemoteClusters
               PROVE  /\ InboxOrder(r)' /\ QueueOrder(Index[r], r)'
                      /\ \A l \in Loops : InHand(l, r)' => HandOrder(l, r)'
  BY DEF SendOrder
<1>2. /\ InboxOrder(r) /\ QueueOrder(Index[r], r)
      /\ \A l \in Loops : InHand(l, r) => HandOrder(l, r)
  BY <1>1 DEF SendOrder
<1>3. InboxOrder(r)' /\ QueueOrder(Index[r], r)'
  BY <1>2 DEF InboxOrder, QueueOrder
<1>4. \A l \in Loops : InHand(l, r)' => HandOrder(l, r)'
  BY <1>2 DEF InHand, HandOrder
<1> QED  BY <1>3, <1>4

-----------------------------------------------------------------------------

SendInductive == SendInv /\ Conserved /\ SendOrder

LEMMA SendInitInductive ==
  ASSUME RemoteSendAssumption, SendInit
  PROVE  SendInductive
<1>1. SendInv
  BY SendInitInv
<1>2. Conserved
  <2>1. SUFFICES ASSUME NEW t \in SendTask
                 PROVE  Count(send[Index[t[2]]], t)
                          + Cardinality({l \in Loops : sendLoop[l].task = t})
                          + called[t] = Count(enqueued[t[2]], t)
    BY DEF Conserved
  <2>2. t[2] \in RemoteClusters /\ Index[t[2]] \in Pool /\ t # NoTask
    BY SendTaskFacts
  <2>3. send[Index[t[2]]] = <<>> /\ enqueued[t[2]] = <<>> /\ called[t] = 0
    BY <2>2 DEF SendInit
  <2>4. {l \in Loops : sendLoop[l].task = t} = {}
    BY <2>2 DEF SendInit
  <2>5. Count(<<>>, t) = 0
    <3>1. {n \in DOMAIN <<>> : <<>>[n] = t} = {}
      OBVIOUS
    <3> QED  BY <3>1, FS_EmptySet DEF Count
  <2>6. Cardinality({l \in Loops : sendLoop[l].task = t}) = 0
    BY <2>4, FS_EmptySet
  <2>7. Count(send[Index[t[2]]], t) = 0 /\ Count(enqueued[t[2]], t) = 0
    BY <2>3, <2>5
  <2> QED  BY <2>3, <2>6, <2>7
<1>3. SendOrder
  BY DEF SendInit, SendOrder, InboxOrder, QueueOrder, InHand, Pool
<1> QED  BY <1>1, <1>2, <1>3 DEF SendInductive

LEMMA SendNextInductive ==
  ASSUME RemoteSendAssumption, SendInductive, [SendNext]_sendVars
  PROVE  SendInductive'
<1>1. SendInv /\ Conserved /\ SendOrder /\ terms \in Nat
  BY DEF SendInductive, SendInv, SendTypeOK
<1>2. ASSUME NEW c \in Callers, BroadcastMsg(c) \/ BufferFull(c) \/ Expire(c)
      PROVE  SendInductive'
  <2>1. SendInv'
    BY <1>1, <1>2, BroadcastMsgInv, BufferFullInv, SendExpireInv
  <2>2. UNCHANGED <<terms, sendLoop, send, enqueued, inbox, called>>
    BY <1>2 DEF BroadcastMsg, BufferFull, Expire
  <2>3. Conserved' /\ SendOrder'
    BY <1>1, <2>2, OthersConserve, OthersOrder
  <2> QED  BY <2>1, <2>3 DEF SendInductive
<1>3. ASSUME NEW c \in Callers, Enqueue(c) PROVE SendInductive'
  BY <1>1, <1>3, EnqueueInv, EnqueueConserves, EnqueueOrders DEF SendInductive
<1>4. ASSUME NEW l \in Loops, Take(l) PROVE SendInductive'
  BY <1>1, <1>4, TakeInv, TakeConserves, TakeOrders DEF SendInductive
<1>5. ASSUME NEW l \in Loops, Arrive(l) PROVE SendInductive'
  <2>1. \A j \in Loops : sendLoop'[j].task = sendLoop[j].task
    BY <1>1, <1>5 DEF SendInv, SendTypeOK, Arrive
  <2>2. Conserved'
    BY <1>1, <1>5, <2>1, OthersConserve DEF Arrive
  <2> QED  BY <1>1, <1>5, <2>2, ArriveInv, ArriveOrders DEF SendInductive
<1>6. ASSUME NEW l \in Loops, Finish(l) PROVE SendInductive'
  <2>1. \A j \in Loops : sendLoop'[j].pc = "sending" =>
          sendLoop[j].pc = "sending" /\ sendLoop'[j].task = sendLoop[j].task
    BY <1>1, <1>6 DEF SendInv, SendTypeOK, Finish
  <2>2. SendOrder'
    BY <1>1, <1>6, <2>1, OthersOrder DEF Finish
  <2> QED  BY <1>1, <1>6, <2>2, FinishInv, FinishConserves DEF SendInductive
<1>7. ASSUME NEW l \in Loops, LoopLeaves(l) PROVE SendInductive'
  <2>1. \A j \in Loops : /\ sendLoop'[j].task = sendLoop[j].task
                         /\ sendLoop'[j].pc = "sending" => sendLoop[j].pc = "sending"
    BY <1>1, <1>7 DEF SendInv, SendTypeOK, LoopLeaves
  <2>2. SendOrder' /\ Conserved'
    BY <1>1, <1>7, <2>1, OthersOrder, OthersConserve DEF LoopLeaves
  <2> QED  BY <1>1, <1>7, <2>2, LoopLeavesInv DEF SendInductive
<1>8. ASSUME sendResume PROVE SendInductive'
  <2>1. \A j \in Loops : /\ sendLoop'[j].task = sendLoop[j].task
                         /\ sendLoop'[j].pc = "sending" => sendLoop[j].pc = "sending"
    BY <1>1, <1>8, sendResumeFacts
  <2>2. SendOrder' /\ Conserved'
    BY <1>1, <1>8, <2>1, OthersOrder, OthersConserve DEF sendResume
  <2> QED  BY <1>1, <1>8, <2>2, sendResumeInv DEF SendInductive
<1>9. ASSUME sendPause PROVE SendInductive'
  <2>1. SendOrder' /\ Conserved'
    BY <1>1, <1>9, OthersOrder, OthersConserve DEF sendPause
  <2> QED  BY <1>1, <1>9, <2>1, sendPauseInv DEF SendInductive
<1>10. CASE UNCHANGED sendVars
  <2>1. SendInv'
    BY <1>1, <1>10 DEF sendVars, SendInv, SendTypeOK, SendHands, SendQueues
  <2>2. SendOrder' /\ Conserved'
    BY <1>1, <1>10, OthersOrder, OthersConserve DEF sendVars
  <2> QED  BY <2>1, <2>2 DEF SendInductive
<1> QED  BY <1>2, <1>3, <1>4, <1>5, <1>6, <1>7, <1>8, <1>9, <1>10 DEF SendNext

(* The inductive invariant of the send pool. *)
THEOREM SendInvariant ==
  ASSUME RemoteSendAssumption
  PROVE  SendSpec => []SendInductive
<1>1. SendInit => SendInductive
  BY SendInitInductive
<1>2. SendInductive /\ [SendNext]_sendVars => SendInductive'
  BY SendNextInductive
<1> QED  BY <1>1, <1>2, PTL DEF SendSpec

(* Pausing and resuming neither loses nor repeats a message, and until the  *)
(* node becomes the leader a second time the messages of a remote arrive in *)
(* the order of its channel (remotecluster/send.go), for any number of      *)
(* callers, remotes and channels.                                           *)
THEOREM SendDelivers ==
  ASSUME RemoteSendAssumption
  PROVE  SendSpec => []Delivered
<1>1. SendInductive => Delivered
  BY DEF SendInductive, Delivered, OrderPreserved, SendOrder, InboxOrder, Before
<1> QED  BY <1>1, SendInvariant, PTL

-----------------------------------------------------------------------------

Active(t) == task[t].pc \in {"read", "cache", "row"}

(* Under InTurn one call is in progress at a time. *)
Alone == \A t, u \in Tasks : Active(t) /\ Active(u) => t = u

(* An online status is never a manual one, wherever it is kept: so a        *)
(* SetStatusOnline that writes only the time of the activity leaves nothing *)
(* behind in the row.  And a "do not disturb" that ends has a status to go  *)
(* back to.                                                                 *)
Plain(s) == /\ s.status = "online" => ~s.manual
            /\ s.ends # "none" => s.prev # "none"

OnlineIsPlain == Plain(cache) /\ Plain(row) /\ \A t \in Tasks : Plain(task[t].st)

Agree(s, u) == s.status = u.status /\ s.manual = u.manual

(* Where cache and row may differ, and which of the two is to be written.   *)
Agreement ==
  failedWrites = 0 =>
    /\ (\A t \in Tasks : task[t].pc \notin {"cache", "row"})
         => cache = Missing \/ Agree(cache, row)
    /\ \A t \in Tasks :
         /\ task[t].pc = "cache" /\ task[t].save # "save" => Agree(task[t].st, row)
         /\ task[t].pc = "row" => IF task[t].save = "save"
                                    THEN Agree(cache, task[t].st)
                                    ELSE Agree(cache, row)

Connected == \E c \in Conns : conn[c] \in {"made", "registered"}

NotLeftOffline(s) == s.status # "offline" \/ s.manual \/ s.prev = "dnd"

Connects == <<"online", FALSE>>

Disconnects == <<"offline", FALSE>>

(* The row of a user who is connected does not say offline, or a call is on *)
(* its way that will make it so.                                            *)
Presence ==
  /\ \A t \in Tasks : Active(t) /\ task[t].op = Disconnects => ~Connected
  /\ failedWrites = 0 /\ Connected =>
       /\ (\A t \in Tasks : ~Active(t)) => NotLeftOffline(row)
       /\ \A t \in Tasks :
            /\ task[t].pc = "read" => task[t].op = Connects \/ NotLeftOffline(row)
            /\ task[t].pc \in {"cache", "row"} =>
                 NotLeftOffline(IF task[t].save = "save" THEN task[t].st ELSE row)

(* A call of the websockets has nothing in hand that changes a manual       *)
(* status.                                                                  *)
Respectful ==
  \A t \in Tasks :
    /\ task[t].pc = "cache" /\ task[t].op[1] = "activity" => task[t].save = "none"
    /\ task[t].pc \in {"read", "cache"} /\ task[t].op[1] = "fill" => cache = Missing
    /\ /\ task[t].pc = "cache" /\ cache.manual
       /\ ~task[t].op[2] /\ task[t].op[1] # "expire"
       => Agree(task[t].st, cache)

StatusInv == /\ StatusTypeOK /\ Alone /\ OnlineIsPlain /\ Agreement
             /\ Presence /\ Respectful

-----------------------------------------------------------------------------

(* What the operations make of a status. *)

StatusFound == StatusRec \cup {Missing}

LEMMA MissingFacts ==
  /\ Missing \notin StatusRec /\ Missing.status = "missing" /\ ~Missing.manual
  /\ Missing.prev = "none" /\ Missing.ends = "none" /\ Missing.recent = FALSE
  BY DEF Missing, Fresh, StatusRec, Statuses

LEMMA OpsFacts ==
  ASSUME NEW op \in Ops
  PROVE  /\ op[2] \in BOOLEAN
         /\ op[1] \in {"online", "offline", "away", "timed", "dnd", "ooo",
                       "activity", "expire", "fill"}
         /\ op[1] \in {"timed", "dnd", "ooo"} => op[2] = TRUE
         /\ op[1] \in {"activity", "expire", "fill"} => op[2] = FALSE
         /\ op[1] = "offline" => op = Disconnects \/ op[2] = TRUE
         /\ op[1] # "online" => op # Connects
         /\ op[1] # "offline" => op # Disconnects
<1>1. CASE op \in {"online", "offline", "away"} \X BOOLEAN
  <2>1. PICK a \in {"online", "offline", "away"}, m \in BOOLEAN : op = <<a, m>>
    BY <1>1
  <2>2. op[1] = a /\ op[2] = m
    BY <2>1
  <2> QED  BY <2>1, <2>2, Zenon DEF Connects, Disconnects
<1>2. CASE op \in {"timed", "dnd", "ooo"} \X {TRUE}
  <2>1. op[1] \in {"timed", "dnd", "ooo"} /\ op[2] = TRUE
    BY <1>2
  <2>2. Connects[1] = "online" /\ Disconnects[1] = "offline"
    BY DEF Connects, Disconnects
  <2> QED  BY <2>1, <2>2
<1>3. CASE op \in {"activity", "expire", "fill"} \X {FALSE}
  <2>1. op[1] \in {"activity", "expire", "fill"} /\ op[2] = FALSE
    BY <1>3
  <2>2. Connects[1] = "online" /\ Disconnects[1] = "offline"
    BY DEF Connects, Disconnects
  <2> QED  BY <2>1, <2>2
<1> QED  BY <1>1, <1>2, <1>3 DEF Ops

LEMMA FreshFacts ==
  ASSUME NEW s \in Statuses, NEW m \in BOOLEAN, NEW r \in BOOLEAN
  PROVE  /\ Fresh(s, m, r) \in StatusRec /\ Fresh(s, m, r).status = s
         /\ Fresh(s, m, r).manual = m /\ Fresh(s, m, r).ends = "none"
  BY DEF Fresh, StatusRec, Ends

(* r is a result of an operation on s. *)
ResultOf(r, s) == /\ r[1] \in StatusRec /\ r[2] \in {"none", "touch", "save"}
                  /\ Plain(r[1]) /\ (r[2] # "save" => Agree(r[1], s))

LEMMA OnlineFacts ==
  ASSUME NEW s \in StatusFound, Plain(s), NEW m \in BOOLEAN,
         NEW r \in SetStatusOnline(s, m)
  PROVE  ResultOf(r, s) /\ r[1].status = "online" /\ ~Overridden(s, m)
<1>1. CASE s = Missing
  <2>1. r = <<Fresh("online", FALSE, TRUE), "save">>
    BY <1>1 DEF SetStatusOnline
  <2> QED  BY <1>1, <2>1, FreshFacts, MissingFacts
           DEF ResultOf, Plain, Overridden, Statuses
<1>2. CASE s # Missing
  <2> DEFINE u == [s EXCEPT !.status = "online", !.manual = FALSE, !.recent = TRUE]
  <2>1. s \in StatusRec
    BY <1>2 DEF StatusFound
  <2>2. ~Overridden(s, m)
    BY <1>2 DEF SetStatusOnline
  <2>3. /\ r[1] = u
        /\ IF s.status # "online" THEN r[2] = "save" ELSE r[2] \in {"touch", "none"}
    BY <1>2, <2>2 DEF SetStatusOnline
  <2>4. /\ u \in StatusRec /\ u.status = "online" /\ u.manual = FALSE
        /\ u.ends = s.ends /\ u.prev = s.prev
    BY <2>1 DEF StatusRec, Statuses
  <2>5. s.manual \in BOOLEAN
    BY <2>1 DEF StatusRec
  <2> HIDE DEF u
  <2> QED  BY <2>2, <2>3, <2>4, <2>5 DEF ResultOf, Plain, Agree
<1> QED  BY <1>1, <1>2

LEMMA OfflineFacts ==
  ASSUME NEW s \in StatusFound, NEW m \in BOOLEAN, NEW r \in SetStatusOffline(s, m)
  PROVE  ResultOf(r, s) /\ (m => r[1].manual) /\ r[2] = "save" /\ ~Overridden(s, m)
<1>1. ~Overridden(s, m) /\ r = <<Fresh("offline", m, TRUE), "save">>
  BY DEF SetStatusOffline
<1>2. r[1] = Fresh("offline", m, TRUE) /\ r[2] = "save"
  BY <1>1
<1>3. r[1] \in StatusRec /\ r[1].status = "offline" /\ r[1].manual = m /\ r[1].ends = "none"
  <2>1. "offline" \in Statuses /\ TRUE \in BOOLEAN
    BY DEF Statuses
  <2>2. /\ Fresh("offline", m, TRUE) \in StatusRec
        /\ Fresh("offline", m, TRUE).status = "offline"
        /\ Fresh("offline", m, TRUE).manual = m
        /\ Fresh("offline", m, TRUE).ends = "none"
    BY <2>1, FreshFacts, Zenon
  <2> QED  BY <1>2, <2>2
<1> QED  BY <1>1, <1>2, <1>3 DEF ResultOf, Plain

LEMMA AwayFacts ==
  ASSUME NEW s \in StatusFound, Plain(s), NEW m \in BOOLEAN,
         NEW r \in SetStatusAwayIfNeeded(s, m)
  PROVE  ResultOf(r, s) /\ r[1].status = "away" /\ r[2] = "save" /\ ~Overridden(s, m)
<1> DEFINE u == IF s = Missing THEN Fresh("offline", m, FALSE) ELSE s
<1>1. u \in StatusRec /\ (u.ends # "none" => u.prev # "none")
  BY FreshFacts DEF StatusFound, Statuses, Plain
<1>2. r = <<[u EXCEPT !.status = "away", !.manual = m], "save">> /\ ~Overridden(u, m)
  BY DEF SetStatusAwayIfNeeded
<1>3. ~Overridden(s, m)
  BY <1>2, MissingFacts DEF Overridden
<1> DEFINE v == [u EXCEPT !.status = "away", !.manual = m]
<1>4. v \in StatusRec /\ v.status = "away" /\ v.ends = u.ends /\ v.prev = u.prev
  BY <1>1 DEF StatusRec, Statuses
<1>5. r[1] = v /\ r[2] = "save"
  BY <1>2
<1> HIDE DEF u, v
<1> QED  BY <1>1, <1>3, <1>4, <1>5 DEF ResultOf, Plain

LEMMA FoundFacts ==
  ASSUME NEW s \in StatusFound, Plain(s)
  PROVE  Found(s) \in StatusRec /\ (Found(s).ends # "none" => Found(s).prev # "none")
  BY FreshFacts DEF Found, StatusFound, Statuses, Plain

(* "Do not disturb" and out of office. *)
LEMMA ManualFacts ==
  ASSUME NEW s \in StatusFound, Plain(s),
         NEW r \in SetStatusDoNotDisturbTimed(s) \cup SetStatusDoNotDisturb(s)
                      \cup SetStatusOutOfOffice(s)
  PROVE  ResultOf(r, s) /\ r[1].status \in {"dnd", "ooo"} /\ r[2] = "save"
<1> DEFINE f == Found(s)
           u == [f EXCEPT !.prev = f.status, !.status = "dnd", !.manual = TRUE,
                          !.ends = "later"]
           v == [f EXCEPT !.status = "dnd", !.manual = TRUE]
           w == [f EXCEPT !.status = "ooo", !.manual = TRUE]
<1>1. f \in StatusRec /\ (f.ends # "none" => f.prev # "none")
  BY FoundFacts
<1>2. r \in {<<u, "save">>, <<v, "save">>, <<w, "save">>}
  BY DEF SetStatusDoNotDisturbTimed, SetStatusDoNotDisturb, SetStatusOutOfOffice
<1> HIDE DEF f
<1>3. /\ u \in StatusRec /\ u.status = "dnd" /\ v \in StatusRec /\ v.status = "dnd"
      /\ w \in StatusRec /\ w.status = "ooo"
      /\ u.prev # "none" /\ v.prev = f.prev /\ v.ends = f.ends /\ w.prev = f.prev
      /\ w.ends = f.ends
  BY <1>1 DEF StatusRec, Statuses, Ends
<1> HIDE DEF u, v, w
<1>4. r[1] \in {u, v, w} /\ r[2] = "save"
  BY <1>2
<1> QED  BY <1>1, <1>3, <1>4 DEF ResultOf, Plain

LEMMA ActivityFacts ==
  ASSUME NEW s \in StatusFound, Plain(s), NEW r \in SetStatusLastActivityAt(s)
  PROVE  ResultOf(r, s) /\ r[2] = "none" /\ Agree(r[1], s)
<1>1. s \in StatusRec /\ r = <<[s EXCEPT !.recent = FALSE], "none">>
  BY DEF SetStatusLastActivityAt, StatusFound
<1>2. /\ [s EXCEPT !.recent = FALSE] \in StatusRec
      /\ Agree([s EXCEPT !.recent = FALSE], s) /\ Plain([s EXCEPT !.recent = FALSE])
  BY <1>1 DEF StatusRec, Agree, Plain
<1> QED  BY <1>1, <1>2 DEF ResultOf, Plain, Agree

LEMMA FillFacts ==
  ASSUME row \in StatusFound, Plain(row), NEW r \in GetStatusesByIds
  PROVE  ResultOf(r, row) /\ r[2] = "none"
<1>1. row \in StatusRec /\ r = <<Fresh(row.status, row.manual, row.recent), "none">>
  BY DEF GetStatusesByIds, StatusFound
<1>2. row.status \in Statuses /\ row.manual \in BOOLEAN /\ row.recent \in BOOLEAN
  BY <1>1 DEF StatusRec
<1> QED  BY <1>1, <1>2, FreshFacts DEF ResultOf, Plain, Agree

(* The status that a call finds. *)
LEMMA GetStatusFacts ==
  ASSUME StatusTypeOK, OnlineIsPlain
  PROVE  /\ GetStatus \in StatusFound /\ Plain(GetStatus)
         /\ cache # Missing => GetStatus = cache
         /\ cache = Missing => GetStatus = row
  BY DEF StatusTypeOK, OnlineIsPlain, GetStatus, StatusFound

LEMMA ResultFacts ==
  ASSUME StatusTypeOK, OnlineIsPlain, NEW op \in Ops, op[1] # "expire",
         NEW r \in Result(op)
  PROVE  /\ r[1] \in StatusRec /\ r[2] \in {"none", "touch", "save"} /\ Plain(r[1])
         /\ cache = Missing \/ Agree(cache, row)
              => (r[2] # "save" => Agree(r[1], row))
         /\ r[2] = "save" /\ op # Disconnects => NotLeftOffline(r[1])
         /\ op = Connects => r[1].status = "online"
         /\ op[1] = "activity" => r[2] = "none"
         /\ cache.manual /\ ~op[2] /\ (op[1] = "fill" => cache = Missing)
              => Agree(r[1], cache)
<1> DEFINE s == GetStatus
<1>1. s \in StatusFound /\ Plain(s) /\ (cache # Missing => s = cache)
        /\ (cache = Missing => s = row)
  BY GetStatusFacts
<1>2. cache.manual => cache # Missing /\ s = cache
  BY <1>1, MissingFacts
<1>3. op[2] \in BOOLEAN
  BY OpsFacts
<1>4. cache = Missing \/ Agree(cache, row) => Agree(s, row)
  BY <1>1 DEF Agree
<1> HIDE DEF s
<1>5. CASE op[1] = "online"
  <2>1. r \in SetStatusOnline(s, op[2])
    BY <1>5 DEF Result, s
  <2> QED  BY <1>1, <1>2, <1>3, <1>4, <1>5, <2>1, OnlineFacts
           DEF ResultOf, Agree, NotLeftOffline, Overridden
<1>6. CASE op[1] = "offline"
  <2>1. r \in SetStatusOffline(s, op[2])
    BY <1>6 DEF Result, s
  <2>2. op = Disconnects \/ op[2]
    BY <1>6, OpsFacts
  <2>3. op # Connects
    BY <1>6, OpsFacts
  <2> QED  BY <1>1, <1>2, <1>3, <1>4, <1>6, <2>1, <2>2, <2>3, OfflineFacts
           DEF ResultOf, Agree, NotLeftOffline, Overridden
<1>7. CASE op[1] = "away"
  <2>1. r \in SetStatusAwayIfNeeded(s, op[2])
    BY <1>7 DEF Result, s
  <2>3. op # Connects
    BY <1>7, OpsFacts
  <2> QED  BY <1>1, <1>2, <1>3, <1>4, <1>7, <2>1, <2>3, AwayFacts
           DEF ResultOf, Agree, NotLeftOffline, Overridden
<1>8. CASE op[1] \in {"timed", "dnd", "ooo"}
  <2>1. r \in SetStatusDoNotDisturbTimed(s) \cup SetStatusDoNotDisturb(s)
               \cup SetStatusOutOfOffice(s)
    BY <1>8 DEF Result, s
  <2>2. op # Connects /\ op[2]
    BY <1>8, OpsFacts
  <2> QED  BY <1>1, <1>2, <1>3, <1>4, <1>8, <2>1, <2>2, ManualFacts
           DEF ResultOf, Agree, NotLeftOffline
<1>9. CASE op[1] = "activity"
  <2>1. r \in SetStatusLastActivityAt(s)
    BY <1>9 DEF Result, s
  <2>2. op # Connects
    BY <1>9, OpsFacts
  <2> QED  BY <1>1, <1>2, <1>3, <1>4, <1>9, <2>1, <2>2, ActivityFacts
           DEF ResultOf, Agree
<1>10. CASE op[1] = "fill"
  <2>1. r \in GetStatusesByIds
    BY <1>10 DEF Result
  <2>2. op # Connects
    BY <1>10, OpsFacts
  <2>3. row \in StatusFound /\ Plain(row)
    BY DEF StatusTypeOK, StatusFound, OnlineIsPlain
  <2> QED  BY <1>2, <1>10, <2>1, <2>2, <2>3, FillFacts DEF ResultOf, Agree
<1> QED  BY <1>5, <1>6, <1>7, <1>8, <1>9, <1>10, OpsFacts

-----------------------------------------------------------------------------

(* The invariant as seen from call t, when no other is in progress. *)
CallInv(t) ==
  /\ StatusTypeOK /\ OnlineIsPlain
  /\ \A u \in Tasks \ {t} : ~Active(u)
  /\ failedWrites = 0 =>
       /\ task[t].pc \notin {"cache", "row"} => cache = Missing \/ Agree(cache, row)
       /\ task[t].pc = "cache" /\ task[t].save # "save" => Agree(task[t].st, row)
       /\ task[t].pc = "row" => IF task[t].save = "save"
                                  THEN Agree(cache, task[t].st)
                                  ELSE Agree(cache, row)
  /\ Active(t) /\ task[t].op = Disconnects => ~Connected
  /\ failedWrites = 0 /\ Connected =>
       /\ ~Active(t) => NotLeftOffline(row)
       /\ task[t].pc = "read" => task[t].op = Connects \/ NotLeftOffline(row)
       /\ task[t].pc \in {"cache", "row"} =>
            NotLeftOffline(IF task[t].save = "save" THEN task[t].st ELSE row)
  /\ task[t].pc = "cache" /\ task[t].op[1] = "activity" => task[t].save = "none"
  /\ task[t].pc \in {"read", "cache"} /\ task[t].op[1] = "fill" => cache = Missing
  /\ /\ task[t].pc = "cache" /\ cache.manual
     /\ ~task[t].op[2] /\ task[t].op[1] # "expire"
     => Agree(task[t].st, cache)

LEMMA CallInvFrom ==
  ASSUME StatusInv, NEW t \in Tasks, \A u \in Tasks \ {t} : ~Active(u)
  PROVE  CallInv(t)
<1>1. \A u \in Tasks \ {t} : task[u].pc \notin {"cache", "row"}
  BY DEF Active
<1> QED  BY <1>1 DEF StatusInv, CallInv, Agreement, Presence, Respectful, Active

LEMMA CallInvTo ==
  ASSUME NEW t \in Tasks, CallInv(t)'
  PROVE  StatusInv'
<1>1. \A u \in Tasks \ {t} : task'[u].pc \notin {"read", "cache", "row"}
  BY DEF Active, CallInv
<1>2. Alone'
  BY DEF Alone, CallInv
<1>3. Agreement'
  BY <1>1 DEF Agreement, CallInv
<1>4. Presence'
  BY <1>1 DEF Presence, CallInv, Active
<1>5. Respectful'
  BY <1>1 DEF Respectful, CallInv
<1> QED  BY <1>2, <1>3, <1>4, <1>5 DEF StatusInv, CallInv

LEMMA OthersRest ==
  ASSUME StatusInv, NEW t \in Tasks, Active(t)
  PROVE  CallInv(t)
<1>1. \A u \in Tasks \ {t} : ~Active(u)
  BY DEF StatusInv, Alone
<1> QED  BY <1>1, CallInvFrom

LEMMA AllRest ==
  ASSUME StatusInv, Quiet, NEW t \in Tasks
  PROVE  CallInv(t) /\ ~Active(t)
<1>1. \A u \in Tasks : ~Active(u)
  BY DEF Quiet, Active
<1> QED  BY <1>1, CallInvFrom

CallRec == [op : Ops, pc : {"none", "read", "cache", "row", "done"},
            st : StatusRec \cup {Missing}, save : {"none", "touch", "save"}]

LEMMA CallType ==
  ASSUME StatusTypeOK, NEW t \in Tasks
  PROVE  task[t] \in CallRec /\ task \in [Tasks -> CallRec]
  BY DEF StatusTypeOK, CallRec

(* The call t is now as c says. *)
LEMMA CallSet ==
  ASSUME StatusTypeOK, NEW t \in Tasks, NEW c \in CallRec,
         task' = [task EXCEPT ![t] = c]
  PROVE  /\ task' \in [Tasks -> CallRec] /\ task'[t] = c
         /\ \A u \in Tasks \ {t} : task'[u] = task[u]
  BY DEF StatusTypeOK, CallRec

LEMMA DoneFacts ==
  /\ Done \in CallRec /\ Done.pc = "done" /\ Done.st = Missing
  /\ NoCall \in CallRec /\ NoCall.pc = "none" /\ NoCall.st = Missing
<1>1. <<"fill", FALSE>> \in Ops
  BY DEF Ops
<1> QED  BY <1>1 DEF Done, NoCall, CallRec

(* A step of t leaves the others at rest. *)
LEMMA OthersStay ==
  ASSUME NEW t \in Tasks, CallInv(t), \A u \in Tasks \ {t} : task'[u] = task[u]
  PROVE  /\ \A u \in Tasks \ {t} : ~Active(u)'
         /\ \A u \in Tasks \ {t} : Plain(task'[u].st)
  BY DEF CallInv, Active, OnlineIsPlain

-----------------------------------------------------------------------------

(* Steps of a call. *)

LEMMA ReadInv ==
  ASSUME NEW t \in Tasks, CallInv(t), Read(t)
  PROVE  CallInv(t)'
<1> DEFINE op == task[t].op
<1>1. /\ task[t].pc = "read" /\ op \in Ops /\ op[1] # "expire"
      /\ UNCHANGED <<cache, row, conn, failedWrites>> /\ StatusTypeOK /\ OnlineIsPlain
      /\ task[t] \in CallRec
  BY CallType DEF Read, CallInv, CallRec
<1>2. CASE Result(op) = {}
  <2>1. task' = [task EXCEPT ![t] = Done]
    BY <1>2 DEF Read
  <2>2. /\ task' \in [Tasks -> CallRec] /\ task'[t] = Done
        /\ \A u \in Tasks \ {t} : task'[u] = task[u]
    BY <1>1, <2>1, CallSet, DoneFacts
  <2>3. StatusTypeOK'
    BY <1>1, <2>2 DEF StatusTypeOK, CallRec
  <2>4. OnlineIsPlain'
    BY <1>1, <2>2, DoneFacts, MissingFacts, OthersStay DEF OnlineIsPlain, Plain
  <2>5. failedWrites = 0 /\ Connected => NotLeftOffline(row)
    <3>1. SUFFICES ASSUME failedWrites = 0, op = Connects
                   PROVE  NotLeftOffline(row)
      BY <1>1 DEF CallInv
    <3>2. op[1] = "online"
      BY <3>1 DEF Connects
    <3>3. SetStatusOnline(GetStatus, op[2]) = {}
      BY <1>2, <3>2 DEF Result
    <3>5. GetStatus # Missing /\ Overridden(GetStatus, op[2])
      BY <3>3 DEF SetStatusOnline
    <3>4. cache = Missing \/ Agree(cache, row)
      BY <1>1, <3>1 DEF CallInv
    <3> QED  BY <3>4, <3>5 DEF GetStatus, Overridden, Agree, NotLeftOffline
  <2>6. Connected' = Connected
    BY <1>1 DEF Connected
  <2> QED
    BY <1>1, <2>2, <2>3, <2>4, <2>5, <2>6, DoneFacts, OthersStay DEF CallInv, Active
<1>3. CASE Result(op) # {}
  <2>1. PICK r \in Result(op) :
          task' = [task EXCEPT ![t].pc = "cache", ![t].st = r[1], ![t].save = r[2]]
    BY <1>3 DEF Read
  <2> DEFINE c == [task[t] EXCEPT !.pc = "cache", !.st = r[1], !.save = r[2]]
  <2>2. /\ r[1] \in StatusRec /\ r[2] \in {"none", "touch", "save"} /\ Plain(r[1])
        /\ cache = Missing \/ Agree(cache, row)
             => (r[2] # "save" => Agree(r[1], row))
        /\ r[2] = "save" /\ op # Disconnects => NotLeftOffline(r[1])
        /\ op = Connects => r[1].status = "online"
        /\ op[1] = "activity" => r[2] = "none"
        /\ cache.manual /\ ~op[2] /\ (op[1] = "fill" => cache = Missing)
             => Agree(r[1], cache)
    BY <1>1, ResultFacts
  <2>3. /\ c \in CallRec /\ c.pc = "cache" /\ c.st = r[1] /\ c.save = r[2] /\ c.op = op
    BY <1>1, <2>2 DEF CallRec
  <2>4. task' = [task EXCEPT ![t] = c]
    BY <2>1, CallType, <1>1 DEF CallRec
  <2> HIDE DEF c
  <2>5. /\ task' \in [Tasks -> CallRec] /\ task'[t] = c
        /\ \A u \in Tasks \ {t} : task'[u] = task[u]
    BY <1>1, <2>3, <2>4, CallSet
  <2>6. StatusTypeOK'
    BY <1>1, <2>5 DEF StatusTypeOK, CallRec
  <2>7. OnlineIsPlain'
    BY <1>1, <2>2, <2>3, <2>5, OthersStay DEF OnlineIsPlain, Plain
  <2>8. Connected' = Connected
    BY <1>1 DEF Connected
  <2>9. /\ failedWrites = 0 => cache = Missing \/ Agree(cache, row)
        /\ op = Disconnects => ~Connected
        /\ failedWrites = 0 /\ Connected => op = Connects \/ NotLeftOffline(row)
        /\ op[1] = "fill" => cache = Missing
    BY <1>1 DEF CallInv, Active
  <2>10. failedWrites = 0 /\ Connected =>
           NotLeftOffline(IF r[2] = "save" THEN r[1] ELSE row)
    BY <2>2, <2>9 DEF NotLeftOffline, Agree
  <2> QED
    BY <1>1, <2>2, <2>3, <2>5, <2>6, <2>7, <2>8, <2>9, <2>10, OthersStay
    DEF CallInv, Active
<1> QED  BY <1>2, <1>3

LEMMA ExpireInv ==
  ASSUME NEW t \in Tasks, CallInv(t), UpdateExpiredDNDStatuses(t)
  PROVE  CallInv(t)'
<1> DEFINE op == task[t].op
<1>1. /\ task[t].pc = "read" /\ op \in Ops /\ op[1] = "expire"
      /\ UNCHANGED <<cache, conn, failedWrites>> /\ StatusTypeOK /\ OnlineIsPlain
      /\ task[t] \in CallRec
  BY CallType DEF UpdateExpiredDNDStatuses, CallInv, CallRec
<1>2. Connected' = Connected
  BY <1>1 DEF Connected
<1>3. op # Connects /\ op # Disconnects
  BY <1>1, OpsFacts
<1>4. failedWrites = 0 /\ Connected => NotLeftOffline(row)
  BY <1>1, <1>3 DEF CallInv
<1>5. CASE row.status = "dnd" /\ row.ends = "past"
  <2> DEFINE u == [row EXCEPT !.status = row.prev, !.prev = "dnd",
                              !.ends = "none", !.manual = FALSE]
             c == [task[t] EXCEPT !.pc = "cache", !.st = u, !.save = "none"]
  <2>1. row' = u /\ task' = [task EXCEPT ![t].pc = "cache", ![t].st = row',
                                          ![t].save = "none"]
    BY <1>5 DEF UpdateExpiredDNDStatuses
  <2>2. row \in StatusRec
    BY <1>1, <1>5, MissingFacts DEF StatusTypeOK
  <2>3. row.prev \in Statuses
    BY <1>1, <1>5, <2>2 DEF OnlineIsPlain, Plain, StatusRec
  <2>4. /\ u \in StatusRec /\ Plain(u) /\ u.prev = "dnd"
    BY <2>2, <2>3 DEF StatusRec, Ends, Statuses, Plain
  <2> HIDE DEF u
  <2>5. c \in CallRec /\ c.pc = "cache" /\ c.st = u /\ c.save = "none" /\ c.op = op
    BY <1>1, <2>4 DEF CallRec
  <2>6. task' = [task EXCEPT ![t] = c]
    BY <1>1, <2>1, CallType DEF CallRec
  <2> HIDE DEF c
  <2>7. /\ task' \in [Tasks -> CallRec] /\ task'[t] = c
        /\ \A v \in Tasks \ {t} : task'[v] = task[v]
    BY <1>1, <2>5, <2>6, CallSet
  <2>8. StatusTypeOK'
    BY <1>1, <2>1, <2>4, <2>7 DEF StatusTypeOK, CallRec
  <2>9. OnlineIsPlain'
    BY <1>1, <2>1, <2>4, <2>5, <2>7, OthersStay DEF OnlineIsPlain
  <2>10. NotLeftOffline(row') /\ Agree(u, row')
    BY <2>1, <2>4 DEF NotLeftOffline, Agree
  <2>11. op[1] # "fill"
    BY <1>1
  <2> QED
    BY <1>1, <1>2, <1>3, <2>1, <2>5, <2>7, <2>8, <2>9, <2>10, <2>11, OthersStay
    DEF CallInv, Active, NotLeftOffline, Agree
<1>6. CASE ~(row.status = "dnd" /\ row.ends = "past")
  <2>1. task' = [task EXCEPT ![t] = Done] /\ row' = row
    BY <1>6 DEF UpdateExpiredDNDStatuses
  <2>2. /\ task' \in [Tasks -> CallRec] /\ task'[t] = Done
        /\ \A u \in Tasks \ {t} : task'[u] = task[u]
    BY <1>1, <2>1, CallSet, DoneFacts
  <2>3. StatusTypeOK'
    BY <1>1, <2>1, <2>2 DEF StatusTypeOK, CallRec
  <2>4. OnlineIsPlain'
    BY <1>1, <2>1, <2>2, DoneFacts, MissingFacts, OthersStay DEF OnlineIsPlain, Plain
  <2> QED
    BY <1>1, <1>2, <1>4, <2>1, <2>2, <2>3, <2>4, DoneFacts, OthersStay
    DEF CallInv, Active
<1> QED  BY <1>5, <1>6

(* SetStatusLastActivityAt goes on with SetStatusAwayIfNeeded; the others    *)
(* return or write the row.                                                 *)
LEMMA AddStatusCacheInv ==
  ASSUME NEW t \in Tasks, CallInv(t), AddStatusCache(t)
  PROVE  CallInv(t)'
<1> DEFINE op == task[t].op
           c == IF op[1] = "activity"
                  THEN [task[t] EXCEPT !.op = <<"away", FALSE>>, !.pc = "read"]
                ELSE IF task[t].save = "none" THEN Done
                ELSE [task[t] EXCEPT !.pc = "row"]
<1>1. /\ task[t].pc = "cache" /\ op \in Ops /\ cache' = task[t].st
      /\ UNCHANGED <<row, conn, failedWrites>> /\ StatusTypeOK /\ OnlineIsPlain
      /\ task[t] \in CallRec
  BY CallType DEF AddStatusCache, CallInv, CallRec
<1>2. Connected' = Connected
  BY <1>1 DEF Connected
<1>3. <<"away", FALSE>> \in Ops /\ <<"away", FALSE>>[1] = "away"
  BY DEF Ops
<1>4. c \in CallRec
  BY <1>1, <1>3, DoneFacts DEF CallRec
<1>5. task' = [task EXCEPT ![t] = c]
  BY <1>1, CallType DEF AddStatusCache, CallRec
<1>6. CASE op[1] = "activity"
  <2>1. c.op = <<"away", FALSE>> /\ c.pc = "read" /\ c.st = task[t].st
    BY <1>1, <1>6 DEF CallRec
  <2> HIDE DEF c
  <2>2. /\ task' \in [Tasks -> CallRec] /\ task'[t] = c
        /\ \A u \in Tasks \ {t} : task'[u] = task[u]
    BY <1>1, <1>4, <1>5, CallSet
  <2>3. StatusTypeOK'
    BY <1>1, <2>2 DEF StatusTypeOK, CallRec
  <2>4. OnlineIsPlain'
    BY <1>1, <2>1, <2>2, OthersStay DEF OnlineIsPlain
  <2>5. /\ failedWrites = 0 => Agree(cache', row)
        /\ failedWrites = 0 /\ Connected => NotLeftOffline(row)
    BY <1>1, <1>6 DEF CallInv
  <2>6. task'[t].op # Disconnects /\ task'[t].op[1] # "fill" /\ task'[t].pc = "read"
    BY <1>3, <2>1, <2>2, OpsFacts
  <2>7. \A u \in Tasks \ {t} : ~Active(u)'
    BY <2>2, OthersStay
  <2> HIDE DEF op
  <2> QED
    BY <1>1, <1>2, <2>3, <2>4, <2>5, <2>6, <2>7 DEF CallInv, Active
<1>7. CASE op[1] # "activity" /\ task[t].save = "none"
  <2>1. c = Done
    BY <1>7
  <2> HIDE DEF c
  <2>2. /\ task' \in [Tasks -> CallRec] /\ task'[t] = Done
        /\ \A u \in Tasks \ {t} : task'[u] = task[u]
    BY <1>1, <1>4, <1>5, <2>1, CallSet
  <2>3. StatusTypeOK'
    BY <1>1, <2>2 DEF StatusTypeOK, CallRec
  <2>4. OnlineIsPlain'
    BY <1>1, <2>2, DoneFacts, MissingFacts, OthersStay DEF OnlineIsPlain, Plain
  <2>5. /\ failedWrites = 0 => Agree(cache', row)
        /\ failedWrites = 0 /\ Connected => NotLeftOffline(row)
    BY <1>1, <1>7 DEF CallInv
  <2> QED
    BY <1>1, <1>2, <2>2, <2>3, <2>4, <2>5, DoneFacts, OthersStay DEF CallInv, Active
<1>8. CASE op[1] # "activity" /\ task[t].save # "none"
  <2>1. c.op = op /\ c.pc = "row" /\ c.st = task[t].st /\ c.save = task[t].save
    BY <1>1, <1>8 DEF CallRec
  <2> HIDE DEF c
  <2>2. /\ task' \in [Tasks -> CallRec] /\ task'[t] = c
        /\ \A u \in Tasks \ {t} : task'[u] = task[u]
    BY <1>1, <1>4, <1>5, CallSet
  <2>3. StatusTypeOK'
    BY <1>1, <2>2 DEF StatusTypeOK, CallRec
  <2>4. OnlineIsPlain'
    BY <1>1, <2>1, <2>2, OthersStay DEF OnlineIsPlain
  <2>5. /\ failedWrites = 0 /\ task[t].save # "save" => Agree(cache', row)
        /\ Agree(cache', task[t].st)
        /\ op = Disconnects => ~Connected
        /\ failedWrites = 0 /\ Connected =>
             NotLeftOffline(IF task[t].save = "save" THEN task[t].st ELSE row)
    BY <1>1, <1>8 DEF CallInv, Agree, Active
  <2> QED
    BY <1>1, <1>2, <2>1, <2>2, <2>3, <2>4, <2>5, OthersStay DEF CallInv, Active
<1> QED  BY <1>6, <1>7, <1>8

LEMMA SaveOrUpdateInv ==
  ASSUME NEW t \in Tasks, CallInv(t), SaveOrUpdate(t), MaxFailedWrites \in Nat
  PROVE  CallInv(t)'
<1> DEFINE v == IF task[t].save = "save" THEN task[t].st
                ELSE IF row = Missing THEN row ELSE [row EXCEPT !.recent = TRUE]
<1>1. /\ task[t].pc = "row" /\ UNCHANGED <<cache, conn>> /\ StatusTypeOK
      /\ OnlineIsPlain /\ task[t] \in CallRec
  BY CallType DEF SaveOrUpdate, CallInv
<1>2. Connected' = Connected
  BY <1>1 DEF Connected
<1>3. task' = [task EXCEPT ![t] = Done]
  BY DEF SaveOrUpdate
<1>4. /\ task' \in [Tasks -> CallRec] /\ task'[t] = Done
      /\ \A u \in Tasks \ {t} : task'[u] = task[u]
  BY <1>1, <1>3, CallSet, DoneFacts
<1>5. /\ v \in StatusFound /\ Plain(v)
      /\ task[t].save # "save" => Agree(v, row) /\ v.prev = row.prev
      /\ task[t].save = "save" => v = task[t].st
  <2>1. CASE task[t].save # "save" /\ row # Missing
    <3>1. row \in StatusRec /\ Plain(row)
      BY <1>1, <2>1 DEF StatusTypeOK, OnlineIsPlain
    <3> DEFINE w == [row EXCEPT !.recent = TRUE]
    <3>2. /\ w \in StatusRec /\ w.status = row.status /\ w.manual = row.manual
          /\ w.ends = row.ends /\ w.prev = row.prev
      BY <3>1 DEF StatusRec
    <3>3. v = w
      BY <2>1
    <3> HIDE DEF v, w
    <3> QED  BY <2>1, <3>1, <3>2, <3>3 DEF StatusFound, Plain, Agree
  <2>2. CASE task[t].save = "save" \/ row = Missing
    BY <1>1, <2>2 DEF StatusTypeOK, StatusFound, CallRec, OnlineIsPlain, Agree
  <2> QED  BY <2>1, <2>2
<1>6. CASE row' = v /\ UNCHANGED failedWrites
  <2> HIDE DEF v
  <2>1. StatusTypeOK'
    BY <1>1, <1>4, <1>5, <1>6 DEF StatusTypeOK, CallRec, StatusFound
  <2>2. OnlineIsPlain'
    BY <1>1, <1>4, <1>5, <1>6, DoneFacts, MissingFacts, OthersStay
    DEF OnlineIsPlain, Plain
  <2>3. failedWrites = 0 => Agree(cache, row')
    BY <1>1, <1>5, <1>6 DEF CallInv, Agree
  <2>4. failedWrites = 0 /\ Connected => NotLeftOffline(row')
    BY <1>1, <1>5, <1>6 DEF CallInv, Agree, NotLeftOffline
  <2> QED
    BY <1>1, <1>2, <1>4, <1>6, <2>1, <2>2, <2>3, <2>4, DoneFacts, OthersStay
    DEF CallInv, Active
<1>7. CASE /\ failedWrites < MaxFailedWrites /\ failedWrites' = failedWrites + 1
           /\ UNCHANGED row
  <2>1. StatusTypeOK' /\ failedWrites' # 0
    BY <1>1, <1>4, <1>7 DEF StatusTypeOK, CallRec
  <2>2. OnlineIsPlain'
    BY <1>1, <1>4, <1>7, DoneFacts, MissingFacts, OthersStay DEF OnlineIsPlain, Plain
  <2> QED  BY <1>4, <2>1, <2>2, DoneFacts, OthersStay DEF CallInv, Active
<1> QED  BY <1>6, <1>7 DEF SaveOrUpdate
-----------------------------------------------------------------------------

(* Steps that begin a call, of t, when no other is in progress. *)

LEMMA BeginsInv ==
  ASSUME NEW t \in Tasks, CallInv(t), ~Active(t), NEW op \in Ops,
         task' = [task EXCEPT ![t].op = op, ![t].pc = "read"],
         UNCHANGED <<cache, row, failedWrites>>, conn' \in [Conns ->
                                    {"none", "made", "registered", "gone"}],
         op = Disconnects => ~Connected',
         Connected' => Connected \/ op = Connects,
         op[1] = "fill" => cache = Missing
  PROVE  CallInv(t)'
<1> DEFINE c == [task[t] EXCEPT !.op = op, !.pc = "read"]
<1>1. task[t] \in CallRec /\ StatusTypeOK /\ OnlineIsPlain
  BY CallType DEF CallInv
<1>2. c \in CallRec /\ c.op = op /\ c.pc = "read" /\ c.st = task[t].st
  BY <1>1 DEF CallRec
<1>3. task' = [task EXCEPT ![t] = c]
  BY <1>1, CallType DEF CallRec
<1> HIDE DEF c
<1>4. /\ task' \in [Tasks -> CallRec] /\ task'[t] = c
      /\ \A u \in Tasks \ {t} : task'[u] = task[u]
  BY <1>1, <1>2, <1>3, CallSet
<1>5. StatusTypeOK'
  BY <1>1, <1>4 DEF StatusTypeOK, CallRec
<1>6. OnlineIsPlain'
  BY <1>1, <1>2, <1>4, OthersStay DEF OnlineIsPlain
<1>7. \A u \in Tasks \ {t} : ~Active(u)'
  BY <1>4, OthersStay
<1>8. /\ failedWrites = 0 => cache = Missing \/ Agree(cache, row)
      /\ failedWrites = 0 /\ Connected => NotLeftOffline(row)
  BY DEF CallInv, Active
<1> QED
  BY <1>2, <1>4, <1>5, <1>6, <1>7, <1>8 DEF CallInv, Active

LEMMA RequestInv ==
  ASSUME StatusInv, InTurn, NEW op \in Ops, Request(op)
  PROVE  StatusInv'
<1>1. PICK t \in Tasks : task' = [task EXCEPT ![t].op = op, ![t].pc = "read"]
  BY DEF Request, Begins
<1>2. CallInv(t) /\ ~Active(t)
  BY AllRest DEF Request, Timely
<1>3. /\ UNCHANGED <<cache, row, failedWrites>> /\ conn' = conn
      /\ op # Disconnects
  BY DEF Request, Disconnects
<1>4. Connected' = Connected
  BY <1>3 DEF Connected
<1>5. op[1] = "fill" => cache = Missing
  <2>1. ASSUME op[1] = "fill" PROVE op = <<"fill", FALSE>>
    <3>1. op \in {"activity", "expire", "fill"} \X {FALSE}
      BY <2>1 DEF Ops
    <3>2. op \in {"activity", "expire", "fill"} \X BOOLEAN
      BY <3>1
    <3>3. PICK a \in {"activity", "expire", "fill"}, m \in BOOLEAN : op = <<a, m>>
      BY <3>2
    <3>4. op[1] = a /\ op[2] = m /\ op[2] = FALSE
      BY <2>1, <3>3, OpsFacts
    <3> QED  BY <2>1, <3>3, <3>4, Zenon
  <2> QED  BY <2>1 DEF Request
<1>6. conn' \in [Conns -> {"none", "made", "registered", "gone"}]
  BY <1>3 DEF StatusInv, StatusTypeOK
<1>7. CallInv(t)'
  BY <1>1, <1>2, <1>3, <1>4, <1>5, <1>6, BeginsInv
<1> QED  BY <1>7, CallInvTo

LEMMA NewWebConnInv ==
  ASSUME StatusInv, InTurn, NEW c \in Conns, NewWebConn(c)
  PROVE  StatusInv'
<1>1. PICK t \in Tasks : task' = [task EXCEPT ![t].op = Connects, ![t].pc = "read"]
  BY DEF NewWebConn, Begins, Connects
<1>2. CallInv(t) /\ ~Active(t)
  BY AllRest DEF NewWebConn, Timely
<1>3. /\ UNCHANGED <<cache, row, failedWrites>>
      /\ conn' = [conn EXCEPT ![c] = "made"]
  BY DEF NewWebConn
<1>4. Connects \in Ops /\ Connects[1] = "online"
  BY DEF Connects, Ops
<1>5. Connects # Disconnects
  BY <1>4, OpsFacts
<1>6. conn' \in [Conns -> {"none", "made", "registered", "gone"}]
  BY <1>3 DEF StatusInv, StatusTypeOK
<1>7. CallInv(t)'
  BY <1>1, <1>2, <1>3, <1>4, <1>5, <1>6, BeginsInv
<1> QED  BY <1>7, CallInvTo

(* Steps that change no call: what the invariant says of the connections.   *)
LEMMA ConnsInv ==
  ASSUME StatusInv, UNCHANGED <<cache, row, task, failedWrites>>,
         conn' \in [Conns -> {"none", "made", "registered", "gone"}],
         Connected' => Connected
  PROVE  StatusInv'
<1>1. StatusTypeOK' /\ Alone' /\ OnlineIsPlain' /\ Agreement' /\ Respectful'
  BY DEF StatusInv, StatusTypeOK, Alone, Active, OnlineIsPlain, Agreement, Respectful
<1>2. Presence'
  BY DEF StatusInv, Presence, Active
<1> QED  BY <1>1, <1>2 DEF StatusInv

LEMMA RegisterInv ==
  ASSUME StatusInv, NEW c \in Conns, Register(c)
  PROVE  StatusInv'
<1>1. /\ UNCHANGED <<cache, row, task, failedWrites>>
      /\ conn[c] = "made" /\ conn' = [conn EXCEPT ![c] = "registered"]
  BY DEF Register
<1>2. conn' \in [Conns -> {"none", "made", "registered", "gone"}]
  BY <1>1 DEF StatusInv, StatusTypeOK
<1>3. Connected' => Connected
  BY <1>1 DEF StatusInv, StatusTypeOK, Connected
<1> QED  BY <1>1, <1>2, <1>3, ConnsInv

(* Offline begins when no connection is left: nobody is connected then.     *)
LEMMA UnregisterInv ==
  ASSUME StatusInv, InTurn, NEW c \in Conns, Unregister(c)
  PROVE  StatusInv'
<1>1. /\ UNCHANGED <<cache, row, failedWrites>> /\ Quiet
      /\ conn[c] = "registered" /\ conn' = [conn EXCEPT ![c] = "gone"]
  BY DEF Unregister, Timely
<1>2. conn' \in [Conns -> {"none", "made", "registered", "gone"}]
  BY <1>1 DEF StatusInv, StatusTypeOK
<1>3. Connected
  BY <1>1 DEF Connected
<1>4. CASE UNCHANGED task
  BY <1>1, <1>2, <1>3, <1>4, ConnsInv
<1>5. CASE Begins(<<"activity", FALSE>>)
  <2>1. PICK t \in Tasks : task' = [task EXCEPT ![t].op = <<"activity", FALSE>>,
                                                ![t].pc = "read"]
    BY <1>5 DEF Begins
  <2>2. /\ <<"activity", FALSE>> \in Ops /\ <<"activity", FALSE>>[1] = "activity"
    BY DEF Ops
  <2>3. <<"activity", FALSE>> # Disconnects
    BY <2>2, OpsFacts
  <2>4. CallInv(t) /\ ~Active(t)
    BY <1>1, AllRest
  <2>5. CallInv(t)'
    BY <1>1, <1>2, <1>3, <2>1, <2>2, <2>3, <2>4, BeginsInv
  <2> QED  BY <2>5, CallInvTo
<1>6. CASE /\ ~\E d \in Conns \ {c} : conn[d] = "registered"
           /\ Begins(Disconnects)
  <2>1. PICK t \in Tasks : task' = [task EXCEPT ![t].op = Disconnects,
                                                ![t].pc = "read"]
    BY <1>6 DEF Begins
  <2>2. Disconnects \in Ops /\ Disconnects[1] = "offline"
    BY DEF Ops, Disconnects
  <2>3. ~Connected'
    BY <1>1, <1>6 DEF StatusInv, StatusTypeOK, Connected, Quiet
  <2>4. CallInv(t) /\ ~Active(t)
    BY <1>1, AllRest
  <2>5. CallInv(t)'
    BY <1>1, <1>2, <2>1, <2>2, <2>3, <2>4, BeginsInv
  <2> QED  BY <2>5, CallInvTo
<1> QED  BY <1>4, <1>5, <1>6 DEF Unregister, Disconnects
-----------------------------------------------------------------------------

LEMMA PurgeCacheInv ==
  ASSUME StatusInv, InTurn, PurgeCache
  PROVE  StatusInv'
<1>1. /\ cache' = Missing /\ UNCHANGED <<row, task, conn, failedWrites>> /\ Quiet
  BY DEF PurgeCache, Timely
<1>2. StatusTypeOK' /\ Alone' /\ OnlineIsPlain' /\ Connected' = Connected
  BY <1>1, MissingFacts
  DEF StatusInv, StatusTypeOK, Alone, Active, OnlineIsPlain, Plain, Connected
<1>3. \A t \in Tasks : task'[t].pc \notin {"read", "cache", "row"}
  BY <1>1 DEF Quiet
<1>4. Agreement' /\ Respectful'
  BY <1>1, <1>3 DEF Agreement, Respectful
<1>5. Presence'
  BY <1>1, <1>2, <1>3 DEF StatusInv, Presence, Active
<1> QED  BY <1>2, <1>4, <1>5 DEF StatusInv

(* u is s after some time: what the invariant reads of it is the same.      *)
Later(s, u) == /\ u \in StatusFound /\ (u = Missing <=> s = Missing)
               /\ u.status = s.status /\ u.manual = s.manual /\ u.prev = s.prev
               /\ (u.ends = "none" <=> s.ends = "none")

LEMMA TimePasses ==
  ASSUME StatusInv, Later(cache, cache'), Later(row, row'),
         UNCHANGED <<conn, failedWrites>>, task' \in [Tasks -> CallRec],
         \A t \in Tasks : /\ task'[t].op = task[t].op /\ task'[t].pc = task[t].pc
                          /\ task'[t].save = task[t].save
                          /\ Later(task[t].st, task'[t].st)
  PROVE  StatusInv'
<1>1. StatusTypeOK'
  BY DEF StatusInv, StatusTypeOK, CallRec, Later, StatusFound
<1>2. Alone' /\ Connected' = Connected
  BY DEF StatusInv, Alone, Active, Connected
<1>3. OnlineIsPlain'
  BY DEF StatusInv, OnlineIsPlain, Plain, Later
<1>4. Agreement'
  BY DEF StatusInv, Agreement, Agree, Later
<1>5. Respectful'
  BY DEF StatusInv, Respectful, Agree, Later
<1>6. Presence'
  BY <1>2 DEF StatusInv, Presence, Active, NotLeftOffline, Later
<1> QED  BY <1>1, <1>2, <1>3, <1>4, <1>5, <1>6 DEF StatusInv

LEMMA IdleFacts ==
  ASSUME NEW s \in StatusFound
  PROVE  Later(s, [s EXCEPT !.recent = FALSE])
<1>1. CASE s = Missing
  <2>1. [Missing EXCEPT !.recent = FALSE] = Missing
    <3>1. Missing \in [status : {"missing"}, manual : BOOLEAN, recent : BOOLEAN,
                       ends : Ends, prev : {"none"}]
      BY DEF Missing, Fresh, Ends
    <3> HIDE DEF Missing
    <3>2. Missing.recent = FALSE
      BY MissingFacts
    <3> QED  BY <3>1, <3>2
  <2> QED  BY <1>1, <2>1 DEF Later, StatusFound
<1>2. CASE s \in StatusRec
  <2> DEFINE u == [s EXCEPT !.recent = FALSE]
  <2>1. /\ u \in StatusRec /\ u.status = s.status /\ u.manual = s.manual
        /\ u.prev = s.prev /\ u.ends = s.ends
    BY <1>2 DEF StatusRec
  <2> HIDE DEF u
  <2>2. Later(s, u)
    BY <1>2, <2>1, MissingFacts DEF Later, StatusFound
  <2> QED  BY <2>2 DEF u
<1> QED  BY <1>1, <1>2 DEF StatusFound

LEMMA OverFacts ==
  ASSUME NEW s \in StatusFound
  PROVE  Later(s, IF s.ends = "later" THEN [s EXCEPT !.ends = "past"] ELSE s)
<1>1. CASE s.ends # "later"
  BY <1>1 DEF Later
<1>2. CASE s.ends = "later"
  <2> DEFINE u == [s EXCEPT !.ends = "past"]
  <2>1. s \in StatusRec
    BY <1>2, MissingFacts DEF StatusFound
  <2>2. /\ u \in StatusRec /\ u.status = s.status /\ u.manual = s.manual
        /\ u.prev = s.prev /\ u.ends = "past"
    BY <2>1 DEF StatusRec, Ends
  <2> HIDE DEF u
  <2>3. Later(s, u)
    BY <1>2, <2>1, <2>2, MissingFacts DEF Later, StatusFound
  <2> QED  BY <1>2, <2>3 DEF u
<1> QED  BY <1>1, <1>2

LEMMA IdlesInv ==
  ASSUME StatusInv, Idles
  PROVE  StatusInv'
<1>1. cache \in StatusFound /\ row \in StatusFound /\ task \in [Tasks -> CallRec]
  BY DEF StatusInv, StatusTypeOK, StatusFound, CallRec
<1>2. /\ Later(cache, cache') /\ Later(row, row')
      /\ UNCHANGED <<task, conn, failedWrites>>
  BY <1>1, IdleFacts DEF Idles
<1>3. \A t \in Tasks : Later(task[t].st, task[t].st)
  BY <1>1 DEF Later, CallRec, StatusFound
<1> QED  BY <1>1, <1>2, <1>3, TimePasses

LEMMA EndTimeComesInv ==
  ASSUME StatusInv, EndTimeComes
  PROVE  StatusInv'
<1> DEFINE Over(s) == IF s.ends = "later" THEN [s EXCEPT !.ends = "past"] ELSE s
<1>1. cache \in StatusFound /\ row \in StatusFound /\ task \in [Tasks -> CallRec]
  BY DEF StatusInv, StatusTypeOK, StatusFound, CallRec
<1>2. \A s \in StatusFound : Later(s, Over(s))
  BY OverFacts
<1>3. /\ cache' = Over(cache) /\ row' = Over(row) /\ UNCHANGED <<conn, failedWrites>>
      /\ task' = [t \in Tasks |-> [task[t] EXCEPT !.st = Over(task[t].st)]]
  BY DEF EndTimeComes
<1> HIDE DEF Over
<1>4. ASSUME NEW t \in Tasks
      PROVE  /\ task'[t] \in CallRec /\ task'[t].op = task[t].op
             /\ task'[t].pc = task[t].pc /\ task'[t].save = task[t].save
             /\ Later(task[t].st, task'[t].st)
  <2>1. task[t].st \in StatusFound /\ task[t] \in CallRec
    BY <1>1 DEF CallRec, StatusFound
  <2>2. Later(task[t].st, Over(task[t].st)) /\ Over(task[t].st) \in StatusFound
    BY <1>2, <2>1 DEF Later
  <2>3. task'[t] = [task[t] EXCEPT !.st = Over(task[t].st)]
    BY <1>3
  <2> QED  BY <2>1, <2>2, <2>3 DEF CallRec, StatusFound
<1>5. task' \in [Tasks -> CallRec]
  BY <1>3, <1>4
<1>6. Later(cache, cache') /\ Later(row, row')
  BY <1>1, <1>2, <1>3
<1> QED  BY <1>3, <1>4, <1>5, <1>6, TimePasses

-----------------------------------------------------------------------------

LEMMA StatusInitInv ==
  ASSUME UserStatusAssumption, StatusInit
  PROVE  StatusInv
<1>1. task \in [Tasks -> CallRec] /\ \A t \in Tasks : task[t] = NoCall
  BY DoneFacts DEF StatusInit
<1>2. \A t \in Tasks : task[t].pc = "none" /\ task[t].st = Missing
  BY <1>1, DoneFacts
<1>3. ~Connected
  BY DEF StatusInit, Connected
<1>4. StatusTypeOK
  BY <1>1 DEF StatusInit, StatusTypeOK, UserStatusAssumption, CallRec
<1>5. OnlineIsPlain
  BY <1>2, MissingFacts DEF StatusInit, OnlineIsPlain, Plain
<1> QED  BY <1>2, <1>3, <1>4, <1>5
         DEF StatusInit, StatusInv, Alone, Agreement, Presence, Respectful, Active

LEMMA TaskStepInv ==
  ASSUME UserStatusAssumption, StatusInv, NEW t \in Tasks, TaskStep(t)
  PROVE  StatusInv'
<1>1. Active(t)
  BY DEF TaskStep, Read, UpdateExpiredDNDStatuses, AddStatusCache, SaveOrUpdate, Active
<1>2. CallInv(t)
  BY <1>1, OthersRest
<1>3. CallInv(t)'
  BY <1>2, ReadInv, ExpireInv, AddStatusCacheInv, SaveOrUpdateInv
  DEF TaskStep, UserStatusAssumption
<1> QED  BY <1>3, CallInvTo

LEMMA StatusNextInv ==
  ASSUME UserStatusAssumption, InTurn, StatusInv, [StatusNext]_statusVars
  PROVE  StatusInv'
<1>1. CASE \E op \in Ops : Request(op)
  BY <1>1, RequestInv
<1>2. CASE \E c \in Conns : NewWebConn(c) \/ Register(c) \/ Unregister(c)
  BY <1>2, NewWebConnInv, RegisterInv, UnregisterInv
<1>3. CASE \E t \in Tasks : TaskStep(t)
  BY <1>3, TaskStepInv
<1>4. CASE PurgeCache \/ Idles \/ EndTimeComes
  BY <1>4, PurgeCacheInv, IdlesInv, EndTimeComesInv
<1>5. CASE UNCHANGED statusVars
  BY <1>5
  DEF statusVars, StatusInv, StatusTypeOK, Alone, Active, OnlineIsPlain, Agreement,
      Presence, Connected, Respectful
<1> QED  BY <1>1, <1>2, <1>3, <1>4, <1>5 DEF StatusNext

(* Events that come one at a time leave every state of the status sound:    *)
(* the inductive invariant of app/status.go.                                *)
THEOREM StatusInvariant ==
  ASSUME UserStatusAssumption, InTurn
  PROVE  StatusSpec => []StatusInv
<1>1. StatusInit => StatusInv
  BY StatusInitInv
<1>2. StatusInv /\ [StatusNext]_statusVars => StatusInv'
  BY StatusNextInv
<1> QED  BY <1>1, <1>2, PTL DEF StatusSpec

(* When the calls have returned, cache and row agree and nobody who is      *)
(* connected is left offline, for any number of calls and connections whose *)
(* events come in turn (status.go:181-420, web_hub.go:478).                 *)
THEOREM StatusAlwaysSettles ==
  ASSUME UserStatusAssumption, InTurn
  PROVE  StatusSpec => []StatusSettles
<1>1. StatusInv => StatusSettles
  <2>1. ASSUME StatusInv, Quiet, failedWrites = 0, cache # Missing
        PROVE  Agree(row, cache) /\ (Connected => NotLeftOffline(row))
    <3>1. \A t \in Tasks : task[t].pc \notin {"read", "cache", "row"}
      BY <2>1 DEF Quiet
    <3>2. Agree(row, cache)
      BY <2>1, <3>1 DEF StatusInv, Agreement, Agree
    <3>3. Connected => NotLeftOffline(row)
      BY <2>1, <3>1 DEF StatusInv, Presence, Active
    <3> QED  BY <3>2, <3>3
  <2>2. StatusInv => CacheAgreesWithRow
    BY <2>1 DEF CacheAgreesWithRow, Agree
  <2>3. StatusInv => ConnectedNotOffline
    BY <2>1 DEF ConnectedNotOffline, Agree, Connected, NotLeftOffline
  <2> QED  BY <2>2, <2>3 DEF StatusSettles
<1> QED  BY <1>1, StatusInvariant, PTL

(* What the websockets do on their own never changes a manual status in the *)
(* cache (status.go:194), for any number of calls whose events come in turn.*)
THEOREM StatusManualStands ==
  ASSUME UserStatusAssumption, InTurn
  PROVE  StatusSpec => ManualStands
<1> DEFINE A == \A t \in Tasks :
                  AddStatusCache(t) /\ cache.manual /\ ~task[t].op[2]
                    /\ task[t].op[1] # "expire"
                  => cache'.status = cache.status /\ cache'.manual
<1>1. StatusInv => A
  BY DEF StatusInv, Respectful, AddStatusCache, Agree
<1>2. StatusInv /\ [StatusNext]_statusVars => [A]_statusVars
  BY <1>1
<1>3. StatusSpec => [][A]_statusVars
  BY <1>2, StatusInvariant, PTL DEF StatusSpec
<1> QED  BY <1>3 DEF ManualStands

-----------------------------------------------------------------------------

(* What the nodes of a cluster share, put together: none of the four takes  *)
(* a step of another, so each is as it is alone.                            *)

LEMMA ClusterStep ==
  ASSUME [ClusterNext]_clusterVars
  PROVE  /\ [Next]_vars /\ [SendNext]_sendVars
         /\ [SyncNext]_syncVars /\ [StatusNext]_statusVars
<1>1. CASE ClusterNext
  BY <1>1 DEF ClusterNext
<1>2. CASE UNCHANGED clusterVars
  BY <1>2 DEF clusterVars
<1> QED  BY <1>1, <1>2

LEMMA ClusterComposed ==
  ClusterSpec => Spec /\ SendSpec /\ SyncSpec /\ StatusSpec
<1>1. ClusterInit => Init /\ SendInit /\ SyncInit /\ StatusInit
  BY DEF ClusterInit
<1>2. [ClusterNext]_clusterVars
        => /\ [Next]_vars /\ [SendNext]_sendVars
           /\ [SyncNext]_syncVars /\ [StatusNext]_statusVars
  BY ClusterStep
<1> QED  BY <1>1, <1>2, PTL DEF ClusterSpec, Spec, SendSpec, SyncSpec, StatusSpec

(* The rows, channels, tasks and caches that nodes and goroutines share,    *)
(* and what is in hand of them, are of their type, for every number of      *)
(* nodes, jobs, callers, remotes, posts and connections (jobs/jobs.go,      *)
(* remotecluster/send.go, sharedchannel/sync_send.go, app/status.go).       *)
THEOREM ClusterTypeCorrect ==
  ASSUME JobServerAssumption, RemoteSendAssumption,
         SharedChannelSyncAssumption, UserStatusAssumption, InTurn
  PROVE  ClusterSpec => []ClusterTypeOK
<1>1. SendInductive => SendTypeOK
  BY DEF SendInductive, SendInv
<1>2. StatusInv => StatusTypeOK
  BY DEF StatusInv
<1>3. TypeOK /\ SendTypeOK /\ SyncTypeOK /\ StatusTypeOK => ClusterTypeOK
  BY DEF ClusterTypeOK
<1> QED  BY <1>1, <1>2, <1>3, ClusterComposed, JobsTypeCorrect, SendInvariant,
            SyncTyped, StatusInvariant, PTL

(* Whichever of the four runs, and wherever the others rest: no batch is    *)
(* skipped, messages are delivered once and in order, no cursor passes a    *)
(* post for good, and status settles. Posts appear in the order of their    *)
(* UpdateAt and the calls on a status come one after the other              *)
(* (jobs/migrations, remotecluster/send.go, sync_send_remote.go, status.go).*)
THEOREM ClusterSafe ==
  ASSUME JobServerAssumption, RemoteSendAssumption,
         SharedChannelSyncAssumption, UserStatusAssumption, InTurn, InOrder
  PROVE  ClusterSpec => [](NeverSkips /\ Delivered /\ CursorSafe /\ StatusSettles)
<1> QED  BY ClusterComposed, MigrationNeverSkips, SendDelivers, SyncCursorSafe,
            StatusAlwaysSettles, PTL
=============================================================================
